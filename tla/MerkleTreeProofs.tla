-------------------------- MODULE MerkleTreeProofs --------------------------
(***************************************************************************)
(* MerkleTree, for every number of leaves and every proof.  The recursive  *)
(* functions of the module are reasoned about by induction on a set of     *)
(* natural numbers (Induction), which comes from the least element such a  *)
(* set has; that they have the values their definitions say is shown       *)
(* first, from approximations of each.                                     *)
(***************************************************************************)
EXTENDS MerkleTree, FiniteSetTheorems, WellFoundedInduction, TLAPS

-----------------------------------------------------------------------------
(* Induction, and the powers of two.                                       *)

\* A set with 0 and the successor of each of its numbers has them all.
LEMMA Induction ==
  ASSUME NEW P, 0 \in P, \A k \in Nat : k \in P => k + 1 \in P
  PROVE  \A k \in Nat : k \in P
<1> SUFFICES ASSUME NEW k0 \in Nat, k0 \notin P
             PROVE  FALSE
    OBVIOUS
<1> DEFINE T == {k \in Nat : k \notin P}
           R == OpToRel(<, Nat)
<1>1. IsWellFoundedOn(R, Nat) BY NatLessThanWellFounded
<1>2. T \subseteq Nat /\ T # {} OBVIOUS
<1>3. \E x \in T : \A y \in T : <<y, x>> \notin R
  <2> HIDE DEF T, R
  <2> QED BY <1>1, <1>2, WFMin, Zenon
<1>4. PICK x \in T : \A y \in T : <<y, x>> \notin R BY <1>3
<1>5. x # 0 /\ x - 1 \in Nat /\ x - 1 \in T OBVIOUS
<1>6. <<x - 1, x>> \in R BY <1>5 DEF OpToRel
<1>7. QED BY <1>4, <1>5, <1>6

\* Pow2 has a value everywhere: it has one on every initial segment, and the
\* segments agree.
LEMMA Pow2Exists == \E f : f = [k \in Nat |-> IF k = 0 THEN 1 ELSE 2 * f[k - 1]]
<1> DEFINE Upto(f, m) == f[0] = 1 /\ \A k \in 0 .. m - 1 : f[k + 1] = 2 * f[k]
<1>1. \A m \in Nat : \E f : Upto(f, m)
  <2> DEFINE P == {m \in Nat : \E f : Upto(f, m)}
  <2>1. 0 \in P
    <3>1. Upto([k \in {0} |-> 1], 0) OBVIOUS
    <3>2. QED BY <3>1
  <2>2. ASSUME NEW m \in Nat, m \in P PROVE m + 1 \in P
    <3>1. PICK f : Upto(f, m) BY <2>2
    <3> DEFINE g == [k \in 0 .. m + 1 |-> IF k = m + 1 THEN 2 * f[m] ELSE f[k]]
    <3>2. Upto(g, m + 1) BY <3>1
    <3>3. \E h : Upto(h, m + 1)
      <4> HIDE DEF Upto, g
      <4> QED BY <3>2
    <3>4. QED BY <3>3
  <2>3. \A m \in Nat : m \in P
    <3> HIDE DEF P
    <3> QED BY <2>1, <2>2, Induction
  <2>4. QED BY <2>3
<1> DEFINE F(m) == CHOOSE f : Upto(f, m)
           g == [m \in Nat |-> F(m)[m]]
<1>2. \A m \in Nat : Upto(F(m), m)
  <2> HIDE DEF Upto
  <2> QED BY <1>1
<1> HIDE DEF F
<1>3. \A k \in Nat : \A m \in Nat : k <= m => F(m)[k] = F(k)[k]
  <2> DEFINE P == {k \in Nat : \A m, l \in Nat : k <= m /\ k <= l => F(m)[k] = F(l)[k]}
  <2>1. 0 \in P BY <1>2
  <2>2. ASSUME NEW k \in Nat, k \in P PROVE k + 1 \in P
    <3> SUFFICES ASSUME NEW m \in Nat, NEW l \in Nat, k + 1 <= m, k + 1 <= l
                 PROVE  F(m)[k + 1] = F(l)[k + 1]
        OBVIOUS
    <3>1. F(m)[k] = F(l)[k] BY <2>2
    <3>2. F(m)[k + 1] = 2 * F(m)[k] /\ F(l)[k + 1] = 2 * F(l)[k] BY <1>2
    <3>3. QED BY <3>1, <3>2
  <2>3. \A k \in Nat : k \in P
    <3> HIDE DEF P
    <3> QED BY <2>1, <2>2, Induction
  <2>4. QED BY <2>3
<1>4. \A k \in Nat : g[k] = IF k = 0 THEN 1 ELSE 2 * g[k - 1]
  <2> SUFFICES ASSUME NEW k \in Nat
               PROVE  g[k] = IF k = 0 THEN 1 ELSE 2 * g[k - 1]
      OBVIOUS
  <2>1. CASE k = 0 BY <1>2, <2>1
  <2>2. CASE k # 0
    <3>1. PICK l \in Nat : k = l + 1 BY <2>2
    <3>2. F(k)[l + 1] = 2 * F(k)[l] BY <1>2, <3>1
    <3>3. F(k)[l] = F(l)[l] BY <1>3, <3>1
    <3>4. QED BY <3>1, <3>2, <3>3
  <2>3. QED BY <2>1, <2>2
<1>5. g = [k \in Nat |-> IF k = 0 THEN 1 ELSE 2 * g[k - 1]]
  <2>1. g = [k \in Nat |-> g[k]] OBVIOUS
  <2> HIDE DEF g
  <2>2. QED BY <1>4, <2>1
<1>6. QED BY <1>5

\* The powers of two, as they are defined.
LEMMA Pow2Law ==
  /\ Pow2[0] = 1
  /\ \A k \in Nat : Pow2[k + 1] = 2 * Pow2[k]
<1>1. Pow2 = [k \in Nat |-> IF k = 0 THEN 1 ELSE 2 * Pow2[k - 1]]
      BY Pow2Exists, Zenon DEF Pow2
<1>2. \A k \in Nat : Pow2[k] = IF k = 0 THEN 1 ELSE 2 * Pow2[k - 1]
      BY <1>1
<1>3. QED BY <1>2

\* A power of two is positive, and grows with its exponent.
LEMMA Pow2Type == \A k \in Nat : Pow2[k] \in Nat /\ Pow2[k] > k
<1> DEFINE P == {k \in Nat : Pow2[k] \in Nat /\ Pow2[k] > k}
<1>1. 0 \in P BY Pow2Law
<1>2. ASSUME NEW k \in Nat, k \in P PROVE k + 1 \in P BY <1>2, Pow2Law
<1>3. \A k \in Nat : k \in P
  <2> HIDE DEF P
  <2> QED BY <1>1, <1>2, Induction
<1>4. QED BY <1>3

\* A greater exponent gives no smaller power.
LEMMA Pow2Grows == \A a, b \in Nat : a <= b => Pow2[a] <= Pow2[b]
<1> SUFFICES ASSUME NEW a \in Nat
             PROVE  \A b \in Nat : a <= b => Pow2[a] <= Pow2[b]
    OBVIOUS
<1> DEFINE P == {c \in Nat : Pow2[a] <= Pow2[a + c]}
<1>1. 0 \in P BY Pow2Type
<1>2. ASSUME NEW c \in Nat, c \in P PROVE c + 1 \in P
  <2>1. a + (c + 1) = (a + c) + 1 /\ a + c \in Nat OBVIOUS
  <2>2. Pow2[a + (c + 1)] = 2 * Pow2[a + c] BY <2>1, Pow2Law
  <2>3. QED BY <1>2, <2>1, <2>2, Pow2Type
<1>3. \A c \in Nat : c \in P
  <2> HIDE DEF P
  <2> QED BY <1>1, <1>2, Induction
<1>4. \A b \in Nat : a <= b => b - a \in Nat /\ a + (b - a) = b OBVIOUS
<1>5. QED BY <1>3, <1>4

\* Products keep the order.
LEMMA TimesGrows ==
  ASSUME NEW a \in Nat, NEW b \in Nat, NEW p \in Nat, a <= b
  PROVE  a * p \in Nat /\ a * p <= b * p
<1>1. PICK c \in Nat : b = a + c OBVIOUS
<1>2. b * p = a * p + c * p /\ c * p \in Nat /\ a * p \in Nat BY <1>1
<1>3. QED BY <1>2

\* Of the intervals of length p that start at a multiple of p, one has x.
LEMMA OneInterval ==
  ASSUME NEW a \in Nat, NEW b \in Nat, NEW p \in Nat, NEW x \in Nat,
         a * p <= x, x < (a + 1) * p, b * p <= x, x < (b + 1) * p
  PROVE  a = b
<1>1. ASSUME NEW c \in Nat, NEW d \in Nat, c * p <= x, x < (d + 1) * p, d < c
      PROVE  FALSE
  <2>1. (d + 1) * p <= c * p BY <1>1, TimesGrows
  <2>2. QED BY <1>1, <2>1, TimesGrows
<1>2. QED BY <1>1

-----------------------------------------------------------------------------
(* The place of an index k levels up.                                      *)

\* The leaves of the place k levels up include the one with the index.
LEMMA AncestorBounds ==
  ASSUME NEW index \in Nat, NEW k \in Nat
  PROVE  /\ Ancestor(index, k) \in Nat
         /\ Ancestor(index, k) * Pow2[k] <= index
         /\ index < (Ancestor(index, k) + 1) * Pow2[k]
<1>1. Pow2[k] \in Nat /\ Pow2[k] > 0 BY Pow2Type
<1> DEFINE p == Pow2[k]
           a == index \div p
<1>2. a \in Nat /\ p * a <= index /\ index < p * a + p
  <2> HIDE DEF p
  <2>1. p \in Nat /\ p > 0 BY <1>1 DEF p
  <2>2. QED BY <2>1
<1>3. a * p <= index /\ index < (a + 1) * p
  <2>1. p \in Nat BY <1>1
  <2> HIDE DEF a, p
  <2>2. QED BY <1>2, <2>1
<1>4. QED BY <1>2, <1>3 DEF Ancestor

\* The only place whose leaves have the index.
LEMMA AncestorUnique ==
  ASSUME NEW index \in Nat, NEW k \in Nat, NEW a \in Nat,
         a * Pow2[k] <= index, index < (a + 1) * Pow2[k]
  PROVE  Ancestor(index, k) = a
<1>1. Pow2[k] \in Nat BY Pow2Type
<1> DEFINE b == Ancestor(index, k)
<1>2. b \in Nat /\ b * Pow2[k] <= index /\ index < (b + 1) * Pow2[k]
      BY AncestorBounds
<1> HIDE DEF b
<1>3. a = b BY <1>1, <1>2, OneInterval
<1>4. QED BY <1>3 DEF b

\* An index is its own place, and each level up halves it.
LEMMA AncestorZero ==
  ASSUME NEW index \in Nat
  PROVE  Ancestor(index, 0) = index
<1>1. index * Pow2[0] <= index /\ index < (index + 1) * Pow2[0] BY Pow2Law
<1>2. QED BY <1>1, AncestorUnique

\* One level up from a place and its neighbour is the place of half its number.
LEMMA AncestorHalves ==
  ASSUME NEW index \in Nat, NEW k \in Nat
  PROVE  \E q \in Nat : /\ Ancestor(index, k + 1) = q
                        /\ Ancestor(index, k) \in {2 * q, 2 * q + 1}
                        /\ Ancestor(index, k) % 2 = 0 <=> Ancestor(index, k) = 2 * q
<1> DEFINE a == Ancestor(index, k)
           p == Pow2[k]
<1>1. a \in Nat /\ a * p <= index /\ index < (a + 1) * p BY AncestorBounds
<1>2. p \in Nat /\ Pow2[k + 1] = 2 * p BY Pow2Type, Pow2Law
<1> HIDE DEF a, p
<1>3. PICK q \in Nat : a \in {2 * q, 2 * q + 1} /\ (a % 2 = 0 <=> a = 2 * q)
  <2>1. a \div 2 \in Nat /\ a \in {2 * (a \div 2), 2 * (a \div 2) + 1}
        /\ (a % 2 = 0 <=> a = 2 * (a \div 2))
        BY <1>1
  <2>2. QED BY <2>1
<1>4. (2 * q) * p <= a * p /\ (a + 1) * p <= (2 * q + 2) * p
      BY <1>1, <1>2, <1>3, TimesGrows
<1>5. q * (2 * p) = (2 * q) * p /\ (q + 1) * (2 * p) = (2 * q + 2) * p
      BY <1>2
<1>6. /\ (2 * q) * p \in Nat /\ a * p \in Nat /\ (a + 1) * p \in Nat
      /\ (2 * q + 2) * p \in Nat
      BY <1>1, <1>2, TimesGrows
<1>7. q * (2 * p) <= index /\ index < (q + 1) * (2 * p)
      BY <1>1, <1>4, <1>5, <1>6
<1>8. Ancestor(index, k + 1) = q
  <2>1. k + 1 \in Nat /\ q * Pow2[k + 1] <= index /\ index < (q + 1) * Pow2[k + 1]
        BY <1>2, <1>7
  <2>2. QED BY <2>1, AncestorUnique
<1>9. QED BY <1>3, <1>8 DEF a

-----------------------------------------------------------------------------
(* What the walk of a proof computes.                                      *)

\* The hash one level up, from the side the index says.
Above(h, sibling, index, k) ==
  IF Ancestor(index, k) % 2 = 0 THEN Hash(h, sibling) ELSE Hash(sibling, h)

\* The walk starts at the leaf and goes up by one sibling of the proof at a time.
LEMMA WalkLaw ==
  ASSUME NEW leaf, NEW proof, NEW index, Len(proof) \in Nat
  PROVE  LET h == Walk(leaf, proof, index)
         IN  /\ h[0] = leaf
             /\ \A k \in 0 .. Len(proof) - 1 :
                  h[k + 1] = Above(h[k], proof[k + 1], index, k)
<1> DEFINE Value(f, k) ==
             IF k = 0 THEN leaf
             ELSE IF Ancestor(index, k - 1) % 2 = 0 THEN Hash(f[k - 1], proof[k])
             ELSE Hash(proof[k], f[k - 1])
           Upto(f, m) ==
             f[0] = leaf /\ \A k \in 0 .. m - 1 :
                              f[k + 1] = Above(f[k], proof[k + 1], index, k)
           P == {m \in Nat : \E f : Upto(f, m)}
<1>1. 0 \in P
  <2>1. Upto([k \in {0} |-> leaf], 0) OBVIOUS
  <2>2. QED BY <2>1
<1>2. ASSUME NEW m \in Nat, m \in P PROVE m + 1 \in P
  <2>1. PICK f : Upto(f, m) BY <1>2
  <2> DEFINE g == [k \in 0 .. m + 1 |->
                     IF k = m + 1 THEN Above(f[m], proof[m + 1], index, m) ELSE f[k]]
  <2>2. Upto(g, m + 1) BY <2>1
  <2>3. \E h : Upto(h, m + 1)
    <3> HIDE DEF Upto, g
    <3> QED BY <2>2
  <2>4. QED BY <2>3
<1>3. \A m \in Nat : m \in P
  <2> HIDE DEF P
  <2> QED BY <1>1, <1>2, Induction
<1>4. PICK f : Upto(f, Len(proof)) BY <1>3
<1> DEFINE g == [k \in 0 .. Len(proof) |-> f[k]]
<1>5. g = [k \in 0 .. Len(proof) |-> Value(g, k)]
  <2>1. ASSUME NEW k \in 0 .. Len(proof) PROVE g[k] = Value(g, k)
    <3>1. CASE k = 0 BY <1>4, <3>1
    <3>2. CASE k # 0
      <4>1. /\ k - 1 \in 0 .. Len(proof) - 1 /\ k - 1 \in 0 .. Len(proof)
            /\ (k - 1) + 1 = k
            BY <3>2
      <4>2. g[k] = f[k] /\ g[k - 1] = f[k - 1] BY <4>1
      <4> HIDE DEF g
      <4>3. f[k] = Above(f[k - 1], proof[k], index, k - 1) BY <1>4, <4>1
      <4>4. QED BY <3>2, <4>2, <4>3 DEF Above
    <3>3. QED BY <3>1, <3>2
  <2>2. g = [k \in 0 .. Len(proof) |-> g[k]] OBVIOUS
  <2> HIDE DEF g, Value
  <2>3. QED BY <2>1, <2>2
<1> DEFINE w == Walk(leaf, proof, index)
<1>6. w = [k \in 0 .. Len(proof) |-> Value(w, k)]
  <2>1. \E h : h = [k \in 0 .. Len(proof) |-> Value(h, k)]
    <3> HIDE DEF g, Value
    <3> QED BY <1>5
  <2>2. QED BY <2>1, Zenon DEF Walk
<1>7. \A k \in 0 .. Len(proof) : w[k] = Value(w, k)
  <2> HIDE DEF w, Value
  <2> QED BY <1>6
<1>8. w[0] = leaf
  <2> HIDE DEF w
  <2> QED BY <1>7
<1>9. ASSUME NEW k \in 0 .. Len(proof) - 1
      PROVE  w[k + 1] = Above(w[k], proof[k + 1], index, k)
  <2>1. k + 1 \in 0 .. Len(proof) /\ k + 1 # 0 /\ (k + 1) - 1 = k OBVIOUS
  <2> HIDE DEF w
  <2>2. w[k + 1] = Value(w, k + 1) BY <1>7, <2>1
  <2>3. QED BY <2>1, <2>2 DEF Above
<1>10. QED BY <1>8, <1>9

-----------------------------------------------------------------------------
(* What the drawing of a tree has at each place.                           *)

\* The right child of node j of height d + 1; its left one if it has no other.
RightChild(p, d, j) ==
  IF (2 * j + 1) * Pow2[d] < Cardinality(DOMAIN p) THEN 2 * j + 1 ELSE 2 * j

\* The tree of the drawing, level by level.
LEMMA TreeLaw ==
  ASSUME NEW p
  PROVE  /\ \A j \in Nat : Tree(p)[0][j] = p[j]
         /\ \A d, j \in Nat :
              Tree(p)[d + 1][j] = Hash(Tree(p)[d][2 * j], Tree(p)[d][RightChild(p, d, j)])
<1> DEFINE Up(d, below) ==
             [j \in Nat |->
                Hash(below[2 * j],
                     IF (2 * j + 1) * Pow2[d] < Cardinality(DOMAIN p)
                     THEN below[2 * j + 1] ELSE below[2 * j])]
           Value(f, d) == IF d = 0 THEN [j \in Nat |-> p[j]] ELSE Up(d - 1, f[d - 1])
           Upto(f, m) ==
             f[0] = [j \in Nat |-> p[j]] /\ \A d \in 0 .. m - 1 : f[d + 1] = Up(d, f[d])
<1> HIDE DEF Up
<1>1. \A m \in Nat : \E f : Upto(f, m)
  <2> DEFINE P == {m \in Nat : \E f : Upto(f, m)}
  <2>1. 0 \in P
    <3>1. Upto([k \in {0} |-> [j \in Nat |-> p[j]]], 0) OBVIOUS
    <3>2. \E f : Upto(f, 0)
      <4> HIDE DEF Upto
      <4> QED BY <3>1
    <3>3. QED BY <3>2
  <2>2. ASSUME NEW m \in Nat, m \in P PROVE m + 1 \in P
    <3>1. PICK f : Upto(f, m) BY <2>2
    <3> DEFINE g == [k \in 0 .. m + 1 |-> IF k = m + 1 THEN Up(m, f[m]) ELSE f[k]]
    <3>2. Upto(g, m + 1) BY <3>1
    <3>3. \E h : Upto(h, m + 1)
      <4> HIDE DEF Upto, g
      <4> QED BY <3>2
    <3>4. QED BY <3>3
  <2>3. \A m \in Nat : m \in P
    <3> HIDE DEF P
    <3> QED BY <2>1, <2>2, Induction
  <2>4. QED BY <2>3
<1> DEFINE F(m) == CHOOSE f : Upto(f, m)
           g == [m \in Nat |-> F(m)[m]]
<1>2. \A m \in Nat : Upto(F(m), m)
  <2> HIDE DEF Upto
  <2> QED BY <1>1
<1> HIDE DEF F
<1>3. ASSUME NEW m \in Nat, NEW d \in 0 .. m - 1
      PROVE  F(m)[d + 1] = Up(d, F(m)[d])
      BY <1>2
<1>4. \A d \in Nat : \A m \in Nat : d <= m => F(m)[d] = F(d)[d]
  <2> DEFINE P == {d \in Nat : \A m, l \in Nat : d <= m /\ d <= l => F(m)[d] = F(l)[d]}
  <2>1. 0 \in P BY <1>2
  <2>2. ASSUME NEW d \in Nat, d \in P PROVE d + 1 \in P
    <3> SUFFICES ASSUME NEW m \in Nat, NEW l \in Nat, d + 1 <= m, d + 1 <= l
                 PROVE  F(m)[d + 1] = F(l)[d + 1]
        OBVIOUS
    <3>1. F(m)[d] = F(l)[d] BY <2>2
    <3>2. d \in 0 .. m - 1 /\ d \in 0 .. l - 1 OBVIOUS
    <3>3. F(m)[d + 1] = Up(d, F(m)[d]) BY <1>3, <3>2
    <3>4. F(l)[d + 1] = Up(d, F(l)[d]) BY <1>3, <3>2
    <3>5. QED BY <3>1, <3>3, <3>4
  <2>3. \A d \in Nat : d \in P
    <3> HIDE DEF P
    <3> QED BY <2>1, <2>2, Induction
  <2>4. QED BY <2>3
<1>5. ASSUME NEW d \in Nat PROVE g[d] = Value(g, d)
  <2>1. CASE d = 0 BY <1>2, <2>1
  <2>2. CASE d # 0
    <3>1. PICK l \in Nat : d = l + 1 BY <2>2
    <3>2. l \in 0 .. d - 1 BY <3>1
    <3>3. F(d)[l + 1] = Up(l, F(d)[l]) BY <1>3, <3>2
    <3>4. F(d)[l] = F(l)[l] BY <1>4, <3>1
    <3>5. g[d] = F(d)[d] /\ g[l] = F(l)[l] OBVIOUS
    <3> HIDE DEF g
    <3>6. g[d] = Up(l, g[l]) BY <3>1, <3>3, <3>4, <3>5
    <3>7. d - 1 = l BY <3>1
    <3>8. QED BY <2>2, <3>6, <3>7
  <2>3. QED BY <2>1, <2>2
<1>6. g = [d \in Nat |-> Value(g, d)]
  <2>1. g = [d \in Nat |-> g[d]] OBVIOUS
  <2> HIDE DEF g, Value
  <2>2. QED BY <1>5, <2>1
<1> DEFINE t == Tree(p)
<1>7. t = [d \in Nat |-> Value(t, d)]
  <2>1. \E h : h = [d \in Nat |-> Value(h, d)]
    <3> HIDE DEF g, Value
    <3> QED BY <1>6
  <2>2. QED BY <2>1, Zenon DEF Tree, Up
<1>8. \A d \in Nat : t[d] = Value(t, d)
  <2> HIDE DEF t, Value
  <2> QED BY <1>7
<1>9. \A j \in Nat : t[0][j] = p[j]
  <2> HIDE DEF t
  <2> QED BY <1>8
<1>10. ASSUME NEW d \in Nat, NEW j \in Nat
      PROVE  t[d + 1][j] = Hash(t[d][2 * j], t[d][RightChild(p, d, j)])
  <2> HIDE DEF t
  <2>1. d + 1 \in Nat /\ d + 1 # 0 /\ (d + 1) - 1 = d OBVIOUS
  <2>2. t[d + 1] = Up(d, t[d]) BY <1>8, <2>1
  <2>3. QED BY <2>2 DEF Up, RightChild
<1>11. QED BY <1>9, <1>10

\* The leaves of a batch of L.
BatchOf(p, L) ==
  /\ L \in Nat \ {0} /\ L = Cardinality(DOMAIN p)
  /\ \A j \in 0 .. L - 1 : p[j] \in LeafHashes

\* The children of a node that has leaves have leaves.
LEMMA ChildrenCovered ==
  ASSUME NEW p, NEW L, BatchOf(p, L), NEW d \in Nat, NEW j \in Nat,
         j * Pow2[d + 1] < L
  PROVE  /\ RightChild(p, d, j) \in Nat
         /\ (2 * j) * Pow2[d] < L
         /\ RightChild(p, d, j) * Pow2[d] < L
<1>1. Pow2[d] \in Nat /\ Pow2[d + 1] = 2 * Pow2[d] BY Pow2Type, Pow2Law
<1>2. L = Cardinality(DOMAIN p) BY DEF BatchOf
<1> DEFINE q == Pow2[d]
<1>3. (2 * j) * q = j * (2 * q)
  <2>1. q \in Nat BY <1>1
  <2> HIDE DEF q
  <2>2. QED BY <2>1
<1>4. (2 * j) * Pow2[d] < L BY <1>1, <1>3
<1>5. QED BY <1>2, <1>4 DEF RightChild

\* A node hash tells its parts.
LEMMA HashTellsParts ==
  \A a, b, c, d : Hash(a, b) = Hash(c, d) => a = c /\ b = d
BY DEF Hash

\* A hash reached in k steps from a leaf is no node of another height: leaf
\* hashes and node hashes differ, and a node hash tells its parts.
LEMMA HeightOfHash ==
  ASSUME NEW p, NEW L, BatchOf(p, L),
         NEW leaf \in LeafHashes, NEW proof, NEW index, Len(proof) \in Nat
  PROVE  \A d \in Nat : \A j \in Nat : \A k \in 0 .. Len(proof) :
           j * Pow2[d] < L /\ Walk(leaf, proof, index)[k] = Tree(p)[d][j] => k = d
<1> DEFINE h == Walk(leaf, proof, index)
           t == Tree(p)
           P == {d \in Nat : \A j \in Nat : \A k \in 0 .. Len(proof) :
                               j * Pow2[d] < L /\ h[k] = t[d][j] => k = d}
<1>1. \A k \in 0 .. Len(proof) :
        IF k = 0 THEN h[k] \in LeafHashes
        ELSE \E left, right : h[k] = Hash(left, right)
                              /\ (left = h[k - 1] \/ right = h[k - 1])
  <2> SUFFICES ASSUME NEW k \in 0 .. Len(proof), k # 0
               PROVE  \E left, right : h[k] = Hash(left, right)
                                       /\ (left = h[k - 1] \/ right = h[k - 1])
      BY WalkLaw
  <2>1. k - 1 \in 0 .. Len(proof) - 1 /\ (k - 1) + 1 = k OBVIOUS
  <2>2. h[k] = Above(h[k - 1], proof[k], index, k - 1) BY <2>1, WalkLaw
  <2> HIDE DEF h
  <2>3. \/ h[k] = Hash(h[k - 1], proof[k]) \/ h[k] = Hash(proof[k], h[k - 1])
        BY <2>2 DEF Above
  <2>4. QED BY <2>3
<1>2. \A x, left, right : x \in LeafHashes => x # Hash(left, right)
      BY DEF LeafHashes, LeafHash, Hash
<1>3. \A a, b, c, e : Hash(a, b) = Hash(c, e) => a = c /\ b = e
      BY HashTellsParts
<1>4. 0 \in P
  <2> SUFFICES ASSUME NEW j \in Nat, NEW k \in 0 .. Len(proof),
                      j * Pow2[0] < L, h[k] = t[0][j]
               PROVE  k = 0
      OBVIOUS
  <2>1. t[0][j] = p[j] BY TreeLaw
  <2>2. j \in 0 .. L - 1 BY Pow2Law DEF BatchOf
  <2>3. h[k] \in LeafHashes BY <2>1, <2>2 DEF BatchOf
  <2> HIDE DEF h
  <2>4. QED BY <1>1, <1>2, <2>3
<1>5. ASSUME NEW d \in Nat, d \in P PROVE d + 1 \in P
  <2> SUFFICES ASSUME NEW j \in Nat, NEW k \in 0 .. Len(proof),
                      j * Pow2[d + 1] < L, h[k] = t[d + 1][j]
               PROVE  k = d + 1
      OBVIOUS
  <2> DEFINE r == RightChild(p, d, j)
  <2>1. t[d + 1][j] = Hash(t[d][2 * j], t[d][r]) BY TreeLaw
  <2>2. /\ 2 * j \in Nat /\ (2 * j) * Pow2[d] < L
        /\ r \in Nat /\ r * Pow2[d] < L
        BY ChildrenCovered
  <2>3. \A m \in 0 .. Len(proof) :
          h[m] = t[d][2 * j] \/ h[m] = t[d][r] => m = d
    <3> HIDE DEF h, t, r
    <3> QED BY <1>5, <2>2
  <2> HIDE DEF h, t, r, P
  <2>4. k # 0 BY <1>1, <1>2, <2>1
  <2>5. h[k - 1] = t[d][2 * j] \/ h[k - 1] = t[d][r] BY <1>1, <1>3, <2>1, <2>4
  <2>6. k - 1 \in 0 .. Len(proof) BY <2>4
  <2>7. QED BY <2>3, <2>5, <2>6
<1>6. \A d \in Nat : d \in P
  <2> HIDE DEF P
  <2> QED BY <1>4, <1>5, Induction
<1>7. QED BY <1>6

\* The root of a tree of L leaves, at the height that just covers them.
IsHeight(d, L) == d \in Nat /\ Pow2[d] >= L /\ (d > 0 => Pow2[d - 1] < L)

\* A proof that leads to the root passes, at each height, through the node
\* above the index, so it starts at the leaf with that index.
LEMMA ProofsAreSound ==
  ASSUME NEW p, NEW L, BatchOf(p, L), NEW H, IsHeight(H, L),
         NEW leaf \in LeafHashes, NEW proof, NEW index \in 0 .. L - 1,
         Len(proof) \in Nat, Climb(leaf, proof, index) = Tree(p)[H][0]
  PROVE  p[index] = leaf
<1> DEFINE h == Walk(leaf, proof, index)
           t == Tree(p)
           a(k) == Ancestor(index, k)
<1>1. /\ L \in Nat /\ L > 0 /\ L = Cardinality(DOMAIN p) /\ H \in Nat
      /\ Pow2[H] >= L /\ Pow2[H] \in Nat /\ index \in Nat
      BY Pow2Type DEF BatchOf, IsHeight
<1>2. Len(proof) = H
  <2>1. 0 * Pow2[H] < L BY <1>1
  <2>2. QED BY <1>1, <2>1, HeightOfHash DEF Climb
<1>3. a(H) = 0
  <2>1. 0 * Pow2[H] <= index /\ index < (0 + 1) * Pow2[H] BY <1>1
  <2>2. QED BY <1>1, <2>1, AncestorUnique
<1> DEFINE P == {m \in Nat : m <= H => h[H - m] = t[H - m][a(H - m)]}
<1>4. 0 \in P BY <1>1, <1>2, <1>3 DEF Climb
<1>5. ASSUME NEW m \in Nat, m \in P PROVE m + 1 \in P
  <2> SUFFICES ASSUME m + 1 <= H
               PROVE  h[H - (m + 1)] = t[H - (m + 1)][a(H - (m + 1))]
      OBVIOUS
  <2>1. PICK d \in Nat : d = H - (m + 1) /\ d + 1 = H - m
        BY <1>1, <1>2
  <2>2. h[d + 1] = t[d + 1][a(d + 1)]
    <3>1. m <= H /\ h[H - m] = t[H - m][a(H - m)] BY <1>1, <1>5
    <3> HIDE DEF h, t, a
    <3>2. QED BY <2>1, <3>1
  <2>3. h[d + 1] = Above(h[d], proof[d + 1], index, d)
    <3>1. d \in 0 .. Len(proof) - 1 BY <1>1, <1>2, <2>1
    <3>2. QED BY <1>1, <1>2, <3>1, WalkLaw
  <2>4. PICK q \in Nat : /\ a(d + 1) = q /\ a(d) \in {2 * q, 2 * q + 1}
                         /\ a(d) % 2 = 0 <=> a(d) = 2 * q
        BY <1>1, AncestorHalves
  <2>5. /\ a(d) \in Nat /\ a(d) * Pow2[d] <= index /\ a(d) * Pow2[d] \in Nat
    <3>1. a(d) \in Nat /\ Pow2[d] \in Nat BY <1>1, AncestorBounds, Pow2Type
    <3>2. a(d) * Pow2[d] <= index BY <1>1, AncestorBounds
    <3> HIDE DEF a
    <3>3. QED BY <3>1, <3>2, TimesGrows
  <2>6. t[d + 1][q] = Hash(t[d][2 * q], t[d][RightChild(p, d, q)]) BY TreeLaw
  <2> HIDE DEF h, a, t
  <2>7. CASE a(d) = 2 * q
    <3>1. h[d + 1] = Hash(h[d], proof[d + 1])
          BY <2>3, <2>4, <2>7 DEF Above, a
    <3>2. Hash(h[d], proof[d + 1]) = Hash(t[d][2 * q], t[d][RightChild(p, d, q)])
          BY <2>2, <2>4, <2>6, <3>1
    <3>3. h[d] = t[d][2 * q] BY <3>2, HashTellsParts
    <3>4. QED BY <2>1, <2>7, <3>3
  <2>8. CASE a(d) = 2 * q + 1
    <3>1. h[d + 1] = Hash(proof[d + 1], h[d])
          BY <2>3, <2>4, <2>8 DEF Above, a
    <3>2. RightChild(p, d, q) = a(d) BY <1>1, <2>5, <2>8 DEF RightChild
    <3>3. Hash(proof[d + 1], h[d]) = Hash(t[d][2 * q], t[d][RightChild(p, d, q)])
          BY <2>2, <2>4, <2>6, <3>1
    <3>4. h[d] = t[d][a(d)] BY <3>2, <3>3, HashTellsParts
    <3>5. QED BY <2>1, <3>4
  <2>9. QED BY <2>4, <2>7, <2>8
<1>6. \A m \in Nat : m \in P
  <2> HIDE DEF P
  <2> QED BY <1>4, <1>5, Induction
<1>7. h[0] = t[0][a(0)]
  <2>1. H \in P /\ H - H = 0 BY <1>1, <1>6
  <2>2. QED BY <1>1, <2>1
<1>8. h[0] = leaf /\ t[0][index] = p[index] /\ a(0) = index
      BY <1>1, WalkLaw, TreeLaw, AncestorZero
<1>9. QED BY <1>7, <1>8

\* The siblings on the way up, as in HonestProof.
AreSiblings(proof, p, L, H, index) ==
  /\ Len(proof) = H
  /\ \A k \in 0 .. H - 1 :
       LET j == Ancestor(index, k)
           s == IF j % 2 = 0 THEN j + 1 ELSE j - 1
       IN  proof[k + 1] = Tree(p)[k][IF s * Pow2[k] < L THEN s ELSE j]

\* They lead every leaf to the root.
LEMMA SiblingsProve ==
  ASSUME NEW p, NEW L, BatchOf(p, L), NEW H, IsHeight(H, L), NEW proof,
         NEW index \in 0 .. L - 1, AreSiblings(proof, p, L, H, index)
  PROVE  Climb(p[index], proof, index) = Tree(p)[H][0]
<1> DEFINE h == Walk(p[index], proof, index)
           t == Tree(p)
           a(k) == Ancestor(index, k)
           P == {k \in Nat : k <= H => h[k] = t[k][a(k)]}
<1>1. /\ L \in Nat /\ L > 0 /\ L = Cardinality(DOMAIN p) /\ H \in Nat
      /\ Pow2[H] >= L /\ Pow2[H] \in Nat /\ index \in Nat /\ Len(proof) = H
      BY Pow2Type DEF BatchOf, IsHeight, AreSiblings
<1>2. 0 \in P
  <2>1. h[0] = p[index]
    <3>1. Len(proof) \in Nat BY <1>1
    <3>2. QED BY <3>1, WalkLaw
  <2>2. t[0][index] = p[index] /\ a(0) = index
        BY <1>1, TreeLaw, AncestorZero
  <2>3. QED BY <2>1, <2>2
<1>3. ASSUME NEW k \in Nat, k \in P PROVE k + 1 \in P
  <2> SUFFICES ASSUME k + 1 <= H PROVE h[k + 1] = t[k + 1][a(k + 1)]
      OBVIOUS
  <2>1. k \in 0 .. H - 1 /\ h[k] = t[k][a(k)] BY <1>1, <1>3
  <2>2. h[k + 1] = Above(h[k], proof[k + 1], index, k) BY <1>1, <2>1, WalkLaw
  <2>3. PICK q \in Nat : /\ a(k + 1) = q /\ a(k) \in {2 * q, 2 * q + 1}
                         /\ a(k) % 2 = 0 <=> a(k) = 2 * q
        BY <1>1, AncestorHalves
  <2>4. /\ a(k) \in Nat /\ Pow2[k] \in Nat
        /\ a(k) * Pow2[k] <= index /\ a(k) * Pow2[k] \in Nat
    <3>1. a(k) \in Nat /\ Pow2[k] \in Nat BY <1>1, AncestorBounds, Pow2Type
    <3>2. a(k) * Pow2[k] <= index BY <1>1, AncestorBounds
    <3> HIDE DEF a
    <3>3. QED BY <3>1, <3>2, TimesGrows
  <2>5. LET s == IF a(k) % 2 = 0 THEN a(k) + 1 ELSE a(k) - 1
        IN  proof[k + 1] = t[k][IF s * Pow2[k] < L THEN s ELSE a(k)]
        BY <2>1 DEF AreSiblings
  <2>6. t[k + 1][q] = Hash(t[k][2 * q], t[k][RightChild(p, k, q)]) BY TreeLaw
  <2>7. a(k) % 2 = 0 => h[k + 1] = Hash(h[k], proof[k + 1]) BY <2>2 DEF Above
  <2>8. a(k) % 2 # 0 => h[k + 1] = Hash(proof[k + 1], h[k]) BY <2>2 DEF Above
  <2> HIDE DEF h, a, t
  <2>9. CASE a(k) = 2 * q
    <3>1. proof[k + 1] = t[k][RightChild(p, k, q)]
          BY <1>1, <2>3, <2>5, <2>9 DEF RightChild
    <3>2. QED BY <2>1, <2>3, <2>6, <2>7, <2>9, <3>1
  <2>10. CASE a(k) = 2 * q + 1
    <3>1. RightChild(p, k, q) = a(k) BY <1>1, <2>4, <2>10 DEF RightChild
    <3>2. a(k) - 1 = 2 * q /\ a(k) % 2 # 0 BY <2>3, <2>10
    <3>3. (2 * q) * Pow2[k] <= a(k) * Pow2[k] /\ (2 * q) * Pow2[k] \in Nat
          BY <2>4, <2>10, TimesGrows
    <3>4. (2 * q) * Pow2[k] < L BY <1>1, <2>4, <3>3
    <3>5. proof[k + 1] = t[k][2 * q] BY <2>5, <3>2, <3>4
    <3>6. QED BY <2>1, <2>3, <2>6, <2>8, <3>1, <3>2, <3>5
  <2>11. QED BY <2>3, <2>9, <2>10
<1>4. \A k \in Nat : k \in P
  <2> HIDE DEF P
  <2> QED BY <1>2, <1>3, Induction
<1>5. h[H] = t[H][a(H)] BY <1>1, <1>4
<1>6. a(H) = 0
  <2>1. 0 * Pow2[H] <= index /\ index < (0 + 1) * Pow2[H] BY <1>1
  <2>2. QED BY <1>1, <2>1, AncestorUnique
<1>7. QED BY <1>1, <1>5, <1>6 DEF Climb

-----------------------------------------------------------------------------
(* The tree is built in place.                                             *)

\* Of the level d being read and the level above being written: how many nodes
\* level d has, and what is where.
LevelInPlace(d) ==
  /\ (n - 1) * Pow2[d] < leafCount /\ leafCount <= n * Pow2[d]
  /\ d > 0 => Pow2[d - 1] < leafCount
  /\ \A j \in 0 .. i - 1 : leaves[j] = Node(d + 1, j)
  /\ \A j \in i .. n - 1 : leaves[j] = Node(d, j)

MemoryInv ==
  /\ BatchOf(posted, leafCount)
  /\ DOMAIN posted = 0 .. leafCount - 1 /\ DOMAIN leaves = 0 .. leafCount - 1
  /\ n \in 1 .. leafCount /\ i \in Nat /\ (i = 0 \/ i < LevelAbove(n))
  /\ \E d \in 0 .. leafCount : LevelInPlace(d)

\* Before the first round the memory is the batch.
LEMMA InitMemory == Init => MemoryInv
<1> SUFFICES ASSUME Init PROVE MemoryInv
    OBVIOUS
<1>1. PICK k \in 1 .. MaxLeaves : posted \in [0 .. k - 1 -> LeafHashes]
      BY DEF Init
<1>2. k \in Nat /\ k > 0 /\ DOMAIN posted = 0 .. k - 1
      BY <1>1, BoundAssumption
<1>3. leafCount = k
  <2>1. Cardinality(0 .. k - 1) = k BY <1>2, FS_Interval
  <2>2. QED BY <1>2, <2>1 DEF leafCount
<1>4. BatchOf(posted, leafCount) BY <1>1, <1>2, <1>3 DEF BatchOf, leafCount
<1>5. leaves = posted /\ n = k /\ i = 0 BY <1>3 DEF Init, leafCount
<1>6. LevelInPlace(0)
  <2>1. \A j \in 0 .. k - 1 : leaves[j] = Node(0, j) BY <1>5, TreeLaw DEF Node
  <2>2. (n - 1) * Pow2[0] < leafCount /\ leafCount <= n * Pow2[0]
        BY <1>2, <1>3, <1>5, Pow2Law
  <2>3. QED BY <1>5, <2>1, <2>2 DEF LevelInPlace
<1>7. n \in 1 .. leafCount /\ 0 \in 0 .. leafCount BY <1>2, <1>3, <1>5
<1>8. QED BY <1>2, <1>3, <1>4, <1>5, <1>6, <1>7 DEF MemoryInv

\* A node is read before it is overwritten, and what is written is its parent.
LEMMA ParentInPlace ==
  ASSUME MemoryInv, NEW d \in 0 .. leafCount, LevelInPlace(d), n > 1
  PROVE  /\ i \in DOMAIN leaves /\ i < LevelAbove(n)
         /\ Parent(leaves, n, i) = Node(d + 1, i)
<1>1. /\ leafCount \in Nat /\ n \in Nat /\ n > 1 /\ n <= leafCount /\ i \in Nat
      /\ d \in Nat /\ leafCount = Cardinality(DOMAIN posted)
      BY DEF MemoryInv, BatchOf, leafCount
<1>2. PICK m \in Nat : m = LevelAbove(n) /\ (2 * m = n \/ 2 * m = n + 1)
  <2>1. (n + 1) \div 2 \in Nat
        /\ (2 * ((n + 1) \div 2) = n \/ 2 * ((n + 1) \div 2) = n + 1)
        BY <1>1
  <2>2. QED BY <2>1 DEF LevelAbove
<1>3. i < m /\ i < n /\ 2 * i < n BY <1>1, <1>2 DEF MemoryInv
<1>4. leaves[2 * i] = Node(d, 2 * i)
  <2>1. 2 * i \in i .. n - 1 BY <1>1, <1>3
  <2>2. QED BY <2>1 DEF LevelInPlace
<1>5. 2 * i + 1 < n => leaves[2 * i + 1] = Node(d, 2 * i + 1)
  <2>1. 2 * i + 1 < n => 2 * i + 1 \in i .. n - 1 BY <1>1
  <2>2. QED BY <2>1 DEF LevelInPlace
<1>6. 2 * i + 1 < n <=> (2 * i + 1) * Pow2[d] < leafCount
  <2> DEFINE p == Pow2[d]
  <2>1. p \in Nat /\ (n - 1) * p < leafCount /\ leafCount <= n * p
        BY <1>1, Pow2Type DEF LevelInPlace
  <2> HIDE DEF p
  <2>2. CASE 2 * i + 1 < n
    <3>1. /\ (2 * i + 1) * p \in Nat /\ (2 * i + 1) * p <= (n - 1) * p
          /\ (n - 1) * p \in Nat
          BY <1>1, <2>1, <2>2, TimesGrows
    <3>2. QED BY <1>1, <2>1, <2>2, <3>1 DEF p
  <2>3. CASE ~ (2 * i + 1 < n)
    <3>1. n * p \in Nat /\ n * p <= (2 * i + 1) * p /\ (2 * i + 1) * p \in Nat
          BY <1>1, <2>1, <2>3, TimesGrows
    <3>2. QED BY <1>1, <2>1, <2>3, <3>1 DEF p
  <2>4. QED BY <2>2, <2>3
<1>7. Node(d + 1, i) = Hash(Node(d, 2 * i), Node(d, RightChild(posted, d, i)))
      BY <1>1, TreeLaw DEF Node
<1>8. Parent(leaves, n, i) = Node(d + 1, i)
      BY <1>1, <1>4, <1>5, <1>6, <1>7 DEF Parent, RightChild
<1>9. i \in DOMAIN leaves BY <1>1, <1>3 DEF MemoryInv
<1>10. QED BY <1>2, <1>3, <1>8, <1>9

\* The level above one that just covers the leaves just covers them.
LEMMA NextLevelCovers ==
  ASSUME MemoryInv, NEW d \in 0 .. leafCount, LevelInPlace(d), n > 1
  PROVE  LET m == LevelAbove(n)
         IN  /\ m \in 1 .. n /\ d + 1 \in 0 .. leafCount
             /\ (m - 1) * Pow2[d + 1] < leafCount /\ leafCount <= m * Pow2[d + 1]
             /\ Pow2[d] < leafCount
<1> DEFINE m == LevelAbove(n)
           p == Pow2[d]
<1>1. /\ leafCount \in Nat /\ n \in Nat /\ n > 1 /\ d \in Nat
      /\ p \in Nat /\ p > d /\ Pow2[d + 1] = 2 * p
      /\ (n - 1) * p < leafCount /\ leafCount <= n * p
      BY Pow2Type, Pow2Law DEF MemoryInv, BatchOf, LevelInPlace
<1>2. m \in 1 .. n /\ m \in Nat /\ (2 * m = n \/ 2 * m = n + 1)
      BY <1>1 DEF LevelAbove
<1> HIDE DEF m, p
<1>3. /\ 1 * p <= (n - 1) * p /\ (n - 1) * p \in Nat
      /\ (2 * (m - 1)) * p <= (n - 1) * p /\ (2 * (m - 1)) * p \in Nat
      /\ n * p <= (2 * m) * p /\ n * p \in Nat /\ (2 * m) * p \in Nat
      BY <1>1, <1>2, TimesGrows
<1>4. (m - 1) * (2 * p) = (2 * (m - 1)) * p /\ m * (2 * p) = (2 * m) * p
      BY <1>1, <1>2
<1>5. p < leafCount BY <1>1, <1>3
<1>6. (m - 1) * Pow2[d + 1] < leafCount /\ leafCount <= m * Pow2[d + 1]
      BY <1>1, <1>3, <1>4
<1>7. d + 1 \in 0 .. leafCount BY <1>1, <1>5
<1>8. QED BY <1>2, <1>5, <1>6, <1>7 DEF m, p

\* Every round keeps the memory in place.
LEMMA BuildMemory ==
  ASSUME MemoryInv, buildNode
  PROVE  MemoryInv'
<1>1. PICK d \in 0 .. leafCount : LevelInPlace(d) BY DEF MemoryInv
<1>2. n > 1 /\ posted' = posted /\ leaves' = [leaves EXCEPT ![i] = Parent(leaves, n, i)]
      BY DEF buildNode
<1>3. /\ i \in DOMAIN leaves /\ i < LevelAbove(n)
      /\ Parent(leaves, n, i) = Node(d + 1, i)
      BY <1>1, <1>2, ParentInPlace
<1>4. /\ leaves'[i] = Node(d + 1, i) /\ DOMAIN leaves' = DOMAIN leaves
      /\ \A j \in DOMAIN leaves : j # i => leaves'[j] = leaves[j]
      BY <1>2, <1>3
<1>5. /\ leafCount' = leafCount /\ \A e, j : Node(e, j)' = Node(e, j)
      /\ BatchOf(posted, leafCount)' /\ DOMAIN posted' = 0 .. leafCount' - 1
      BY <1>2 DEF leafCount, Node, MemoryInv
<1>6. /\ leafCount \in Nat /\ n \in Nat /\ n <= leafCount /\ i \in Nat /\ d \in Nat
      /\ DOMAIN leaves = 0 .. leafCount - 1 /\ i < leafCount
  <2>1. /\ leafCount \in Nat /\ n \in 1 .. leafCount /\ i \in Nat
        /\ DOMAIN leaves = 0 .. leafCount - 1
        BY DEF MemoryInv, BatchOf
  <2>2. QED BY <1>3, <2>1
<1> DEFINE m == LevelAbove(n)
<1>7. /\ m \in 1 .. n /\ d + 1 \in 0 .. leafCount
      /\ (m - 1) * Pow2[d + 1] < leafCount /\ leafCount <= m * Pow2[d + 1]
      /\ Pow2[d] < leafCount
      BY <1>1, <1>2, NextLevelCovers
<1>8. \A j \in 0 .. i : leaves'[j] = Node(d + 1, j)
  <2>1. \A j \in 0 .. i - 1 : leaves[j] = Node(d + 1, j) BY <1>1 DEF LevelInPlace
  <2>2. \A j \in 0 .. i : j \in DOMAIN leaves /\ (j = i \/ j \in 0 .. i - 1) BY <1>6
  <2>3. \A j \in 0 .. i - 1 : j # i BY <1>6
  <2>4. QED BY <1>4, <2>1, <2>2, <2>3
<1>9. CASE i + 1 < m
  <2>1. i' = i + 1 /\ n' = n BY <1>9 DEF buildNode
  <2>2. \A j \in i + 1 .. n - 1 : leaves'[j] = Node(d, j)
    <3>1. \A j \in i + 1 .. n - 1 : j \in i .. n - 1 /\ j # i /\ j \in DOMAIN leaves
          BY <1>6
    <3>2. QED BY <1>1, <1>4, <3>1 DEF LevelInPlace
  <2>3. LevelInPlace(d)'
    <3>1. (i + 1) - 1 = i BY <1>6
    <3>2. QED BY <1>1, <1>5, <1>8, <2>1, <2>2, <3>1 DEF LevelInPlace
  <2>4. n' \in 1 .. leafCount' /\ i' \in Nat /\ i' < LevelAbove(n')
        BY <1>5, <1>6, <1>9, <2>1 DEF MemoryInv
  <2>5. DOMAIN leaves' = 0 .. leafCount' - 1 /\ d \in 0 .. leafCount'
        BY <1>4, <1>5, <1>6
  <2>6. QED BY <1>5, <2>3, <2>4, <2>5 DEF MemoryInv
<1>10. CASE ~ (i + 1 < m)
  <2>1. i' = 0 /\ n' = m BY <1>10 DEF buildNode
  <2>2. i = m - 1 BY <1>3, <1>6, <1>7, <1>10
  <2>3. LevelInPlace(d + 1)'
    <3>1. (d + 1) - 1 = d /\ i' .. n' - 1 = 0 .. i /\ 0 .. i' - 1 = {}
          BY <1>6, <1>7, <2>1, <2>2
    <3>2. QED BY <1>5, <1>7, <1>8, <2>1, <3>1 DEF LevelInPlace
  <2>4. n' \in 1 .. leafCount' /\ i' \in Nat /\ i' = 0 BY <1>5, <1>6, <1>7, <2>1
  <2>5. DOMAIN leaves' = 0 .. leafCount' - 1 /\ d + 1 \in 0 .. leafCount'
        BY <1>4, <1>5, <1>6, <1>7
  <2>6. QED BY <1>5, <2>3, <2>4, <2>5 DEF MemoryInv
<1>11. QED BY <1>9, <1>10

\* Height is the only height that just covers the leaves.
LEMMA HeightLaw ==
  ASSUME NEW d \in 0 .. leafCount, IsHeight(d, leafCount), leafCount \in Nat
  PROVE  Height = d
<1> DEFINE Fits(e) == Pow2[e] >= leafCount /\ (e > 0 => Pow2[e - 1] < leafCount)
<1>1. Fits(d) BY DEF IsHeight
<1>2. ASSUME NEW e \in 0 .. leafCount, NEW f \in 0 .. leafCount, Fits(e), Fits(f), e < f
      PROVE  FALSE
  <2>1. e \in Nat /\ f - 1 \in Nat /\ e <= f - 1 /\ f > 0 BY <1>2
  <2>2. Pow2[e] <= Pow2[f - 1] BY <2>1, Pow2Grows
  <2>3. Pow2[e] \in Nat /\ Pow2[f - 1] \in Nat BY <2>1, Pow2Type
  <2>4. QED BY <1>2, <2>1, <2>2, <2>3
<1>3. Height \in 0 .. leafCount /\ Fits(Height) BY <1>1 DEF Height
<1>4. ~ (Height < d) /\ ~ (d < Height)
  <2> HIDE DEF Fits
  <2>1. QED BY <1>1, <1>2, <1>3
<1>5. QED BY <1>3, <1>4

\* What _buildTree leaves in leaves[0].
LEMMA BuiltRoot ==
  ASSUME MemoryInv, Built
  PROVE  /\ merkleRoot = Node(Height, 0) /\ IsHeight(Height, leafCount)
         /\ BatchOf(posted, leafCount) /\ DOMAIN posted = 0 .. leafCount - 1
<1>1. PICK d \in 0 .. leafCount : LevelInPlace(d) BY DEF MemoryInv
<1>2. n = 1 /\ i = 0 /\ leafCount \in Nat /\ d \in Nat
  <2>1. n = 1 /\ i \in Nat /\ (i = 0 \/ i < LevelAbove(n)) /\ leafCount \in Nat
        BY DEF MemoryInv, Built, BatchOf
  <2>2. LevelAbove(1) = 1 BY DEF LevelAbove
  <2>3. QED BY <2>1, <2>2
<1>3. IsHeight(d, leafCount)
  <2>1. Pow2[d] \in Nat BY <1>2, Pow2Type
  <2>2. QED BY <1>1, <1>2, <2>1 DEF LevelInPlace, IsHeight
<1>4. Height = d BY <1>2, <1>3, HeightLaw
<1>5. leaves[0] = Node(d, 0) BY <1>1, <1>2 DEF LevelInPlace
<1>6. QED BY <1>3, <1>4, <1>5 DEF merkleRoot, MemoryInv

\* A claim is judged against a finished tree, and nothing is posted afterwards.
LEMMA ClaimJudged ==
  ASSUME MemoryInv, AcceptedIsPosted, Built,
         NEW leaf \in LeafHashes, NEW index \in Nat, NEW proof, Len(proof) \in Nat,
         verifyClaim(leaf, proof, index)
  PROVE  MemoryInv' /\ AcceptedIsPosted'
<1>1. UNCHANGED <<posted, leaves, n, i>> BY DEF verifyClaim
<1>2. MemoryInv'
      BY <1>1 DEF MemoryInv, LevelInPlace, leafCount, Node
<1>3. /\ merkleRoot = Node(Height, 0) /\ IsHeight(Height, leafCount)
      /\ BatchOf(posted, leafCount) /\ DOMAIN posted = 0 .. leafCount - 1
      BY BuiltRoot
<1>4. ASSUME claim'.accepted
      PROVE  claim'.index \in DOMAIN posted' /\ posted'[claim'.index] = claim'.leaf
  <2>1. /\ claim'.leaf = leaf /\ claim'.index = index
        /\ index < leafCount /\ Climb(leaf, proof, index) = merkleRoot
        BY <1>4 DEF verifyClaim, InRange
  <2>2. index \in 0 .. leafCount - 1 BY <1>3, <2>1 DEF BatchOf
  <2>3. posted[index] = leaf BY <1>3, <2>1, <2>2, ProofsAreSound DEF Node
  <2>4. QED BY <1>1, <1>3, <2>1, <2>2, <2>3
<1>5. QED BY <1>2, <1>4 DEF AcceptedIsPosted

\* Both together are inductive.
LEMMA TreeInvariant == Spec => [](MemoryInv /\ AcceptedIsPosted)
<1>1. Init => MemoryInv /\ AcceptedIsPosted
      BY InitMemory DEF Init, NoClaim, AcceptedIsPosted
<1>2. MemoryInv /\ AcceptedIsPosted /\ [Next]_vars => (MemoryInv /\ AcceptedIsPosted)'
  <2> SUFFICES ASSUME MemoryInv, AcceptedIsPosted, [Next]_vars
               PROVE  MemoryInv' /\ AcceptedIsPosted'
      OBVIOUS
  <2>1. CASE buildNode
    <3>1. posted' = posted /\ claim' = claim BY <2>1 DEF buildNode
    <3>2. QED BY <2>1, <3>1, BuildMemory DEF AcceptedIsPosted
  <2>2. ASSUME NEW leaf \in LeafHashes, NEW index \in 0 .. MaxIndex,
               NEW k \in 0 .. MaxProof, NEW proof \in [1 .. k -> Known],
               Built, verifyClaim(leaf, proof, index)
        PROVE  MemoryInv' /\ AcceptedIsPosted'
    <3>1. index \in Nat /\ k \in Nat BY BoundAssumption
    <3>2. proof \in Seq(Known) /\ Len(proof) \in Nat BY <3>1
    <3>3. QED BY <2>2, <3>1, <3>2, ClaimJudged
  <2>3. CASE UNCHANGED vars
        BY <2>3 DEF vars, MemoryInv, LevelInPlace, leafCount, Node, AcceptedIsPosted
  <2>4. QED BY <2>1, <2>2, <2>3 DEF Next
<1>3. QED BY <1>1, <1>2, PTL DEF Spec

\* Building in place computes the tree of the drawing, for every number of
\* leaves: no node is overwritten before its parent is made.
THEOREM InPlace == Spec => []RootIsReference
<1>1. MemoryInv => RootIsReference BY BuiltRoot DEF RootIsReference
<1>2. QED BY <1>1, TreeInvariant, PTL

\* Whatever the number of leaves, the claimed index and the hashes of the
\* proof, and however long it is, only the leaf posted at an index is accepted
\* for it.  This is the reading of a root as the sequence of its leaves, on
\* which AccountableRelay rests.
THEOREM NoPhantomLeaf == Spec => []AcceptedIsPosted
<1>1. QED BY TreeInvariant, PTL

\* Every posted leaf has a proof that is accepted, the siblings on its way up.
THEOREM LeavesDisputable == Spec => []EveryLeafDisputable
<1>1. ASSUME MemoryInv, Built, NEW index \in DOMAIN posted
      PROVE  Climb(posted[index], HonestProof(index), index) = merkleRoot
  <2> DEFINE L == leafCount
             H == Height
             proof == HonestProof(index)
  <2>1. /\ merkleRoot = Tree(posted)[H][0] /\ IsHeight(H, L)
        /\ BatchOf(posted, L) /\ index \in 0 .. L - 1 /\ H \in Nat
        BY <1>1, BuiltRoot DEF Node, IsHeight
  <2>2. Len(proof) = H BY <2>1 DEF HonestProof
  <2>3. AreSiblings(proof, posted, L, H, index)
    <3>1. \A k \in 0 .. H - 1 : k + 1 \in 1 .. H /\ (k + 1) - 1 = k BY <2>1
    <3>2. QED BY <2>2, <3>1 DEF AreSiblings, HonestProof, Node
  <2> HIDE DEF L, H, proof
  <2>4. Climb(posted[index], proof, index) = Tree(posted)[H][0]
        BY <2>1, <2>3, SiblingsProve
  <2>5. QED BY <2>1, <2>4 DEF proof
<1>2. MemoryInv => EveryLeafDisputable BY <1>1 DEF EveryLeafDisputable
<1>3. QED BY <1>2, TreeInvariant, PTL

=============================================================================
