----------------------- MODULE AccountableRelayProofs -----------------------
(***************************************************************************)
(* Theorems about AccountableRelay, for every value of its constants.      *)
(***************************************************************************)
EXTENDS AccountableRelay, Integers, FiniteSetTheorems, SequenceTheorems, TLAPS

-----------------------------------------------------------------------------
(* Totals.  The laws that module Ledger's definition was chosen for: they  *)
(* need no induction over the keys, for a total is a cardinality, and the  *)
(* theorems on finite sets do the counting.                                *)

\* A coin is a key and a number up to what the key holds.
LEMMA CoinsMembership ==
  ASSUME NEW S, NEW f \in [S -> Nat]
  PROVE  \A c : c \in Coins(f) <=>
                  \E a \in S, k \in Nat : c = <<a, k>> /\ 1 <= k /\ k <= f[a]
BY DEF Coins

\* Finitely many keys hold finitely many coins.
LEMMA CoinsFinite ==
  ASSUME NEW S, IsFiniteSet(S), NEW f \in [S -> Nat]
  PROVE  IsFiniteSet(Coins(f))
<1> DEFINE Pile(a) == {<<a, k>> : k \in 1 .. f[a]}
           Piles   == {Pile(a) : a \in S}
<1>1. \A P \in Piles : IsFiniteSet(P)
  <2> SUFFICES ASSUME NEW a \in S PROVE IsFiniteSet(Pile(a))
      OBVIOUS
  <2> DEFINE stack == [k \in 1 .. f[a] |-> <<a, k>>]
  <2>1. IsFiniteSet(1 .. f[a])
        BY FS_Interval
  <2>2. stack \in Surjection(1 .. f[a], Pile(a))
        BY DEF Surjection
  <2> HIDE DEF stack
  <2>3. QED BY <2>1, <2>2, FS_Surjection
<1>2. IsFiniteSet(Piles)
  <2> DEFINE pileOf == [a \in S |-> Pile(a)]
  <2>1. /\ pileOf \in [S -> Piles]
        /\ \A P \in Piles : \E a \in S : pileOf[a] = P
    <3> HIDE DEF Pile
    <3>1. QED OBVIOUS
  <2> HIDE DEF pileOf, Piles
  <2>2. pileOf \in Surjection(S, Piles)
        BY <2>1 DEF Surjection
  <2>3. QED BY <2>2, FS_Surjection
<1>3. Coins(f) = UNION Piles
      BY DEF Coins
<1> HIDE DEF Piles
<1>4. QED BY <1>1, <1>2, <1>3, FS_UNION

\* A total is a natural number.
LEMMA TotalType ==
  ASSUME NEW S, IsFiniteSet(S), NEW f \in [S -> Nat]
  PROVE  Total(f) \in Nat
BY CoinsFinite, FS_CardinalityType DEF Total

\* The total of a sum is the sum of the totals.  Here as below the ledger the
\* lemma is about is characterized key by key.
LEMMA TotalSum ==
  ASSUME NEW S, IsFiniteSet(S), NEW f \in [S -> Nat], NEW g \in [S -> Nat],
         NEW sum \in [S -> Nat], \A a \in S : sum[a] = f[a] + g[a]
  PROVE  Total(sum) = Total(f) + Total(g)
<1> DEFINE rest == Coins(sum) \ Coins(f)
           shift == [c \in Coins(g) |-> <<c[1], f[c[1]] + c[2]>>]
<1>1. /\ sum \in [S -> Nat]
      /\ \A a \in S : sum[a] = f[a] + g[a]
      OBVIOUS
<1>2. Coins(f) \subseteq Coins(sum)
  <2> SUFFICES ASSUME NEW a \in S, NEW k \in Nat, 1 <= k, k <= f[a]
               PROVE  <<a, k>> \in Coins(sum)
      BY <1>1, CoinsMembership
  <2>1. k <= sum[a] BY <1>1
  <2>2. QED BY <1>1, <2>1, CoinsMembership
<1>3. shift \in Bijection(Coins(g), rest)
  <2>1. ASSUME NEW c \in Coins(g) PROVE shift[c] \in rest
    <3>1. PICK a \in S, k \in Nat : c = <<a, k>> /\ 1 <= k /\ k <= g[a]
          BY CoinsMembership
    <3>2. shift[c] = <<a, f[a] + k>> BY <3>1
    <3>3. f[a] + k <= sum[a] /\ f[a] + k \in Nat /\ 1 <= f[a] + k BY <1>1, <3>1
    <3>4. shift[c] \in Coins(sum) BY <1>1, <3>2, <3>3, CoinsMembership
    <3>5. shift[c] \notin Coins(f) 
      <4>1. ~ (f[a] + k <= f[a]) BY <3>1
      <4>2. QED BY <3>2, <4>1, CoinsMembership
    <3>6. QED BY <3>4, <3>5
  <2>2. ASSUME NEW c \in Coins(g), NEW e \in Coins(g), shift[c] = shift[e]
        PROVE  c = e
    <3>1. PICK a \in S, k \in Nat : c = <<a, k>> BY CoinsMembership
    <3>2. PICK b \in S, m \in Nat : e = <<b, m>> BY CoinsMembership
    <3>3. a = b /\ f[a] + k = f[b] + m BY <2>2, <3>1, <3>2
    <3>4. QED BY <3>1, <3>2, <3>3
  <2>3. ASSUME NEW r \in rest PROVE \E c \in Coins(g) : shift[c] = r
    <3>1. PICK a \in S, k \in Nat : r = <<a, k>> /\ 1 <= k /\ k <= sum[a]
          BY <1>1, CoinsMembership
    <3>2. ~ (k <= f[a]) BY <3>1, CoinsMembership
    <3>3. k - f[a] \in Nat /\ 1 <= k - f[a] /\ k - f[a] <= g[a]
          BY <1>1, <3>1, <3>2
    <3>4. <<a, k - f[a]>> \in Coins(g) BY <3>3, CoinsMembership
    <3>5. shift[<<a, k - f[a]>>] = r BY <3>1, <3>3, <3>4
    <3>6. QED BY <3>4, <3>5
  <2> HIDE DEF rest, shift
  <2>4. shift \in [Coins(g) -> rest] 
        BY <2>1 DEF shift
  <2>5. QED BY <2>2, <2>3, <2>4 DEF Bijection, Injection, Surjection, IsInjective
<1>4. IsFiniteSet(Coins(f)) /\ IsFiniteSet(Coins(g)) /\ IsFiniteSet(Coins(sum))
      BY <1>1, CoinsFinite
<1>5. Cardinality(rest) = Cardinality(Coins(g))
      BY <1>3, <1>4, FS_Bijection DEF ExistsBijection
<1>6. Cardinality(rest) = Cardinality(Coins(sum)) - Cardinality(Coins(f))
  <2>1. Coins(sum) \cap Coins(f) = Coins(f) BY <1>2
  <2>2. Cardinality(rest)
          = Cardinality(Coins(sum)) - Cardinality(Coins(sum) \cap Coins(f))
    <3>1. IsFiniteSet(Coins(sum)) BY <1>4
    <3>2. QED BY <3>1, FS_Difference
  <2>3. QED BY <2>1, <2>2
<1>7. QED BY <1>1, <1>4, <1>5, <1>6, FS_CardinalityType DEF Total

\* Hence the total of a difference is the difference of the totals.
LEMMA TotalDifference ==
  ASSUME NEW S, IsFiniteSet(S), NEW f \in [S -> Nat], NEW g \in [S -> Nat],
         NEW h \in [S -> Nat], \A a \in S : h[a] = f[a] - g[a]
  PROVE  /\ Total(h) = Total(f) - Total(g)
         /\ Total(g) <= Total(f)
<1>1. \A a \in S : f[a] = h[a] + g[a] OBVIOUS
<1>2. Total(f) = Total(h) + Total(g) BY <1>1, TotalSum
<1>3. Total(h) \in Nat /\ Total(g) \in Nat BY TotalType
<1>4. QED BY <1>2, <1>3

\* n coins under each key of T.
LEMMA TotalUniform ==
  ASSUME NEW S, IsFiniteSet(S), NEW T \in SUBSET S, NEW n \in Nat,
         NEW e \in [S -> Nat], \A a \in S : e[a] = IF a \in T THEN n ELSE 0
  PROVE  /\ Cardinality(T) \in Nat
         /\ Total(e) = Cardinality(T) * n
<1>1. Coins(e) = T \X (1 .. n)
  <2>1. ASSUME NEW c \in Coins(e) PROVE c \in T \X (1 .. n)
    <3>1. PICK a \in S, k \in Nat : c = <<a, k>> /\ 1 <= k /\ k <= e[a]
          BY CoinsMembership
    <3>2. a \in T /\ k \in 1 .. n BY <3>1
    <3>3. QED BY <3>1, <3>2
  <2>2. ASSUME NEW a \in T, NEW k \in 1 .. n PROVE <<a, k>> \in Coins(e)
    <3>1. a \in S /\ k \in Nat /\ 1 <= k /\ k <= e[a] OBVIOUS
    <3>2. QED BY <3>1, CoinsMembership
  <2>3. QED BY <2>1, <2>2
<1>2. IsFiniteSet(T) /\ IsFiniteSet(1 .. n) /\ Cardinality(1 .. n) = n
      BY FS_Subset, FS_Interval
<1>3. Total(e) = Cardinality(T) * n
      BY <1>1, <1>2, FS_Product DEF Total
<1>4. QED BY <1>2, <1>3, FS_CardinalityType

\* Nothing anywhere.
LEMMA TotalZero ==
  ASSUME NEW S, IsFiniteSet(S), NEW e \in [S -> Nat], \A a \in S : e[a] = 0
  PROVE  Total(e) = 0
<1>1. Coins(e) = {} BY CoinsMembership
<1>2. QED BY <1>1, FS_EmptySet DEF Total

\* An amount under one key only.
LEMMA TotalSingle ==
  ASSUME NEW S, IsFiniteSet(S), NEW x \in S, NEW e \in [S -> Nat],
         \A a \in S : a # x => e[a] = 0
  PROVE  Total(e) = e[x]
<1> DEFINE T == {x}
<1>1. T \in SUBSET S /\ Cardinality(T) = 1 BY FS_Singleton
<1>2. e[x] \in Nat /\ \A a \in S : e[a] = IF a \in T THEN e[x] ELSE 0
      OBVIOUS
<1> HIDE DEF T
<1>3. Total(e) = Cardinality(T) * e[x] BY <1>1, <1>2, TotalUniform
<1>4. QED BY <1>1, <1>2, <1>3

\* Changing one key changes the total by as much.
LEMMA TotalChange ==
  ASSUME NEW S, IsFiniteSet(S), NEW f \in [S -> Nat], NEW h \in [S -> Nat],
         NEW x \in S, \A a \in S : a # x => h[a] = f[a]
  PROVE  /\ Total(h) = Total(f) + h[x] - f[x]
         /\ Total(h) \in Nat /\ Total(f) \in Nat
         /\ f[x] <= Total(f)
<1> DEFINE before == [a \in S |-> IF a = x THEN f[x] ELSE 0]
           after  == [a \in S |-> IF a = x THEN h[x] ELSE 0]
           kept   == [a \in S |-> IF a = x THEN 0 ELSE f[a]]
<1>1. before \in [S -> Nat] /\ after \in [S -> Nat] /\ kept \in [S -> Nat]
      OBVIOUS
<1>2. /\ before[x] = f[x] /\ \A a \in S : a # x => before[a] = 0
      /\ after[x] = h[x] /\ \A a \in S : a # x => after[a] = 0
      OBVIOUS
<1>3. /\ \A a \in S : f[a] = kept[a] + before[a]
      /\ \A a \in S : h[a] = kept[a] + after[a]
      OBVIOUS
<1> HIDE DEF before, after, kept
<1>4. Total(before) = f[x] /\ Total(after) = h[x]
      BY <1>1, <1>2, TotalSingle
<1>5. Total(f) = Total(kept) + Total(before) /\ Total(h) = Total(kept) + Total(after)
      BY <1>1, <1>3, TotalSum
<1>6. Total(kept) \in Nat /\ Total(f) \in Nat /\ Total(h) \in Nat
      BY <1>1, TotalType
<1>7. QED BY <1>4, <1>5, <1>6

\* A ledger over one more key.
LEMMA TotalNewKey ==
  ASSUME NEW S, IsFiniteSet(S), NEW f \in [S -> Nat],
         NEW U, NEW x \in U, x \notin S, S \subseteq U,
         \A a \in U : a # x => a \in S,
         NEW g \in [U -> Nat], \A a \in S : g[a] = f[a]
  PROVE  Total(g) = Total(f) + g[x]
<1> DEFINE h == [a \in U |-> IF a = x THEN 0 ELSE f[a]]
<1>1. IsFiniteSet(U)
  <2>1. U = S \cup {x} OBVIOUS
  <2>2. QED BY <2>1, FS_AddElement
<1>2. /\ g \in [U -> Nat] /\ h \in [U -> Nat] /\ x \in U
      /\ \A a \in U : a # x => g[a] = h[a]
      OBVIOUS
<1>3. h[x] = 0 /\ \A a \in S : h[a] = f[a] OBVIOUS
<1> HIDE DEF h
<1>4. Coins(h) = Coins(f)
  <2>1. ASSUME NEW c \in Coins(h) PROVE c \in Coins(f)
    <3>1. PICK a \in U, k \in Nat : c = <<a, k>> /\ 1 <= k /\ k <= h[a]
          BY <1>2, CoinsMembership
    <3>2. a \in S BY <1>3, <3>1
    <3>3. QED BY <1>3, <3>1, <3>2, CoinsMembership
  <2>2. ASSUME NEW c \in Coins(f) PROVE c \in Coins(h)
    <3>1. PICK a \in S, k \in Nat : c = <<a, k>> /\ 1 <= k /\ k <= f[a]
          BY CoinsMembership
    <3>2. a \in U /\ k <= h[a] BY <1>3, <3>1
    <3>3. QED BY <1>2, <3>1, <3>2, CoinsMembership
  <2>3. QED BY <2>1, <2>2
<1>5. Total(h) = Total(f) BY <1>4 DEF Total
<1>6. Total(g) = Total(h) + g[x] - h[x] /\ Total(h) \in Nat
      BY <1>1, <1>2, TotalChange
<1>7. g[x] \in Nat BY <1>2
<1>8. QED BY <1>3, <1>5, <1>6, <1>7

-----------------------------------------------------------------------------
(* Sequences that grow at the end or change at one place.                  *)

\* What Append does to a sequence's type, length and entries.
LEMMA SeqAppend ==
  ASSUME NEW S, NEW s \in Seq(S), NEW e \in S, NEW t, t = Append(s, e)
  PROVE  /\ t \in Seq(S)
         /\ Len(t) = Len(s) + 1
         /\ DOMAIN s = 1 .. Len(s) /\ DOMAIN t = 1 .. Len(s) + 1
         /\ t[Len(s) + 1] = e
         /\ \A i \in DOMAIN s : t[i] = s[i]
OBVIOUS

\* The same for the replacement of the i-th entry.
LEMMA SeqUpdate ==
  ASSUME NEW S, NEW s \in Seq(S), NEW i \in DOMAIN s, NEW e \in S,
         NEW t, t = [s EXCEPT ![i] = e]
  PROVE  /\ t \in Seq(S)
         /\ Len(t) = Len(s)
         /\ DOMAIN t = DOMAIN s /\ DOMAIN s = 1 .. Len(s)
         /\ t[i] = e
         /\ \A j \in DOMAIN s : j # i => t[j] = s[j]
<1>1. DOMAIN s = 1 .. Len(s) /\ s \in [1 .. Len(s) -> S] BY LenProperties
<1>2. QED BY <1>1, ExceptSeq

-----------------------------------------------------------------------------
(* Targets.                                                                *)

\* The target keys are those of the records and those of the batch leaves.
LEMMA TargetCases ==
  /\ \A i \in 1 .. MaxRecords : RecordTarget(i) \in Target
  /\ \A b \in 1 .. MaxBatches, l \in 1 .. MaxLeaves : LeafTarget(b, l) \in Target
  /\ \A t \in Target :
       \/ /\ t[1] = 0 /\ t[2] \in 1 .. MaxRecords /\ t[3] = 0
          /\ t = RecordTarget(t[2])
       \/ /\ t[1] = 1 /\ t[2] \in 1 .. MaxBatches /\ t[3] \in 1 .. MaxLeaves
          /\ t = LeafTarget(t[2], t[3])
BY DEF Target, RecordTarget, LeafTarget

\* A posted target has a relay, and it is an account.
LEMMA TargetRelayType ==
  ASSUME TargetTypes, NEW t \in Target, Posted(t)
  PROVE  TargetRelay(t) \in Address
<1>1. CASE t[1] = 0
  <2>1. t[2] \in DOMAIN records BY <1>1 DEF Posted
  <2>2. records[t[2]] \in Record BY <2>1 DEF TargetTypes
  <2>3. QED BY <1>1, <2>2 DEF TargetRelay, Record
<1>2. CASE t[1] # 0
  <2>1. t[2] \in DOMAIN batches BY <1>2 DEF Posted
  <2>2. batches[t[2]] \in Batch BY <2>1 DEF TargetTypes
  <2>3. QED BY <1>2, <2>2 DEF TargetRelay, Batch
<1>3. QED BY <1>1, <1>2

-----------------------------------------------------------------------------
(* Amounts.                                                                *)

\* n shares of an n-th part are no more than what is shared, and less than n
\* is lost.
LEMMA ShareLaw ==
  ASSUME NEW total \in Nat, NEW n \in Nat
  PROVE  /\ Share(total, n) \in Nat /\ n * Share(total, n) <= total
         /\ n > 0 => total < n * Share(total, n) + n
BY DEF Share

\* The two parts of a relay's slash are together the slash, or one less.
LEMMA FifthsLaw ==
  ASSUME NEW amount \in Nat
  PROVE  /\ Fifths(amount, 3) \in Nat /\ Fifths(amount, 2) \in Nat
         /\ Fifths(amount, 3) + Fifths(amount, 2) <= amount
         /\ amount <= Fifths(amount, 3) + Fifths(amount, 2) + 1
BY DEF Fifths

\* Collecting takes from each pool no more than it holds.
LEMMA CollectLaw ==
  ASSUME NEW S, NEW first \in [Address -> Nat], NEW other \in [Address -> Nat],
         NEW amount \in Nat,
         NEW c, c = CollectFromPool(S, first, other, amount)
  PROVE  /\ c.first \in [Address -> Nat] /\ c.other \in [Address -> Nat]
         /\ \A a \in Address : c.first[a] <= first[a] /\ c.other[a] <= other[a]
         /\ Collected(c) \in Nat
<1>1. c.first = [a \in Address |-> IF a \in S THEN AtMost(first[a], amount) ELSE 0]
      BY DEF CollectFromPool
<1>2. c.other = [a \in Address |->
                   IF a \in S THEN AtMost(other[a], amount - c.first[a]) ELSE 0]
      BY DEF CollectFromPool
<1>3. \A a \in Address :
        c.first[a] \in Nat /\ c.first[a] <= first[a] /\ c.first[a] <= amount
      BY <1>1 DEF AtMost
<1>4. \A a \in Address : c.other[a] \in Nat /\ c.other[a] <= other[a]
  <2> SUFFICES ASSUME NEW a \in Address
               PROVE  c.other[a] \in Nat /\ c.other[a] <= other[a]
      OBVIOUS
  <2>1. amount - c.first[a] \in Nat /\ other[a] \in Nat BY <1>3
  <2>2. c.other[a] = IF a \in S THEN AtMost(other[a], amount - c.first[a]) ELSE 0
        BY <1>2
  <2>3. QED BY <2>1, <2>2 DEF AtMost
<1>5. c.first \in [Address -> Nat] /\ c.other \in [Address -> Nat]
      BY <1>1, <1>2, <1>3, <1>4
<1>6. Collected(c) \in Nat
      BY <1>5, TotalType, ParameterAssumption DEF Collected
<1>7. QED BY <1>3, <1>4, <1>5, <1>6

\* One payee gets exactly the amount.
LEMMA SinglePayment ==
  ASSUME NEW x \in Address, NEW n \in Nat, NEW e, e = Each(Address, {x}, n)
  PROVE  e \in [Address -> Nat] /\ Total(e) = n
<1>1. e \in [Address -> Nat] BY DEF Each
<1>2. e[x] = n /\ \A a \in Address : a # x => e[a] = 0 BY DEF Each
<1>3. QED BY <1>1, <1>2, TotalSingle, ParameterAssumption

\* The attesters' shares add up to no more than what is shared among them, and
\* less than one unit for each is lost.
LEMMA AttesterPayLaw ==
  ASSUME NEW A \in SUBSET Address, NEW total \in Nat,
         NEW e, e = AttesterPay(A, total)
  PROVE  /\ e \in [Address -> Nat] /\ Total(e) <= total
         /\ Cardinality(A) \in Nat
         /\ Cardinality(A) > 0 => total < Total(e) + Cardinality(A)
<1> DEFINE n == Cardinality(A)
           share == Share(total, n)
<1>1. n \in Nat BY FS_Subset, FS_CardinalityType, ParameterAssumption
<1>2. share \in Nat /\ n * share <= total /\ (n > 0 => total < n * share + n)
      BY <1>1, ShareLaw
<1>3. e = [a \in Address |-> IF a \in A THEN share ELSE 0]
      BY DEF AttesterPay, Each
<1> HIDE DEF share
<1>4. e \in [Address -> Nat] /\ \A a \in Address : e[a] = IF a \in A THEN share ELSE 0
      BY <1>2, <1>3
<1>5. Total(e) = n * share BY <1>2, <1>4, TotalUniform, ParameterAssumption
<1>6. QED BY <1>1, <1>2, <1>4, <1>5

\* Key-by-key sums and differences of ledgers of accounts, and their totals.
LEMMA LedgerArithmetic ==
  ASSUME NEW f \in [Address -> Nat], NEW g \in [Address -> Nat]
  PROVE  /\ Plus(f, g) \in [Address -> Nat]
         /\ Total(Plus(f, g)) = Total(f) + Total(g)
         /\ (\A a \in Address : g[a] <= f[a]) =>
              /\ Minus(f, g) \in [Address -> Nat]
              /\ Total(Minus(f, g)) = Total(f) - Total(g)
              /\ \A a \in Address : Minus(f, g)[a] = f[a] - g[a]
         /\ Total(f) \in Nat /\ Total(g) \in Nat
<1> DEFINE sum == Plus(f, g)
           dif == Minus(f, g)
<1>1. sum \in [Address -> Nat] /\ \A a \in Address : sum[a] = f[a] + g[a]
      BY DEF Plus
<1>2. ASSUME \A a \in Address : g[a] <= f[a]
      PROVE  dif \in [Address -> Nat] /\ \A a \in Address : dif[a] = f[a] - g[a]
      BY <1>2 DEF Minus
<1> HIDE DEF sum, dif
<1>3. Total(sum) = Total(f) + Total(g) BY <1>1, TotalSum, ParameterAssumption
<1>4. ASSUME \A a \in Address : g[a] <= f[a]
      PROVE  Total(dif) = Total(f) - Total(g)
      BY <1>2, <1>4, TotalDifference, ParameterAssumption
<1>5. Total(f) \in Nat /\ Total(g) \in Nat BY TotalType, ParameterAssumption
<1>6. QED BY <1>1, <1>2, <1>3, <1>4, <1>5 DEF sum, dif

\* What resolving a dispute may leave with the contract: the burned half of its
\* bond, or dust.
Allowance(d) ==
  IF Expired(d) THEN d.bond - d.bond \div 2
  ELSE IF FoundFraud(d) THEN Cardinality(d.fraudAttesters)
  ELSE IF FoundSpurious(d) THEN Cardinality(d.validAttesters) - 1
  ELSE 0

\* It is an amount, and there is none while the dispute is open.
LEMMA AllowanceType ==
  ASSUME NEW d \in Dispute
  PROVE  /\ Allowance(d) \in Nat /\ d.bond \in Nat
         /\ Cardinality(d.fraudAttesters) \in Nat
         /\ Cardinality(d.validAttesters) \in Nat
         /\ quorum = 0 => FraudQuorum(d)
         /\ ~d.resolved => Allowance(d) = 0
<1>1. /\ d.bond \in Nat /\ d.fraudAttesters \in SUBSET Address
      /\ d.validAttesters \in SUBSET Address
      BY DEF Dispute
<1>2. /\ Cardinality(d.fraudAttesters) \in Nat /\ Cardinality(d.validAttesters) \in Nat
      BY <1>1, ParameterAssumption, FS_Subset, FS_CardinalityType
<1>3. d.bond - d.bond \div 2 \in Nat BY <1>1
<1>4. /\ quorum \in Nat
      /\ quorum = 0 => FraudQuorum(d)
      BY <1>2, ParameterAssumption DEF FraudQuorum
<1>5. FoundSpurious(d) => Cardinality(d.validAttesters) - 1 \in Nat
      BY <1>2, <1>4 DEF FoundSpurious, ValidQuorum
<1>6. Allowance(d) \in Nat BY <1>2, <1>3, <1>5 DEF Allowance
<1>7. ~d.resolved => Allowance(d) = 0
      BY DEF Allowance, Expired, FoundFraud, FoundSpurious
<1>8. QED BY <1>1, <1>2, <1>4, <1>6, <1>7

\* What a fraud verdict pays out is no more than what it takes and the bond, and
\* less by at most a unit for each attester; what it takes is there to be taken.
LEMMA FraudMoney ==
  ASSUME MoneyTypes, NEW d \in Dispute, TargetRelay(d.target) \in Address
  PROVE  /\ FraudPayout(d) \in [Address -> Nat]
         /\ Minus(VerifierStakeLeft(d), RelaySlash(d).other) \in [Address -> Nat]
         /\ Minus(RelayStakeLeft(d), RelaySlash(d).first) \in [Address -> Nat]
         /\ Total(Minus(VerifierStakeLeft(d), RelaySlash(d).other))
              + Total(Minus(RelayStakeLeft(d), RelaySlash(d).first))
              + Total(FraudPayout(d))
            <= Total(verifierStake) + Total(relayStake) + d.bond
         /\ Cardinality(d.fraudAttesters) > 0 =>
              Total(verifierStake) + Total(relayStake) + d.bond
                <= Total(Minus(VerifierStakeLeft(d), RelaySlash(d).other))
                     + Total(Minus(RelayStakeLeft(d), RelaySlash(d).first))
                     + Total(FraudPayout(d)) + Cardinality(d.fraudAttesters)
<1> DEFINE n == Cardinality(d.fraudAttesters)
           wrong == WrongSideSlash(d)
           vLeft == VerifierStakeLeft(d)
           rLeft == RelayStakeLeft(d)
           relay == RelaySlash(d)
           vEnd  == Minus(vLeft, relay.other)
           rEnd  == Minus(rLeft, relay.first)
           fee   == Collected(wrong) + Fifths(Collected(relay), 3) + d.bond
           one   == Each(Address, {d.challenger}, fee)
           many  == AttesterPay(d.fraudAttesters, Fifths(Collected(relay), 2))
<1>1. /\ verifierStake \in [Address -> Nat] /\ relayStake \in [Address -> Nat]
      /\ d.challenger \in Address /\ d.bond \in Nat
      /\ d.fraudAttesters \in SUBSET Address
      /\ verifierSlashAmount \in Nat /\ relaySlashAmount \in Nat
      BY ParameterAssumption DEF MoneyTypes, Dispute
<1>2. wrong = CollectFromPool(WrongSide(d), verifierStake, relayStake, verifierSlashAmount)
      BY DEF WrongSideSlash
<1>3. vLeft = Minus(verifierStake, wrong.first) /\ rLeft = Minus(relayStake, wrong.other)
      BY DEF VerifierStakeLeft, RelayStakeLeft
<1>4. relay = CollectFromPool({TargetRelay(d.target)}, rLeft, vLeft, relaySlashAmount)
      BY DEF RelaySlash
<1>5. FraudPayout(d) = Plus(one, many)
      BY DEF FraudPayout
<1> HIDE DEF wrong, vLeft, rLeft, relay
<1>6. /\ wrong.first \in [Address -> Nat] /\ wrong.other \in [Address -> Nat]
      /\ \A a \in Address : /\ wrong.first[a] <= verifierStake[a]
                            /\ wrong.other[a] <= relayStake[a]
      /\ Collected(wrong) \in Nat
      BY <1>1, <1>2, CollectLaw
<1>7. /\ vLeft \in [Address -> Nat] /\ rLeft \in [Address -> Nat]
      /\ Total(vLeft) = Total(verifierStake) - Total(wrong.first)
      /\ Total(rLeft) = Total(relayStake) - Total(wrong.other)
      BY <1>1, <1>3, <1>6, LedgerArithmetic
<1>8. /\ relay.first \in [Address -> Nat] /\ relay.other \in [Address -> Nat]
      /\ \A a \in Address : relay.first[a] <= rLeft[a] /\ relay.other[a] <= vLeft[a]
      /\ Collected(relay) \in Nat
  <2> DEFINE R == {TargetRelay(d.target)}
  <2>1. relay = CollectFromPool(R, rLeft, vLeft, relaySlashAmount) BY <1>4
  <2> HIDE DEF R
  <2>2. QED BY <1>1, <1>7, <2>1, CollectLaw
<1>9. /\ vEnd \in [Address -> Nat] /\ rEnd \in [Address -> Nat]
      /\ Total(vEnd) = Total(vLeft) - Total(relay.other)
      /\ Total(rEnd) = Total(rLeft) - Total(relay.first)
      BY <1>7, <1>8, LedgerArithmetic
<1>10. /\ Fifths(Collected(relay), 3) \in Nat /\ Fifths(Collected(relay), 2) \in Nat
       /\ Fifths(Collected(relay), 3) + Fifths(Collected(relay), 2) <= Collected(relay)
       /\ Collected(relay)
            <= Fifths(Collected(relay), 3) + Fifths(Collected(relay), 2) + 1
       BY <1>8, FifthsLaw
<1>11. fee \in Nat BY <1>1, <1>6, <1>10
<1>12. one \in [Address -> Nat] /\ Total(one) = fee
  <2> HIDE DEF fee
  <2>1. QED BY <1>1, <1>11, SinglePayment
<1>13. /\ many \in [Address -> Nat] /\ Total(many) <= Fifths(Collected(relay), 2)
       /\ n \in Nat /\ (n > 0 => Fifths(Collected(relay), 2) < Total(many) + n)
  <2> DEFINE part == Fifths(Collected(relay), 2)
  <2>1. part \in Nat BY <1>10
  <2> HIDE DEF part
  <2>2. PICK A \in SUBSET Address : A = d.fraudAttesters BY <1>1
  <2>3. PICK e : e = AttesterPay(A, part) OBVIOUS
  <2>4. /\ e \in [Address -> Nat] /\ Total(e) <= part
        /\ Cardinality(A) \in Nat
        /\ Cardinality(A) > 0 => part < Total(e) + Cardinality(A)
        BY <2>1, <2>3, AttesterPayLaw
  <2>5. QED BY <2>2, <2>3, <2>4 DEF part
<1> HIDE DEF n, one, many, vEnd, rEnd
<1>14. /\ Plus(one, many) \in [Address -> Nat]
       /\ Total(Plus(one, many)) = Total(one) + Total(many)
       /\ Total(one) \in Nat /\ Total(many) \in Nat
       BY <1>12, <1>13, LedgerArithmetic
<1>15. /\ Collected(wrong) = Total(wrong.first) + Total(wrong.other)
       /\ Collected(relay) = Total(relay.first) + Total(relay.other)
       BY DEF Collected
<1>16. /\ Total(wrong.first) \in Nat /\ Total(wrong.other) \in Nat
       /\ Total(relay.first) \in Nat /\ Total(relay.other) \in Nat
       /\ Total(verifierStake) \in Nat /\ Total(relayStake) \in Nat
       BY <1>1, <1>6, <1>8, LedgerArithmetic
<1>17. Total(vEnd) + Total(rEnd) + Total(Plus(one, many))
         <= Total(verifierStake) + Total(relayStake) + d.bond
       BY <1>1, <1>7, <1>9, <1>10, <1>12, <1>13, <1>14, <1>15, <1>16
<1>18. n > 0 =>
         Total(verifierStake) + Total(relayStake) + d.bond
           <= Total(vEnd) + Total(rEnd) + Total(Plus(one, many)) + n
       BY <1>1, <1>7, <1>9, <1>10, <1>12, <1>13, <1>14, <1>15, <1>16
<1>19. QED BY <1>5, <1>9, <1>14, <1>17, <1>18 DEF n, vEnd, rEnd, vLeft, rLeft, relay

\* What a spurious verdict pays out is no more than the bond, and less by less
\* than a unit for each attester.
LEMMA SpuriousMoney ==
  ASSUME NEW d \in Dispute, TargetRelay(d.target) \in Address
  PROVE  /\ SpuriousPayout(d) \in [Address -> Nat]
         /\ Total(SpuriousPayout(d)) <= d.bond
         /\ Cardinality(d.validAttesters) > 0 =>
              d.bond < Total(SpuriousPayout(d)) + Cardinality(d.validAttesters)
<1> DEFINE n == Cardinality(d.validAttesters)
           half == d.bond \div 2
           rest == d.bond - half
           one  == Each(Address, {TargetRelay(d.target)}, rest)
           many == AttesterPay(d.validAttesters, half)
<1>1. d.bond \in Nat /\ d.validAttesters \in SUBSET Address BY DEF Dispute
<1>2. half \in Nat /\ rest \in Nat /\ half + rest = d.bond BY <1>1
<1>3. SpuriousPayout(d) = Plus(one, many) BY DEF SpuriousPayout
<1> HIDE DEF half, rest
<1>4. one \in [Address -> Nat] /\ Total(one) = rest BY <1>2, SinglePayment
<1>5. /\ many \in [Address -> Nat] /\ Total(many) <= half
      /\ n \in Nat /\ (n > 0 => half < Total(many) + n)
      BY <1>1, <1>2, AttesterPayLaw
<1> HIDE DEF n, one, many
<1>6. /\ Plus(one, many) \in [Address -> Nat]
      /\ Total(Plus(one, many)) = Total(one) + Total(many)
      /\ Total(many) \in Nat
      BY <1>4, <1>5, LedgerArithmetic
<1>7. /\ Total(Plus(one, many)) <= d.bond
      /\ n > 0 => d.bond < Total(Plus(one, many)) + n
      BY <1>1, <1>2, <1>4, <1>5, <1>6
<1>8. QED BY <1>3, <1>6, <1>7 DEF n

-----------------------------------------------------------------------------
(* Type correctness.                                                       *)

\* A group of variables that a step leaves alone keeps its types.
LEMMA Kept ==
  ASSUME TypeOK
  PROVE  /\ UNCHANGED chainVars => ChainTypes'
         /\ UNCHANGED <<balance, relayStake, verifierStake, pendingWithdrawals>>
              => MoneyTypes'
         /\ UNCHANGED <<relayExitTime, isRegisteredVerifier, verifierExitTime,
                        verifierRoster, verifierCount>> => CommitteeTypes'
         /\ UNCHANGED <<didNonce, targetVars>> => TargetTypes'
         /\ UNCHANGED <<disputes, records, batches>> => DisputeTypes'
         /\ UNCHANGED <<counterVars, exposureVars>> => ExposureTypes'
<1> USE DEF TypeOK
<1>1. UNCHANGED chainVars => ChainTypes'
      BY DEF ChainTypes, chainVars, Registry!RegistryTypes
<1>2. UNCHANGED <<balance, relayStake, verifierStake, pendingWithdrawals>>
        => MoneyTypes'
      BY DEF MoneyTypes
<1>3. UNCHANGED <<relayExitTime, isRegisteredVerifier, verifierExitTime,
                  verifierRoster, verifierCount>> => CommitteeTypes'
      BY DEF CommitteeTypes
<1>4. UNCHANGED <<didNonce, targetVars>> => TargetTypes'
      BY DEF TargetTypes, targetVars
<1>5. UNCHANGED <<disputes, records, batches>> => DisputeTypes'
      BY DEF DisputeTypes, Posted
<1>6. UNCHANGED <<counterVars, exposureVars>> => ExposureTypes'
      BY DEF ExposureTypes, counterVars, exposureVars
<1>7. QED BY <1>1, <1>2, <1>3, <1>4, <1>5, <1>6

\* Deposits, announcements and departures touch only stakes and the committee.
LEMMA StakeSteps ==
  ASSUME TypeOK, NEW a \in Address, NEW value \in Nat,
         \/ stakeRelay(a, value) \/ announceUnstake(a) \/ unstakeRelay(a)
         \/ stakeVerifier(a, value) \/ announceVerifierUnstake(a)
         \/ unstakeVerifier(a) \/ deregisterVerifier(a)
  PROVE  TypeOK'
<1> USE DEF TypeOK, relayVars, verifierVars
<1>0. ChainTypes /\ MoneyTypes /\ CommitteeTypes /\ UNSTAKE_DELAY \in Nat
      BY ParameterAssumption
<1>1. CASE stakeRelay(a, value)
  <2>1. MoneyTypes' BY <1>0, <1>1 DEF MoneyTypes, stakeRelay, Deposited
  <2>2. QED BY <1>1, <2>1, Kept DEF stakeRelay, targetVars
<1>2. CASE announceUnstake(a)
  <2>1. CommitteeTypes' BY <1>0, <1>2 DEF ChainTypes, CommitteeTypes, announceUnstake
  <2>2. QED BY <1>2, <2>1, Kept DEF announceUnstake, targetVars
<1>3. CASE unstakeRelay(a)
  <2>1. MoneyTypes' BY <1>0, <1>3 DEF MoneyTypes, unstakeRelay, Credit, Plus, Each
  <2>2. CommitteeTypes' BY <1>0, <1>3 DEF CommitteeTypes, unstakeRelay
  <2>3. QED BY <1>3, <2>1, <2>2, Kept DEF unstakeRelay, targetVars
<1>4. CASE stakeVerifier(a, value)
  <2>1. MoneyTypes' BY <1>0, <1>4 DEF MoneyTypes, stakeVerifier, Deposited
  <2>2. CommitteeTypes'
    <3>1. Append(verifierRoster, a) \in Seq(Address)
          BY <1>0, SeqAppend DEF CommitteeTypes
    <3>2. \/ UNCHANGED <<isRegisteredVerifier, verifierRoster, verifierCount>>
          \/ /\ isRegisteredVerifier' = [isRegisteredVerifier EXCEPT ![a] = TRUE]
             /\ verifierRoster' = Append(verifierRoster, a)
             /\ verifierCount' = verifierCount + 1
          BY <1>4 DEF stakeVerifier
    <3>3. UNCHANGED <<relayExitTime, verifierExitTime>>
          BY <1>4 DEF stakeVerifier
    <3>4. CASE UNCHANGED <<isRegisteredVerifier, verifierRoster, verifierCount>>
          BY <1>0, <3>3, <3>4 DEF CommitteeTypes
    <3>5. CASE /\ isRegisteredVerifier' = [isRegisteredVerifier EXCEPT ![a] = TRUE]
               /\ verifierRoster' = Append(verifierRoster, a)
               /\ verifierCount' = verifierCount + 1
          BY <1>0, <3>1, <3>3, <3>5 DEF CommitteeTypes
    <3>6. QED BY <3>2, <3>4, <3>5
  <2>3. QED BY <1>4, <2>1, <2>2, Kept DEF stakeVerifier, targetVars
<1>5. CASE announceVerifierUnstake(a)
  <2>1. CommitteeTypes'
        BY <1>0, <1>5 DEF ChainTypes, CommitteeTypes, announceVerifierUnstake
  <2>2. QED BY <1>5, <2>1, Kept DEF announceVerifierUnstake, targetVars
<1>6. CASE unstakeVerifier(a)
  <2>1. MoneyTypes' BY <1>0, <1>6 DEF MoneyTypes, unstakeVerifier, Credit, Plus, Each
  <2>2. CommitteeTypes' BY <1>0, <1>6 DEF CommitteeTypes, unstakeVerifier
  <2>3. QED BY <1>6, <2>1, <2>2, Kept DEF unstakeVerifier, targetVars
<1>7. CASE deregisterVerifier(a)
  <2> DEFINE entries == {i \in 1 .. Len(verifierRoster) : verifierRoster[i] = a}
             first == CHOOSE i \in entries : \A j \in entries : i <= j
  <2>1. verifierRoster' \in Seq(Address) /\ verifierCount' \in Nat
    <3>1. CASE entries = {}
          BY <1>0, <1>7, <3>1 DEF CommitteeTypes, deregisterVerifier
    <3>2. CASE entries # {}
      <4> DEFINE swapped == [verifierRoster EXCEPT ![first] =
                               verifierRoster[Len(verifierRoster)]]
      <4>1. verifierRoster \in Seq(Address) /\ verifierCount \in Nat
            BY <1>0 DEF CommitteeTypes
      <4>2. \A j \in 1 .. Len(verifierRoster) - 1 : swapped[j] \in Address
            BY <3>2, <4>1
      <4>3. SubSeq(swapped, 1, Len(verifierRoster) - 1) \in Seq(Address)
        <5> HIDE DEF swapped
        <5>1. Len(verifierRoster) - 1 \in Int BY <4>1
        <5>2. QED BY <4>2, <5>1, SubSeqProperties
      <4>4. /\ verifierRoster' = SubSeq(swapped, 1, Len(verifierRoster) - 1)
            /\ verifierCount' = verifierCount - 1 /\ verifierCount > 0
            BY <1>7, <3>2 DEF deregisterVerifier, WithoutEntry
      <4>5. QED BY <4>1, <4>3, <4>4
    <3>3. QED BY <3>1, <3>2
  <2>2. CommitteeTypes'
        BY <1>0, <1>7, <2>1 DEF CommitteeTypes, deregisterVerifier
  <2>3. QED BY <1>7, <2>2, Kept DEF deregisterVerifier, targetVars
<1>8. QED BY <1>1, <1>2, <1>3, <1>4, <1>5, <1>6, <1>7

\* Withdrawals, up to the call of the receiver.
LEMMA WithdrawStep ==
  ASSUME TypeOK, NEW a \in Address, withdraw(a)
  PROVE  TypeOK'
<1> USE DEF TypeOK, relayVars, verifierVars
<1>1. ChainTypes' BY DEF ChainTypes, withdraw, Registry!RegistryTypes
<1>2. MoneyTypes' BY DEF MoneyTypes, withdraw
<1>3. QED BY <1>1, <1>2, Kept DEF withdraw, targetVars

\* The receiver's return, and the next block.
LEMMA ClockSteps ==
  ASSUME TypeOK, withdrawReturns \/ Tick
  PROVE  TypeOK'
<1> USE DEF TypeOK, relayVars, verifierVars
<1>1. ChainTypes' BY DEF ChainTypes, withdrawReturns, Tick, Registry!RegistryTypes
<1>2. QED BY <1>1, Kept DEF withdrawReturns, Tick, targetVars

\* Registry calls: a document that is written keeps the registry's invariant.
LEMMA RegistryStep ==
  ASSUME TypeOK, NEW a \in Address, NEW did \in DID, registryCall(a, did)
  PROVE  TypeOK'
<1> USE DEF TypeOK, relayVars, verifierVars
<1>1. Registry!RegistryTypes'
  <2>1. /\ dids \in [DID -> Registry!DIDDocument]
        /\ \A d \in DID :
             /\ dids[d].registered <=> dids[d].owner \in Address
             /\ dids[d].registered <=> dids[d].publicKey \in FalconKey
             /\ dids[d].active => dids[d].registered
        BY DEF ChainTypes, Registry!RegistryTypes
  <2>2. ASSUME NEW doc \in Registry!DIDDocument,
               dids' = [dids EXCEPT ![did] = doc],
               doc.registered <=> doc.owner \in Address,
               doc.registered <=> doc.publicKey \in FalconKey,
               doc.active => doc.registered
        PROVE  Registry!RegistryTypes'
        BY <2>1, <2>2 DEF Registry!RegistryTypes
  <2>3. CASE \E key \in PublicKey : Registry!registerDID(a, did, key)
    <3>1. PICK key \in FalconKey :
            dids' = [dids EXCEPT ![did] = [owner |-> a, publicKey |-> key,
                                           registered |-> TRUE, active |-> TRUE]]
          BY <2>3 DEF Registry!registerDID, Registry!WellSizedKey
    <3>2. [owner |-> a, publicKey |-> key, registered |-> TRUE, active |-> TRUE]
            \in Registry!DIDDocument
          BY DEF Registry!DIDDocument
    <3>3. QED BY <2>2, <3>1, <3>2
  <2>4. CASE Registry!deactivateDID(a, did)
    <3>1. dids[did] \in Registry!DIDDocument BY <2>1
    <3>2. [dids[did] EXCEPT !.active = FALSE] \in Registry!DIDDocument
          BY <3>1 DEF Registry!DIDDocument
    <3>3. dids' = [dids EXCEPT ![did] = [dids[did] EXCEPT !.active = FALSE]]
          BY <2>4 DEF Registry!deactivateDID
    <3> DEFINE doc == [dids[did] EXCEPT !.active = FALSE]
    <3>4. /\ doc.owner = dids[did].owner /\ doc.active = FALSE
          /\ doc.publicKey = dids[did].publicKey
          /\ doc.registered = dids[did].registered
          BY <3>1 DEF Registry!DIDDocument
    <3> HIDE DEF doc
    <3>5. QED BY <2>1, <2>2, <3>2, <3>3, <3>4 DEF doc
  <2>5. QED BY <2>3, <2>4 DEF registryCall
<1>2. ChainTypes'
  <2>1. now' \in Nat /\ guard' \in {1, 2} BY DEF ChainTypes, registryCall
  <2>2. QED BY <1>1, <2>1 DEF ChainTypes, Registry!RegistryTypes
<1>3. QED BY <1>2, Kept DEF registryCall, targetVars

\* Posting more, or changing states, loses no target that was posted.
LEMMA PostedStays ==
  ASSUME DisputeTypes, disputes' \in Seq(Dispute), Len(disputes') <= MaxDisputes,
         \A i \in DOMAIN disputes' :
           \/ i \in DOMAIN disputes /\ disputes'[i].target = disputes[i].target
           \/ Posted(disputes'[i].target),
         DOMAIN records \subseteq DOMAIN records',
         DOMAIN batches \subseteq DOMAIN batches',
         \A b \in DOMAIN batches : batches'[b].merkleRoot = batches[b].merkleRoot
  PROVE  DisputeTypes'
BY DEF DisputeTypes, Posted

\* A single submission.
LEMMA SubmitAccountableStep ==
  ASSUME TypeOK, NEW a \in Address, NEW dataHash \in Payload, NEW did \in DID,
         NEW sig \in SigLength, submitAccountable(a, dataHash, did, sig)
  PROVE  TypeOK'
<1> USE DEF TypeOK, relayVars, verifierVars, chainVars, targetVars
<1> DEFINE r == [dataHash |-> dataHash, didHash |-> did, falconSignature |-> sig,
                 pubKeyHash |-> dids[did].publicKey, submittedAt |-> now,
                 relay |-> a, nonce |-> didNonce'[did], state |-> "Provisional"]
<1>1. didNonce' \in [DID -> Nat]
      BY DEF TargetTypes, submitAccountable
<1>2. dids[did].publicKey \in FalconKey /\ sig \in Nat /\ now \in Nat
      BY ParameterAssumption
      DEF ChainTypes, Registry!RegistryTypes, submitAccountable, Accepted, Registry!isActive
<1>3. r \in Record
      BY <1>1, <1>2 DEF Record, RecordState
<1>4. records' = Append(records, r)
      BY DEF submitAccountable, Registry!getPublicKey
<1>5. records \in Seq(Record) /\ Len(records) < MaxRecords
      BY DEF TargetTypes, submitAccountable
<1> HIDE DEF r
<1>6. /\ records' \in Seq(Record) /\ Len(records') = Len(records) + 1
      /\ DOMAIN records = 1 .. Len(records) /\ DOMAIN records' = 1 .. Len(records) + 1
      BY <1>3, <1>4, <1>5, SeqAppend
<1>7. Len(records) \in Nat /\ Len(records') <= MaxRecords /\ MaxRecords \in Nat
      BY <1>5, <1>6, InputAssumption
<1>8. TargetTypes'
      BY <1>1, <1>6, <1>7 DEF TargetTypes, submitAccountable
<1>9. DisputeTypes'
      BY <1>6, <1>7, PostedStays DEF DisputeTypes, submitAccountable
<1>10. QED BY <1>8, <1>9, Kept DEF submitAccountable

\* How often a DID occurs in a part of a batch is a number.
LEMMA OccurrencesType ==
  ASSUME NEW k \in Nat, NEW i \in 0 .. k, NEW didHashes \in [1 .. k -> DID],
         NEW did \in DID
  PROVE  Occurrences(didHashes, did, i) \in Nat
<1> DEFINE at == {j \in 1 .. i : didHashes[j] = did}
<1>1. IsFiniteSet(1 .. i) BY FS_Interval
<1>2. IsFiniteSet(at) BY <1>1, FS_Subset
<1>3. Cardinality(at) \in Nat BY <1>2, FS_CardinalityType
<1>4. QED BY <1>3 DEF Occurrences

\* A batch submission.
LEMMA SubmitBatchStep ==
  ASSUME TypeOK, NEW a \in Address, NEW k \in 0 .. MaxLeaves,
         NEW didHashes \in [1 .. k -> DID], NEW dataHashes \in BatchInput(Payload),
         NEW length, submitBatch(a, didHashes, dataHashes, length)
  PROVE  TypeOK'
<1> USE DEF TypeOK, relayVars, verifierVars, chainVars, targetVars
<1> DEFINE Leaf_(i) == [batchIndex |-> Len(batches) + 1, didHash |-> didHashes[i],
                        nonce |-> LeafNonce(didHashes, i), dataHash |-> dataHashes[i]]
           root == [i \in 1 .. k |-> Leaf_(i)]
           b == [merkleRoot |-> root, submittedAt |-> now, relay |-> a,
                 revokedLeafCount |-> 0, state |-> "Provisional"]
<1>1. k \in Nat /\ Len(didHashes) = k
      BY InputAssumption
<1>2. /\ batches \in Seq(Batch) /\ Len(batches) < MaxBatches
      /\ didNonce \in [DID -> Nat] /\ now \in Nat
      BY DEF TargetTypes, ChainTypes, submitBatch
<1>3. PICK m \in 0 .. MaxLeaves : dataHashes \in [1 .. m -> Payload]
      BY DEF BatchInput
<1>4. m = k
  <2>1. Len(dataHashes) = k BY <1>1 DEF submitBatch
  <2>2. m \in Nat BY InputAssumption
  <2>3. Len(dataHashes) = m BY <1>3, <2>2
  <2>4. QED BY <2>1, <2>3
<1>5. didNonce' \in [DID -> Nat]
  <2>1. \A did \in DID : Occurrences(didHashes, did, k) \in Nat
        BY <1>1, OccurrencesType
  <2>2. didNonce' = [did \in DID |-> didNonce[did] + Occurrences(didHashes, did, k)]
        BY <1>1 DEF submitBatch
  <2>3. QED BY <1>2, <2>1, <2>2
<1>6. \A i \in 1 .. k : LeafNonce(didHashes, i) \in Nat
  <2> SUFFICES ASSUME NEW i \in 1 .. k PROVE LeafNonce(didHashes, i) \in Nat
      OBVIOUS
  <2>1. didHashes[i] \in DID /\ i \in 0 .. k BY <1>1
  <2>2. Occurrences(didHashes, didHashes[i], i) \in Nat
        BY <1>1, <2>1, OccurrencesType
  <2>3. didNonce[didHashes[i]] \in Nat BY <1>2, <2>1
  <2>4. QED BY <2>2, <2>3 DEF LeafNonce
<1>7. \A i \in 1 .. k : Leaf_(i) \in Leaf
  <2> SUFFICES ASSUME NEW i \in 1 .. k PROVE Leaf_(i) \in Leaf
      OBVIOUS
  <2>1. /\ Len(batches) + 1 \in Index /\ didHashes[i] \in DID
        /\ dataHashes[i] \in Payload
        BY <1>2, <1>3, <1>4 DEF Index
  <2>2. QED BY <1>6, <2>1 DEF Leaf
<1> HIDE DEF Leaf_
<1>8. root \in Seq(Leaf) BY <1>1, <1>7, IsASeq
<1>9. batches' = Append(batches, b) BY <1>1 DEF submitBatch, Leaf_
<1> HIDE DEF root
<1>10. b \in Batch BY <1>2, <1>8 DEF Batch, RecordState
<1> HIDE DEF b
<1>11. /\ batches' \in Seq(Batch) /\ Len(batches') = Len(batches) + 1
       /\ DOMAIN batches = 1 .. Len(batches) /\ DOMAIN batches' = 1 .. Len(batches) + 1
       /\ \A i \in DOMAIN batches : batches'[i] = batches[i]
       BY <1>2, <1>9, <1>10, SeqAppend
<1>12. Len(batches) \in Nat /\ Len(batches') <= MaxBatches /\ MaxBatches \in Nat
       BY <1>2, <1>11, InputAssumption
<1>13. TargetTypes'
       BY <1>5, <1>11, <1>12 DEF TargetTypes, submitBatch
<1>14. DisputeTypes'
       BY <1>11, <1>12, PostedStays DEF DisputeTypes, submitBatch
<1>15. QED BY <1>13, <1>14, Kept DEF submitBatch

\* Exposure counters stay natural numbers: a release that would go below zero
\* is no step.
LEMMA ReleasedType ==
  ASSUME NEW live \in [Address -> Nat], NEW S, Releasable(live, S),
         NEW r, r = Released(live, S)
  PROVE  r \in [Address -> Nat]
BY DEF Releasable, Released

\* Records change their state only.
LEMMA RecordChange ==
  ASSUME TargetTypes, NEW i \in DOMAIN records, NEW s \in RecordState,
         records' = [records EXCEPT ![i].state = s]
  PROVE  /\ records' \in Seq(Record) /\ Len(records') <= MaxRecords
         /\ DOMAIN records' = DOMAIN records
<1> DEFINE r == [records[i] EXCEPT !.state = s]
<1>1. records \in Seq(Record) /\ Len(records) <= MaxRecords BY DEF TargetTypes
<1>2. records[i] \in Record BY <1>1
<1>3. r \in Record BY <1>2 DEF Record
<1>4. records' = [records EXCEPT ![i] = r] OBVIOUS
<1> HIDE DEF r
<1>5. /\ records' \in Seq(Record) /\ Len(records') = Len(records)
      /\ DOMAIN records' = DOMAIN records
      BY <1>1, <1>3, <1>4, SeqUpdate, SMTT(60)
<1>6. QED BY <1>1, <1>5

\* Batches change their state and their count of revoked leaves only.
LEMMA BatchChange ==
  ASSUME TargetTypes, NEW b \in DOMAIN batches, NEW x \in Batch,
         x.merkleRoot = batches[b].merkleRoot,
         batches' = [batches EXCEPT ![b] = x]
  PROVE  /\ batches' \in Seq(Batch) /\ Len(batches') <= MaxBatches
         /\ DOMAIN batches' = DOMAIN batches
         /\ \A c \in DOMAIN batches : batches'[c].merkleRoot = batches[c].merkleRoot
<1>1. batches \in Seq(Batch) /\ Len(batches) <= MaxBatches BY DEF TargetTypes
<1>2. /\ batches' \in Seq(Batch) /\ Len(batches') = Len(batches)
      /\ DOMAIN batches' = DOMAIN batches
      /\ batches'[b] = x
      /\ \A c \in DOMAIN batches : c # b => batches'[c] = batches[c]
      BY <1>1, SeqUpdate
<1>3. QED BY <1>1, <1>2

\* The end of a record's challenge window.
LEMMA FinalizeRecordStep ==
  ASSUME TypeOK, NEW i \in DOMAIN records, finalizeRecord(i)
  PROVE  TypeOK'
<1> USE DEF TypeOK, relayVars, verifierVars, chainVars
<1> DEFINE target == RecordTarget(i)
<1>1. /\ records' = [records EXCEPT ![i].state = "Confirmed"]
      /\ "Confirmed" \in RecordState
      BY DEF finalizeRecord, RecordState
<1>2. /\ records' \in Seq(Record) /\ Len(records') <= MaxRecords
      /\ DOMAIN records' = DOMAIN records
      BY <1>1, RecordChange
<1>3. TargetTypes' BY <1>2 DEF TargetTypes, finalizeRecord
<1>4. DisputeTypes' BY <1>2, PostedStays DEF DisputeTypes, finalizeRecord
<1>5. /\ verifierLiveExposures \in [Address -> Nat]
      /\ targetValidList \in [Target -> SUBSET Address]
      BY DEF ExposureTypes
<1> HIDE DEF target
<1>6. verifierLiveExposures' \in [Address -> Nat]
  <2>1. Releasable(verifierLiveExposures, targetValidList[target])
        /\ verifierLiveExposures' =
             Released(verifierLiveExposures, targetValidList[target])
        BY DEF finalizeRecord, ReleaseExposures, target
  <2>2. QED BY <1>5, <2>1, ReleasedType
<1>7. targetValidList' \in [Target -> SUBSET Address]
      BY <1>5 DEF finalizeRecord, ReleaseExposures
<1>8. ExposureTypes'
      BY <1>6, <1>7 DEF ExposureTypes, finalizeRecord, counterVars
<1>9. QED BY <1>3, <1>4, <1>8, Kept DEF finalizeRecord

\* The end of a batch's challenge window.
LEMMA FinalizeBatchStep ==
  ASSUME TypeOK, NEW b \in DOMAIN batches, finalizeBatch(b)
  PROVE  TypeOK'
<1> USE DEF TypeOK, relayVars, verifierVars, chainVars
<1> DEFINE x == [batches[b] EXCEPT !.state = "Confirmed"]
           remembered == {LeafTarget(b, l) : l \in exposedLeaves[b]}
           Hits(v) == Cardinality({t \in remembered : v \in targetValidList[t]})
<1>1. batches \in Seq(Batch) /\ b \in 1 .. MaxBatches
  <2>1. batches \in Seq(Batch) /\ Len(batches) <= MaxBatches BY DEF TargetTypes
  <2>2. b \in 1 .. Len(batches) BY <2>1
  <2>3. QED BY <2>1, <2>2, InputAssumption
<1>2. x \in Batch /\ x.merkleRoot = batches[b].merkleRoot
  <2>1. batches[b] \in Batch BY <1>1
  <2>2. QED BY <2>1 DEF Batch, RecordState
<1>3. batches' = [batches EXCEPT ![b] = x] BY DEF finalizeBatch
<1> HIDE DEF x
<1>4. /\ batches' \in Seq(Batch) /\ Len(batches') <= MaxBatches
      /\ DOMAIN batches' = DOMAIN batches
      /\ \A c \in DOMAIN batches : batches'[c].merkleRoot = batches[c].merkleRoot
      BY <1>2, <1>3, BatchChange
<1>5. TargetTypes' BY <1>4 DEF TargetTypes, finalizeBatch
<1>6. DisputeTypes' BY <1>4, PostedStays DEF DisputeTypes, finalizeBatch
<1>7. /\ verifierLiveExposures \in [Address -> Nat]
      /\ targetValidList \in [Target -> SUBSET Address]
      /\ exposedLeaves \in [1 .. MaxBatches -> SUBSET (1 .. MaxLeaves)]
      BY DEF ExposureTypes
<1>8. IsFiniteSet(remembered)
  <2> DEFINE leaves == exposedLeaves[b]
             keyOf == [l \in leaves |-> LeafTarget(b, l)]
  <2>1. leaves \subseteq 1 .. MaxLeaves BY <1>1, <1>7
  <2>2. IsFiniteSet(leaves)
    <3>1. IsFiniteSet(1 .. MaxLeaves) BY FS_Interval, InputAssumption
    <3> HIDE DEF leaves
    <3>2. QED BY <2>1, <3>1, FS_Subset
  <2>3. keyOf \in Surjection(leaves, remembered) BY DEF Surjection
  <2> HIDE DEF keyOf, remembered, leaves
  <2>4. QED BY <2>2, <2>3, FS_Surjection
<1>9. \A v \in Address : Hits(v) \in Nat
  <2> SUFFICES ASSUME NEW v \in Address PROVE Hits(v) \in Nat
      OBVIOUS
  <2> DEFINE hit == {t \in remembered : v \in targetValidList[t]}
  <2>1. hit \subseteq remembered OBVIOUS
  <2> HIDE DEF remembered
  <2>2. QED BY <1>8, <2>1, FS_Subset, FS_CardinalityType
<1>10. verifierLiveExposures' \in [Address -> Nat]
  <2>1. /\ \A v \in Address : verifierLiveExposures[v] >= Hits(v)
        /\ verifierLiveExposures' =
             Minus(verifierLiveExposures, [v \in Address |-> Hits(v)])
        BY DEF finalizeBatch
  <2> HIDE DEF Hits
  <2>2. QED BY <1>7, <1>9, <2>1 DEF Minus
<1>11. targetValidList' \in [Target -> SUBSET Address]
  <2>1. targetValidList' = [t \in Target |-> IF t \in remembered THEN {}
                                             ELSE targetValidList[t]]
        BY DEF finalizeBatch
  <2> HIDE DEF remembered
  <2>2. QED BY <1>7, <2>1
<1>12. exposedLeaves' \in [1 .. MaxBatches -> SUBSET (1 .. MaxLeaves)]
       BY <1>7 DEF finalizeBatch
<1>13. ExposureTypes'
       BY <1>10, <1>11, <1>12 DEF ExposureTypes, finalizeBatch, counterVars
<1>14. QED BY <1>5, <1>6, <1>13, Kept DEF finalizeBatch

\* What opening a dispute about a posted target does to the list of disputes.
LEMMA OpenDisputeTypes ==
  ASSUME TypeOK, NEW a \in Address, NEW target \in Target, NEW bond \in Nat,
         Posted(target), OpenDispute(a, target, bond)
  PROVE  /\ disputes' \in Seq(Dispute) /\ Len(disputes') <= MaxDisputes
         /\ \A i \in DOMAIN disputes' :
              \/ i \in DOMAIN disputes /\ disputes'[i].target = disputes[i].target
              \/ disputes'[i].target = target
         /\ relayActiveDisputes' \in [Address -> Nat]
         /\ balance' \in Nat
<1> DEFINE d == [target |-> target, challenger |-> a, bond |-> bond,
                 deadline |-> now + challengePeriod, fraudAttesters |-> {},
                 validAttesters |-> {}, resolved |-> FALSE]
<1>1. /\ disputes \in Seq(Dispute) /\ Len(disputes) < MaxDisputes
      /\ now \in Nat /\ balance \in Nat /\ TargetTypes
      /\ relayActiveDisputes \in [Address -> Nat]
      BY DEF TypeOK, DisputeTypes, ChainTypes, MoneyTypes, ExposureTypes, OpenDispute
<1>2. d \in Dispute /\ d.target = target BY <1>1, ParameterAssumption DEF Dispute
<1>3. disputes' = Append(disputes, d) BY DEF OpenDispute
<1> HIDE DEF d
<1>4. /\ disputes' \in Seq(Dispute) /\ Len(disputes') = Len(disputes) + 1
      /\ DOMAIN disputes = 1 .. Len(disputes)
      /\ DOMAIN disputes' = 1 .. Len(disputes) + 1
      /\ disputes'[Len(disputes) + 1] = d
      /\ \A i \in DOMAIN disputes : disputes'[i] = disputes[i]
      BY <1>1, <1>2, <1>3, SeqAppend
<1>5. Len(disputes) \in Nat /\ Len(disputes') <= MaxDisputes
      BY <1>1, <1>4, InputAssumption
<1>6. TargetRelay(target) \in Address BY <1>1, TargetRelayType
<1>7. relayActiveDisputes' \in [Address -> Nat] /\ balance' \in Nat
  <2> DEFINE x == TargetRelay(target)
  <2>1. relayActiveDisputes' = [relayActiveDisputes EXCEPT ![x] = @ + 1]
        BY DEF OpenDispute
  <2>2. balance' = balance + bond BY DEF OpenDispute
  <2>3. x \in Address BY <1>6
  <2> HIDE DEF x
  <2>4. QED BY <1>1, <2>1, <2>2, <2>3
<1>8. QED BY <1>2, <1>4, <1>5, <1>7

\* A dispute about a record.
LEMMA OpenDisputeStep ==
  ASSUME TypeOK, NEW a \in Address, NEW i \in DOMAIN records, NEW bond \in Nat,
         openDispute(a, i, bond)
  PROVE  TypeOK'
<1> USE DEF TypeOK, relayVars, verifierVars, chainVars
<1> DEFINE target == RecordTarget(i)
<1>1. i \in 1 .. MaxRecords
  <2>1. records \in Seq(Record) /\ Len(records) <= MaxRecords BY DEF TargetTypes
  <2>2. i \in 1 .. Len(records) BY <2>1
  <2>3. QED BY <2>1, <2>2, InputAssumption
<1>2. target \in Target /\ Posted(target)
      BY <1>1, TargetCases DEF Posted, RecordTarget
<1>3. OpenDispute(a, target, bond) BY DEF openDispute
<1>4. target[1] = 0 /\ target[2] = i BY DEF RecordTarget
<1> HIDE DEF target
<1>5. /\ disputes' \in Seq(Dispute) /\ Len(disputes') <= MaxDisputes
      /\ \A j \in DOMAIN disputes' :
           \/ j \in DOMAIN disputes /\ disputes'[j].target = disputes[j].target
           \/ disputes'[j].target = target
      /\ relayActiveDisputes' \in [Address -> Nat] /\ balance' \in Nat
      BY <1>2, <1>3, OpenDisputeTypes
<1>6. /\ records' = [records EXCEPT ![i].state = "Disputed"]
      /\ "Disputed" \in RecordState
      BY DEF openDispute, RecordState
<1>7. /\ records' \in Seq(Record) /\ Len(records') <= MaxRecords
      /\ DOMAIN records' = DOMAIN records
      BY <1>6, RecordChange
<1>8. TargetTypes' BY <1>7 DEF TargetTypes, openDispute
<1>9. DisputeTypes' BY <1>2, <1>5, <1>7, PostedStays DEF openDispute
<1>10. MoneyTypes' BY <1>5 DEF MoneyTypes, openDispute
<1>11. ExposureTypes' BY <1>5 DEF ExposureTypes, openDispute, exposureVars
<1>12. QED BY <1>8, <1>9, <1>10, <1>11, Kept DEF openDispute

\* A dispute about a leaf of a batch.
LEMMA OpenBatchLeafDisputeStep ==
  ASSUME TypeOK, NEW a \in Address, NEW b \in DOMAIN batches,
         NEW l \in 1 .. MaxLeaves, NEW leaf, NEW bond \in Nat,
         openBatchLeafDispute(a, b, l, leaf, bond)
  PROVE  TypeOK'
<1> USE DEF TypeOK, relayVars, verifierVars, chainVars
<1> DEFINE target == LeafTarget(b, l)
<1>1. b \in 1 .. MaxBatches /\ l \in DOMAIN batches[b].merkleRoot
  <2>1. batches \in Seq(Batch) /\ Len(batches) <= MaxBatches BY DEF TargetTypes
  <2>2. b \in 1 .. Len(batches) BY <2>1
  <2>3. b \in 1 .. MaxBatches BY <2>1, <2>2, InputAssumption
  <2>4. batches[b].merkleRoot \in Seq(Leaf)
    <3>1. batches[b] \in Batch BY <2>1
    <3>2. QED BY <3>1 DEF Batch
  <2>5. l \in 1 .. Len(batches[b].merkleRoot) BY DEF openBatchLeafDispute
  <2>6. QED BY <2>3, <2>4, <2>5
<1>2. target \in Target /\ Posted(target)
      BY <1>1, TargetCases DEF Posted, LeafTarget
<1>3. OpenDispute(a, target, bond) BY DEF openBatchLeafDispute
<1> HIDE DEF target
<1>4. /\ disputes' \in Seq(Dispute) /\ Len(disputes') <= MaxDisputes
      /\ \A j \in DOMAIN disputes' :
           \/ j \in DOMAIN disputes /\ disputes'[j].target = disputes[j].target
           \/ disputes'[j].target = target
      /\ relayActiveDisputes' \in [Address -> Nat] /\ balance' \in Nat
      BY <1>2, <1>3, OpenDisputeTypes
<1>5. batchLeafState' \in [1 .. MaxBatches -> [1 .. MaxLeaves -> LeafState]]
      BY DEF TargetTypes, openBatchLeafDispute, LeafState
<1>6. TargetTypes' BY <1>5 DEF TargetTypes, openBatchLeafDispute
<1>7. DisputeTypes' BY <1>2, <1>4, PostedStays DEF openBatchLeafDispute, Posted
<1>8. MoneyTypes' BY <1>4 DEF MoneyTypes, openBatchLeafDispute
<1>9. ExposureTypes'
  <2>1. batchOpenLeafDisputes' \in [1 .. MaxBatches -> Nat]
    <3>1. batchOpenLeafDisputes \in [1 .. MaxBatches -> Nat] BY DEF ExposureTypes
    <3>2. batchOpenLeafDisputes' = [batchOpenLeafDisputes EXCEPT ![b] = @ + 1]
          BY DEF openBatchLeafDispute
    <3>3. QED BY <1>1, <3>1, <3>2
  <2>2. UNCHANGED exposureVars BY DEF openBatchLeafDispute
  <2>3. QED BY <1>4, <2>1, <2>2 DEF ExposureTypes, exposureVars
<1>10. QED BY <1>6, <1>7, <1>8, <1>9, Kept DEF openBatchLeafDispute

\* A verdict changes a target's state, and nothing that was posted.
LEMMA VerdictTypes ==
  ASSUME TargetTypes, NEW target \in Target, Posted(target),
         RevokeTarget(target) \/ UpholdTarget(target), UNCHANGED didNonce
  PROVE  /\ TargetTypes'
         /\ DOMAIN records \subseteq DOMAIN records'
         /\ DOMAIN batches \subseteq DOMAIN batches'
         /\ \A b \in DOMAIN batches : batches'[b].merkleRoot = batches[b].merkleRoot
<1> DEFINE n == target[2]
           l == target[3]
<1>1. CASE target[1] = 0
  <2>1. n \in DOMAIN records BY <1>1 DEF Posted
  <2>2. PICK s \in RecordState : records' = [records EXCEPT ![n].state = s]
        BY <1>1 DEF RevokeTarget, UpholdTarget, RecordState
  <2>3. UNCHANGED <<batches, batchLeafState>>
        BY <1>1 DEF RevokeTarget, UpholdTarget
  <2> HIDE DEF n
  <2>4. /\ records' \in Seq(Record) /\ Len(records') <= MaxRecords
        /\ DOMAIN records' = DOMAIN records
        BY <2>1, <2>2, RecordChange
  <2>5. QED BY <2>3, <2>4 DEF TargetTypes
<1>2. CASE target[1] # 0
  <2>1. n \in DOMAIN batches BY <1>2 DEF Posted
  <2>2. n \in 1 .. MaxBatches /\ l \in 1 .. MaxLeaves BY <1>2, TargetCases
  <2>3. UNCHANGED records BY <1>2 DEF RevokeTarget, UpholdTarget
  <2>4. PICK s \in LeafState :
          batchLeafState' = [batchLeafState EXCEPT ![n][l] = s]
        BY <1>2 DEF RevokeTarget, UpholdTarget, LeafState
  <2>5. batchLeafState' \in [1 .. MaxBatches -> [1 .. MaxLeaves -> LeafState]]
    <3> HIDE DEF n, l
    <3>1. QED BY <2>2, <2>4 DEF TargetTypes
  <2> DEFINE x == [batches[n] EXCEPT !.revokedLeafCount = @ + 1]
  <2>6. batches' = batches \/ batches' = [batches EXCEPT ![n] = x]
        BY <1>2 DEF RevokeTarget, UpholdTarget
  <2>7. x \in Batch /\ x.merkleRoot = batches[n].merkleRoot
    <3>1. batches[n] \in Batch BY <2>1 DEF TargetTypes
    <3>2. QED BY <3>1 DEF Batch
  <2> HIDE DEF n, x
  <2>8. /\ batches' \in Seq(Batch) /\ Len(batches') <= MaxBatches
        /\ DOMAIN batches' = DOMAIN batches
        /\ \A b \in DOMAIN batches : batches'[b].merkleRoot = batches[b].merkleRoot
        BY <2>1, <2>6, <2>7, BatchChange DEF TargetTypes
  <2>9. QED BY <2>3, <2>5, <2>8 DEF TargetTypes
<1>3. QED BY <1>1, <1>2

\* Closing a dispute takes one from counters that are not zero.
LEMMA CloseTypes ==
  ASSUME TypeOK, NEW target \in Target, Posted(target), CloseDispute(target)
  PROVE  /\ relayActiveDisputes' \in [Address -> Nat]
         /\ batchOpenLeafDisputes' \in [1 .. MaxBatches -> Nat]
<1> DEFINE r == TargetRelay(target)
<1>1. /\ TargetTypes /\ relayActiveDisputes \in [Address -> Nat]
      /\ batchOpenLeafDisputes \in [1 .. MaxBatches -> Nat]
      BY DEF TypeOK, ExposureTypes
<1>2. r \in Address BY <1>1, TargetRelayType
<1>3. /\ relayActiveDisputes[r] > 0
      /\ relayActiveDisputes' = [relayActiveDisputes EXCEPT ![r] = @ - 1]
      BY DEF CloseDispute, ReliefOf
<1> HIDE DEF r
<1>4. relayActiveDisputes' \in [Address -> Nat] BY <1>1, <1>2, <1>3
<1>5. batchOpenLeafDisputes' \in [1 .. MaxBatches -> Nat]
  <2>1. CASE target[1] = 0 BY <1>1, <2>1 DEF CloseDispute
  <2>2. CASE target[1] # 0
    <3> DEFINE b == target[2]
    <3>1. b \in 1 .. MaxBatches BY <2>2, TargetCases
    <3>2. /\ batchOpenLeafDisputes[b] > 0
          /\ batchOpenLeafDisputes' = [batchOpenLeafDisputes EXCEPT ![b] = @ - 1]
          BY <2>2 DEF CloseDispute
    <3> HIDE DEF b
    <3>3. QED BY <1>1, <3>1, <3>2
  <2>3. QED BY <2>1, <2>2
<1>6. QED BY <1>4, <1>5

\* The same dispute, except for its votes and for being resolved.
LEMMA DisputeChange ==
  ASSUME DisputeTypes, NEW i \in DOMAIN disputes, NEW d \in Dispute,
         d.target = disputes[i].target, disputes' = [disputes EXCEPT ![i] = d]
  PROVE  /\ disputes' \in Seq(Dispute) /\ Len(disputes') <= MaxDisputes
         /\ DOMAIN disputes' = DOMAIN disputes
         /\ \A j \in DOMAIN disputes' :
              j \in DOMAIN disputes /\ disputes'[j].target = disputes[j].target
<1>1. disputes \in Seq(Dispute) /\ Len(disputes) <= MaxDisputes BY DEF DisputeTypes
<1>2. /\ disputes' \in Seq(Dispute) /\ Len(disputes') = Len(disputes)
      /\ DOMAIN disputes' = DOMAIN disputes
      /\ disputes'[i] = d
      /\ \A j \in DOMAIN disputes : j # i => disputes'[j] = disputes[j]
      BY <1>1, SeqUpdate
<1>3. QED BY <1>1, <1>2

\* Casting a vote and resolving change only the votes and the flag.
LEMMA VotedType ==
  ASSUME NEW d \in Dispute, NEW v \in Address, NEW f \in BOOLEAN,
         NEW e, e = Voted(d, v, f)
  PROVE  /\ e \in Dispute
         /\ e.target = d.target /\ e.bond = d.bond /\ e.resolved = d.resolved
BY DEF Voted, Dispute

\* And setting the flag changes nothing else.
LEMMA ResolvedType ==
  ASSUME NEW d \in Dispute, NEW e, e = [d EXCEPT !.resolved = TRUE]
  PROVE  /\ e \in Dispute
         /\ e.target = d.target /\ e.bond = d.bond /\ e.resolved
BY DEF Dispute

\* A leaf is remembered under its batch.
LEMMA RememberedType ==
  ASSUME ExposureTypes, NEW target \in Target, NEW e,
         e = RememberExposedLeaf(target)
  PROVE  e \in [1 .. MaxBatches -> SUBSET (1 .. MaxLeaves)]
<1> DEFINE b == target[2]
           l == target[3]
<1>1. exposedLeaves \in [1 .. MaxBatches -> SUBSET (1 .. MaxLeaves)]
      BY DEF ExposureTypes
<1>2. CASE target[1] = 0 BY <1>1, <1>2 DEF RememberExposedLeaf
<1>3. CASE target[1] # 0
  <2>1. b \in 1 .. MaxBatches /\ l \in 1 .. MaxLeaves BY <1>3, TargetCases
  <2>2. e = [exposedLeaves EXCEPT ![b] = @ \cup {l}]
        BY <1>3 DEF RememberExposedLeaf
  <2> HIDE DEF b, l
  <2>3. QED BY <1>1, <2>1, <2>2
<1>4. QED BY <1>2, <1>3

\* A verdict of fraud keeps the types, and pays out what it takes in but dust.
LEMMA FraudStep ==
  ASSUME TypeOK, NEW i \in DOMAIN disputes, NEW d \in Dispute,
         d.target = disputes[i].target, ResolveFraud(i, d),
         UNCHANGED <<chainVars, balance, relayExitTime, isRegisteredVerifier,
                     verifierExitTime, verifierRoster, verifierCount, didNonce>>
  PROVE  /\ TypeOK'
         /\ Total(verifierStake') + Total(relayStake') + Total(pendingWithdrawals')
              <= Total(verifierStake) + Total(relayStake)
                   + Total(pendingWithdrawals) + d.bond
         /\ Cardinality(d.fraudAttesters) > 0 =>
              Total(verifierStake) + Total(relayStake)
                   + Total(pendingWithdrawals) + d.bond
                <= Total(verifierStake') + Total(relayStake')
                     + Total(pendingWithdrawals') + Cardinality(d.fraudAttesters)
<1> DEFINE n == Cardinality(d.fraudAttesters)
           target == d.target
           new == NewlyExposed(target, d.validAttesters)
           live == Exposed(verifierLiveExposures, new)
           paid == FraudPayout(d)
           resolved == [d EXCEPT !.resolved = TRUE]
<1>1. MoneyTypes /\ TargetTypes /\ DisputeTypes /\ ExposureTypes BY DEF TypeOK
<1>2. target \in Target /\ Posted(target) BY <1>1 DEF DisputeTypes, Dispute
<1>3. TargetRelay(target) \in Address BY <1>1, <1>2, TargetRelayType
<1>4. /\ TargetTypes'
      /\ DOMAIN records \subseteq DOMAIN records'
      /\ DOMAIN batches \subseteq DOMAIN batches'
      /\ \A b \in DOMAIN batches : batches'[b].merkleRoot = batches[b].merkleRoot
  <2>1. RevokeTarget(target) BY DEF ResolveFraud
  <2> HIDE DEF target
  <2>2. QED BY <1>1, <1>2, <2>1, VerdictTypes
<1>5. DisputeTypes'
  <2>1. disputes' = [disputes EXCEPT ![i] = resolved] BY DEF ResolveFraud
  <2>2. resolved \in Dispute /\ resolved.target = disputes[i].target
        BY ResolvedType
  <2> HIDE DEF resolved
  <2>3. /\ disputes' \in Seq(Dispute) /\ Len(disputes') <= MaxDisputes
        /\ DOMAIN disputes' = DOMAIN disputes
        /\ \A j \in DOMAIN disputes' :
             j \in DOMAIN disputes /\ disputes'[j].target = disputes[j].target
        BY <1>1, <2>1, <2>2, DisputeChange
  <2>4. QED BY <1>1, <1>4, <2>3, PostedStays
<1>6. /\ paid \in [Address -> Nat]
      /\ verifierStake' \in [Address -> Nat] /\ relayStake' \in [Address -> Nat]
      /\ Total(verifierStake') + Total(relayStake') + Total(paid)
           <= Total(verifierStake) + Total(relayStake) + d.bond
      /\ n > 0 => Total(verifierStake) + Total(relayStake) + d.bond
                    <= Total(verifierStake') + Total(relayStake') + Total(paid) + n
      BY <1>1, <1>3, FraudMoney DEF ResolveFraud
<1>7. /\ pendingWithdrawals' \in [Address -> Nat]
      /\ Total(pendingWithdrawals') = Total(pendingWithdrawals) + Total(paid)
      /\ Total(pendingWithdrawals) \in Nat /\ Total(paid) \in Nat
  <2>1. pendingWithdrawals' = Plus(pendingWithdrawals, paid)
        BY DEF ResolveFraud, Credit
  <2>2. pendingWithdrawals \in [Address -> Nat] BY <1>1 DEF MoneyTypes
  <2> HIDE DEF paid
  <2>3. QED BY <1>6, <2>1, <2>2, LedgerArithmetic
<1>8. MoneyTypes' BY <1>1, <1>6, <1>7 DEF MoneyTypes
<1>9. /\ relayActiveDisputes' \in [Address -> Nat]
      /\ batchOpenLeafDisputes' \in [1 .. MaxBatches -> Nat]
  <2>1. CloseDispute(target) BY DEF ResolveFraud
  <2> HIDE DEF target
  <2>2. QED BY <1>2, <2>1, CloseTypes
<1>10. verifierLiveExposures' \in [Address -> Nat]
  <2>1. live \in [Address -> Nat] BY <1>1 DEF ExposureTypes, Exposed
  <2>2. /\ Releasable(live, WrongSide(d))
        /\ verifierLiveExposures' = Released(live, WrongSide(d))
        BY DEF ResolveFraud
  <2> HIDE DEF live
  <2>3. QED BY <2>1, <2>2, ReleasedType
<1>11. /\ targetValidHas' \in [Target -> SUBSET Address]
       /\ targetValidList' \in [Target -> SUBSET Address]
  <2>1. d.validAttesters \in SUBSET Address BY DEF Dispute
  <2>2. /\ targetValidHas' = [targetValidHas EXCEPT ![target] = @ \cup d.validAttesters]
        /\ targetValidList' = [targetValidList EXCEPT ![target] = {}]
        BY DEF ResolveFraud
  <2> HIDE DEF target
  <2>3. QED BY <1>1, <1>2, <2>1, <2>2 DEF ExposureTypes
<1>12. exposedLeaves' \in [1 .. MaxBatches -> SUBSET (1 .. MaxLeaves)]
  <2>1. exposedLeaves' = RememberExposedLeaf(target) BY DEF ResolveFraud
  <2> HIDE DEF target
  <2>2. QED BY <1>1, <1>2, <2>1, RememberedType
<1>13. ExposureTypes' BY <1>9, <1>10, <1>11, <1>12 DEF ExposureTypes
<1>14. TypeOK' BY <1>4, <1>5, <1>8, <1>13, Kept DEF TypeOK
<1>15. Total(verifierStake') \in Nat /\ Total(relayStake') \in Nat
       /\ Total(verifierStake) \in Nat /\ Total(relayStake) \in Nat
       BY <1>1, <1>6, LedgerArithmetic DEF MoneyTypes
<1>16. d.bond \in Nat /\ n \in Nat BY AllowanceType
<1> HIDE DEF n, paid
<1>17. /\ Total(verifierStake') + Total(relayStake') + Total(pendingWithdrawals')
            <= Total(verifierStake) + Total(relayStake)
                 + Total(pendingWithdrawals) + d.bond
       /\ n > 0 =>
            Total(verifierStake) + Total(relayStake)
                 + Total(pendingWithdrawals) + d.bond
              <= Total(verifierStake') + Total(relayStake')
                   + Total(pendingWithdrawals') + n
       BY <1>6, <1>7, <1>15, <1>16
<1>18. QED BY <1>14, <1>17 DEF n

\* A verdict of a spurious dispute keeps the types, and pays out the bond but dust.
LEMMA SpuriousStep ==
  ASSUME TypeOK, NEW i \in DOMAIN disputes, NEW d \in Dispute,
         d.target = disputes[i].target, ResolveSpurious(i, d),
         UNCHANGED <<chainVars, balance, relayExitTime, isRegisteredVerifier,
                     verifierExitTime, verifierRoster, verifierCount, didNonce>>
  PROVE  /\ TypeOK'
         /\ UNCHANGED <<verifierStake, relayStake>>
         /\ Total(pendingWithdrawals') <= Total(pendingWithdrawals) + d.bond
         /\ Cardinality(d.validAttesters) > 0 =>
              Total(pendingWithdrawals) + d.bond
                < Total(pendingWithdrawals') + Cardinality(d.validAttesters)
<1> DEFINE n == Cardinality(d.validAttesters)
           target == d.target
           new == NewlyExposed(target, d.validAttesters)
           paid == SpuriousPayout(d)
           resolved == [d EXCEPT !.resolved = TRUE]
<1>1. MoneyTypes /\ TargetTypes /\ DisputeTypes /\ ExposureTypes BY DEF TypeOK
<1>2. target \in Target /\ Posted(target) BY <1>1 DEF DisputeTypes, Dispute
<1>3. TargetRelay(target) \in Address BY <1>1, <1>2, TargetRelayType
<1>4. /\ TargetTypes'
      /\ DOMAIN records \subseteq DOMAIN records'
      /\ DOMAIN batches \subseteq DOMAIN batches'
      /\ \A b \in DOMAIN batches : batches'[b].merkleRoot = batches[b].merkleRoot
  <2>1. UpholdTarget(target) BY DEF ResolveSpurious
  <2> HIDE DEF target
  <2>2. QED BY <1>1, <1>2, <2>1, VerdictTypes
<1>5. DisputeTypes'
  <2>1. disputes' = [disputes EXCEPT ![i] = resolved] BY DEF ResolveSpurious
  <2>2. resolved \in Dispute /\ resolved.target = disputes[i].target
        BY ResolvedType
  <2> HIDE DEF resolved
  <2>3. /\ disputes' \in Seq(Dispute) /\ Len(disputes') <= MaxDisputes
        /\ DOMAIN disputes' = DOMAIN disputes
        /\ \A j \in DOMAIN disputes' :
             j \in DOMAIN disputes /\ disputes'[j].target = disputes[j].target
        BY <1>1, <2>1, <2>2, DisputeChange
  <2>4. QED BY <1>1, <1>4, <2>3, PostedStays
<1>6. /\ paid \in [Address -> Nat] /\ Total(paid) <= d.bond
      /\ n > 0 => d.bond < Total(paid) + n
      BY <1>3, SpuriousMoney
<1>7. /\ pendingWithdrawals' \in [Address -> Nat]
      /\ Total(pendingWithdrawals') = Total(pendingWithdrawals) + Total(paid)
      /\ Total(pendingWithdrawals) \in Nat /\ Total(paid) \in Nat
  <2>1. pendingWithdrawals' = Plus(pendingWithdrawals, paid)
        BY DEF ResolveSpurious, Credit
  <2>2. pendingWithdrawals \in [Address -> Nat] BY <1>1 DEF MoneyTypes
  <2> HIDE DEF paid
  <2>3. QED BY <1>6, <2>1, <2>2, LedgerArithmetic
<1>8. UNCHANGED <<verifierStake, relayStake>> BY DEF ResolveSpurious
<1>9. MoneyTypes' BY <1>1, <1>7, <1>8 DEF MoneyTypes
<1>10. /\ relayActiveDisputes' \in [Address -> Nat]
       /\ batchOpenLeafDisputes' \in [1 .. MaxBatches -> Nat]
  <2>1. CloseDispute(target) BY DEF ResolveSpurious
  <2> HIDE DEF target
  <2>2. QED BY <1>2, <2>1, CloseTypes
<1>11. verifierLiveExposures' \in [Address -> Nat]
       BY <1>1 DEF ExposureTypes, ResolveSpurious, Exposed
<1>12. /\ targetValidHas' \in [Target -> SUBSET Address]
       /\ targetValidList' \in [Target -> SUBSET Address]
  <2>1. new \in SUBSET Address BY DEF Dispute, NewlyExposed
  <2>2. /\ targetValidHas' = [targetValidHas EXCEPT ![target] = @ \cup new]
        /\ targetValidList' = [targetValidList EXCEPT ![target] = @ \cup new]
        BY DEF ResolveSpurious
  <2> HIDE DEF target, new
  <2>3. QED BY <1>1, <1>2, <2>1, <2>2 DEF ExposureTypes
<1>13. exposedLeaves' \in [1 .. MaxBatches -> SUBSET (1 .. MaxLeaves)]
  <2>1. exposedLeaves' = RememberExposedLeaf(target) BY DEF ResolveSpurious
  <2> HIDE DEF target
  <2>2. QED BY <1>1, <1>2, <2>1, RememberedType
<1>14. ExposureTypes' BY <1>10, <1>11, <1>12, <1>13 DEF ExposureTypes
<1>15. TypeOK' BY <1>4, <1>5, <1>9, <1>14, Kept DEF TypeOK
<1>16. d.bond \in Nat /\ n \in Nat BY AllowanceType
<1> HIDE DEF n, paid
<1>17. /\ Total(pendingWithdrawals') <= Total(pendingWithdrawals) + d.bond
       /\ n > 0 =>
            Total(pendingWithdrawals) + d.bond < Total(pendingWithdrawals') + n
       BY <1>6, <1>7, <1>16
<1>18. QED BY <1>8, <1>15, <1>17 DEF n

\* The stakes and the credits, which the contract holds for their owners.
Held == Total(relayStake) + Total(verifierStake) + Total(pendingWithdrawals)

\* A vote or the deadline turns dispute i into d.  If that resolves it, what
\* is held grows by no more than the freed bond and, unless a dispute with a
\* quorum ran past its deadline, by all of it but the allowance.
Settles(i, d) ==
  /\ disputes' = [disputes EXCEPT ![i] = d]
  /\ ~disputes[i].resolved
  /\ d.bond = disputes[i].bond
  /\ UNCHANGED balance
  /\ \/ /\ d.resolved
        /\ Held' <= Held + d.bond
        /\ quorum > 0 /\ ~FraudQuorum(disputes[i]) /\ ~ValidQuorum(disputes[i]) =>
             Held + d.bond <= Held' + Allowance(d)
     \/ /\ ~d.resolved
        /\ Held' = Held

\* A vote, with the verdict it may bring about.
LEMMA AttestationStep ==
  ASSUME TypeOK, NEW i \in DOMAIN disputes, NEW v \in Address,
         NEW verdictIsFraud \in BOOLEAN, submitAttestation(i, v, verdictIsFraud)
  PROVE  TypeOK' /\ \E d \in Dispute : Settles(i, d)
<1> DEFINE d == Voted(disputes[i], v, verdictIsFraud)
           e == [d EXCEPT !.resolved = TRUE]
<1>1. disputes[i] \in Dispute /\ DisputeTypes /\ MoneyTypes
      BY DEF TypeOK, DisputeTypes
<1>2. d \in Dispute /\ d.target = disputes[i].target /\ d.bond = disputes[i].bond
      /\ d.resolved = disputes[i].resolved
      BY <1>1, VotedType
<1>3. ~disputes[i].resolved BY DEF submitAttestation
<1>4. UNCHANGED <<chainVars, balance, relayExitTime, isRegisteredVerifier,
                  verifierExitTime, verifierRoster, verifierCount, didNonce>>
      BY DEF submitAttestation
<1>5. \/ FraudQuorum(d) /\ ResolveFraud(i, d)
      \/ ~FraudQuorum(d) /\ ValidQuorum(d) /\ ResolveSpurious(i, d)
      \/ /\ disputes' = [disputes EXCEPT ![i] = d]
         /\ UNCHANGED <<targetVars, counterVars, exposureVars, relayStake,
                        verifierStake, pendingWithdrawals>>
      BY DEF submitAttestation
<1> HIDE DEF d
<1>6. e \in Dispute /\ e.bond = d.bond /\ e.resolved BY <1>2, ResolvedType
<1>6a. /\ e.fraudAttesters = d.fraudAttesters /\ e.validAttesters = d.validAttesters
       /\ quorum \in Nat
       /\ Cardinality(d.fraudAttesters) \in Nat /\ Cardinality(d.validAttesters) \in Nat
       BY <1>2, AllowanceType, ParameterAssumption DEF Dispute
<1>6b. /\ Allowance(e) \in Nat /\ e.bond \in Nat
       /\ Total(relayStake) \in Nat /\ Total(verifierStake) \in Nat
       /\ Total(pendingWithdrawals) \in Nat
       /\ TypeOK' => /\ Total(relayStake') \in Nat /\ Total(verifierStake') \in Nat
                     /\ Total(pendingWithdrawals') \in Nat
       BY <1>1, <1>6, AllowanceType, LedgerArithmetic DEF TypeOK, MoneyTypes
<1>7. CASE FraudQuorum(d) /\ ResolveFraud(i, d)
  <2>1. disputes' = [disputes EXCEPT ![i] = e] BY <1>7 DEF ResolveFraud
  <2>2. /\ TypeOK'
        /\ Total(verifierStake') + Total(relayStake') + Total(pendingWithdrawals')
             <= Total(verifierStake) + Total(relayStake)
                  + Total(pendingWithdrawals) + d.bond
        BY <1>2, <1>4, <1>7, FraudStep
  <2>3. Allowance(e) = Cardinality(d.fraudAttesters)
        BY <1>6, <1>6a, <1>7 DEF Allowance, Expired, FoundFraud, FraudQuorum
  <2>4. quorum > 0 => Cardinality(d.fraudAttesters) > 0
        BY <1>6a, <1>7 DEF FraudQuorum
  <2> HIDE DEF e
  <2>5. quorum > 0 =>
          Total(verifierStake) + Total(relayStake)
               + Total(pendingWithdrawals) + e.bond
            <= Total(verifierStake') + Total(relayStake')
                 + Total(pendingWithdrawals') + Allowance(e)
        BY <1>2, <1>4, <1>6, <1>7, <2>3, <2>4, FraudStep
  <2>6. Settles(i, e) BY <1>2, <1>3, <1>4, <1>6, <1>6b, <2>1, <2>2, <2>5 DEF Settles, Held
  <2>7. QED BY <1>6, <2>2, <2>6
<1>8. CASE ~FraudQuorum(d) /\ ValidQuorum(d) /\ ResolveSpurious(i, d)
  <2>1. disputes' = [disputes EXCEPT ![i] = e] BY <1>8 DEF ResolveSpurious
  <2>2. /\ TypeOK'
        /\ UNCHANGED <<verifierStake, relayStake>>
        /\ Total(pendingWithdrawals') <= Total(pendingWithdrawals) + d.bond
        BY <1>2, <1>4, <1>8, SpuriousStep
  <2>3. /\ Total(verifierStake) \in Nat /\ Total(relayStake) \in Nat
        /\ Total(pendingWithdrawals) \in Nat
        BY <1>1, LedgerArithmetic DEF MoneyTypes
  <2>4. Total(pendingWithdrawals') \in Nat
        BY <2>2, LedgerArithmetic DEF TypeOK, MoneyTypes
  <2>5. d.bond \in Nat BY <1>2 DEF Dispute
  <2>6. Total(verifierStake') + Total(relayStake') + Total(pendingWithdrawals')
          <= Total(verifierStake) + Total(relayStake)
               + Total(pendingWithdrawals) + d.bond
        BY <2>2, <2>3, <2>4, <2>5
  <2>7. Allowance(e) = Cardinality(d.validAttesters) - 1
        BY <1>6, <1>6a, <1>8
        DEF Allowance, Expired, FoundFraud, FoundSpurious, FraudQuorum, ValidQuorum
  <2>8. quorum > 0 => Cardinality(d.validAttesters) > 0
        BY <1>6a, <1>8 DEF ValidQuorum
  <2> HIDE DEF e
  <2>9. quorum > 0 =>
          Total(pendingWithdrawals) + d.bond
            < Total(pendingWithdrawals') + Cardinality(d.validAttesters)
        BY <1>2, <1>4, <1>8, <2>8, SpuriousStep
  <2>10. quorum > 0 =>
           Total(verifierStake) + Total(relayStake)
                + Total(pendingWithdrawals) + e.bond
             <= Total(verifierStake') + Total(relayStake')
                  + Total(pendingWithdrawals') + Allowance(e)
         BY <1>6, <1>6a, <2>2, <2>3, <2>4, <2>5, <2>7, <2>9
  <2>11. Settles(i, e)
         BY <1>2, <1>3, <1>4, <1>6, <1>6b, <2>1, <2>2, <2>6, <2>10 DEF Settles, Held
  <2>12. QED BY <1>6, <2>2, <2>11
<1>9. CASE /\ disputes' = [disputes EXCEPT ![i] = d]
           /\ UNCHANGED <<targetVars, counterVars, exposureVars, relayStake,
                          verifierStake, pendingWithdrawals>>
  <2>1. /\ disputes' \in Seq(Dispute) /\ Len(disputes') <= MaxDisputes
        /\ \A j \in DOMAIN disputes' :
             j \in DOMAIN disputes /\ disputes'[j].target = disputes[j].target
        BY <1>1, <1>2, <1>9, DisputeChange
  <2>2. DisputeTypes' BY <1>1, <1>9, <2>1, PostedStays DEF targetVars
  <2>3. TypeOK' BY <1>4, <1>9, <2>2, Kept DEF TypeOK, targetVars
  <2>4. Settles(i, d) BY <1>2, <1>3, <1>4, <1>9 DEF Settles, Held
  <2>5. QED BY <1>2, <2>3, <2>4
<1>10. QED BY <1>5, <1>7, <1>8, <1>9

\* A missed deadline refunds half of the bond.
LEMMA ExpireStep ==
  ASSUME TypeOK, NEW i \in DOMAIN disputes, expireDispute(i)
  PROVE  /\ TypeOK'
         /\ ~disputes[i].resolved
         /\ \E d \in Dispute :
              /\ disputes' = [disputes EXCEPT ![i] = d]
              /\ d.bond = disputes[i].bond /\ d.resolved
              /\ d.fraudAttesters = disputes[i].fraudAttesters
              /\ d.validAttesters = disputes[i].validAttesters
         /\ UNCHANGED <<balance, verifierStake, relayStake>>
         /\ Total(pendingWithdrawals')
              = Total(pendingWithdrawals) + disputes[i].bond \div 2
<1> DEFINE d == disputes[i]
           target == d.target
           half == d.bond \div 2
           paid == Each(Address, {d.challenger}, half)
           resolved == [d EXCEPT !.resolved = TRUE]
<1>1. MoneyTypes /\ TargetTypes /\ DisputeTypes /\ ExposureTypes BY DEF TypeOK
<1>2. d \in Dispute /\ target \in Target /\ Posted(target)
  <2>1. d \in Dispute BY <1>1 DEF DisputeTypes
  <2>2. target \in Target BY <2>1 DEF Dispute
  <2>3. Posted(target) BY <1>1 DEF DisputeTypes
  <2>4. QED BY <2>1, <2>2, <2>3
<1>3. d.challenger \in Address /\ d.bond \in Nat BY <1>2 DEF Dispute
<1>4. half \in Nat /\ half <= d.bond BY <1>3
<1>5. resolved \in Dispute /\ resolved.target = target
      /\ resolved.bond = d.bond /\ resolved.resolved
      /\ resolved.fraudAttesters = d.fraudAttesters
      /\ resolved.validAttesters = d.validAttesters
      BY <1>2, ResolvedType DEF Dispute
<1>6. disputes' = [disputes EXCEPT ![i] = resolved] /\ ~d.resolved
      BY DEF expireDispute
<1>7. /\ TargetTypes'
      /\ DOMAIN records \subseteq DOMAIN records'
      /\ DOMAIN batches \subseteq DOMAIN batches'
      /\ \A b \in DOMAIN batches : batches'[b].merkleRoot = batches[b].merkleRoot
  <2>1. RevokeTarget(target) /\ UNCHANGED didNonce BY DEF expireDispute
  <2> HIDE DEF target
  <2>2. QED BY <1>1, <1>2, <2>1, VerdictTypes
<1>8. DisputeTypes'
  <2> HIDE DEF resolved
  <2>1. /\ disputes' \in Seq(Dispute) /\ Len(disputes') <= MaxDisputes
        /\ \A j \in DOMAIN disputes' :
             j \in DOMAIN disputes /\ disputes'[j].target = disputes[j].target
        BY <1>1, <1>5, <1>6, DisputeChange
  <2>2. QED BY <1>1, <1>7, <2>1, PostedStays
<1>9. paid \in [Address -> Nat] /\ Total(paid) = half
  <2> HIDE DEF half
  <2>1. QED BY <1>3, <1>4, SinglePayment
<1>10. /\ pendingWithdrawals' \in [Address -> Nat]
       /\ Total(pendingWithdrawals') = Total(pendingWithdrawals) + Total(paid)
       /\ Total(pendingWithdrawals) \in Nat
  <2>1. pendingWithdrawals' = Plus(pendingWithdrawals, paid)
        BY DEF expireDispute, Credit
  <2>2. pendingWithdrawals \in [Address -> Nat] BY <1>1 DEF MoneyTypes
  <2> HIDE DEF paid
  <2>3. QED BY <1>9, <2>1, <2>2, LedgerArithmetic
<1>11. UNCHANGED <<balance, verifierStake, relayStake>>
       BY DEF expireDispute, relayVars, verifierVars
<1>12. MoneyTypes' BY <1>1, <1>10, <1>11 DEF MoneyTypes
<1>13. /\ relayActiveDisputes' \in [Address -> Nat]
       /\ batchOpenLeafDisputes' \in [1 .. MaxBatches -> Nat]
  <2>1. CloseDispute(target) BY DEF expireDispute
  <2> HIDE DEF target
  <2>2. QED BY <1>2, <2>1, CloseTypes
<1>14. verifierLiveExposures' \in [Address -> Nat]
  <2> DEFINE S == targetValidList[target]
  <2>1. /\ Releasable(verifierLiveExposures, S)
        /\ verifierLiveExposures' = Released(verifierLiveExposures, S)
        BY DEF expireDispute, ReleaseExposures
  <2>2. verifierLiveExposures \in [Address -> Nat] BY <1>1 DEF ExposureTypes
  <2> HIDE DEF S
  <2>3. QED BY <2>1, <2>2, ReleasedType
<1>15. targetValidList' \in [Target -> SUBSET Address]
  <2>1. targetValidList' = [targetValidList EXCEPT ![target] = {}]
        BY DEF expireDispute, ReleaseExposures
  <2> HIDE DEF target
  <2>2. QED BY <1>1, <2>1 DEF ExposureTypes
<1>16. ExposureTypes'
       BY <1>1, <1>13, <1>14, <1>15 DEF ExposureTypes, expireDispute
<1>17. TypeOK'
       BY <1>7, <1>8, <1>12, <1>16, Kept
       DEF TypeOK, expireDispute, relayVars, verifierVars
<1>18. Total(pendingWithdrawals')
         = Total(pendingWithdrawals) + disputes[i].bond \div 2
  <2> HIDE DEF paid
  <2>1. QED BY <1>9, <1>10
<1> HIDE DEF resolved
<1>19. \E e \in Dispute : /\ disputes' = [disputes EXCEPT ![i] = e]
                          /\ e.bond = disputes[i].bond /\ e.resolved
                          /\ e.fraudAttesters = disputes[i].fraudAttesters
                          /\ e.validAttesters = disputes[i].validAttesters
       BY <1>5, <1>6
<1>20. QED BY <1>6, <1>11, <1>17, <1>18, <1>19

\* The contract as deployed is well typed.
LEMMA InitTypes == Init => TypeOK
<1> SUFFICES ASSUME Init PROVE TypeOK
    OBVIOUS
<1>1. ChainTypes
      BY ParameterAssumption DEF Init, ChainTypes, Registry!RegistryInit, Registry!RegistryTypes,
         Registry!NoDocument, Registry!DIDDocument
<1>2. MoneyTypes BY DEF Init, MoneyTypes
<1>3. CommitteeTypes BY DEF Init, CommitteeTypes
<1>4. TargetTypes BY InputAssumption DEF Init, TargetTypes, LeafState
<1>5. DisputeTypes BY InputAssumption DEF Init, DisputeTypes
<1>6. ExposureTypes BY DEF Init, ExposureTypes
<1>7. QED BY <1>1, <1>2, <1>3, <1>4, <1>5, <1>6 DEF TypeOK

\* One step per action of Next.
LEMMA NextTypes == TypeOK /\ [Next]_vars => TypeOK'
<1> SUFFICES ASSUME TypeOK, [Next]_vars PROVE TypeOK'
    OBVIOUS
<1>1. CASE \E a \in Owners, did \in DID : registryCall(a, did)
      BY <1>1, RegistryStep, InputAssumption
<1>2. ASSUME NEW a \in Relays, RelayCall(a) PROVE TypeOK'
  <2>1. a \in Address BY InputAssumption
  <2>2. CASE \E value \in StakeValues : stakeRelay(a, value)
        BY <2>1, <2>2, StakeSteps, InputAssumption
  <2>3. CASE \E dataHash \in Payload, did \in DID, sig \in SigLength :
               submitAccountable(a, dataHash, did, sig)
        BY <2>1, <2>3, SubmitAccountableStep
  <2>4. CASE \E didHashes \in BatchInput(DID), dataHashes \in BatchInput(Payload),
                slots \in 0 .. MaxLeaves :
               submitBatch(a, didHashes, dataHashes, slots * FALCON_512_SIG_SIZE_MAX)
    <3>1. PICK didHashes \in BatchInput(DID), dataHashes \in BatchInput(Payload),
               slots \in 0 .. MaxLeaves :
                 submitBatch(a, didHashes, dataHashes, slots * FALCON_512_SIG_SIZE_MAX)
          BY <2>4
    <3>2. PICK k \in 0 .. MaxLeaves : didHashes \in [1 .. k -> DID]
          BY DEF BatchInput
    <3>3. QED BY <2>1, <3>1, <3>2, SubmitBatchStep
  <2>5. QED BY <1>2, <2>2, <2>3, <2>4 DEF RelayCall
<1>3. ASSUME NEW v \in Verifiers, VerifierCall(v) PROVE TypeOK'
  <2>1. v \in Address BY InputAssumption
  <2>2. CASE \E value \in StakeValues : stakeVerifier(v, value)
        BY <2>1, <2>2, StakeSteps, InputAssumption
  <2>3. CASE \E i \in DOMAIN disputes, verdictIsFraud \in BOOLEAN :
               submitAttestation(i, v, verdictIsFraud)
        BY <2>1, <2>3, AttestationStep
  <2>4. QED BY <1>3, <2>2, <2>3 DEF VerifierCall
<1>4. ASSUME NEW a \in Challengers, ChallengerCall(a) PROVE TypeOK'
  <2>1. PICK bond \in BondValues :
          \/ \E i \in DOMAIN records : openDispute(a, i, bond)
          \/ \E b \in DOMAIN batches, l \in 1 .. MaxLeaves, leaf \in PostedLeaves :
               openBatchLeafDispute(a, b, l, leaf, bond)
        BY <1>4 DEF ChallengerCall
  <2>2. a \in Address /\ bond \in Nat BY InputAssumption
  <2>3. QED BY <2>1, <2>2, OpenDisputeStep, OpenBatchLeafDisputeStep
<1>5. ASSUME NEW a \in Leavers, LeaverCall(a) PROVE TypeOK'
  <2>1. a \in Address /\ 0 \in Nat BY InputAssumption
  <2>2. QED BY <1>5, <2>1, StakeSteps DEF LeaverCall
<1>6. CASE Settlement
      BY <1>6, FinalizeRecordStep, FinalizeBatchStep, ExpireStep DEF Settlement
<1>7. CASE \E a \in Withdrawers : withdraw(a)
  BY <1>7, WithdrawStep, InputAssumption
<1>8. CASE withdrawReturns \/ Tick
  BY <1>8, ClockSteps
<1>9. CASE UNCHANGED vars
  BY <1>9, Kept DEF TypeOK, vars, relayVars, verifierVars, targetVars
<1>10. QED BY <1>1, <1>2, <1>3, <1>4, <1>5, <1>6, <1>7, <1>8, <1>9 DEF Next

\* Every variable keeps its type in every behaviour of the contract: counters
\* and ledgers are natural numbers, every dispute is about something that was
\* posted, and what the registry promises holds of its part of the state.
THEOREM TypeCorrect == Spec => []TypeOK
BY InitTypes, NextTypes, PTL DEF Spec

-----------------------------------------------------------------------------
(* The steps.                                                              *)

\* Calls that move money, membership or registrations, and touch no target.
Housekeeping(a, value) ==
  \/ stakeRelay(a, value) \/ announceUnstake(a) \/ unstakeRelay(a)
  \/ stakeVerifier(a, value) \/ announceVerifierUnstake(a)
  \/ unstakeVerifier(a) \/ deregisterVerifier(a)
  \/ (\E did \in DID : registryCall(a, did))
  \/ withdraw(a)

\* Every step of the contract is one of its functions, called with arguments
\* of the right types, or a stutter.
LEMMA StepKinds ==
  ASSUME TypeOK, [Next]_vars
  PROVE  \/ \E a \in Address, value \in Nat : Housekeeping(a, value)
         \/ \E a \in Address, dataHash \in Payload, did \in DID, sig \in SigLength :
              submitAccountable(a, dataHash, did, sig)
         \/ \E a \in Address, k \in 0 .. MaxLeaves :
              \E didHashes \in [1 .. k -> DID], dataHashes \in [1 .. k -> Payload],
                 length \in Nat : submitBatch(a, didHashes, dataHashes, length)
         \/ \E i \in 1 .. MaxRecords : finalizeRecord(i)
         \/ \E b \in 1 .. MaxBatches : finalizeBatch(b)
         \/ \E a \in Address, bond \in Nat, i \in 1 .. MaxRecords :
              openDispute(a, i, bond)
         \/ \E a \in Address, bond \in Nat, b \in 1 .. MaxBatches,
               l \in 1 .. MaxLeaves, leaf \in PostedLeaves :
              openBatchLeafDispute(a, b, l, leaf, bond)
         \/ \E i \in DOMAIN disputes, v \in Address, verdictIsFraud \in BOOLEAN :
              submitAttestation(i, v, verdictIsFraud)
         \/ \E i \in DOMAIN disputes : expireDispute(i)
         \/ withdrawReturns \/ Tick \/ UNCHANGED vars
<1>0. /\ DOMAIN records \subseteq 1 .. MaxRecords
      /\ DOMAIN batches \subseteq 1 .. MaxBatches
  <2>1. /\ records \in Seq(Record) /\ Len(records) <= MaxRecords
        /\ batches \in Seq(Batch) /\ Len(batches) <= MaxBatches
        BY DEF TypeOK, TargetTypes
  <2>2. DOMAIN records = 1 .. Len(records) /\ DOMAIN batches = 1 .. Len(batches)
        /\ Len(records) \in Nat /\ Len(batches) \in Nat
        BY <2>1
  <2>3. QED BY <2>1, <2>2, InputAssumption
<1>1. CASE \E a \in Owners, did \in DID : registryCall(a, did)
  <2>1. PICK a \in Owners : \E did \in DID : registryCall(a, did) BY <1>1
  <2>2. a \in Address /\ 0 \in Nat BY InputAssumption
  <2>3. Housekeeping(a, 0) BY <2>1 DEF Housekeeping
  <2>4. QED BY <2>2, <2>3
<1>2. ASSUME NEW a \in Relays, RelayCall(a)
      PROVE  \/ \E c \in Address, value \in Nat : Housekeeping(c, value)
             \/ \E c \in Address, dataHash \in Payload, did \in DID, sig \in SigLength :
                  submitAccountable(c, dataHash, did, sig)
             \/ \E c \in Address, k \in 0 .. MaxLeaves :
                  \E didHashes \in [1 .. k -> DID], dataHashes \in [1 .. k -> Payload],
                     length \in Nat : submitBatch(c, didHashes, dataHashes, length)
  <2>1. a \in Address BY InputAssumption
  <2>2. CASE \E value \in StakeValues : stakeRelay(a, value)
        BY <2>1, <2>2, InputAssumption DEF Housekeeping
  <2>3. CASE \E dataHash \in Payload, did \in DID, sig \in SigLength :
               submitAccountable(a, dataHash, did, sig)
        BY <2>1, <2>3
  <2>4. CASE \E didHashes \in BatchInput(DID), dataHashes \in BatchInput(Payload),
                slots \in 0 .. MaxLeaves :
               submitBatch(a, didHashes, dataHashes, slots * FALCON_512_SIG_SIZE_MAX)
    <3>1. PICK didHashes \in BatchInput(DID), dataHashes \in BatchInput(Payload),
               slots \in 0 .. MaxLeaves :
                 submitBatch(a, didHashes, dataHashes, slots * FALCON_512_SIG_SIZE_MAX)
          BY <2>4
    <3>2. PICK k \in 0 .. MaxLeaves : didHashes \in [1 .. k -> DID]
          BY DEF BatchInput
    <3>3. PICK m \in 0 .. MaxLeaves : dataHashes \in [1 .. m -> Payload]
          BY DEF BatchInput
    <3>4. m = k
      <4>1. Len(dataHashes) = Len(didHashes) BY <3>1 DEF submitBatch
      <4>2. m \in Nat /\ k \in Nat BY InputAssumption
      <4>3. QED BY <3>2, <3>3, <4>1, <4>2
    <3>5. slots * FALCON_512_SIG_SIZE_MAX \in Nat
      <4>1. slots \in Nat /\ FALCON_512_SIG_SIZE_MAX \in Nat
            BY InputAssumption, ParameterAssumption
      <4>2. QED BY <4>1
    <3>6. QED BY <2>1, <3>1, <3>2, <3>3, <3>4, <3>5
  <2>5. QED BY <1>2, <2>2, <2>3, <2>4 DEF RelayCall
<1>3. ASSUME NEW v \in Verifiers, VerifierCall(v)
      PROVE  \/ \E c \in Address, value \in Nat : Housekeeping(c, value)
             \/ \E i \in DOMAIN disputes, c \in Address, verdictIsFraud \in BOOLEAN :
                  submitAttestation(i, c, verdictIsFraud)
  <2>1. v \in Address BY InputAssumption
  <2>2. CASE \E value \in StakeValues : stakeVerifier(v, value)
        BY <2>1, <2>2, InputAssumption DEF Housekeeping
  <2>3. QED BY <1>3, <2>1, <2>2 DEF VerifierCall
<1>4. ASSUME NEW a \in Challengers, ChallengerCall(a)
      PROVE  \/ \E c \in Address, bond \in Nat, i \in 1 .. MaxRecords :
                  openDispute(c, i, bond)
             \/ \E c \in Address, bond \in Nat, b \in 1 .. MaxBatches,
                   l \in 1 .. MaxLeaves, leaf \in PostedLeaves :
                  openBatchLeafDispute(c, b, l, leaf, bond)
      BY <1>0, <1>4, InputAssumption DEF ChallengerCall
<1>5. ASSUME NEW a \in Leavers, LeaverCall(a)
      PROVE  \E c \in Address, value \in Nat : Housekeeping(c, value)
  <2>1. a \in Address /\ 0 \in Nat BY InputAssumption
  <2>2. Housekeeping(a, 0) BY <1>5 DEF LeaverCall, Housekeeping
  <2>3. QED BY <2>1, <2>2
<1>6. ASSUME Settlement
      PROVE  \/ \E i \in 1 .. MaxRecords : finalizeRecord(i)
             \/ \E b \in 1 .. MaxBatches : finalizeBatch(b)
             \/ \E i \in DOMAIN disputes : expireDispute(i)
      BY <1>0, <1>6 DEF Settlement
<1>7. ASSUME NEW a \in Withdrawers, withdraw(a)
      PROVE  \E c \in Address, value \in Nat : Housekeeping(c, value)
  <2>1. a \in Address /\ 0 \in Nat BY InputAssumption
  <2>2. Housekeeping(a, 0) BY <1>7 DEF Housekeeping
  <2>3. QED BY <2>1, <2>2
<1>8. QED
      BY <1>1, <1>2, <1>3, <1>4, <1>5, <1>6, <1>7 DEF Next

-----------------------------------------------------------------------------
(* Solvency.                                                               *)

\* The bonds locked in a list of disputes.
Bonds(ds) == [i \in DOMAIN ds |-> IF ds[i].resolved THEN 0 ELSE ds[i].bond]

\* It is a ledger over the disputes.
LEMMA BondsType ==
  ASSUME NEW ds \in Seq(Dispute)
  PROVE  /\ DOMAIN ds = 1 .. Len(ds) /\ IsFiniteSet(DOMAIN ds)
         /\ Bonds(ds) \in [DOMAIN ds -> Nat]
         /\ Total(Bonds(ds)) \in Nat
<1>1. DOMAIN ds = 1 .. Len(ds) /\ Len(ds) \in Nat OBVIOUS
<1>2. IsFiniteSet(DOMAIN ds) BY <1>1, FS_Interval
<1>3. \A i \in DOMAIN ds : ds[i] \in Dispute OBVIOUS
<1>4. Bonds(ds) \in [DOMAIN ds -> Nat] BY <1>3 DEF Bonds, Dispute
<1>5. QED BY <1>1, <1>2, <1>4, TotalType

\* A new dispute locks its bond.
LEMMA BondLocked ==
  ASSUME NEW ds \in Seq(Dispute), NEW d \in Dispute, ~d.resolved,
         NEW es, es = Append(ds, d)
  PROVE  Total(Bonds(es)) = Total(Bonds(ds)) + d.bond
<1> DEFINE n == Len(ds) + 1
           f == Bonds(ds)
           g == Bonds(es)
<1>1. /\ es \in Seq(Dispute) /\ DOMAIN ds = 1 .. Len(ds) /\ Len(ds) \in Nat
      /\ DOMAIN es = 1 .. Len(ds) + 1 /\ es[n] = d
      /\ \A i \in DOMAIN ds : es[i] = ds[i]
      BY SeqAppend
<1>2. n \notin DOMAIN ds /\ n \in DOMAIN es BY <1>1
<1>3. g[n] = d.bond /\ \A i \in DOMAIN ds : g[i] = f[i]
      BY <1>1, <1>2 DEF Bonds
<1>4. IsFiniteSet(DOMAIN ds) /\ f \in [DOMAIN ds -> Nat] BY BondsType
<1>5. g \in [DOMAIN es -> Nat] BY <1>1, BondsType
<1> DEFINE S == DOMAIN ds
           U == DOMAIN es
<1>6. Total(g) = Total(f) + g[n]
  <2>1. /\ n \notin S /\ n \in U /\ IsFiniteSet(S) /\ f \in [S -> Nat]
        /\ g \in [U -> Nat] /\ \A i \in S : g[i] = f[i]
        BY <1>2, <1>3, <1>4, <1>5
  <2>2. S \subseteq U /\ \A i \in U : i # n => i \in S BY <1>1
  <2> HIDE DEF n, f, g, S, U
  <2>3. QED BY <2>1, <2>2, TotalNewKey, SMTT(60)
<1>7. QED BY <1>3, <1>6 DEF f, g

\* A dispute that is resolved releases its bond.
LEMMA BondReleased ==
  ASSUME NEW ds \in Seq(Dispute), NEW i \in DOMAIN ds, ~ds[i].resolved,
         NEW es \in Seq(Dispute), DOMAIN es = DOMAIN ds,
         \A j \in DOMAIN ds : j # i => es[j] = ds[j],
         NEW d \in Dispute, d.bond = ds[i].bond, es[i] = d
  PROVE  /\ d.resolved => Total(Bonds(es)) = Total(Bonds(ds)) - d.bond
         /\ ~d.resolved => Total(Bonds(es)) = Total(Bonds(ds))
         /\ d.bond \in Nat
<1> DEFINE f == Bonds(ds)
           g == Bonds(es)
<1>1. /\ IsFiniteSet(DOMAIN ds) /\ f \in [DOMAIN ds -> Nat]
      /\ g \in [DOMAIN ds -> Nat]
      BY BondsType
<1>2. /\ \A j \in DOMAIN ds : j # i => g[j] = f[j]
      /\ f[i] = d.bond /\ g[i] = IF d.resolved THEN 0 ELSE d.bond
      BY DEF Bonds
<1>3. d.bond \in Nat BY DEF Dispute
<1> HIDE DEF f, g
<1>4. Total(g) = Total(f) + g[i] - f[i] /\ Total(f) \in Nat
      BY <1>1, <1>2, TotalChange, SMTT(60)
<1>5. QED BY <1>2, <1>3, <1>4 DEF f, g

\* A payment to one account.
LEMMA OneCredit ==
  ASSUME NEW f \in [Address -> Nat], NEW a \in Address, NEW n \in Nat,
         NEW g, g = Plus(f, Each(Address, {a}, n))
  PROVE  Total(g) = Total(f) + n
<1> DEFINE e == Each(Address, {a}, n)
<1>1. e \in [Address -> Nat] /\ Total(e) = n BY SinglePayment
<1> HIDE DEF e
<1>2. Total(Plus(f, e)) = Total(f) + Total(e) BY <1>1, LedgerArithmetic
<1>3. QED BY <1>1, <1>2 DEF e

\* Every account, and the bonds, are natural numbers.
LEMMA HeldType ==
  ASSUME TypeOK
  PROVE  /\ Total(relayStake) \in Nat /\ Total(verifierStake) \in Nat
         /\ Total(pendingWithdrawals) \in Nat /\ Held \in Nat /\ balance \in Nat
         /\ Total(Bonds(disputes)) \in Nat /\ disputes \in Seq(Dispute)
<1>1. /\ relayStake \in [Address -> Nat] /\ verifierStake \in [Address -> Nat]
      /\ pendingWithdrawals \in [Address -> Nat] /\ disputes \in Seq(Dispute)
      /\ balance \in Nat
      BY DEF TypeOK, MoneyTypes, DisputeTypes
<1>2. /\ Total(relayStake) \in Nat /\ Total(verifierStake) \in Nat
      /\ Total(pendingWithdrawals) \in Nat /\ Total(Bonds(disputes)) \in Nat
      BY <1>1, BondsType, TotalType, ParameterAssumption
<1>3. QED BY <1>1, <1>2 DEF Held

\* What the contract owes: what it holds, and the locked bonds.
LEMMA Owed == Liabilities = Held + Total(Bonds(disputes))
BY DEF Liabilities, LockedBonds, Bonds, Held

\* How a step can move money.  A deposit or a withdrawal changes the balance
\* by as much as what is held.
Balanced ==
  /\ UNCHANGED disputes
  /\ balance' + Held = balance + Held'

\* A bond comes with the dispute d that locks it.
Locks(d) ==
  /\ disputes' = Append(disputes, d)
  /\ ~d.resolved
  /\ balance' = balance + d.bond
  /\ Held' = Held

\* A deposit adds as much to the balance as to the depositor's stake, a
\* departure turns the stake into a credit, and a withdrawal takes the credit
\* out of the balance.
LEMMA DepositsBalance ==
  ASSUME TypeOK, TypeOK', NEW a \in Address, NEW value \in Nat,
         Housekeeping(a, value)
  PROVE  Balanced
<1>1. /\ balance \in Nat /\ relayStake \in [Address -> Nat]
      /\ verifierStake \in [Address -> Nat]
      /\ pendingWithdrawals \in [Address -> Nat] /\ IsFiniteSet(Address)
      BY ParameterAssumption DEF TypeOK, MoneyTypes
<1>2. /\ relayStake' \in [Address -> Nat] /\ verifierStake' \in [Address -> Nat]
      /\ pendingWithdrawals' \in [Address -> Nat] /\ balance' \in Nat
      BY DEF TypeOK, MoneyTypes
<1>3. /\ relayStake[a] \in Nat /\ verifierStake[a] \in Nat
      /\ pendingWithdrawals[a] \in Nat
      BY <1>1
<1>4. /\ Total(relayStake) \in Nat /\ Total(verifierStake) \in Nat
      /\ Total(pendingWithdrawals) \in Nat
      BY HeldType
<1>5. CASE stakeRelay(a, value)
  <2>1. relayStake'[a] = relayStake[a] + value
        /\ \A b \in Address : b # a => relayStake'[b] = relayStake[b]
        BY <1>1, <1>5 DEF stakeRelay, Deposited
  <2>2. Total(relayStake') = Total(relayStake) + relayStake'[a] - relayStake[a]
        BY <1>1, <1>2, <2>1, TotalChange, SMTT(60)
  <2>3. /\ UNCHANGED <<verifierStake, pendingWithdrawals, disputes>>
        /\ balance' = balance + value
        BY <1>5 DEF stakeRelay, verifierVars
  <2>4. Total(relayStake') = Total(relayStake) + value
        BY <1>3, <1>4, <2>1, <2>2
  <2>5. QED BY <1>1, <1>4, <2>3, <2>4 DEF Balanced, Held
<1>6. CASE unstakeRelay(a)
  <2>1. relayStake'[a] = 0
        /\ \A b \in Address : b # a => relayStake'[b] = relayStake[b]
        BY <1>1, <1>6 DEF unstakeRelay
  <2>2. Total(relayStake') = Total(relayStake) + relayStake'[a] - relayStake[a]
        BY <1>1, <1>2, <2>1, TotalChange, SMTT(60)
  <2>3. Total(pendingWithdrawals') = Total(pendingWithdrawals) + relayStake[a]
        BY <1>1, <1>3, <1>6, OneCredit DEF unstakeRelay, Credit
  <2>4. UNCHANGED <<verifierStake, balance, disputes>>
        BY <1>6 DEF unstakeRelay, verifierVars
  <2>5. Total(relayStake') = Total(relayStake) - relayStake[a]
        BY <1>3, <1>4, <2>1, <2>2
  <2>6. QED BY <1>1, <1>3, <1>4, <2>3, <2>4, <2>5 DEF Balanced, Held
<1>7. CASE stakeVerifier(a, value)
  <2>1. verifierStake'[a] = verifierStake[a] + value
        /\ \A b \in Address : b # a => verifierStake'[b] = verifierStake[b]
        BY <1>1, <1>7 DEF stakeVerifier, Deposited
  <2>2. Total(verifierStake')
          = Total(verifierStake) + verifierStake'[a] - verifierStake[a]
        BY <1>1, <1>2, <2>1, TotalChange, SMTT(60)
  <2>3. /\ UNCHANGED <<relayStake, pendingWithdrawals, disputes>>
        /\ balance' = balance + value
        BY <1>7 DEF stakeVerifier, relayVars
  <2>4. Total(verifierStake') = Total(verifierStake) + value
        BY <1>3, <1>4, <2>1, <2>2
  <2>5. QED BY <1>1, <1>4, <2>3, <2>4 DEF Balanced, Held
<1>8. CASE unstakeVerifier(a)
  <2>1. verifierStake'[a] = 0
        /\ \A b \in Address : b # a => verifierStake'[b] = verifierStake[b]
        BY <1>1, <1>8 DEF unstakeVerifier
  <2>2. Total(verifierStake')
          = Total(verifierStake) + verifierStake'[a] - verifierStake[a]
        BY <1>1, <1>2, <2>1, TotalChange, SMTT(60)
  <2>3. Total(pendingWithdrawals') = Total(pendingWithdrawals) + verifierStake[a]
        BY <1>1, <1>3, <1>8, OneCredit DEF unstakeVerifier, Credit
  <2>4. UNCHANGED <<relayStake, balance, disputes>>
        BY <1>8 DEF unstakeVerifier, relayVars
  <2>5. Total(verifierStake') = Total(verifierStake) - verifierStake[a]
        BY <1>3, <1>4, <2>1, <2>2
  <2>6. QED BY <1>1, <1>3, <1>4, <2>3, <2>4, <2>5 DEF Balanced, Held
<1>9. CASE withdraw(a)
  <2>1. pendingWithdrawals'[a] = 0
        /\ \A b \in Address : b # a => pendingWithdrawals'[b] = pendingWithdrawals[b]
        BY <1>1, <1>9 DEF withdraw
  <2>2. Total(pendingWithdrawals')
          = Total(pendingWithdrawals) + pendingWithdrawals'[a] - pendingWithdrawals[a]
    <3>1. /\ pendingWithdrawals \in [Address -> Nat] /\ IsFiniteSet(Address)
          /\ pendingWithdrawals' \in [Address -> Nat]
          BY <1>1, <1>2
    <3>2. QED BY <2>1, <3>1, TotalChange
  <2>3. /\ UNCHANGED <<relayStake, verifierStake, disputes>>
        /\ balance' = balance - pendingWithdrawals[a]
        BY <1>9 DEF withdraw, relayVars, verifierVars
  <2>4. Total(pendingWithdrawals') = Total(pendingWithdrawals) - pendingWithdrawals[a]
        BY <1>3, <1>4, <2>1, <2>2
  <2>5. QED BY <1>1, <1>3, <1>4, <2>3, <2>4 DEF Balanced, Held
<1>10. CASE \/ announceUnstake(a) \/ announceVerifierUnstake(a) \/ deregisterVerifier(a)
            \/ \E did \in DID : registryCall(a, did)
  <2>1. UNCHANGED <<balance, relayStake, verifierStake, pendingWithdrawals, disputes>>
        BY <1>10 DEF announceUnstake, announceVerifierUnstake, deregisterVerifier,
                     registryCall, relayVars, verifierVars
  <2>2. QED BY <1>1, <1>4, <2>1 DEF Balanced, Held
<1>11. QED BY <1>5, <1>6, <1>7, <1>8, <1>9, <1>10 DEF Housekeeping

\* The bond comes with the call that locks it.
LEMMA DisputeLocks ==
  ASSUME TypeOK, NEW a \in Address, NEW target \in Target,
         NEW bond \in Nat, OpenDispute(a, target, bond),
         UNCHANGED <<relayStake, verifierStake, pendingWithdrawals>>
  PROVE  \E d \in Dispute : Locks(d)
<1> DEFINE d == [target |-> target, challenger |-> a, bond |-> bond,
                 deadline |-> now + challengePeriod, fraudAttesters |-> {},
                 validAttesters |-> {}, resolved |-> FALSE]
<1>1. now \in Nat BY DEF TypeOK, ChainTypes
<1>2. d \in Dispute /\ d.bond = bond /\ ~d.resolved
      BY <1>1, ParameterAssumption DEF Dispute
<1>3. disputes' = Append(disputes, d) /\ balance' = balance + bond
      BY DEF OpenDispute
<1>4. Held' = Held BY DEF Held
<1> HIDE DEF d
<1>5. QED BY <1>2, <1>3, <1>4 DEF Locks

\* A missed deadline leaves the contract with half of the bond.
LEMMA DeadlineSettles ==
  ASSUME TypeOK, NEW i \in DOMAIN disputes, expireDispute(i)
  PROVE  \E d \in Dispute : Settles(i, d)
<1>1. /\ ~disputes[i].resolved
      /\ UNCHANGED <<balance, verifierStake, relayStake>>
      /\ Total(pendingWithdrawals')
           = Total(pendingWithdrawals) + disputes[i].bond \div 2
      BY ExpireStep
<1>2. PICK d \in Dispute :
         /\ disputes' = [disputes EXCEPT ![i] = d]
         /\ d.bond = disputes[i].bond /\ d.resolved
         /\ d.fraudAttesters = disputes[i].fraudAttesters
         /\ d.validAttesters = disputes[i].validAttesters
      BY ExpireStep
<1>3. Allowance(d) \in Nat /\ d.bond \in Nat BY AllowanceType
<1>4. PICK half \in Nat : half = d.bond \div 2 /\ half <= d.bond
      BY <1>3
<1>5. Held' = Held + half BY <1>1, <1>2, <1>4, HeldType DEF Held
<1>6. ~FraudQuorum(disputes[i]) /\ ~ValidQuorum(disputes[i]) =>
        Allowance(d) = d.bond - half
      BY <1>2, <1>4 DEF Allowance, Expired, FraudQuorum, ValidQuorum
<1>7. Held \in Nat BY HeldType
<1>8. Settles(i, d) BY <1>1, <1>2, <1>3, <1>4, <1>5, <1>6, <1>7 DEF Settles
<1>9. QED BY <1>8

\* Every step of the contract moves money in one of the three ways.
LEMMA MoneyMoves ==
  ASSUME TypeOK, [Next]_vars
  PROVE  \/ Balanced
         \/ \E d \in Dispute : Locks(d)
         \/ \E i \in DOMAIN disputes, d \in Dispute : Settles(i, d)
<1>0. TypeOK' BY NextTypes
<1>1. ASSUME UNCHANGED <<balance, relayStake, verifierStake, pendingWithdrawals,
                         disputes>>
      PROVE  Balanced
      BY <1>1, HeldType DEF Balanced, Held
<1>2. ASSUME NEW a \in Address, NEW value \in Nat, Housekeeping(a, value)
      PROVE  Balanced
      BY <1>0, <1>2, DepositsBalance
<1>3. ASSUME NEW a \in Address, NEW dataHash \in Payload, NEW did \in DID,
             NEW sig \in SigLength, submitAccountable(a, dataHash, did, sig)
      PROVE  Balanced
      BY <1>1, <1>3 DEF submitAccountable, relayVars, verifierVars
<1>4. ASSUME NEW a, NEW didHashes, NEW dataHashes, NEW length,
             submitBatch(a, didHashes, dataHashes, length)
      PROVE  Balanced
      BY <1>1, <1>4 DEF submitBatch, relayVars, verifierVars
<1>5. ASSUME NEW i, finalizeRecord(i) PROVE Balanced
      BY <1>1, <1>5 DEF finalizeRecord, relayVars, verifierVars
<1>6. ASSUME NEW b, finalizeBatch(b) PROVE Balanced
      BY <1>1, <1>6 DEF finalizeBatch, relayVars, verifierVars
<1>7. ASSUME NEW a \in Address, NEW bond \in Nat, NEW i \in 1 .. MaxRecords,
             openDispute(a, i, bond)
      PROVE  \E d \in Dispute : Locks(d)
  <2>1. /\ RecordTarget(i) \in Target
        /\ OpenDispute(a, RecordTarget(i), bond)
        /\ UNCHANGED <<relayStake, verifierStake, pendingWithdrawals>>
        BY <1>7, TargetCases DEF openDispute, relayVars, verifierVars
  <2>2. QED BY <2>1, DisputeLocks
<1>8. ASSUME NEW a \in Address, NEW bond \in Nat, NEW b \in 1 .. MaxBatches,
             NEW l \in 1 .. MaxLeaves, NEW leaf,
             openBatchLeafDispute(a, b, l, leaf, bond)
      PROVE  \E d \in Dispute : Locks(d)
  <2>1. /\ LeafTarget(b, l) \in Target
        /\ OpenDispute(a, LeafTarget(b, l), bond)
        /\ UNCHANGED <<relayStake, verifierStake, pendingWithdrawals>>
        BY <1>8, TargetCases DEF openBatchLeafDispute, relayVars, verifierVars
  <2>2. QED BY <2>1, DisputeLocks
<1>9. ASSUME NEW i \in DOMAIN disputes, NEW v \in Address,
             NEW verdictIsFraud \in BOOLEAN, submitAttestation(i, v, verdictIsFraud)
      PROVE  \E d \in Dispute : Settles(i, d)
      BY <1>9, AttestationStep
<1>10. ASSUME NEW i \in DOMAIN disputes, expireDispute(i)
       PROVE  \E d \in Dispute : Settles(i, d)
       BY <1>10, DeadlineSettles
<1>11. ASSUME withdrawReturns \/ Tick \/ UNCHANGED vars PROVE Balanced
       BY <1>1, <1>11 DEF withdrawReturns, Tick, vars, relayVars, verifierVars
<1>12. QED
       BY StepKinds, <1>2, <1>3, <1>4, <1>5, <1>6, <1>7, <1>8, <1>9, <1>10, <1>11

\* The inductive invariant is TypeOK /\ Solvency: that the amounts are natural
\* numbers is what makes the sums of the payouts stay within what was taken.
LEMMA NextSolvent == TypeOK /\ Solvency /\ [Next]_vars => Solvency'
<1> SUFFICES ASSUME TypeOK, Solvency, [Next]_vars PROVE Solvency'
    OBVIOUS
<1>0. TypeOK' BY NextTypes
<1>1. /\ Held \in Nat /\ balance \in Nat /\ Total(Bonds(disputes)) \in Nat
      /\ disputes \in Seq(Dispute)
      /\ balance >= Held + Total(Bonds(disputes))
      BY HeldType, Owed DEF Solvency
<1>2. /\ Held' \in Nat /\ balance' \in Nat /\ disputes' \in Seq(Dispute)
      /\ Solvency' <=> balance' >= Held' + Total(Bonds(disputes'))
  <2>1. disputes' \in Seq(Dispute) BY <1>0 DEF TypeOK, DisputeTypes
  <2>2. Held' \in Nat /\ balance' \in Nat
    <3>1. /\ relayStake' \in [Address -> Nat] /\ verifierStake' \in [Address -> Nat]
          /\ pendingWithdrawals' \in [Address -> Nat] /\ balance' \in Nat
          BY <1>0 DEF TypeOK, MoneyTypes
    <3>2. /\ Total(relayStake') \in Nat /\ Total(verifierStake') \in Nat
          /\ Total(pendingWithdrawals') \in Nat
          BY <3>1, TotalType, ParameterAssumption
    <3>3. QED BY <3>1, <3>2 DEF Held
  <2>3. Liabilities' = Held' + Total(Bonds(disputes'))
        BY DEF Liabilities, LockedBonds, Bonds, Held
  <2>4. QED BY <2>1, <2>2, <2>3 DEF Solvency
<1>3. CASE Balanced
  <2>1. disputes' = disputes /\ balance' + Held = balance + Held'
        BY <1>3 DEF Balanced
  <2>2. Total(Bonds(disputes')) = Total(Bonds(disputes)) BY <2>1
  <2>3. QED BY <1>1, <1>2, <2>1, <2>2
<1>4. ASSUME NEW d \in Dispute, Locks(d) PROVE Solvency'
  <2>1. /\ disputes' = Append(disputes, d) /\ ~d.resolved
        /\ balance' = balance + d.bond /\ Held' = Held /\ d.bond \in Nat
        BY <1>4 DEF Locks, Dispute
  <2>2. Total(Bonds(disputes')) = Total(Bonds(disputes)) + d.bond
        BY <1>1, <2>1, BondLocked
  <2>3. QED BY <1>1, <1>2, <2>1, <2>2
<1>5. ASSUME NEW i \in DOMAIN disputes, NEW d \in Dispute, Settles(i, d)
      PROVE  Solvency'
  <2>1. /\ disputes' = [disputes EXCEPT ![i] = d] /\ ~disputes[i].resolved
        /\ d.bond = disputes[i].bond /\ balance' = balance
        /\ (d.resolved /\ Held' <= Held + d.bond) \/ (~d.resolved /\ Held' = Held)
        BY <1>5 DEF Settles
  <2>2. /\ d.resolved => Total(Bonds(disputes')) = Total(Bonds(disputes)) - d.bond
        /\ ~d.resolved => Total(Bonds(disputes')) = Total(Bonds(disputes))
        /\ d.bond \in Nat
    <3> DEFINE ds == disputes
               es == disputes'
    <3>1. /\ ds \in Seq(Dispute) /\ i \in DOMAIN ds /\ ~ds[i].resolved
          /\ d.bond = ds[i].bond
          /\ es \in Seq(Dispute) /\ DOMAIN es = DOMAIN ds /\ es[i] = d
          /\ \A j \in DOMAIN ds : j # i => es[j] = ds[j]
          BY <1>1, <2>1, SeqUpdate
    <3> HIDE DEF ds, es
    <3>2. /\ d.resolved => Total(Bonds(es)) = Total(Bonds(ds)) - d.bond
          /\ ~d.resolved => Total(Bonds(es)) = Total(Bonds(ds))
          /\ d.bond \in Nat
          BY <3>1, BondReleased
    <3>3. QED BY <3>2 DEF ds, es
  <2>3. QED BY <1>1, <1>2, <2>1, <2>2
<1>6. QED BY <1>3, <1>4, <1>5, MoneyMoves

\* The contract starts with nothing and owes nothing.
LEMMA InitSolvent == Init => Held = 0 /\ Total(Bonds(disputes)) = 0 /\ balance = 0
<1> SUFFICES ASSUME Init
             PROVE  Held = 0 /\ Total(Bonds(disputes)) = 0 /\ balance = 0
    OBVIOUS
<1>1. /\ \A a \in Address : relayStake[a] = 0
      /\ \A a \in Address : verifierStake[a] = 0
      /\ \A a \in Address : pendingWithdrawals[a] = 0
      /\ relayStake \in [Address -> Nat] /\ verifierStake \in [Address -> Nat]
      /\ pendingWithdrawals \in [Address -> Nat] /\ IsFiniteSet(Address)
      /\ balance = 0 /\ disputes = <<>>
      BY ParameterAssumption DEF Init
<1>2. /\ Total(relayStake) = 0 /\ Total(verifierStake) = 0
      /\ Total(pendingWithdrawals) = 0
      BY <1>1, TotalZero
<1>3. Total(Bonds(disputes)) = 0
  <2> DEFINE f == Bonds(disputes)
             S == DOMAIN disputes
  <2>1. disputes \in Seq(Dispute) BY <1>1
  <2>2. IsFiniteSet(S) /\ f \in [S -> Nat] BY <2>1, BondsType
  <2>3. \A i \in S : f[i] = 0 BY <1>1
  <2> HIDE DEF f, S
  <2>4. Total(f) = 0 BY <2>2, <2>3, TotalZero
  <2>5. QED BY <2>4 DEF f
<1>4. QED BY <1>1, <1>2, <1>3 DEF Held

\* Whatever relays, verifiers and challengers do, and however many of them
\* there are, the contract can always pay out every stake, every credit and
\* every locked bond.  Every slash is credited from what was really deducted,
\* and every rounding is in the contract's favour.
THEOREM Solvent == Spec => []Solvency
<1>1. Init => TypeOK /\ Solvency
  <2>1. Init => Solvency BY InitSolvent, Owed DEF Solvency
  <2>2. QED BY <2>1, InitTypes
<1>2. TypeOK /\ Solvency /\ [Next]_vars => (TypeOK /\ Solvency)'
      BY NextTypes, NextSolvent
<1>3. QED BY <1>1, <1>2, PTL DEF Spec

-----------------------------------------------------------------------------
(* The committee.                                                          *)
\* A newcomer is listed after everybody else.
LEMMA RosterGrows ==
  ASSUME CommitteeTypes, RosterMatches, NEW v \in Address,
         ~isRegisteredVerifier[v],
         isRegisteredVerifier' = [isRegisteredVerifier EXCEPT ![v] = TRUE],
         verifierRoster' = Append(verifierRoster, v),
         verifierCount' = verifierCount + 1
  PROVE  RosterMatches'
<1> DEFINE n == Len(verifierRoster)
<1>1. /\ n \in Nat /\ DOMAIN verifierRoster = 1 .. n
      /\ DOMAIN verifierRoster' = 1 .. n + 1 /\ Len(verifierRoster') = n + 1
      /\ verifierRoster'[n + 1] = v
      /\ \A i \in 1 .. n : verifierRoster'[i] = verifierRoster[i]
  <2>1. verifierRoster \in Seq(Address) BY DEF CommitteeTypes
  <2>2. QED BY <2>1, SeqAppend, SMTT(30)
<1>2. \A i \in 1 .. n : verifierRoster[i] # v
      BY <1>1 DEF RosterMatches
<1>3. isRegisteredVerifier \in [Address -> BOOLEAN] BY DEF CommitteeTypes
<1>4. \A i \in 1 .. n + 1 : i \in 1 .. n \/ i = n + 1 BY <1>1
<1>5. {verifierRoster'[i] : i \in 1 .. n + 1}
        = {verifierRoster[i] : i \in 1 .. n} \cup {v}
      BY <1>1, <1>4
<1>6. {a \in Address : isRegisteredVerifier'[a]}
        = {a \in Address : isRegisteredVerifier[a]} \cup {v}
      BY <1>3
<1>7. \A i, j \in 1 .. n + 1 : verifierRoster'[i] = verifierRoster'[j] => i = j
      BY <1>1, <1>2, <1>4 DEF RosterMatches
<1>8. QED BY <1>1, <1>5, <1>6, <1>7 DEF RosterMatches

\* Who leaves has one place on the roster, and the last member takes it.
LEMMA RosterShrinks ==
  ASSUME CommitteeTypes, RosterMatches, NEW v \in Address, deregisterVerifier(v)
  PROVE  RosterMatches'
<1> DEFINE r == verifierRoster
           n == Len(r)
           entries == {i \in 1 .. n : r[i] = v}
           first == CHOOSE i \in entries : \A j \in entries : i <= j
           swapped == [r EXCEPT ![first] = r[n]]
<1>1. r \in Seq(Address) /\ n \in Nat /\ DOMAIN r = 1 .. n
      /\ isRegisteredVerifier \in [Address -> BOOLEAN]
      BY DEF CommitteeTypes
<1>2. PICK p \in 1 .. n : entries = {p}
  <2>1. isRegisteredVerifier[v] BY DEF deregisterVerifier
  <2>2. \E p \in 1 .. n : r[p] = v BY <1>1, <2>1 DEF RosterMatches
  <2>3. \A i, j \in 1 .. n : r[i] = r[j] => i = j BY <1>1 DEF RosterMatches
  <2>4. QED BY <2>2, <2>3
<1>3. first = p BY <1>1, <1>2
<1>4. /\ verifierRoster' = WithoutEntry(r, first)
      /\ verifierCount' = verifierCount - 1
      /\ isRegisteredVerifier' = [isRegisteredVerifier EXCEPT ![v] = FALSE]
      BY <1>2 DEF deregisterVerifier
<1> HIDE DEF entries, first
<1>5. /\ swapped \in [1 .. n -> Address]
      /\ \A i \in 1 .. n : swapped[i] = IF i = p THEN r[n] ELSE r[i]
  <2>1. r \in [1 .. n -> Address] /\ n \in 1 .. n BY <1>1, <1>2
  <2>2. QED BY <1>3, <2>1
<1>6. verifierRoster' = SubSeq(swapped, 1, n - 1)
      BY <1>4 DEF WithoutEntry
<1> HIDE DEF swapped, n, r
<1>7. /\ verifierRoster' \in Seq(Address) /\ Len(verifierRoster') = n - 1
      /\ \A i \in 1 .. n - 1 : verifierRoster'[i] = swapped[i]
  <2>1. n - 1 \in Int /\ 1 \in Int /\ 1 <= n BY <1>1, <1>2
  <2>2. \A i \in 1 .. n - 1 : swapped[i] \in Address BY <1>1, <1>5
  <2> DEFINE t == SubSeq(swapped, 1, n - 1)
  <2>3. t \in Seq(Address) /\ Len(t) = (IF 1 <= n - 1 THEN n - 1 - 1 + 1 ELSE 0)
        /\ \A i \in 1 .. n - 1 - 1 + 1 : t[i] = swapped[1 + i - 1]
        BY <2>1, <2>2, SubSeqProperties
  <2> HIDE DEF t
  <2>4. QED BY <1>1, <1>6, <2>1, <2>3 DEF t
<1>8. DOMAIN verifierRoster' = 1 .. n - 1 /\ n - 1 \in Nat
      BY <1>1, <1>2, <1>7
<1>9. \A i \in 1 .. n - 1 : verifierRoster'[i] = IF i = p THEN r[n] ELSE r[i]
      BY <1>1, <1>5, <1>7
<1>10. r[p] = v /\ \A i \in 1 .. n : i # p => r[i] # v
       BY <1>2 DEF entries
<1>11. {verifierRoster'[i] : i \in 1 .. n - 1} = {r[i] : i \in 1 .. n} \ {v}
  <2>1. \A i \in 1 .. n - 1 : \E j \in 1 .. n : verifierRoster'[i] = r[j] /\ r[j] # v
    <3> SUFFICES ASSUME NEW i \in 1 .. n - 1
                 PROVE  \E j \in 1 .. n : verifierRoster'[i] = r[j] /\ r[j] # v
        OBVIOUS
    <3>1. i \in 1 .. n /\ n \in 1 .. n /\ i # n BY <1>1
    <3>2. QED BY <1>9, <1>10, <3>1
  <2>2. \A j \in 1 .. n : r[j] # v => \E i \in 1 .. n - 1 : verifierRoster'[i] = r[j]
    <3> SUFFICES ASSUME NEW j \in 1 .. n, r[j] # v
                 PROVE  \E i \in 1 .. n - 1 : verifierRoster'[i] = r[j]
        OBVIOUS
    <3>1. j # p BY <1>10
    <3>2. CASE j = n
      <4>1. p \in 1 .. n - 1 BY <1>1, <3>1, <3>2
      <4>2. QED BY <1>9, <3>2, <4>1
    <3>3. CASE j # n
      <4>1. j \in 1 .. n - 1 BY <1>1, <3>3
      <4>2. QED BY <1>9, <3>1, <4>1
    <3>4. QED BY <3>2, <3>3
  <2>3. QED BY <2>1, <2>2
<1>12. {a \in Address : isRegisteredVerifier'[a]}
         = {a \in Address : isRegisteredVerifier[a]} \ {v}
       BY <1>1, <1>4
<1>13. \A i, j \in 1 .. n - 1 : verifierRoster'[i] = verifierRoster'[j] => i = j
  <2> SUFFICES ASSUME NEW i \in 1 .. n - 1, NEW j \in 1 .. n - 1,
                      verifierRoster'[i] = verifierRoster'[j]
               PROVE  i = j
      OBVIOUS
  <2>1. i \in 1 .. n /\ j \in 1 .. n /\ n \in 1 .. n /\ i # n /\ j # n BY <1>1
  <2>2. \A x, y \in 1 .. n : r[x] = r[y] => x = y BY <1>1 DEF RosterMatches, r
  <2>3. QED BY <1>9, <2>1, <2>2
<1>14. verifierCount' = n - 1 BY <1>4 DEF RosterMatches, n, r
<1>15. {r[i] : i \in 1 .. n} = {a \in Address : isRegisteredVerifier[a]}
       BY <1>1 DEF RosterMatches, r
<1>16. QED BY <1>7, <1>8, <1>11, <1>12, <1>13, <1>14, <1>15 DEF RosterMatches

\* Only deposits and departures of verifiers touch the roster.
LEMMA NextRoster == TypeOK /\ RosterMatches /\ [Next]_vars => RosterMatches'
<1> SUFFICES ASSUME TypeOK, RosterMatches, [Next]_vars PROVE RosterMatches'
    OBVIOUS
<1>0. CommitteeTypes BY DEF TypeOK
<1>1. ASSUME UNCHANGED <<isRegisteredVerifier, verifierRoster, verifierCount>>
      PROVE  RosterMatches'
      BY <1>1 DEF RosterMatches
<1>2. ASSUME NEW a \in Address, NEW value \in Nat, Housekeeping(a, value)
      PROVE  RosterMatches'
  <2>1. CASE stakeVerifier(a, value)
        BY <1>0, <1>1, <2>1, RosterGrows DEF stakeVerifier
  <2>2. CASE deregisterVerifier(a)
        BY <1>0, <2>2, RosterShrinks
  <2>3. QED BY <1>1, <1>2, <2>1, <2>2
        DEF Housekeeping, stakeRelay, announceUnstake, unstakeRelay,
            announceVerifierUnstake, unstakeVerifier, registryCall, withdraw,
            verifierVars
<1>3. ASSUME NEW a, NEW x, NEW y, NEW z,
             submitAccountable(a, x, y, z) \/ submitBatch(a, x, y, z)
      PROVE  RosterMatches'
      BY <1>1, <1>3 DEF submitAccountable, submitBatch, verifierVars
<1>4. ASSUME NEW i, finalizeRecord(i) \/ finalizeBatch(i) \/ expireDispute(i)
      PROVE  RosterMatches'
      BY <1>1, <1>4 DEF finalizeRecord, finalizeBatch, expireDispute, verifierVars
<1>5. ASSUME NEW a, NEW i, NEW l, NEW leaf, NEW bond,
             openDispute(a, i, bond) \/ openBatchLeafDispute(a, i, l, leaf, bond)
      PROVE  RosterMatches'
      BY <1>1, <1>5 DEF openDispute, openBatchLeafDispute, verifierVars
<1>6. ASSUME NEW i, NEW v, NEW f, submitAttestation(i, v, f) PROVE RosterMatches'
      BY <1>1, <1>6 DEF submitAttestation
<1>7. CASE withdrawReturns \/ Tick \/ UNCHANGED vars
      BY <1>1, <1>7 DEF withdrawReturns, Tick, verifierVars, vars
<1>8. QED BY <1>2, <1>3, <1>4, <1>5, <1>6, <1>7, StepKinds

\* In whatever order verifiers join and leave, the roster lists each
\* registered one once and nobody else, and verifierCount is its length.
THEOREM Roster == Spec => []RosterMatches
<1>1. Init => TypeOK /\ RosterMatches
  <2>1. Init => RosterMatches BY DEF Init, RosterMatches
  <2>2. QED BY <2>1, InitTypes
<1>2. TypeOK /\ RosterMatches /\ [Next]_vars => (TypeOK /\ RosterMatches)'
      BY NextTypes, NextRoster
<1>3. QED BY <1>1, <1>2, PTL DEF Spec
-----------------------------------------------------------------------------
(* What was posted stays as it was.                                        *)

\* Two records that differ at most in their states, and two batches that
\* differ at most in their states and in their counts of revoked leaves.
SameRecord(r, s) ==
  /\ r.dataHash = s.dataHash /\ r.didHash = s.didHash
  /\ r.falconSignature = s.falconSignature /\ r.pubKeyHash = s.pubKeyHash
  /\ r.submittedAt = s.submittedAt /\ r.relay = s.relay /\ r.nonce = s.nonce
SameBatch(b, c) ==
  /\ b.merkleRoot = c.merkleRoot /\ b.submittedAt = c.submittedAt
  /\ b.relay = c.relay

\* A step changes no more than that of what was posted, and posts nothing.
SamePosted ==
  /\ DOMAIN records' = DOMAIN records
  /\ DOMAIN batches' = DOMAIN batches
  /\ \A i \in DOMAIN records : SameRecord(records'[i], records[i])
  /\ \A b \in DOMAIN batches : SameBatch(batches'[b], batches[b])

\* Leaving them alone, changing one record's state, or one batch's.
LEMMA SamePostedCases ==
  ASSUME TargetTypes
  PROVE  /\ UNCHANGED <<records, batches>> => SamePosted
         /\ \A s : \A i \in DOMAIN records :
              /\ records' = [records EXCEPT ![i].state = s]
              /\ UNCHANGED batches
              => SamePosted
         /\ \A s : \A b \in DOMAIN batches :
              /\ batches' = [batches EXCEPT ![b].state = s]
              /\ UNCHANGED records
              => SamePosted
         /\ \A n : \A b \in DOMAIN batches :
              /\ batches' = [batches EXCEPT ![b].revokedLeafCount = n]
              /\ UNCHANGED records
              => SamePosted
<1>1. /\ \A i \in DOMAIN records : records[i] \in Record
      /\ \A b \in DOMAIN batches : batches[b] \in Batch
      BY DEF TargetTypes
<1>2. /\ \A s : \A r \in Record : SameRecord([r EXCEPT !.state = s], r)
      /\ \A s : \A b \in Batch : SameBatch([b EXCEPT !.state = s], b)
      /\ \A n : \A b \in Batch : SameBatch([b EXCEPT !.revokedLeafCount = n], b)
      BY DEF Record, Batch, SameRecord, SameBatch
<1>3. (\A r : SameRecord(r, r)) /\ (\A b : SameBatch(b, b))
      BY DEF SameRecord, SameBatch
<1>4. ASSUME NEW i \in DOMAIN records, NEW s,
             records' = [records EXCEPT ![i].state = s], UNCHANGED batches
      PROVE  SamePosted
  <2>1. /\ DOMAIN records' = DOMAIN records
        /\ records'[i] = [records[i] EXCEPT !.state = s]
        /\ \A j \in DOMAIN records : j # i => records'[j] = records[j]
        BY <1>4
  <2>2. SameRecord(records'[i], records[i]) BY <1>1, <1>2, <2>1
  <2>3. QED BY <1>3, <1>4, <2>1, <2>2 DEF SamePosted
<1>5. ASSUME NEW b \in DOMAIN batches, NEW s,
             batches' = [batches EXCEPT ![b].state = s], UNCHANGED records
      PROVE  SamePosted
  <2>1. /\ DOMAIN batches' = DOMAIN batches
        /\ batches'[b] = [batches[b] EXCEPT !.state = s]
        /\ \A c \in DOMAIN batches : c # b => batches'[c] = batches[c]
        BY <1>5
  <2>2. SameBatch(batches'[b], batches[b]) BY <1>1, <1>2, <2>1
  <2>3. QED BY <1>3, <1>5, <2>1, <2>2 DEF SamePosted
<1>6. ASSUME NEW b \in DOMAIN batches, NEW n,
             batches' = [batches EXCEPT ![b].revokedLeafCount = n], UNCHANGED records
      PROVE  SamePosted
  <2>1. /\ DOMAIN batches' = DOMAIN batches
        /\ batches'[b] = [batches[b] EXCEPT !.revokedLeafCount = n]
        /\ \A c \in DOMAIN batches : c # b => batches'[c] = batches[c]
        BY <1>6
  <2>2. SameBatch(batches'[b], batches[b]) BY <1>1, <1>2, <2>1
  <2>3. QED BY <1>3, <1>6, <2>1, <2>2 DEF SamePosted
<1>7. UNCHANGED <<records, batches>> => SamePosted BY <1>3 DEF SamePosted
<1>8. QED BY <1>4, <1>5, <1>6, <1>7

\* A verdict does no more.
LEMMA VerdictSamePosted ==
  ASSUME TargetTypes, NEW target \in Target, Posted(target),
         RevokeTarget(target) \/ UpholdTarget(target)
  PROVE  SamePosted
<1> DEFINE n == target[2]
<1>1. CASE target[1] = 0
  <2>1. n \in DOMAIN records BY <1>1 DEF Posted
  <2>2. UNCHANGED batches /\ \E s : records' = [records EXCEPT ![n].state = s]
        BY <1>1 DEF RevokeTarget, UpholdTarget
  <2> HIDE DEF n
  <2>3. QED BY <2>1, <2>2, SamePostedCases
<1>2. CASE target[1] # 0
  <2>1. n \in DOMAIN batches BY <1>2 DEF Posted
  <2>2. UNCHANGED records
        /\ \/ UNCHANGED batches
           \/ \E c : batches' = [batches EXCEPT ![n].revokedLeafCount = c]
        BY <1>2 DEF RevokeTarget, UpholdTarget
  <2> HIDE DEF n
  <2>3. QED BY <2>1, <2>2, SamePostedCases
<1>3. QED BY <1>1, <1>2

\* And so does every step that posts nothing.
LEMMA StepKeepsPosted ==
  ASSUME TypeOK, [Next]_vars
  PROVE  \/ SamePosted
         \/ \E a \in Address, dataHash \in Payload, did \in DID, sig \in SigLength :
              submitAccountable(a, dataHash, did, sig)
         \/ \E a \in Address, k \in 0 .. MaxLeaves :
              \E didHashes \in [1 .. k -> DID], dataHashes \in [1 .. k -> Payload],
                 length \in Nat : submitBatch(a, didHashes, dataHashes, length)
<1>0. TargetTypes BY DEF TypeOK
<1>1. ASSUME NEW a \in Address, NEW value \in Nat, Housekeeping(a, value)
      PROVE  SamePosted
      BY <1>0, <1>1, SamePostedCases
      DEF Housekeeping, stakeRelay, announceUnstake, unstakeRelay, stakeVerifier,
          announceVerifierUnstake, unstakeVerifier, deregisterVerifier,
          registryCall, withdraw, targetVars
<1>2. ASSUME NEW i, finalizeRecord(i) PROVE SamePosted
      BY <1>0, <1>2, SamePostedCases DEF finalizeRecord
<1>3. ASSUME NEW b, finalizeBatch(b) PROVE SamePosted
  <2>1. /\ b \in DOMAIN batches /\ UNCHANGED records
        /\ batches' = [batches EXCEPT ![b].state = "Confirmed"]
        BY <1>3 DEF finalizeBatch
  <2>2. QED BY <1>0, <2>1, SamePostedCases
<1>4. ASSUME NEW a, NEW i, NEW bond, openDispute(a, i, bond) PROVE SamePosted
      BY <1>0, <1>4, SamePostedCases DEF openDispute
<1>5. ASSUME NEW a, NEW b, NEW l, NEW leaf, NEW bond,
             openBatchLeafDispute(a, b, l, leaf, bond)
      PROVE  SamePosted
      BY <1>0, <1>5, SamePostedCases DEF openBatchLeafDispute
<1>6. ASSUME NEW i \in DOMAIN disputes
      PROVE  disputes[i] \in Dispute /\ disputes[i].target \in Target
             /\ Posted(disputes[i].target)
  <2>1. disputes[i] \in Dispute BY DEF TypeOK, DisputeTypes
  <2>2. QED BY <2>1 DEF TypeOK, DisputeTypes, Dispute
<1>7. ASSUME NEW i \in DOMAIN disputes, expireDispute(i) PROVE SamePosted
      BY <1>0, <1>6, <1>7, VerdictSamePosted DEF expireDispute
<1>8. ASSUME NEW i \in DOMAIN disputes, NEW v \in Address, NEW f \in BOOLEAN,
             submitAttestation(i, v, f)
      PROVE  SamePosted
  <2> DEFINE d == Voted(disputes[i], v, f)
  <2>1. d.target = disputes[i].target BY <1>6, VotedType
  <2>2. \/ RevokeTarget(d.target)
        \/ UpholdTarget(d.target)
        \/ UNCHANGED targetVars
        BY <1>8 DEF submitAttestation, ResolveFraud, ResolveSpurious
  <2> HIDE DEF d
  <2>3. QED BY <1>0, <1>6, <2>1, <2>2, VerdictSamePosted, SamePostedCases DEF targetVars
<1>9. CASE withdrawReturns \/ Tick \/ UNCHANGED vars
      BY <1>0, <1>9, SamePostedCases DEF withdrawReturns, Tick, targetVars, vars
<1>10. QED BY <1>1, <1>2, <1>3, <1>4, <1>5, <1>7, <1>8, <1>9, StepKinds

\* Submissions add to what was posted.
LEMMA SubmitAppends ==
  ASSUME TypeOK, NEW a \in Address, NEW dataHash \in Payload, NEW did \in DID,
         NEW sig \in SigLength, submitAccountable(a, dataHash, did, sig),
         NEW n, n = Len(records), NEW r, r = records'[n + 1]
  PROVE  /\ n \in Nat /\ DOMAIN records = 1 .. n /\ DOMAIN records' = 1 .. n + 1
         /\ \A i \in 1 .. n : records'[i] = records[i]
         /\ r.didHash = did /\ r.pubKeyHash = dids[did].publicKey
         /\ r.submittedAt = now /\ r.relay = a
         /\ r.nonce = didNonce[did] + 1 /\ r.state = "Provisional"
         /\ dids[did].registered
         /\ didNonce' = [didNonce EXCEPT ![did] = @ + 1]
         /\ UNCHANGED <<dids, batches>>
<1> DEFINE e == [dataHash |-> dataHash, didHash |-> did, falconSignature |-> sig,
                 pubKeyHash |-> dids[did].publicKey, submittedAt |-> now,
                 relay |-> a, nonce |-> didNonce[did] + 1, state |-> "Provisional"]
<1>1. /\ didNonce \in [DID -> Nat] /\ records \in Seq(Record)
      /\ dids[did].registered
      /\ didNonce' = [didNonce EXCEPT ![did] = @ + 1]
      /\ UNCHANGED <<dids, batches>>
      BY DEF TypeOK, TargetTypes, submitAccountable, Accepted, Registry!isActive, chainVars
<1>2. records' = Append(records, e)
      BY <1>1 DEF submitAccountable, Registry!getPublicKey
<1> HIDE DEF e
<1>3. /\ n \in Nat /\ DOMAIN records = 1 .. n /\ DOMAIN records' = 1 .. n + 1
      /\ \A i \in 1 .. n : records'[i] = records[i]
      /\ records'[n + 1] = e
      BY <1>1, <1>2
<1>4. /\ e.didHash = did /\ e.pubKeyHash = dids[did].publicKey
      /\ e.submittedAt = now /\ e.relay = a
      /\ e.nonce = didNonce[did] + 1 /\ e.state = "Provisional"
      BY DEF e
<1>5. QED BY <1>1, <1>3, <1>4

\* The same for a batch.
LEMMA BatchAppends ==
  ASSUME TypeOK, NEW a \in Address, NEW k \in 0 .. MaxLeaves,
         NEW didHashes \in [1 .. k -> DID], NEW dataHashes \in [1 .. k -> Payload],
         NEW length, submitBatch(a, didHashes, dataHashes, length),
         NEW n, n = Len(batches), NEW x, x = batches'[n + 1]
  PROVE  /\ k \in Nat /\ n \in Nat /\ n + 1 <= MaxBatches
         /\ DOMAIN batches = 1 .. n /\ DOMAIN batches' = 1 .. n + 1
         /\ \A b \in 1 .. n : batches'[b] = batches[b]
         /\ DOMAIN x.merkleRoot = 1 .. k
         /\ \A i \in 1 .. k : /\ x.merkleRoot[i].didHash = didHashes[i]
                               /\ x.merkleRoot[i].nonce = LeafNonce(didHashes, i)
         /\ x.revokedLeafCount = 0 /\ x.state = "Provisional" /\ x.relay = a
         /\ x.submittedAt = now
         /\ \A i \in 1 .. k : dids[didHashes[i]].registered
         /\ didNonce' = [did \in DID |->
                           didNonce[did] + Occurrences(didHashes, did, k)]
         /\ UNCHANGED <<dids, records>>
<1> DEFINE e == [merkleRoot |-> [i \in 1 .. k |->
                   [batchIndex |-> n + 1, didHash |-> didHashes[i],
                    nonce |-> LeafNonce(didHashes, i), dataHash |-> dataHashes[i]]],
                 submittedAt |-> now, relay |-> a, revokedLeafCount |-> 0,
                 state |-> "Provisional"]
<1>1. k \in Nat /\ Len(didHashes) = k BY InputAssumption
<1>2. /\ batches \in Seq(Batch)
      /\ Len(batches) < MaxBatches
      /\ \A i \in 1 .. k : dids[didHashes[i]].registered
      /\ didNonce' = [did \in DID |->
                        didNonce[did] + Occurrences(didHashes, did, k)]
      /\ UNCHANGED <<dids, records>>
      BY <1>1 DEF TypeOK, TargetTypes, submitBatch, Accepted, Registry!isActive, chainVars
<1>3. batches' = Append(batches, e) BY <1>1 DEF submitBatch
<1> HIDE DEF e
<1>4. /\ n \in Nat /\ DOMAIN batches = 1 .. n /\ DOMAIN batches' = 1 .. n + 1
      /\ \A b \in 1 .. n : batches'[b] = batches[b]
      /\ batches'[n + 1] = e
      BY <1>2, <1>3
<1>5. n + 1 <= MaxBatches BY <1>2, <1>4, InputAssumption
<1>6. /\ DOMAIN e.merkleRoot = 1 .. k
      /\ \A i \in 1 .. k : /\ e.merkleRoot[i].didHash = didHashes[i]
                            /\ e.merkleRoot[i].nonce = LeafNonce(didHashes, i)
      /\ e.revokedLeafCount = 0 /\ e.state = "Provisional" /\ e.relay = a
      /\ e.submittedAt = now
      BY DEF e
<1>7. QED BY <1>1, <1>2, <1>4, <1>5, <1>6

-----------------------------------------------------------------------------
(* The key snapshots.                                                      *)
\* Whatever is registered stays registered, under its key.
LEMMA RegistryKeeps ==
  ASSUME TypeOK, [Next]_vars, NEW did \in DID, dids[did].registered
  PROVE  dids'[did].registered /\ dids'[did].publicKey = dids[did].publicKey
<1>1. dids \in [DID -> Registry!DIDDocument]
      BY DEF TypeOK, ChainTypes, Registry!RegistryTypes
<1>2. ASSUME NEW a, NEW d \in DID, registryCall(a, d)
      PROVE  dids'[did].registered /\ dids'[did].publicKey = dids[did].publicKey
  <2>1. CASE d # did
    <3>1. dids'[did] = dids[did]
          BY <1>1, <1>2, <2>1 DEF registryCall, Registry!registerDID, Registry!deactivateDID
    <3>2. QED BY <3>1
  <2>2. CASE d = did
    <3>1. dids' = [dids EXCEPT ![did].active = FALSE]
          BY <1>2, <2>2
          DEF registryCall, Registry!registerDID, Registry!Unregistered, Registry!deactivateDID
    <3>2. dids[did] \in Registry!DIDDocument BY <1>1
    <3>3. dids'[did] = [dids[did] EXCEPT !.active = FALSE] BY <1>1, <3>1
    <3>4. QED BY <3>2, <3>3 DEF Registry!DIDDocument
  <2>3. QED BY <2>1, <2>2
<1>3. ASSUME UNCHANGED dids
      PROVE  dids'[did].registered /\ dids'[did].publicKey = dids[did].publicKey
      BY <1>3
<1>4. ASSUME NEW a \in Address, NEW value \in Nat, Housekeeping(a, value)
      PROVE  dids'[did].registered /\ dids'[did].publicKey = dids[did].publicKey
      BY <1>2, <1>3, <1>4
      DEF Housekeeping, stakeRelay, announceUnstake, unstakeRelay, stakeVerifier,
          announceVerifierUnstake, unstakeVerifier, deregisterVerifier, withdraw,
          chainVars
<1>5. ASSUME NEW a, NEW x, NEW y, NEW z,
             submitAccountable(a, x, y, z) \/ submitBatch(a, x, y, z)
      PROVE  UNCHANGED dids
      BY <1>5 DEF submitAccountable, submitBatch, chainVars
<1>6. ASSUME NEW i, finalizeRecord(i) \/ finalizeBatch(i) \/ expireDispute(i)
      PROVE  UNCHANGED dids
      BY <1>6 DEF finalizeRecord, finalizeBatch, expireDispute, chainVars
<1>7. ASSUME NEW a, NEW i, NEW l, NEW leaf, NEW bond,
             openDispute(a, i, bond) \/ openBatchLeafDispute(a, i, l, leaf, bond)
      PROVE  UNCHANGED dids
      BY <1>7 DEF openDispute, openBatchLeafDispute, chainVars
<1>8. ASSUME NEW i, NEW v, NEW f, submitAttestation(i, v, f) PROVE UNCHANGED dids
      BY <1>8 DEF submitAttestation, chainVars
<1>9. CASE withdrawReturns \/ Tick \/ UNCHANGED vars
      BY <1>3, <1>9 DEF withdrawReturns, Tick, vars, chainVars
<1>10. QED BY <1>3, <1>4, <1>5, <1>6, <1>7, <1>8, <1>9, StepKinds

\* A snapshot is taken of an active registration, which never changes again.
LEMMA NextSnapshot ==
  TypeOK /\ SnapshotMatchesRegistry /\ [Next]_vars => SnapshotMatchesRegistry'
<1> SUFFICES ASSUME TypeOK, SnapshotMatchesRegistry, [Next]_vars
             PROVE  SnapshotMatchesRegistry'
    OBVIOUS
<1>0. TargetTypes BY DEF TypeOK
<1>1. \A i \in DOMAIN records :
        LET did == records[i].didHash IN
        /\ did \in DID
        /\ dids'[did].registered
        /\ dids'[did].publicKey = records[i].pubKeyHash
  <2> SUFFICES ASSUME NEW i \in DOMAIN records
               PROVE  LET did == records[i].didHash IN
                      /\ did \in DID
                      /\ dids'[did].registered
                      /\ dids'[did].publicKey = records[i].pubKeyHash
      OBVIOUS
  <2>1. records[i] \in Record BY <1>0 DEF TargetTypes
  <2>2. records[i].didHash \in DID BY <2>1 DEF Record
  <2>3. QED BY <2>2, RegistryKeeps DEF SnapshotMatchesRegistry
<1>2. \A b \in DOMAIN batches :
        \A l \in DOMAIN batches[b].merkleRoot :
          dids'[batches[b].merkleRoot[l].didHash].registered
  <2> SUFFICES ASSUME NEW b \in DOMAIN batches, NEW l \in DOMAIN batches[b].merkleRoot
               PROVE  dids'[batches[b].merkleRoot[l].didHash].registered
      OBVIOUS
  <2>1. batches[b] \in Batch BY <1>0 DEF TargetTypes
  <2>2. batches[b].merkleRoot \in Seq(Leaf) BY <2>1 DEF Batch
  <2>3. batches[b].merkleRoot[l] \in Leaf BY <2>2
  <2>4. batches[b].merkleRoot[l].didHash \in DID BY <2>3 DEF Leaf
  <2>5. QED BY <2>4, RegistryKeeps DEF SnapshotMatchesRegistry
<1>3. CASE SamePosted
      BY <1>1, <1>2, <1>3 DEF SnapshotMatchesRegistry, SamePosted, SameRecord, SameBatch
<1>4. ASSUME NEW a \in Address, NEW dataHash \in Payload, NEW did \in DID,
             NEW sig \in SigLength, submitAccountable(a, dataHash, did, sig)
      PROVE  SnapshotMatchesRegistry'
  <2>1. PICK n, r : n = Len(records) /\ r = records'[n + 1] OBVIOUS
  <2>2. /\ n \in Nat /\ DOMAIN records = 1 .. n /\ DOMAIN records' = 1 .. n + 1
        /\ \A i \in 1 .. n : records'[i] = records[i]
        /\ r.didHash = did /\ r.pubKeyHash = dids[did].publicKey
        /\ dids[did].registered
        /\ UNCHANGED <<dids, batches>>
        BY <1>4, <2>1, SubmitAppends
  <2>3. \A i \in 1 .. n + 1 : i \in 1 .. n \/ i = n + 1 BY <2>2
  <2>4. QED BY <1>1, <1>2, <2>1, <2>2, <2>3 DEF SnapshotMatchesRegistry
<1>5. ASSUME NEW a \in Address, NEW k \in 0 .. MaxLeaves,
             NEW didHashes \in [1 .. k -> DID], NEW dataHashes \in [1 .. k -> Payload],
             NEW length \in Nat, submitBatch(a, didHashes, dataHashes, length)
      PROVE  SnapshotMatchesRegistry'
  <2>1. PICK n, x : n = Len(batches) /\ x = batches'[n + 1] OBVIOUS
  <2>2. /\ n \in Nat /\ DOMAIN batches = 1 .. n /\ DOMAIN batches' = 1 .. n + 1
        /\ \A b \in 1 .. n : batches'[b] = batches[b]
        /\ DOMAIN x.merkleRoot = 1 .. k
        /\ \A i \in 1 .. k : x.merkleRoot[i].didHash = didHashes[i]
        /\ \A i \in 1 .. k : dids[didHashes[i]].registered
        /\ UNCHANGED <<dids, records>>
        BY <1>5, <2>1, BatchAppends, SMTT(40)
  <2>3. \A b \in 1 .. n + 1 : b \in 1 .. n \/ b = n + 1 BY <2>2
  <2>4. QED BY <1>1, <1>2, <2>1, <2>2, <2>3 DEF SnapshotMatchesRegistry
<1>6. QED BY <1>3, <1>4, <1>5, StepKeepsPosted

\* The key a record was signed under can be looked up for ever: the registry
\* keeps it, also after the DID was deactivated.
THEOREM Snapshots == Spec => []SnapshotMatchesRegistry
<1>1. Init => TypeOK /\ SnapshotMatchesRegistry
  <2>1. Init => SnapshotMatchesRegistry BY DEF Init, SnapshotMatchesRegistry
  <2>2. QED BY <2>1, InitTypes
<1>2. TypeOK /\ SnapshotMatchesRegistry /\ [Next]_vars
        => (TypeOK /\ SnapshotMatchesRegistry)'
      BY NextTypes, NextSnapshot
<1>3. QED BY <1>1, <1>2, PTL DEF Spec
-----------------------------------------------------------------------------
(* The sequence numbers of a DID.                                          *)

\* Counting a DID's places in a batch one after the other gives every number
\* from 1 up to how many there are.
LEMMA OccurrencesCount ==
  ASSUME NEW k \in Nat, NEW didHashes \in [1 .. k -> DID], NEW did \in DID,
         NEW J, J = {j \in 1 .. k : didHashes[j] = did}
  PROVE  /\ IsFiniteSet(J)
         /\ Occurrences(didHashes, did, k) = Cardinality(J)
         /\ Cardinality(J) \in Nat
         /\ {Occurrences(didHashes, did, l) : l \in J} = 1 .. Cardinality(J)
<1> DEFINE Upto(l) == {j \in 1 .. l : didHashes[j] = did}
           c == Cardinality(J)
           count == [l \in J |-> Occurrences(didHashes, did, l)]
<1>1. IsFiniteSet(1 .. k) BY FS_Interval
<1>2. IsFiniteSet(J) /\ c \in Nat BY <1>1, FS_Subset, FS_CardinalityType
<1>3. \A l \in J : Upto(l) \in SUBSET J /\ l \in Upto(l)
      OBVIOUS
<1>4. \A l : Occurrences(didHashes, did, l) = Cardinality(Upto(l))
      BY DEF Occurrences
<1>5. Occurrences(didHashes, did, k) = c BY <1>4
<1>6. \A l, m \in J : l < m => Upto(l) \in SUBSET Upto(m) /\ m \notin Upto(l)
      OBVIOUS
<1> HIDE DEF Upto
<1>7. \A l \in J : IsFiniteSet(Upto(l)) /\ Cardinality(Upto(l)) \in 1 .. c
  <2> SUFFICES ASSUME NEW l \in J
               PROVE  IsFiniteSet(Upto(l)) /\ Cardinality(Upto(l)) \in 1 .. c
      OBVIOUS
  <2>1. IsFiniteSet(Upto(l)) /\ Cardinality(Upto(l)) <= c BY <1>2, <1>3, FS_Subset
  <2>2. Cardinality(Upto(l)) \in Nat BY <2>1, FS_CardinalityType
  <2>3. Cardinality(Upto(l)) # 0 BY <1>3, <2>1, FS_EmptySet
  <2>4. QED BY <1>2, <2>1, <2>2, <2>3
<1>8. \A l, m \in J : l < m => Cardinality(Upto(l)) # Cardinality(Upto(m))
  <2> SUFFICES ASSUME NEW l \in J, NEW m \in J, l < m,
                      Cardinality(Upto(m)) = Cardinality(Upto(l))
               PROVE  FALSE
      OBVIOUS
  <2>1. Upto(m) = Upto(l) BY <1>6, <1>7, FS_Subset
  <2>2. QED BY <1>3, <1>6, <2>1
<1>9. count \in Injection(J, 1 .. c)
  <2>1. count \in [J -> 1 .. c] BY <1>4, <1>7
  <2>2. \A l \in J : count[l] = Cardinality(Upto(l)) BY <1>4
  <2>3. J \subseteq Int OBVIOUS
  <2> HIDE DEF count
  <2>4. ASSUME NEW l \in J, NEW m \in J, count[l] = count[m]
        PROVE  l = m
    <3>1. ~ (l < m) BY <1>8, <2>2, <2>4
    <3>2. ~ (m < l) BY <1>8, <2>2, <2>4
    <3>3. QED BY <2>3, <3>1, <3>2
  <2>5. QED BY <2>1, <2>4 DEF Injection, IsInjective
<1>10. IsFiniteSet(1 .. c) /\ Cardinality(1 .. c) = c BY <1>2, FS_Interval
<1>11. count \in Surjection(J, 1 .. c)
  <2> HIDE DEF count
  <2>1. QED BY <1>9, <1>10, FS_Injection
<1>12. {Occurrences(didHashes, did, l) : l \in J} = {count[l] : l \in J} OBVIOUS
<1>13. {count[l] : l \in J} = 1 .. c
  <2> HIDE DEF count
  <2>1. QED BY <1>11 DEF Surjection
<1>14. QED BY <1>2, <1>5, <1>12, <1>13

\* Records and leaves that a step keeps use the numbers they used.
LEMMA UsesStay ==
  ASSUME SamePosted, NEW did
  PROVE  /\ RecordUses(did)' = RecordUses(did)
         /\ LeafUses(did)' = LeafUses(did)
         /\ NoncesUsed(did)' = NoncesUsed(did)
<1>1. RecordUses(did)' = RecordUses(did)
      BY DEF RecordUses, SamePosted, SameRecord
<1>2. LeafUses(did)' = LeafUses(did)
      BY DEF LeafUses, SamePosted, SameBatch
<1>3. \A i \in RecordUses(did) : records'[i].nonce = records[i].nonce
      BY DEF RecordUses, SamePosted, SameRecord
<1>4. \A u \in LeafUses(did) : batches'[u[1]].merkleRoot = batches[u[1]].merkleRoot
      BY DEF LeafUses, SamePosted, SameBatch
<1>5. QED BY <1>1, <1>2, <1>3, <1>4 DEF NoncesUsed

\* The uses of a DID's numbers can be counted.
FiniteUses ==
  \A did \in DID : IsFiniteSet(RecordUses(did)) /\ IsFiniteSet(LeafUses(did))

\* A record takes the next number.
LEMMA RecordNonce ==
  ASSUME TypeOK, NonceLedger, FiniteUses,
         NEW a \in Address, NEW dataHash \in Payload, NEW did \in DID,
         NEW sig \in SigLength, submitAccountable(a, dataHash, did, sig)
  PROVE  NonceLedger' /\ FiniteUses'
<1>1. PICK n, r : n = Len(records) /\ r = records'[n + 1] OBVIOUS
<1>2. /\ n \in Nat /\ DOMAIN records = 1 .. n /\ DOMAIN records' = 1 .. n + 1
      /\ \A i \in 1 .. n : records'[i] = records[i]
      /\ r.didHash = did /\ r.nonce = didNonce[did] + 1
      /\ didNonce' = [didNonce EXCEPT ![did] = @ + 1]
      /\ UNCHANGED batches
      BY <1>1, SubmitAppends
<1>3. didNonce \in [DID -> Nat] BY DEF TypeOK, TargetTypes
<1>4. \A e : LeafUses(e)' = LeafUses(e) BY <1>2 DEF LeafUses
<1>5. \A i : i \in 1 .. n + 1 <=> i \in 1 .. n \/ i = n + 1 BY <1>2
<1>6. \A e : /\ e # did => RecordUses(e)' = RecordUses(e)
             /\ RecordUses(did)' = RecordUses(did) \cup {n + 1}
             /\ RecordUses(e) \subseteq 1 .. n
      BY <1>1, <1>2, <1>5 DEF RecordUses
<1>7. n + 1 \notin 1 .. n BY <1>2
<1>8. ASSUME NEW e \in DID, e # did
      PROVE  /\ NoncesUsed(e)' = 1 .. didNonce'[e]
             /\ Cardinality(RecordUses(e)') + Cardinality(LeafUses(e)') = didNonce'[e]
             /\ IsFiniteSet(RecordUses(e)') /\ IsFiniteSet(LeafUses(e)')
  <2>1. didNonce'[e] = didNonce[e] BY <1>2, <1>3, <1>8
  <2>2. NoncesUsed(e)' = NoncesUsed(e)
        BY <1>2, <1>4, <1>6, <1>8 DEF NoncesUsed
  <2>3. QED BY <1>4, <1>6, <1>8, <2>1, <2>2 DEF NonceLedger, FiniteUses
<1>9. /\ NoncesUsed(did)' = 1 .. didNonce'[did]
      /\ Cardinality(RecordUses(did)') + Cardinality(LeafUses(did)') = didNonce'[did]
      /\ IsFiniteSet(RecordUses(did)') /\ IsFiniteSet(LeafUses(did)')
  <2>1. didNonce'[did] = didNonce[did] + 1 /\ didNonce[did] \in Nat BY <1>2, <1>3
  <2>2. /\ IsFiniteSet(RecordUses(did)) /\ IsFiniteSet(LeafUses(did))
        /\ NoncesUsed(did) = 1 .. didNonce[did]
        /\ Cardinality(RecordUses(did)) + Cardinality(LeafUses(did)) = didNonce[did]
        BY DEF NonceLedger, FiniteUses
  <2>3. /\ IsFiniteSet(RecordUses(did)')
        /\ Cardinality(RecordUses(did)') = Cardinality(RecordUses(did)) + 1
        BY <1>6, <1>7, <2>2, FS_AddElement
  <2>4. Cardinality(RecordUses(did)) \in Nat /\ Cardinality(LeafUses(did)) \in Nat
        BY <2>2, FS_CardinalityType
  <2>5. NoncesUsed(did)' = NoncesUsed(did) \cup {didNonce[did] + 1}
    <3>1. {records'[i].nonce : i \in RecordUses(did)'}
            = {records[i].nonce : i \in RecordUses(did)} \cup {didNonce[did] + 1}
          BY <1>1, <1>2, <1>6
    <3>2. {batches'[u[1]].merkleRoot[u[2]].nonce : u \in LeafUses(did)'}
            = {batches[u[1]].merkleRoot[u[2]].nonce : u \in LeafUses(did)}
          BY <1>2, <1>4
    <3>3. QED BY <3>1, <3>2 DEF NoncesUsed
  <2>6. 1 .. didNonce[did] + 1 = (1 .. didNonce[did]) \cup {didNonce[did] + 1}
        BY <2>1
  <2>7. QED BY <1>4, <2>1, <2>2, <2>3, <2>4, <2>5, <2>6
<1>10. \A e \in DID :
         /\ NoncesUsed(e)' = 1 .. didNonce'[e]
         /\ Cardinality(RecordUses(e)') + Cardinality(LeafUses(e)') = didNonce'[e]
         /\ IsFiniteSet(RecordUses(e)') /\ IsFiniteSet(LeafUses(e)')
       BY <1>8, <1>9
<1>11. QED BY <1>10 DEF NonceLedger, FiniteUses

\* The leaves of a batch take the next ones, in their order.
LEMMA BatchNonces ==
  ASSUME TypeOK, NonceLedger, FiniteUses, NEW a \in Address, NEW k \in 0 .. MaxLeaves,
         NEW didHashes \in [1 .. k -> DID], NEW dataHashes \in [1 .. k -> Payload],
         NEW length, submitBatch(a, didHashes, dataHashes, length)
  PROVE  NonceLedger' /\ FiniteUses'
<1>1. PICK n, x : n = Len(batches) /\ x = batches'[n + 1] OBVIOUS
<1>2. /\ k \in Nat /\ n \in Nat
      /\ DOMAIN batches = 1 .. n /\ DOMAIN batches' = 1 .. n + 1
      /\ \A b \in 1 .. n : batches'[b] = batches[b]
      /\ DOMAIN x.merkleRoot = 1 .. k
      /\ \A i \in 1 .. k : /\ x.merkleRoot[i].didHash = didHashes[i]
                           /\ x.merkleRoot[i].nonce = LeafNonce(didHashes, i)
      /\ didNonce' = [did \in DID |-> didNonce[did] + Occurrences(didHashes, did, k)]
      /\ UNCHANGED records
      BY <1>1, BatchAppends, SMTT(40)
<1>3. didNonce \in [DID -> Nat] BY DEF TypeOK, TargetTypes
<1> SUFFICES ASSUME NEW did \in DID
             PROVE  /\ NoncesUsed(did)' = 1 .. didNonce'[did]
                    /\ Cardinality(RecordUses(did)') + Cardinality(LeafUses(did)')
                         = didNonce'[did]
                    /\ IsFiniteSet(RecordUses(did)') /\ IsFiniteSet(LeafUses(did)')
    BY DEF NonceLedger, FiniteUses
<1>4. PICK J : J = {j \in 1 .. k : didHashes[j] = did} OBVIOUS
<1>5. /\ IsFiniteSet(J)
      /\ Occurrences(didHashes, did, k) = Cardinality(J)
      /\ Cardinality(J) \in Nat
      /\ {Occurrences(didHashes, did, l) : l \in J} = 1 .. Cardinality(J)
  <2>1. k \in Nat BY <1>2
  <2>2. QED BY <1>4, <2>1, OccurrencesCount, SMTT(60)
<1>6. didNonce'[did] = didNonce[did] + Cardinality(J) /\ didNonce[did] \in Nat
      BY <1>2, <1>3, <1>5
<1>7. RecordUses(did)' = RecordUses(did) BY <1>2 DEF RecordUses
<1> DEFINE new == {<<n + 1, l>> : l \in J}
<1>8. LeafUses(did)' = LeafUses(did) \cup new
  <2>1. \A b : b \in 1 .. n + 1 <=> b \in 1 .. n \/ b = n + 1 BY <1>2
  <2>2. {l \in DOMAIN x.merkleRoot : x.merkleRoot[l].didHash = did} = J
        BY <1>2, <1>4
  <2>3. ASSUME NEW u
        PROVE  u \in LeafUses(did) <=>
                 \E b \in 1 .. n : \E l \in DOMAIN batches[b].merkleRoot :
                   batches[b].merkleRoot[l].didHash = did /\ u = <<b, l>>
        BY <1>2 DEF LeafUses
  <2>4. ASSUME NEW u
        PROVE  u \in LeafUses(did)' <=>
                 \E b \in 1 .. n + 1 : \E l \in DOMAIN batches'[b].merkleRoot :
                   batches'[b].merkleRoot[l].didHash = did /\ u = <<b, l>>
        BY <1>2 DEF LeafUses
  <2>5. ASSUME NEW u
        PROVE  u \in LeafUses(did)' <=> u \in LeafUses(did) \/ u \in new
    <3>1. (\E l \in DOMAIN x.merkleRoot :
             x.merkleRoot[l].didHash = did /\ u = <<n + 1, l>>) <=> u \in new
          BY <2>2
    <3>2. u \in LeafUses(did) <=>
            \E b \in 1 .. n : \E l \in DOMAIN batches'[b].merkleRoot :
              batches'[b].merkleRoot[l].didHash = did /\ u = <<b, l>>
          BY <1>2, <2>3
    <3> HIDE DEF new
    <3>3. QED BY <1>1, <2>1, <2>4, <3>1, <3>2
  <2>6. QED BY <2>5
<1>9. \A u \in LeafUses(did) : u[1] \in 1 .. n
      BY <1>2 DEF LeafUses
<1>10. /\ IsFiniteSet(new) /\ Cardinality(new) = Cardinality(J)
       /\ new \cap LeafUses(did) = {}
  <2> DEFINE at == [l \in J |-> <<n + 1, l>>]
  <2>1. at \in Bijection(J, new)
        BY DEF Bijection, Injection, Surjection, IsInjective
  <2>2. new \cap LeafUses(did) = {} BY <1>2, <1>9
  <2> HIDE DEF at, new
  <2>3. QED BY <1>5, <2>1, <2>2, FS_Bijection DEF ExistsBijection
<1>11. /\ IsFiniteSet(RecordUses(did)) /\ IsFiniteSet(LeafUses(did))
       /\ NoncesUsed(did) = 1 .. didNonce[did]
       /\ Cardinality(RecordUses(did)) + Cardinality(LeafUses(did)) = didNonce[did]
       BY DEF NonceLedger, FiniteUses
<1>12. /\ IsFiniteSet(LeafUses(did)')
       /\ Cardinality(LeafUses(did)') = Cardinality(LeafUses(did)) + Cardinality(J)
  <2> HIDE DEF new
  <2>1. LeafUses(did) \cap new = {} BY <1>10
  <2>2. /\ IsFiniteSet(LeafUses(did) \cup new)
        /\ Cardinality(LeafUses(did) \cup new)
             = Cardinality(LeafUses(did)) + Cardinality(new) - Cardinality({})
        BY <1>10, <1>11, <2>1, FS_Union
  <2>3. Cardinality(LeafUses(did)) \in Nat BY <1>11, FS_CardinalityType
  <2>4. QED BY <1>5, <1>8, <1>10, <2>2, <2>3, FS_EmptySet
<1>13. NoncesUsed(did)' = 1 .. didNonce'[did]
  <2> DEFINE m == didNonce[did]
             c == Cardinality(J)
  <2>1. {batches'[u[1]].merkleRoot[u[2]].nonce : u \in LeafUses(did)}
          = {batches[u[1]].merkleRoot[u[2]].nonce : u \in LeafUses(did)}
        BY <1>2, <1>9
  <2>2. \A l \in J : batches'[n + 1].merkleRoot[l].nonce
                       = m + Occurrences(didHashes, did, l)
        BY <1>1, <1>2, <1>4 DEF LeafNonce
  <2>3. {batches'[u[1]].merkleRoot[u[2]].nonce : u \in new}
          = {batches'[n + 1].merkleRoot[l].nonce : l \in J}
    <3>1. \A l \in J : <<n + 1, l>> \in new
                       /\ <<n + 1, l>>[1] = n + 1 /\ <<n + 1, l>>[2] = l
          OBVIOUS
    <3>2. \A u \in new : \E l \in J : u = <<n + 1, l>> OBVIOUS
    <3> HIDE DEF new
    <3>3. \A u \in new : \E l \in J : u[1] = n + 1 /\ u[2] = l
      <4> SUFFICES ASSUME NEW u \in new
                   PROVE  \E l \in J : u[1] = n + 1 /\ u[2] = l
          OBVIOUS
      <4>1. PICK l \in J : u = <<n + 1, l>> BY <3>2
      <4>2. u[1] = n + 1 /\ u[2] = l BY <4>1
      <4>3. QED BY <4>2
    <3>4. \A l \in J : \E u \in new : u[1] = n + 1 /\ u[2] = l
          BY <3>1, Zenon
    <3>5. QED BY <3>3, <3>4
  <2>4. {batches'[n + 1].merkleRoot[l].nonce : l \in J}
          = {m + Occurrences(didHashes, did, l) : l \in J}
        BY <2>2
  <2>5. {m + Occurrences(didHashes, did, l) : l \in J}
          = {m + o : o \in {Occurrences(didHashes, did, l) : l \in J}}
        OBVIOUS
  <2>6. {batches'[u[1]].merkleRoot[u[2]].nonce : u \in LeafUses(did)'}
          = {batches[u[1]].merkleRoot[u[2]].nonce : u \in LeafUses(did)}
              \cup {m + o : o \in 1 .. c}
    <3> HIDE DEF new
    <3>1. {batches'[u[1]].merkleRoot[u[2]].nonce : u \in LeafUses(did)'}
            = {batches'[u[1]].merkleRoot[u[2]].nonce : u \in LeafUses(did)}
                \cup {batches'[u[1]].merkleRoot[u[2]].nonce : u \in new}
          BY <1>8
    <3>2. QED BY <1>5, <2>1, <2>3, <2>4, <2>5, <3>1
  <2>7. NoncesUsed(did)' = NoncesUsed(did) \cup {m + o : o \in 1 .. c}
    <3>1. {records'[i].nonce : i \in RecordUses(did)'}
            = {records[i].nonce : i \in RecordUses(did)}
          BY <1>2, <1>7
    <3> HIDE DEF m, c
    <3>2. QED BY <2>6, <3>1 DEF NoncesUsed
  <2> HIDE DEF m, c
  <2>8. m \in Nat /\ c \in Nat BY <1>5, <1>6 DEF m, c
  <2>9. {m + o : o \in 1 .. c} = m + 1 .. m + c
    <3>1. \A y \in m + 1 .. m + c : y - m \in 1 .. c /\ m + (y - m) = y BY <2>8
    <3>2. \A o \in 1 .. c : m + o \in m + 1 .. m + c BY <2>8
    <3>3. QED BY <3>1, <3>2
  <2>10. (1 .. m) \cup (m + 1 .. m + c) = 1 .. m + c BY <2>8
  <2>11. NoncesUsed(did) = 1 .. m BY <1>11 DEF m
  <2>12. didNonce'[did] = m + c BY <1>6 DEF m, c
  <2>13. QED BY <2>7, <2>9, <2>10, <2>11, <2>12
<1>14. Cardinality(RecordUses(did)) \in Nat /\ Cardinality(LeafUses(did)) \in Nat
       BY <1>11, FS_CardinalityType
<1>15. Cardinality(RecordUses(did)') + Cardinality(LeafUses(did)') = didNonce'[did]
       BY <1>5, <1>6, <1>7, <1>11, <1>12, <1>14
<1>16. QED BY <1>7, <1>11, <1>12, <1>13, <1>15

\* Nothing else draws a number.
LEMMA NonceKept ==
  ASSUME TypeOK, [Next]_vars, NonceLedger, FiniteUses
  PROVE  NonceLedger' /\ FiniteUses'
<1>1. ASSUME SamePosted, UNCHANGED didNonce PROVE NonceLedger' /\ FiniteUses'
      BY <1>1, UsesStay DEF NonceLedger, FiniteUses
<1>2. ASSUME NEW a \in Address, NEW dataHash \in Payload, NEW did \in DID,
             NEW sig \in SigLength, submitAccountable(a, dataHash, did, sig)
      PROVE  NonceLedger' /\ FiniteUses'
      BY <1>2, RecordNonce
<1>3. ASSUME NEW a \in Address, NEW k \in 0 .. MaxLeaves,
             NEW didHashes \in [1 .. k -> DID], NEW dataHashes \in [1 .. k -> Payload],
             NEW length \in Nat, submitBatch(a, didHashes, dataHashes, length)
      PROVE  NonceLedger' /\ FiniteUses'
      BY <1>3, BatchNonces
<1>4. \/ UNCHANGED didNonce
      \/ \E a \in Address, dataHash \in Payload, did \in DID, sig \in SigLength :
           submitAccountable(a, dataHash, did, sig)
      \/ \E a \in Address, k \in 0 .. MaxLeaves :
           \E didHashes \in [1 .. k -> DID], dataHashes \in [1 .. k -> Payload],
              length \in Nat : submitBatch(a, didHashes, dataHashes, length)
  <2>1. ASSUME NEW a \in Address, NEW value \in Nat, Housekeeping(a, value)
        PROVE  UNCHANGED didNonce
        BY <2>1
        DEF Housekeeping, stakeRelay, announceUnstake, unstakeRelay, stakeVerifier,
            announceVerifierUnstake, unstakeVerifier, deregisterVerifier,
            registryCall, withdraw
  <2>2. ASSUME NEW i, finalizeRecord(i) \/ finalizeBatch(i) \/ expireDispute(i)
        PROVE  UNCHANGED didNonce
        BY <2>2 DEF finalizeRecord, finalizeBatch, expireDispute
  <2>3. ASSUME NEW a, NEW i, NEW l, NEW leaf, NEW bond,
               openDispute(a, i, bond) \/ openBatchLeafDispute(a, i, l, leaf, bond)
        PROVE  UNCHANGED didNonce
        BY <2>3 DEF openDispute, openBatchLeafDispute
  <2>4. ASSUME NEW i, NEW v, NEW f, submitAttestation(i, v, f) PROVE UNCHANGED didNonce
        BY <2>4 DEF submitAttestation
  <2>5. CASE withdrawReturns \/ Tick \/ UNCHANGED vars
        BY <2>5 DEF withdrawReturns, Tick, vars
  <2>6. QED BY <2>1, <2>2, <2>3, <2>4, <2>5, StepKinds
<1>5. QED BY <1>1, <1>2, <1>3, <1>4, StepKeepsPosted

\* Each device's history is totally ordered and without gaps, for every mix of
\* single records and batches of any shape.
THEOREM Nonces == Spec => []NonceLedger
<1>1. Init => TypeOK /\ NonceLedger /\ FiniteUses
  <2> SUFFICES ASSUME Init PROVE NonceLedger /\ FiniteUses
      BY InitTypes
  <2> SUFFICES ASSUME NEW did \in DID
               PROVE  /\ NoncesUsed(did) = 1 .. didNonce[did]
                      /\ Cardinality(RecordUses(did)) + Cardinality(LeafUses(did))
                           = didNonce[did]
                      /\ IsFiniteSet(RecordUses(did)) /\ IsFiniteSet(LeafUses(did))
      BY DEF NonceLedger, FiniteUses
  <2>1. RecordUses(did) = {} /\ LeafUses(did) = {} /\ didNonce[did] = 0
        BY DEF Init, RecordUses, LeafUses
  <2>2. NoncesUsed(did) = {} BY <2>1 DEF NoncesUsed
  <2>3. 1 .. 0 = {} OBVIOUS
  <2>4. IsFiniteSet({}) /\ Cardinality({}) = 0 BY FS_EmptySet
  <2>5. QED BY <2>1, <2>2, <2>3, <2>4
<1>2. TypeOK /\ (NonceLedger /\ FiniteUses) /\ [Next]_vars
        => (TypeOK /\ NonceLedger /\ FiniteUses)'
      BY NextTypes, NonceKept
<1>3. QED BY <1>1, <1>2, PTL DEF Spec
=============================================================================
