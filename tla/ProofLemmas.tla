----------------------------- MODULE ProofLemmas -----------------------------
(***************************************************************************)
(* Facts that the proofs of several components need: induction over the    *)
(* naturals in a form without an operator as a parameter, division with a  *)
(* remainder, cutting a sequence in two, and tail queues of linked blocks. *)
(***************************************************************************)
EXTENDS Integers, Sequences, FiniteSets, SequenceTheorems, WellFoundedInduction,
        FiniteSetTheorems, TLAPS

(***************************************************************************)
(* Induction.                                                              *)
(***************************************************************************)

\* Every set of naturals that has an element has a least one.
LEMMA LeastNat ==
  ASSUME NEW T \in SUBSET Nat, T # {}
  PROVE  \E x \in T : \A y \in T : x <= y
<1> DEFINE R == OpToRel(<, Nat)
<1>1. IsWellFoundedOn(R, Nat)
  BY NatLessThanWellFounded
<1>2. \A x, y \in Nat : x < y => <<x, y>> \in R
  BY DEF OpToRel
<1> HIDE DEF R
<1>3. PICK x \in T : \A y \in T : ~ (<<y, x>> \in R)
  BY <1>1, WFMin
<1>4. \A y \in T : ~(y < x)
  BY <1>2, <1>3, Zenon
<1>5. \A y \in T : x <= y
  BY <1>4
<1> QED
  BY <1>5

\* A set of naturals with 0 and the successor of each of its elements that is
\* below n has all naturals up to n.
LEMMA UpTo ==
  ASSUME NEW S, NEW n \in Nat, 0 \in S,
         \A i \in Nat : i < n /\ i \in S => i + 1 \in S
  PROVE  \A i \in 0..n : i \in S
<1> DEFINE T == {i \in Nat : i <= n /\ i \notin S}
<1> SUFFICES ASSUME T # {} PROVE FALSE
  OBVIOUS
<1>1. PICK x \in T : \A y \in T : x <= y
  <2>1. T \in SUBSET Nat
    OBVIOUS
  <2> HIDE DEF T
  <2> QED BY <2>1, LeastNat
<1>2. x # 0 /\ x - 1 \in Nat /\ x - 1 \notin T
  BY <1>1
<1>3. x - 1 \in S /\ x - 1 < n
  BY <1>2
<1> QED
  BY <1>2, <1>3

\* Where a natural f[i] is computed from f[i - 1] there is such a function: D[i]
\* makes the value at i of the value before it.
LEMMA Recursion ==
  \A n \in Nat, c \in Nat, D \in [Nat -> [Nat -> Nat]] :
    \E f \in [0..n -> Nat] : f[0] = c /\ \A i \in 1..n : f[i] = D[i][f[i - 1]]
<1>0. PICK S : S = Nat
  OBVIOUS
<1>1. \A n \in Nat, c \in S, D \in [Nat -> [S -> S]] :
        \E f \in [0..n -> S] : f[0] = c /\ \A i \in 1..n : f[i] = D[i][f[i - 1]]
  <2> SUFFICES ASSUME NEW n \in Nat, NEW c \in S, NEW D \in [Nat -> [S -> S]]
               PROVE  \E f \in [0..n -> S] : f[0] = c /\ \A i \in 1..n : f[i] = D[i][f[i - 1]]
    OBVIOUS
  <2> DEFINE Good(k, f) == f[0] = c /\ \A i \in 1..k : f[i] = D[i][f[i - 1]]
             T == {k \in Nat : \E f \in [0..k -> S] : Good(k, f)}
  <2>1. 0 \in T
    <3>1. [i \in 0..0 |-> c] \in [0..0 -> S] /\ Good(0, [i \in 0..0 |-> c])
      OBVIOUS
    <3> QED
      BY <3>1
  <2>2. ASSUME NEW k \in Nat, k \in T PROVE k + 1 \in T
    <3>1. PICK f \in [0..k -> S] : Good(k, f)
      BY <2>2
    <3> DEFINE g == [i \in 0..(k + 1) |-> IF i = k + 1 THEN D[k + 1][f[k]] ELSE f[i]]
    <3>2. f[k] \in S /\ D[k + 1] \in [S -> S]
      OBVIOUS
    <3>3. g \in [0..(k + 1) -> S]
      BY <3>2
    <3>4. g[0] = c
      BY <3>1
    <3>5. ASSUME NEW i \in 1..(k + 1) PROVE g[i] = D[i][g[i - 1]]
      <4>1. CASE i = k + 1
        <5>1. g[k + 1] = D[k + 1][f[k]] /\ g[k] = f[k] /\ (k + 1) - 1 = k
          OBVIOUS
        <5> HIDE DEF g
        <5> QED
          BY <4>1, <5>1
      <4>2. CASE i \in 1..k
        <5>1. g[i] = f[i] /\ g[i - 1] = f[i - 1]
          BY <4>2
        <5> QED
          BY <3>1, <4>2, <5>1
      <4> QED
        BY <4>1, <4>2
    <3>6. Good(k + 1, g)
      BY <3>4, <3>5
    <3> HIDE DEF g, Good
    <3> QED
      BY <3>3, <3>6
  <2>3. \A i \in Nat : i < n /\ i \in T => i + 1 \in T
    BY <2>2
  <2>4. \A i \in 0..n : i \in T
    <3> HIDE DEF T
    <3> QED
      BY <2>1, <2>3, UpTo
  <2>5. n \in T
    BY <2>4
  <2> QED
    BY <2>5
<1>2. ASSUME NEW n \in Nat, NEW c \in Nat, NEW D \in [Nat -> [Nat -> Nat]]
      PROVE  \E f \in [0..n -> Nat] : f[0] = c /\ \A i \in 1..n : f[i] = D[i][f[i - 1]]
  <2>1. c \in S /\ D \in [Nat -> [S -> S]]
    BY <1>0, Zenon
  <2>2. \E f \in [0..n -> S] : f[0] = c /\ \A i \in 1..n : f[i] = D[i][f[i - 1]]
    BY <1>1, <2>1, Zenon
  <2> QED
    BY <1>0, <2>2, Zenon
<1> QED
  BY <1>2

(***************************************************************************)
(* Division.                                                               *)
(***************************************************************************)

\* Quotient and remainder.
LEMMA DivMod ==
  ASSUME NEW a \in Int, NEW b \in Nat \ {0}
  PROVE  /\ a \div b \in Int
         /\ a % b \in 0..(b - 1)
         /\ a = (a \div b) * b + (a % b)
         /\ a >= 0 => a \div b \in Nat
  OBVIOUS

\* Products keep the order.
LEMMA MultMono ==
  ASSUME NEW p \in Int, NEW q \in Int, NEW b \in Nat \ {0}
  PROVE  /\ p * b \in Int
         /\ p < q => p * b + b <= q * b
         /\ p <= q => p * b <= q * b
         /\ (p + q) * b = p * b + q * b
         /\ (p - q) * b = p * b - q * b
  OBVIOUS

\* There is only one quotient and remainder.
LEMMA DivModUnique ==
  ASSUME NEW a \in Int, NEW b \in Nat \ {0}, NEW q \in Int, NEW r \in 0..(b - 1),
         a = q * b + r
  PROVE  a \div b = q /\ a % b = r
<1> DEFINE p == a \div b
           s == a % b
<1>1. p \in Int /\ s \in 0..(b - 1) /\ a = p * b + s
  BY DivMod
<1> HIDE DEF p, s
<1>2. ~(p < q) /\ ~(q < p)
  BY <1>1, MultMono
<1>3. p = q
  BY <1>1, <1>2
<1>4. s = r
  BY <1>1, <1>3
<1> QED
  BY <1>3, <1>4 DEF p, s

\* Sums and differences of multiples are multiples, and two multiples that differ
\* are at least b apart.
LEMMA Multiples ==
  ASSUME NEW b \in Nat \ {0}, NEW x \in Int, NEW y \in Int, x % b = 0, y % b = 0
  PROVE  /\ (x + y) % b = 0
         /\ (x - y) % b = 0
         /\ x < y => x + b <= y
<1> DEFINE p == x \div b
           q == y \div b
<1>1. p \in Int /\ q \in Int /\ x = p * b /\ y = q * b
  BY DivMod
<1> HIDE DEF p, q
<1>2. x + y = (p + q) * b + 0 /\ x - y = (p - q) * b + 0
  BY <1>1, MultMono
<1>3. 0 \in 0..(b - 1) /\ x + y \in Int /\ x - y \in Int /\ p + q \in Int /\ p - q \in Int
  BY <1>1
<1>4. (x + y) % b = 0 /\ (x - y) % b = 0
  BY <1>2, <1>3, DivModUnique
<1>5. x < y => x + b <= y
  <2> SUFFICES ASSUME x < y PROVE x + b <= y
    OBVIOUS
  <2>1. p < q
    BY <1>1, MultMono
  <2> QED
    BY <2>1, <1>1, MultMono
<1> QED
  BY <1>4, <1>5

\* 0, b and 2 * b are multiples of b.
LEMMA SmallMultiples ==
  ASSUME NEW b \in Nat \ {0}
  PROVE  0 % b = 0 /\ b % b = 0 /\ (2 * b) % b = 0
<1>1. 0 = 0 * b + 0 /\ b = 1 * b + 0 /\ 2 * b = 2 * b + 0 /\ 0 \in 0..(b - 1) /\ 2 * b \in Int
  OBVIOUS
<1> QED
  BY <1>1, DivModUnique

(***************************************************************************)
(* Sequences.                                                              *)
(***************************************************************************)

\* A sequence is its first n elements followed by the others.
LEMMA Cut ==
  ASSUME NEW S, NEW s \in Seq(S), NEW n \in 0..Len(s)
  PROVE  /\ SubSeq(s, 1, n) \in Seq(S) /\ Len(SubSeq(s, 1, n)) = n
         /\ SubSeq(s, n + 1, Len(s)) \in Seq(S)
         /\ Len(SubSeq(s, n + 1, Len(s))) = Len(s) - n
         /\ SubSeq(s, 1, n) \o SubSeq(s, n + 1, Len(s)) = s
<1>1. Len(s) \in Nat /\ \A i \in 1..Len(s) : s[i] \in S
  BY LenProperties, ElementOfSeq
<1>2. SubSeq(s, 1, n) \o SubSeq(s, n + 1, Len(s)) = SubSeq(s, 1, Len(s))
  <2>1. 1 \in 1..Len(s) + 1 /\ n \in 1 - 1..Len(s) /\ Len(s) \in n..Len(s)
    BY <1>1
  <2> QED
    BY <2>1, ConcatAdjacentSubSeq
<1>3. SubSeq(s, 1, Len(s)) = s
  BY SubSeqFull
<1>4. /\ SubSeq(s, 1, n) \in Seq(S)
      /\ Len(SubSeq(s, 1, n)) = n
  <2>1. \A i \in 1..n : s[i] \in S
    BY <1>1
  <2> QED
    BY <1>1, <2>1, SubSeqProperties
<1>5. /\ SubSeq(s, n + 1, Len(s)) \in Seq(S)
      /\ Len(SubSeq(s, n + 1, Len(s))) = Len(s) - n
  <2>1. \A i \in (n + 1)..Len(s) : s[i] \in S
    BY <1>1
  <2> QED
    BY <1>1, <2>1, SubSeqProperties
<1> QED
  BY <1>2, <1>3, <1>4, <1>5
\* Concatenation is associative and has the empty sequence as its unit.
LEMMA Concat ==
  ASSUME NEW S
  PROVE  /\ \A s, t \in Seq(S) : s \o t \in Seq(S) /\ Len(s \o t) = Len(s) + Len(t)
         /\ \A s, t, u \in Seq(S) : (s \o t) \o u = s \o (t \o u)
         /\ \A s \in Seq(S) : s \o <<>> = s /\ <<>> \o s = s
<1>1. \A s, t \in Seq(S) : s \o t \in Seq(S) /\ Len(s \o t) = Len(s) + Len(t)
  BY ConcatProperties
<1>2. ASSUME NEW s \in Seq(S), NEW t \in Seq(S), NEW u \in Seq(S)
      PROVE  (s \o t) \o u = s \o (t \o u)
  BY ConcatAssociative
<1>3. ASSUME NEW s \in Seq(S) PROVE s \o <<>> = s /\ <<>> \o s = s
  BY ConcatEmptySeq
<1> QED
  BY <1>1, <1>2, <1>3

\* Sequences with the same elements are the same.
LEMMA SameElements ==
  ASSUME NEW S
  PROVE  \A s, t \in Seq(S) :
           Len(s) = Len(t) /\ (\A i \in 1..Len(s) : s[i] = t[i]) => s = t
<1>1. ASSUME NEW s \in Seq(S), NEW t \in Seq(S),
             Len(s) = Len(t), \A i \in 1..Len(s) : s[i] = t[i]
      PROVE  s = t
  BY <1>1, SeqEqual
<1> QED
  BY <1>1

\* Sequences of numbered bytes.  The lemmas below are all that is used of them.
Data == Seq(Nat)

\* Data has a length, which is 0 for the empty sequence alone.
LEMMA DataLen ==
  /\ <<>> \in Data /\ Len(<<>>) = 0
  /\ \A s \in Data : Len(s) \in Nat /\ (Len(s) = 0 <=> s = <<>>)
  BY EmptySeq, LenProperties DEF Data

\* Joining data adds the lengths.
LEMMA DataJoin ==
  /\ \A s, t \in Data : s \o t \in Data /\ Len(s \o t) = Len(s) + Len(t)
  /\ \A s \in Data : s \o <<>> = s /\ <<>> \o s = s
<1> DEFINE N == Nat
<1> HIDE DEF N
<1>1. /\ \A s, t \in Seq(N) : s \o t \in Seq(N) /\ Len(s \o t) = Len(s) + Len(t)
      /\ \A s \in Seq(N) : s \o <<>> = s /\ <<>> \o s = s
  BY Concat
<1> QED
  BY <1>1 DEF Data, N

\* The bytes of joined data.
LEMMA DataBytes ==
  \A s, t \in Data : \A i \in 1..Len(s) + Len(t) :
    (s \o t)[i] = IF i <= Len(s) THEN s[i] ELSE t[i - Len(s)]
  BY ConcatProperties DEF Data

\* It does not matter in which order data is joined.
LEMMA DataAssoc ==
  \A s, t, u \in Data : (s \o t) \o u = s \o (t \o u)
<1> DEFINE N == Nat
<1> HIDE DEF N
<1>1. \A s, t, u \in Seq(N) : (s \o t) \o u = s \o (t \o u)
  BY Concat
<1> QED
  BY <1>1 DEF Data, N

\* Cutting data in two.
LEMMA DataCut ==
  \A s \in Data : \A n \in 0..Len(s) :
         /\ SubSeq(s, 1, n) \in Data /\ Len(SubSeq(s, 1, n)) = n
         /\ SubSeq(s, n + 1, Len(s)) \in Data
         /\ Len(SubSeq(s, n + 1, Len(s))) = Len(s) - n
         /\ SubSeq(s, 1, n) \o SubSeq(s, n + 1, Len(s)) = s
  BY Cut DEF Data

\* Data with the same bytes is the same.
LEMMA DataEqual ==
  \A s, t \in Data : Len(s) = Len(t) /\ (\A i \in 1..Len(s) : s[i] = t[i]) => s = t
  BY SameElements DEF Data

\* A function over the first n numbers is data of n bytes.
LEMMA DataOfBytes ==
  \A n \in Nat : \A c \in [1..n -> Nat] : c \in Data /\ Len(c) = n
  BY DEF Data

(***************************************************************************)
(* Tail queues of sys/queue.h.                                             *)
(***************************************************************************)

\* The list l, linked through the blocks B with the null pointer z and the list
\* head h, holds the n different blocks of q in this order, and can be walked both
\* ways.
Chain(l, B, z, h, n, q) ==
  /\ n \in Nat /\ q \in [1..n -> B]
  /\ \A i, j \in 1..n : q[i] = q[j] => i = j
  /\ l.first = IF n = 0 THEN z ELSE q[1]
  /\ \A i \in 1..n : l.next[q[i]] = IF i = n THEN z ELSE q[i + 1]
  /\ \A i \in 1..n : l.prev[q[i]] = IF i = 1 THEN h ELSE q[i - 1]

\* The block x is one of them.
Among(x, n, q) == \E i \in 1..n : q[i] = x

\* A block in front of the others, and without the k-th one.
InFront(b, n, q) == [i \in 1..(n + 1) |-> IF i = 1 THEN b ELSE q[i - 1]]
Without(k, n, q) == [i \in 1..(n - 1) |-> IF i < k THEN q[i] ELSE q[i + 1]]

\* What TAILQ_INSERT_HEAD of the block b makes of the list.
Pushed(l, m, h, n, q, b) ==
  /\ m.first = b /\ m.next[b] = l.first /\ m.prev[b] = h
  /\ \A i \in 1..n : m.next[q[i]] = l.next[q[i]]
  /\ \A i \in 1..n : m.prev[q[i]] = IF i = 1 THEN b ELSE l.prev[q[i]]

\* TAILQ_INSERT_HEAD puts a block that is not in the list in front of the others.
LEMMA ChainInserted ==
  ASSUME NEW B, NEW z, NEW h, NEW l, NEW m, NEW n \in Nat, NEW q, Chain(l, B, z, h, n, q),
         NEW b \in B, ~Among(b, n, q), Pushed(l, m, h, n, q, b)
  PROVE  /\ Chain(m, B, z, h, n + 1, InFront(b, n, q))
         /\ \A x : Among(x, n + 1, InFront(b, n, q)) <=> x = b \/ Among(x, n, q)
<1>1. PICK r : r = InFront(b, n, q)
  OBVIOUS
<1>2. q \in [1..n -> B] /\ \A i, j \in 1..n : q[i] = q[j] => i = j
  BY DEF Chain
<1>3. /\ r[1] = b /\ \A i \in 1..n : r[i + 1] = q[i]
      /\ \A i \in 1..(n + 1) : i # 1 => i - 1 \in 1..n /\ r[i] = q[i - 1]
      /\ r = [i \in 1..(n + 1) |-> r[i]]
  BY <1>1 DEF InFront
<1>4. r \in [1..(n + 1) -> B]
  BY <1>2, <1>3
<1>5. \A i, j \in 1..(n + 1) : r[i] = r[j] => i = j
  BY <1>2, <1>3 DEF Among
<1>6. m.first = IF n + 1 = 0 THEN z ELSE r[1]
  BY <1>3 DEF Pushed
<1>7. ASSUME NEW i \in 1..(n + 1) PROVE m.next[r[i]] = IF i = n + 1 THEN z ELSE r[i + 1]
  <2>1. CASE i = 1
    <3>1. m.next[r[i]] = IF n = 0 THEN z ELSE q[1]
      BY <1>3, <2>1 DEF Chain, Pushed
    <3>2. n # 0 => r[1 + 1] = q[1]
      BY <1>3
    <3> QED
      BY <2>1, <3>1, <3>2
  <2>2. CASE i # 1
    <3>1. PICK k \in 1..n : k = i - 1 /\ r[i] = q[k]
      BY <1>3, <2>2
    <3>2. m.next[q[k]] = IF k = n THEN z ELSE q[k + 1]
      BY DEF Chain, Pushed
    <3>3. k # n => q[k + 1] = r[i + 1]
      BY <1>3, <3>1
    <3> QED
      BY <3>1, <3>2, <3>3
  <2> QED
    BY <2>1, <2>2
<1>8. ASSUME NEW i \in 1..(n + 1) PROVE m.prev[r[i]] = IF i = 1 THEN h ELSE r[i - 1]
  <2>1. CASE i = 1
    BY <1>3, <2>1 DEF Pushed
  <2>2. CASE i # 1
    <3>1. PICK k \in 1..n : k = i - 1 /\ r[i] = q[k]
      BY <1>3, <2>2
    <3>2. m.prev[q[k]] = IF k = 1 THEN b ELSE q[k - 1]
      BY DEF Chain, Pushed
    <3>3. r[i - 1] = IF k = 1 THEN b ELSE q[k - 1]
      BY <1>3, <3>1
    <3> QED
      BY <2>2, <3>1, <3>2, <3>3
  <2> QED
    BY <2>1, <2>2
<1>9. Chain(m, B, z, h, n + 1, r)
  BY <1>4, <1>5, <1>6, <1>7, <1>8 DEF Chain
<1>10. ASSUME NEW x PROVE Among(x, n + 1, r) <=> x = b \/ Among(x, n, q)
  <2>1. 1 \in 1..(n + 1) /\ \A i \in 1..n : i + 1 \in 1..(n + 1)
    OBVIOUS
  <2> QED
    BY <1>3, <2>1 DEF Among
<1> QED
  BY <1>1, <1>9, <1>10

\* What TAILQ_REMOVE of the k-th block makes of the list; what the links of that
\* block become is of no account.
Unlinked(l, m, n, q, k) ==
  /\ m.first = IF k = 1 THEN l.next[q[k]] ELSE l.first
  /\ \A i \in 1..n : i # k =>
       m.next[q[i]] = IF i = k - 1 THEN l.next[q[k]] ELSE l.next[q[i]]
  /\ \A i \in 1..n : i # k =>
       m.prev[q[i]] = IF i = k + 1 THEN l.prev[q[k]] ELSE l.prev[q[i]]

\* TAILQ_REMOVE takes out the k-th block and keeps the others in their order.
LEMMA ChainRemoved ==
  ASSUME NEW B, NEW z, NEW h, NEW l, NEW m, NEW n \in Nat, NEW q, Chain(l, B, z, h, n, q),
         NEW k \in 1..n, Unlinked(l, m, n, q, k)
  PROVE  /\ Chain(m, B, z, h, n - 1, Without(k, n, q))
         /\ \A x : Among(x, n - 1, Without(k, n, q)) <=> x # q[k] /\ Among(x, n, q)
<1>1. PICK r : r = Without(k, n, q)
  OBVIOUS
<1>2. /\ q \in [1..n -> B] /\ \A i, j \in 1..n : q[i] = q[j] => i = j
      /\ n - 1 \in Nat
  BY DEF Chain, Unlinked
<1>3. /\ \A i \in 1..(n - 1) : i < k => i \in 1..n /\ r[i] = q[i]
      /\ \A i \in 1..(n - 1) : ~(i < k) => i + 1 \in 1..n /\ r[i] = q[i + 1]
      /\ r = [i \in 1..(n - 1) |-> r[i]]
  BY <1>1 DEF Without
<1>4. r \in [1..(n - 1) -> B]
  BY <1>2, <1>3
<1>5. \A i, j \in 1..(n - 1) : r[i] = r[j] => i = j
  <2> SUFFICES ASSUME NEW i \in 1..(n - 1), NEW j \in 1..(n - 1), r[i] = r[j] PROVE i = j
    OBVIOUS
  <2>1. CASE i < k /\ j < k
    BY <1>2, <1>3, <2>1
  <2>2. CASE i < k /\ ~(j < k)
    BY <1>2, <1>3, <2>2
  <2>3. CASE ~(i < k) /\ j < k
    BY <1>2, <1>3, <2>3
  <2>4. CASE ~(i < k) /\ ~(j < k)
    BY <1>2, <1>3, <2>4
  <2> QED
    BY <2>1, <2>2, <2>3, <2>4
<1>6. m.first = IF n - 1 = 0 THEN z ELSE r[1]
  <2>1. CASE k = 1
    <3>1. m.first = IF 1 = n THEN z ELSE q[1 + 1]
      BY <2>1 DEF Chain, Unlinked
    <3>2. n # 1 => r[1] = q[1 + 1]
      BY <1>3, <2>1
    <3> QED
      BY <3>1, <3>2
  <2>2. CASE k # 1
    <3>1. m.first = q[1] /\ 1 \in 1..(n - 1) /\ 1 < k
      BY <2>2 DEF Chain, Unlinked
    <3> QED
      BY <1>3, <3>1
  <2> QED
    BY <2>1, <2>2
<1>7. ASSUME NEW i \in 1..(n - 1) PROVE m.next[r[i]] = IF i = n - 1 THEN z ELSE r[i + 1]
  <2>1. CASE i = k - 1
    <3>1. m.next[r[i]] = IF k = n THEN z ELSE q[k + 1]
      BY <1>3, <2>1 DEF Chain, Unlinked
    <3>2. i # n - 1 => r[i + 1] = q[k + 1]
      BY <1>3, <2>1
    <3> QED
      BY <2>1, <3>1, <3>2
  <2>2. CASE i < k /\ i # k - 1
    <3>1. m.next[r[i]] = IF i = n THEN z ELSE q[i + 1]
      BY <1>3, <2>2 DEF Chain, Unlinked
    <3>2. i # n - 1 /\ i # n /\ i + 1 \in 1..(n - 1) /\ i + 1 < k
      BY <2>2
    <3>3. r[i + 1] = q[i + 1]
      BY <1>3, <3>2
    <3> QED
      BY <3>1, <3>2, <3>3
  <2>3. CASE ~(i < k)
    <3>1. PICK j \in 1..n : j = i + 1 /\ r[i] = q[j] /\ j # k /\ j # k - 1
      BY <1>3, <2>3
    <3>2. m.next[q[j]] = IF j = n THEN z ELSE q[j + 1]
      BY <3>1 DEF Chain, Unlinked
    <3>3. j # n => r[i + 1] = q[j + 1]
      BY <1>3, <2>3, <3>1
    <3> QED
      BY <3>1, <3>2, <3>3
  <2> QED
    BY <2>1, <2>2, <2>3
<1>8. ASSUME NEW i \in 1..(n - 1) PROVE m.prev[r[i]] = IF i = 1 THEN h ELSE r[i - 1]
  <2>1. CASE i < k
    <3>1. m.prev[r[i]] = IF i = 1 THEN h ELSE q[i - 1]
      <4>1. i \in 1..n /\ r[i] = q[i] /\ i # k /\ i # k + 1
        BY <1>3, <2>1
      <4>2. m.prev[q[i]] = l.prev[q[i]]
        BY <4>1 DEF Unlinked
      <4> QED
        BY <4>1, <4>2 DEF Chain
    <3>2. i # 1 => r[i - 1] = q[i - 1]
      BY <1>3, <2>1
    <3> QED
      BY <3>1, <3>2
  <2>2. CASE i = k
    <3>1. m.prev[r[i]] = IF k = 1 THEN h ELSE q[k - 1]
      BY <1>3, <2>2 DEF Chain, Unlinked
    <3>2. i # 1 => r[i - 1] = q[k - 1]
      BY <1>3, <2>2
    <3> QED
      BY <2>2, <3>1, <3>2
  <2>3. CASE i > k
    <3>1. PICK j \in 1..n : j = i + 1 /\ r[i] = q[j] /\ j # k /\ j # k + 1
      BY <1>3, <2>3
    <3>2. m.prev[q[j]] = IF j = 1 THEN h ELSE q[j - 1]
      BY <3>1 DEF Chain, Unlinked
    <3>3. i # 1 /\ r[i - 1] = q[j - 1]
      BY <1>3, <2>3, <3>1
    <3> QED
      BY <3>1, <3>2, <3>3
  <2> QED
    BY <2>1, <2>2, <2>3
<1>9. Chain(m, B, z, h, n - 1, r)
  BY <1>2, <1>4, <1>5, <1>6, <1>7, <1>8 DEF Chain
<1>10. ASSUME NEW x PROVE Among(x, n - 1, r) <=> x # q[k] /\ Among(x, n, q)
  <2>1. ASSUME Among(x, n - 1, r) PROVE x # q[k] /\ Among(x, n, q)
    <3>1. PICK i \in 1..(n - 1) : r[i] = x
      BY <2>1 DEF Among
    <3>2. PICK j \in 1..n : q[j] = x /\ j # k
      BY <1>3, <3>1
    <3> QED
      BY <1>2, <3>2 DEF Among
  <2>2. ASSUME x # q[k], Among(x, n, q) PROVE Among(x, n - 1, r)
    <3>1. PICK j \in 1..n : q[j] = x /\ j # k
      BY <2>2 DEF Among
    <3>2. CASE j < k
      BY <1>3, <3>1, <3>2 DEF Among
    <3>3. CASE j > k
      <4>1. j - 1 \in 1..(n - 1) /\ r[j - 1] = q[(j - 1) + 1] /\ (j - 1) + 1 = j
        BY <1>3, <3>3
      <4> QED
        BY <3>1, <4>1 DEF Among
    <3> QED
      BY <3>1, <3>2, <3>3
  <2> QED
    BY <2>1, <2>2
<1> QED
  BY <1>1, <1>9, <1>10

\* A list has no more elements than there are blocks.
LEMMA ChainBounded ==
  ASSUME NEW B, IsFiniteSet(B), NEW z, NEW h, NEW l, NEW n \in Nat, NEW q,
         Chain(l, B, z, h, n, q)
  PROVE  n <= Cardinality(B) /\ Cardinality(B) \in Nat
<1>1. q \in Injection(1..n, B)
  BY DEF Chain, Injection, IsInjective
<1>2. Cardinality(1..n) <= Cardinality(B)
  BY <1>1, FS_Injection
<1>3. Cardinality(1..n) = n
  BY FS_Interval
<1> QED
  BY <1>2, <1>3, FS_CardinalityType
=============================================================================
