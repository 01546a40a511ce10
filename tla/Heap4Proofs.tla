----------------------------- MODULE Heap4Proofs -----------------------------
(***************************************************************************)
(* Proofs about Heap4, for every heap, alignment, header and list of       *)
(* lengths: the blocks tile the heap, free neighbours are merged, the free *)
(* bytes are counted, and the heap implements Allocator.                   *)
(***************************************************************************)
EXTENDS Heap4, ProofLemmas

(***************************************************************************)
(* Alignment and the bounds of the heap.                                   *)
(***************************************************************************)

\* Rounding up reaches the next multiple of the alignment.
LEMMA RoundedUp ==
  ASSUME NEW x \in Nat
  PROVE  /\ RoundUp(x) \in Nat /\ RoundUp(x) % Align = 0
         /\ x <= RoundUp(x) /\ RoundUp(x) < x + Align
  <1>1. Align \in Nat \ {0}
    BY HeapAssumption
  <1>2. PICK q, r : q = x \div Align /\ r = x % Align
    OBVIOUS
  <1>3. q \in Int /\ r \in 0..(Align - 1) /\ x = q * Align + r
    BY <1>1, <1>2, DivMod
  <1>4. CASE r = 0
    BY <1>1, <1>2, <1>4 DEF RoundUp
  <1>5. CASE r # 0
    <2>1. RoundUp(x) = x + (Align - r)
      BY <1>2, <1>5 DEF RoundUp
    <2>2. (q + 1) * Align = q * Align + Align
      BY <1>1, <1>3, MultMono
    <2>3. q * Align \in Int
      BY <1>1, <1>3, MultMono
    <2>4. x + (Align - r) = (q + 1) * Align + 0 /\ x + (Align - r) \in Int
      BY <1>1, <1>3, <2>2, <2>3
    <2>5. (x + (Align - r)) % Align = 0
      <3>1. 0 \in 0..(Align - 1) /\ q + 1 \in Int
        BY <1>1, <1>3
      <3> QED
        BY <1>1, <2>4, <3>1, DivModUnique
    <2> QED
      BY <1>1, <1>3, <1>5, <2>1, <2>5
  <1> QED
    BY <1>4, <1>5

\* Rounding down leaves a multiple of the alignment.
LEMMA RoundedDown ==
  ASSUME NEW x \in Int
  PROVE  RoundDown(x) \in Int /\ RoundDown(x) % Align = 0 /\ RoundDown(x) <= x
  <1>1. Align \in Nat \ {0}
    BY HeapAssumption
  <1>2. PICK q, r : q = x \div Align /\ r = x % Align
    OBVIOUS
  <1>3. q \in Int /\ r \in 0..(Align - 1) /\ x = q * Align + r
    BY <1>1, <1>2, DivMod
  <1>4. RoundDown(x) = x - r
    BY <1>2 DEF RoundDown
  <1>5. q * Align \in Int
    BY <1>1, <1>3, MultMono
  <1>6. x - r = q * Align + 0 /\ x - r \in Int /\ 0 \in 0..(Align - 1)
    BY <1>1, <1>3, <1>5
  <1>7. (x - r) % Align = 0
    BY <1>1, <1>3, <1>6, DivModUnique
  <1> QED
    BY <1>3, <1>4, <1>6, <1>7

\* Where the heap lies.
LEMMA Bounds ==
  /\ First \in Nat \ {0} /\ First % Align = 0
  /\ EndMarker \in Nat /\ EndMarker % Align = 0
  /\ First + MinimumBlockSize < EndMarker /\ EndMarker - First < AllocatedBit
  /\ AllocatedBit \in Nat /\ 2 * AllocatedBit <= Word /\ Word \in Nat
  /\ Align \in Nat \ {0} /\ StructSize \in Nat \ {0} /\ StructSize % Align = 0
  /\ MinimumBlockSize \in Nat
  <1>1. /\ Base \in Nat \ {0} /\ Total \in Nat /\ Word \in Nat /\ Align \in Nat \ {0}
        /\ StructSize \in Nat \ {0} /\ StructSize % Align = 0
        /\ First + MinimumBlockSize < EndMarker /\ Total < AllocatedBit
    BY HeapAssumption
  <1>2. First \in Nat \ {0} /\ First % Align = 0
    BY <1>1, RoundedUp DEF First
  <1>3. /\ EndMarker \in Int /\ EndMarker % Align = 0
        /\ EndMarker <= Base + Total - StructSize
    BY <1>1, RoundedDown DEF EndMarker
  <1>4. MinimumBlockSize \in Nat
    BY <1>1 DEF MinimumBlockSize
  <1>5. AllocatedBit \in Nat /\ 2 * AllocatedBit <= Word
    BY <1>1 DEF AllocatedBit
  <1>6. EndMarker - First < AllocatedBit
    <2>1. Base <= First
      BY <1>1, RoundedUp DEF First
    <2> QED
      BY <1>1, <1>2, <1>3, <1>5, <2>1
  <1> QED
    BY <1>1, <1>2, <1>3, <1>4, <1>5, <1>6

\* The addresses of blocks.
LEMMA Addresses ==
  /\ \A a \in Addr : a \in Nat /\ First <= a /\ a < EndMarker /\ a % Align = 0
  /\ \A a \in Nat : First <= a /\ a < EndMarker /\ a % Align = 0 => a \in Addr
  /\ First \in Addr
  <1>1. /\ \A a \in Addr : a \in Nat /\ First <= a /\ a < EndMarker /\ a % Align = 0
        /\ \A a \in Nat : First <= a /\ a < EndMarker /\ a % Align = 0 => a \in Addr
    BY Bounds DEF Addr
  <1>2. First < EndMarker /\ First \in Nat /\ First % Align = 0
    BY Bounds
  <1> QED
    BY <1>1, <1>2

(***************************************************************************)
(* Blocks that tile the heap.                                              *)
(***************************************************************************)

\* The blocks B, of the lengths Z, cover the heap and do not overlap.
Tiles(B, Z) ==
    /\ B \subseteq Addr
    /\ \A b \in B : Z[b] \in Nat \ {0} /\ Z[b] % Align = 0 /\ b + Z[b] <= EndMarker
    /\ \A b, c \in B : b < c => b + Z[b] <= c
    /\ \A x \in First..(EndMarker - 1) : \E b \in B : b <= x /\ x < b + Z[b]

\* The bytes of the blocks S.
Bytes(S, Z) == {x \in First..(EndMarker - 1) : \E b \in S : b <= x /\ x < b + Z[b]}

\* The list L is in the order of the addresses, and no two of its blocks touch.
Sorted(L, Z) == \A i, j \in DOMAIN L : i < j => L[i] + Z[L[i]] < L[j]

\* Only the lengths of the blocks matter.
LEMMA SameTiles ==
  ASSUME NEW B, NEW Z, NEW Y, \A b \in B : Y[b] = Z[b]
  PROVE  /\ Tiles(B, Z) => Tiles(B, Y)
         /\ \A S \in SUBSET B : Bytes(S, Y) = Bytes(S, Z)
  BY DEF Tiles, Bytes

\* What is known of a block.
LEMMA Block ==
  ASSUME NEW B, NEW Z, Tiles(B, Z), NEW b \in B
  PROVE  /\ b \in Addr /\ b \in Nat /\ First <= b /\ b < EndMarker /\ b % Align = 0
         /\ Z[b] \in Nat \ {0} /\ Z[b] % Align = 0 /\ b + Z[b] <= EndMarker
         /\ \A c \in B : b < c => b + Z[b] <= c
  BY Addresses DEF Tiles

\* Sets of blocks hold the same bytes when the block a takes up c.
Absorbed(B, Z, Y, a, c) ==
  \A S \in SUBSET B : a \in S /\ c \in S => Bytes(S \ {c}, Y) = Bytes(S, Z)

\* Two blocks that touch become one.
LEMMA Merged ==
  ASSUME NEW B, NEW Z, NEW Y, Tiles(B, Z), NEW a \in B, NEW c \in B, a + Z[a] = c,
         \A b \in B : b # a /\ b # c => Y[b] = Z[b], Y[a] = Z[a] + Z[c]
  PROVE  Tiles(B \ {c}, Y) /\ Absorbed(B, Z, Y, a, c)
  <1>1. /\ a \in Nat /\ Z[a] \in Nat \ {0} /\ Z[a] % Align = 0 /\ a \in Addr
        /\ c \in Nat /\ Z[c] \in Nat \ {0} /\ Z[c] % Align = 0 /\ c + Z[c] <= EndMarker
    BY Block
  <1>2. a # c /\ Y[a] \in Nat \ {0} /\ a + Y[a] = c + Z[c] /\ Y[a] % Align = 0
    <2>1. (Z[a] + Z[c]) % Align = 0
      BY <1>1, Multiples, Bounds
    <2> QED
      BY <1>1, <2>1
  <1>3. B \ {c} \subseteq Addr
    BY DEF Tiles
  <1>4. ASSUME NEW b \in B \ {c}
        PROVE  Y[b] \in Nat \ {0} /\ Y[b] % Align = 0 /\ b + Y[b] <= EndMarker
    <2>1. CASE b = a
      BY <1>1, <1>2, <2>1
    <2>2. CASE b # a
      BY <2>2, Block
    <2> QED
      BY <2>1, <2>2
  <1>5. ASSUME NEW b \in B \ {c}, NEW d \in B \ {c}, b < d
        PROVE  b + Y[b] <= d
    <2>1. b \in Nat /\ d \in Nat /\ b + Z[b] <= d
      BY <1>5, Block
    <2>2. CASE b = a
      <3>1. c < d
        BY <1>1, <2>1, <2>2
      <3>2. c + Z[c] <= d
        BY <3>1, Block
      <3> QED
        BY <1>2, <2>2, <3>2
    <2>3. CASE b # a
      BY <2>1, <2>3
    <2> QED
      BY <2>2, <2>3
  <1>6. ASSUME NEW S \in SUBSET B, a \in S, c \in S, NEW x \in Int
        PROVE  (\E b \in S \ {c} : b <= x /\ x < b + Y[b]) <=> (\E b \in S : b <= x /\ x < b + Z[b])
    <2>1. ASSUME NEW b \in S \ {c}, b <= x, x < b + Y[b]
          PROVE  \E d \in S : d <= x /\ x < d + Z[d]
      <3>1. CASE b = a
        BY <1>1, <1>2, <1>6, <2>1, <3>1
      <3>2. CASE b # a
        BY <2>1, <3>2
      <3> QED
        BY <3>1, <3>2
    <2>2. ASSUME NEW b \in S, b <= x, x < b + Z[b]
          PROVE  \E d \in S \ {c} : d <= x /\ x < d + Y[d]
      <3>1. CASE b = a \/ b = c
        <4>1. a <= x /\ x < a + Y[a] /\ a \in S \ {c}
          BY <1>1, <1>2, <1>6, <2>2, <3>1
        <4> QED
          BY <4>1
      <3>2. CASE b # a /\ b # c
        BY <2>2, <3>2
      <3> QED
        BY <3>1, <3>2
    <2> QED
      BY <2>1, <2>2
  <1>7. ASSUME NEW x \in First..(EndMarker - 1)
        PROVE  \E b \in B \ {c} : b <= x /\ x < b + Y[b]
    <2>1. x \in Int /\ \E b \in B : b <= x /\ x < b + Z[b]
      BY Bounds DEF Tiles
    <2> QED
      BY <1>6, <2>1
  <1>8. Tiles(B \ {c}, Y)
    BY <1>3, <1>4, <1>5, <1>7 DEF Tiles
  <1>9. ASSUME NEW S \in SUBSET B, a \in S, c \in S
        PROVE  Bytes(S \ {c}, Y) = Bytes(S, Z)
    <2>1. \A x \in First..(EndMarker - 1) : x \in Int
      BY Bounds
    <2> QED
      BY <1>6, <1>9, <2>1 DEF Bytes
  <1> QED
    BY <1>8, <1>9 DEF Absorbed

\* A block becomes two.
LEMMA Halved ==
  ASSUME NEW B, NEW Z, NEW Y, Tiles(B, Z), NEW b \in B,
         NEW w \in Nat \ {0}, w % Align = 0, w < Z[b],
         \A d \in B : d # b => Y[d] = Z[d], Y[b] = w, Y[b + w] = Z[b] - w
  PROVE  /\ b + w \in Addr /\ b + w \notin B /\ b + w # b
         /\ Tiles(B \cup {b + w}, Y)
  <1>1. /\ b \in Nat /\ First <= b /\ b % Align = 0 /\ Z[b] \in Nat \ {0} /\ Z[b] % Align = 0
        /\ b + Z[b] <= EndMarker
    BY Block
  <1>2. PICK c : c = b + w
    OBVIOUS
  <1>3. /\ c \in Nat /\ b < c /\ c < b + Z[b] /\ c % Align = 0
        /\ Y[c] \in Nat \ {0} /\ Y[c] % Align = 0 /\ c + Y[c] = b + Z[b]
    <2>1. (b + w) % Align = 0 /\ (Z[b] - w) % Align = 0
      BY <1>1, Multiples, Bounds
    <2> QED
      BY <1>1, <1>2, <2>1
  <1>4. c \in Addr
    BY <1>1, <1>3, Addresses, Bounds
  <1>5. c \notin B
    BY <1>1, <1>3 DEF Tiles
  <1>6. ASSUME NEW d \in B \cup {c}
        PROVE  Y[d] \in Nat \ {0} /\ Y[d] % Align = 0 /\ d + Y[d] <= EndMarker /\ d \in Addr
    <2>1. CASE d = c
      BY <1>1, <1>3, <1>4, <2>1
    <2>2. CASE d = b
      <3>1. b \in Addr /\ EndMarker \in Nat
        BY Block, Bounds
      <3> QED
        BY <1>1, <1>3, <2>2, <3>1
    <2>3. CASE d \in B /\ d # b
      BY <2>3, Block
    <2> QED
      BY <2>1, <2>2, <2>3
  <1>7. ASSUME NEW d \in B \cup {c}, NEW f \in B \cup {c}, d < f
        PROVE  d + Y[d] <= f
    <2>1. d \in Nat /\ f \in Nat
      BY <1>3, Block
    <2>2. CASE d \in B /\ d # b /\ f \in B
      BY <1>7, <2>2, Block
    <2>3. CASE d = b
      <3>1. CASE f = c
        BY <1>2, <2>3, <3>1
      <3>2. CASE f # c
        <4>1. b + Z[b] <= f
          BY <1>7, <2>3, <3>2, Block
        <4> QED
          BY <1>1, <2>1, <2>3, <4>1
      <3> QED
        BY <3>1, <3>2
    <2>4. CASE d = c
      <3>1. f \in B /\ b < f
        BY <1>1, <1>3, <1>7, <2>1, <2>4
      <3>2. b + Z[b] <= f
        BY <3>1, Block
      <3> QED
        BY <1>3, <2>4, <3>2
    <2>5. CASE d \in B /\ d # b /\ f = c
      <3>1. Y[d] = Z[d] /\ Z[d] \in Nat \ {0}
        BY <2>5, Block
      <3>2. CASE d < b
        <4>1. d + Z[d] <= b
          BY <2>5, <3>2, Block
        <4> QED
          BY <1>1, <1>3, <2>1, <2>5, <3>1, <4>1
      <3>3. CASE b < d
        <4>1. b + Z[b] <= d
          BY <2>5, <3>3, Block
        <4> QED
          BY <1>1, <1>3, <1>7, <2>1, <2>5, <4>1
      <3> QED
        BY <1>1, <2>1, <2>5, <3>2, <3>3
    <2> QED
      BY <2>2, <2>3, <2>4, <2>5
  <1>8. ASSUME NEW x \in First..(EndMarker - 1)
        PROVE  \E d \in B \cup {c} : d <= x /\ x < d + Y[d]
    <2>1. x \in Int
      BY Bounds
    <2>2. PICK d \in B : d <= x /\ x < d + Z[d]
      BY DEF Tiles
    <2>3. CASE d # b
      BY <2>2, <2>3
    <2>4. CASE d = b /\ x < c
      BY <1>2, <2>2, <2>4
    <2>5. CASE d = b /\ c <= x
      BY <1>3, <2>2, <2>5
    <2> QED
      BY <1>3, <2>1, <2>3, <2>4, <2>5
  <1>9. Tiles(B \cup {c}, Y)
    BY <1>6, <1>7, <1>8 DEF Tiles
  <1> QED
    BY <1>1, <1>2, <1>3, <1>4, <1>5, <1>9

\* The bytes of a block are as many as it is long.
LEMMA BlockBytes ==
  ASSUME NEW B, NEW Z, Tiles(B, Z), NEW b \in B
  PROVE  Bytes({b}, Z) = b..(b + Z[b] - 1) /\ Cardinality(Bytes({b}, Z)) = Z[b]
  <1>1. /\ b \in Nat /\ Z[b] \in Nat \ {0} /\ First <= b /\ b + Z[b] <= EndMarker
        /\ First \in Nat /\ EndMarker \in Nat
    BY Block, Bounds
  <1>2. Bytes({b}, Z) = b..(b + Z[b] - 1)
    <2>1. ASSUME NEW x \in Bytes({b}, Z) PROVE x \in b..(b + Z[b] - 1)
      BY <1>1 DEF Bytes
    <2>2. ASSUME NEW x \in b..(b + Z[b] - 1) PROVE x \in Bytes({b}, Z)
      <3>1. x \in First..(EndMarker - 1) /\ b <= x /\ x < b + Z[b]
        BY <1>1
      <3> QED
        BY <3>1 DEF Bytes
    <2> QED
      BY <2>1, <2>2
  <1>3. b + Z[b] - 1 \in Int /\ ~(b > b + Z[b] - 1) /\ (b + Z[b] - 1) - b + 1 = Z[b]
    BY <1>1
  <1>4. Cardinality(b..(b + Z[b] - 1)) = Z[b]
    BY <1>1, <1>3, FS_Interval
  <1> QED
    BY <1>2, <1>4

\* The bytes of some blocks are no more than the heap has.
LEMMA BytesCounted ==
  ASSUME NEW S, NEW Z
  PROVE  /\ IsFiniteSet(Bytes(S, Z)) /\ Cardinality(Bytes(S, Z)) \in Nat
         /\ Cardinality(Bytes(S, Z)) <= EndMarker - First
         /\ \A T \in SUBSET S : /\ Bytes(T, Z) \subseteq Bytes(S, Z)
                                /\ Cardinality(Bytes(T, Z)) <= Cardinality(Bytes(S, Z))
  <1>1. /\ First \in Int /\ EndMarker - 1 \in Int /\ ~(First > EndMarker - 1)
        /\ (EndMarker - 1) - First + 1 = EndMarker - First
    BY Bounds
  <1>2. /\ IsFiniteSet(First..(EndMarker - 1))
        /\ Cardinality(First..(EndMarker - 1)) = EndMarker - First
    BY <1>1, FS_Interval
  <1>3. \A T : Bytes(T, Z) \in SUBSET (First..(EndMarker - 1))
    BY DEF Bytes
  <1>4. IsFiniteSet(Bytes(S, Z)) /\ Cardinality(Bytes(S, Z)) <= EndMarker - First
    BY <1>2, <1>3, FS_Subset
  <1>5. Cardinality(Bytes(S, Z)) \in Nat
    BY <1>4, FS_CardinalityType
  <1>6. \A T \in SUBSET S : Bytes(T, Z) \subseteq Bytes(S, Z)
    BY DEF Bytes
  <1>7. \A T \in SUBSET S : Cardinality(Bytes(T, Z)) <= Cardinality(Bytes(S, Z))
    BY <1>4, <1>6, FS_Subset
  <1> QED
    BY <1>4, <1>5, <1>6, <1>7

\* A block more adds its length.
LEMMA BytesAdded ==
  ASSUME NEW B, NEW Z, Tiles(B, Z), NEW S \in SUBSET B, NEW b \in B, b \notin S
  PROVE  Cardinality(Bytes(S \cup {b}, Z)) = Cardinality(Bytes(S, Z)) + Z[b]
  <1>1. PICK P, Q : P = Bytes(S, Z) /\ Q = Bytes({b}, Z)
    OBVIOUS
  <1>2. Bytes(S \cup {b}, Z) = P \cup Q
    BY <1>1 DEF Bytes
  <1>3. P \cap Q = {}
    <2> SUFFICES ASSUME NEW x \in P, x \in Q PROVE FALSE
      OBVIOUS
    <2>1. x \in First..(EndMarker - 1) /\ b <= x /\ x < b + Z[b]
      BY <1>1 DEF Bytes
    <2>2. PICK c \in S : c <= x /\ x < c + Z[c]
      BY <1>1 DEF Bytes
    <2>3. /\ b \in Nat /\ c \in Nat /\ x \in Int /\ c # b /\ Z[b] \in Nat /\ Z[c] \in Nat
          /\ c < b => c + Z[c] <= b
          /\ b < c => b + Z[b] <= c
      BY <2>1, Block, Bounds
    <2> QED
      BY <2>1, <2>2, <2>3
  <1>4. /\ IsFiniteSet(P) /\ IsFiniteSet(Q) /\ Cardinality(P) \in Nat
        /\ Cardinality(Q) = Z[b] /\ Z[b] \in Nat
    BY <1>1, BytesCounted, BlockBytes, Block
  <1>5. Cardinality(P \cup Q) = Cardinality(P) + Cardinality(Q) - Cardinality(P \cap Q)
    BY <1>4, FS_Union
  <1>6. Cardinality(P \cap Q) = 0
    BY <1>3, FS_EmptySet
  <1>7. Cardinality(P \cup Q) = Cardinality(P) + Z[b]
    BY <1>4, <1>5, <1>6
  <1> QED
    BY <1>1, <1>2, <1>7

(***************************************************************************)
(* The free list.                                                          *)
(***************************************************************************)

\* Where the elements of two lists are when they are joined.
LEMMA Joined ==
  ASSUME NEW S, NEW A \in Seq(S), NEW C \in Seq(S), NEW n \in Nat, n = Len(A),
         NEW m \in Nat, m = Len(C), NEW M, M = A \o C
  PROVE  /\ M \in Seq(S) /\ Len(M) = n + m
         /\ \A k \in 1..n : M[k] = A[k]
         /\ \A k \in (n + 1)..(n + m) : M[k] = C[k - n]
  <1>1. M \in Seq(S) /\ Len(M) = n + m
    BY ConcatProperties
  <1>2. ASSUME NEW k \in 1..(n + m) PROVE M[k] = IF k <= n THEN A[k] ELSE C[k - n]
    BY ConcatProperties
  <1> QED
    BY <1>1, <1>2

\* The list L in which the elements between p and q are replaced by f.
Splice(L, p, q, f) == SubSeq(L, 1, p) \o <<f>> \o SubSeq(L, q, Len(L))

\* What is in such a list.
IsSplice(M, L, p, q, f) ==
  /\ Len(M) = p + 1 + (Len(L) - q + 1)
  /\ \A k \in 1..p : M[k] = L[k]
  /\ M[p + 1] = f
  /\ \A k \in (p + 2)..Len(M) : M[k] = L[k - p - 2 + q]

\* Splice builds such a list.
LEMMA Spliced ==
  ASSUME NEW S, NEW L \in Seq(S), NEW p \in 0..Len(L), NEW q \in (p + 1)..(Len(L) + 1),
         NEW f \in S, NEW M, M = Splice(L, p, q, f)
  PROVE  M \in Seq(S) /\ IsSplice(M, L, p, q, f)
  <1>1. PICK n \in Nat : n = Len(L)
    BY LenProperties
  <1>2. PICK A, C : A = SubSeq(L, 1, p) /\ C = SubSeq(L, q, n)
    OBVIOUS
  <1>3. \A i \in 1..n : L[i] \in S
    BY <1>1, ElementOfSeq
  <1>4. A \in Seq(S) /\ Len(A) = p /\ \A k \in 1..p : A[k] = L[k]
    <2>1. \A i \in 1..p : L[i] \in S
      BY <1>1, <1>3
    <2>2. Len(A) = p /\ \A k \in 1..p : A[k] = L[1 + k - 1]
      BY <1>1, <1>2, <2>1, SubSeqProperties
    <2> QED
      BY <1>1, <1>2, <2>1, <2>2, SubSeqProperties
  <1>5. C \in Seq(S) /\ Len(C) = n - q + 1 /\ \A k \in 1..(n - q + 1) : C[k] = L[q + k - 1]
    <2>1. \A i \in q..n : L[i] \in S
      BY <1>1, <1>3
    <2> QED
      BY <1>1, <1>2, <2>1, SubSeqProperties
  <1>6. <<f>> \in Seq(S) /\ Len(<<f>>) = 1 /\ <<f>>[1] = f
    OBVIOUS
  <1>7. PICK D : D = A \o <<f>>
    OBVIOUS
  <1>8. /\ D \in Seq(S) /\ Len(D) = p + 1 /\ D[p + 1] = f
        /\ \A k \in 1..p : D[k] = L[k]
    <2>1. p \in Nat /\ 1 \in Nat
      BY <1>1
    <2>2. /\ D \in Seq(S) /\ Len(D) = p + 1
          /\ \A k \in 1..p : D[k] = A[k]
          /\ \A k \in (p + 1)..(p + 1) : D[k] = <<f>>[k - p]
      BY <1>4, <1>6, <1>7, <2>1, Joined
    <2>3. D[p + 1] = <<f>>[1]
      BY <2>1, <2>2
    <2> QED
      BY <1>4, <1>6, <2>2, <2>3
  <1>9. M = D \o C
    BY <1>1, <1>2, <1>7 DEF Splice
  <1>10. /\ M \in Seq(S) /\ Len(M) = p + 1 + (n - q + 1)
         /\ \A k \in 1..(p + 1) : M[k] = D[k]
         /\ \A k \in (p + 2)..Len(M) : M[k] = C[k - (p + 1)]
    <2>0. p + 1 \in Nat /\ n - q + 1 \in Nat
      BY <1>1
    <2>1. PICK u \in Nat, v \in Nat : u = p + 1 /\ v = n - q + 1
      BY <2>0
    <2>3. u = Len(D) /\ v = Len(C) /\ D \in Seq(S) /\ C \in Seq(S)
      BY <1>5, <1>8, <2>1, Zenon
    <2>2. /\ M \in Seq(S) /\ Len(M) = u + v
          /\ \A k \in 1..u : M[k] = D[k]
          /\ \A k \in (u + 1)..(u + v) : M[k] = C[k - u]
      BY <1>9, <2>3, Joined
    <2> QED
      BY <1>1, <2>1, <2>2
  <1>11. ASSUME NEW k \in (p + 2)..Len(M) PROVE M[k] = L[k - p - 2 + q]
    <2>1. k - (p + 1) \in 1..(n - q + 1) /\ q + (k - (p + 1)) - 1 = k - p - 2 + q
      BY <1>1, <1>10
    <2> QED
      BY <1>5, <1>10, <2>1
  <1>13. /\ \A k \in 1..p : M[k] = L[k]
         /\ M[p + 1] = f
    BY <1>1, <1>8, <1>10
  <1> QED
    BY <1>1, <1>10, <1>11, <1>13, Zenon DEF IsSplice

\* A list from which the i-th element is taken.
LEMMA TakenOut ==
  ASSUME NEW S, NEW L \in Seq(S), NEW i \in 1..Len(L)
  PROVE  LET M == RemoveAt(L, i) IN
         /\ M \in Seq(S) /\ Len(M) = Len(L) - 1
         /\ \A k \in 1..(i - 1) : M[k] = L[k]
         /\ \A k \in i..(Len(L) - 1) : M[k] = L[k + 1]
  <1>1. PICK n \in Nat : n = Len(L)
    BY LenProperties
  <1>2. PICK A, C : A = SubSeq(L, 1, i - 1) /\ C = SubSeq(L, i + 1, n)
    OBVIOUS
  <1>3. \A j \in 1..n : L[j] \in S
    BY <1>1, ElementOfSeq
  <1>4. A \in Seq(S) /\ Len(A) = i - 1 /\ \A k \in 1..(i - 1) : A[k] = L[k]
    <2>1. \A j \in 1..(i - 1) : L[j] \in S
      BY <1>1, <1>3
    <2>2. Len(A) = i - 1 /\ \A k \in 1..(i - 1) : A[k] = L[1 + k - 1]
      BY <1>1, <1>2, <2>1, SubSeqProperties
    <2> QED
      BY <1>1, <1>2, <2>1, <2>2, SubSeqProperties
  <1>5. C \in Seq(S) /\ Len(C) = n - i /\ \A k \in 1..(n - i) : C[k] = L[i + 1 + k - 1]
    <2>1. \A j \in (i + 1)..n : L[j] \in S
      BY <1>1, <1>3
    <2> QED
      BY <1>1, <1>2, <2>1, SubSeqProperties
  <1>6. PICK M : M = A \o C
    OBVIOUS
  <1>7. /\ M \in Seq(S) /\ Len(M) = n - 1
        /\ \A k \in 1..(i - 1) : M[k] = A[k]
        /\ \A k \in i..(n - 1) : M[k] = C[k - (i - 1)]
    <2>0. i - 1 \in Nat /\ n - i \in Nat
      BY <1>1
    <2>1. PICK u \in Nat, v \in Nat : u = i - 1 /\ v = n - i
      BY <2>0
    <2>3. u = Len(A) /\ v = Len(C) /\ A \in Seq(S) /\ C \in Seq(S)
      BY <1>4, <1>5, <2>1, Zenon
    <2>2. /\ M \in Seq(S) /\ Len(M) = u + v
          /\ \A k \in 1..u : M[k] = A[k]
          /\ \A k \in (u + 1)..(u + v) : M[k] = C[k - u]
      BY <1>6, <2>3, Joined
    <2> QED
      BY <1>1, <2>1, <2>2
  <1>8. ASSUME NEW k \in i..(n - 1) PROVE M[k] = L[k + 1]
    <2>1. k - (i - 1) \in 1..(n - i) /\ i + 1 + (k - (i - 1)) - 1 = k + 1
      BY <1>1
    <2> QED
      BY <1>5, <1>7, <2>1
  <1> QED
    BY <1>1, <1>2, <1>4, <1>6, <1>7, <1>8 DEF RemoveAt

\* The elements of a list, and that they are different.
LEMMA Listed ==
  ASSUME NEW L \in Seq(Addr)
  PROVE  /\ Len(L) \in Nat /\ DOMAIN L = 1..Len(L)
         /\ \A i \in 1..Len(L) : L[i] \in Addr /\ L[i] \in Nat /\ L[i] \in Range(L)
         /\ \A b \in Range(L) : b \in Addr /\ \E i \in 1..Len(L) : b = L[i]
  <1>1. Len(L) \in Nat /\ DOMAIN L = 1..Len(L) /\ \A i \in 1..Len(L) : L[i] \in Addr
    BY LenProperties, ElementOfSeq
  <1> QED
    BY <1>1, Addresses DEF Range

\* What taking the i-th block off the list does to it.
LEMMA TakenOff ==
  ASSUME NEW L \in Seq(Addr), NEW Z, NEW i \in 1..Len(L), Sorted(L, Z),
         \A b \in Range(L) : Z[b] \in Nat
  PROVE  /\ RemoveAt(L, i) \in Seq(Addr)
         /\ Sorted(RemoveAt(L, i), Z)
         /\ Range(RemoveAt(L, i)) = Range(L) \ {L[i]}
  <1>0. Len(L) \in Nat
    BY Listed
  <1>1. PICK n, M : n = Len(L) /\ M = RemoveAt(L, i)
    OBVIOUS
  <1>2. /\ M \in Seq(Addr) /\ Len(M) = n - 1 /\ n \in Nat
        /\ \A k \in 1..(i - 1) : M[k] = L[k]
        /\ \A k \in i..(n - 1) : M[k] = L[k + 1]
    BY <1>1, TakenOut, Listed
  <1>3. DOMAIN M = 1..(n - 1) /\ DOMAIN L = 1..n
    BY <1>1, <1>2, Listed
  <1>4. PICK g : g = [k \in 1..(n - 1) |-> IF k < i THEN k ELSE k + 1]
    OBVIOUS
  <1>5. \A k \in 1..(n - 1) : M[k] = L[g[k]] /\ g[k] \in 1..n /\ g[k] # i
    BY <1>1, <1>2, <1>4
  <1>6. \A k, l \in 1..(n - 1) : k < l => g[k] < g[l]
    BY <1>2, <1>4
  <1>7. Sorted(M, Z)
    BY <1>3, <1>5, <1>6 DEF Sorted
  <1>8. \A j \in 1..n : j # i => L[j] # L[i]
    <2>1. ASSUME NEW j \in 1..n, NEW k \in 1..n, j < k PROVE L[j] # L[k]
      <3>1. L[j] + Z[L[j]] < L[k] /\ L[j] \in Nat /\ L[k] \in Nat /\ Z[L[j]] \in Nat
        BY <1>1, <1>3, <2>1, Listed DEF Sorted
      <3> QED
        BY <3>1
    <2> QED
      BY <1>1, <1>2, <2>1
  <1>9. \A j \in 1..n : j # i => \E k \in 1..(n - 1) : g[k] = j
    <2> SUFFICES ASSUME NEW j \in 1..n, j # i PROVE \E k \in 1..(n - 1) : g[k] = j
      OBVIOUS
    <2>1. CASE j < i
      <3>1. j \in 1..(n - 1) /\ g[j] = j
        BY <1>1, <1>2, <1>4, <2>1
      <3> QED
        BY <3>1
    <2>2. CASE j > i
      <3>1. j - 1 \in 1..(n - 1) /\ g[j - 1] = j
        BY <1>1, <1>2, <1>4, <2>2
      <3> QED
        BY <3>1
    <2> QED
      BY <1>1, <1>2, <2>1, <2>2
  <1>10. Range(M) = Range(L) \ {L[i]}
    <2>1. ASSUME NEW b \in Range(M) PROVE b \in Range(L) \ {L[i]}
      BY <1>1, <1>3, <1>5, <1>8 DEF Range
    <2>2. ASSUME NEW b \in Range(L) \ {L[i]} PROVE b \in Range(M)
      <3>1. PICK j \in 1..n : b = L[j] /\ j # i
        BY <1>3 DEF Range
      <3>2. PICK k \in 1..(n - 1) : g[k] = j
        BY <1>9, <3>1
      <3> QED
        BY <1>3, <1>5, <3>1, <3>2 DEF Range
    <2> QED
      BY <2>1, <2>2
  <1> QED
    BY <1>1, <1>2, <1>7, <1>10

\* Its elements.
Elems(L, p, q, f) == {f} \cup {L[k] : k \in 1..p} \cup {L[k] : k \in q..Len(L)}

\* The list M has those elements, in the order of their addresses.
Holds(M, Y, L, p, q, f) == M \in Seq(Addr) /\ Sorted(M, Y) /\ Range(M) = Elems(L, p, q, f)

\* A list into which f is put between its neighbours.
LEMMA InOrder ==
  ASSUME NEW L \in Seq(Addr), NEW Z, NEW Y, NEW n \in Nat, n = Len(L),
         NEW p \in Nat, NEW q \in Nat, p < q, q <= n + 1, NEW f \in Addr, Sorted(L, Z),
         \A b \in Range(L) : Z[b] \in Nat, Y[f] \in Nat,
         \A k \in 1..p : Y[L[k]] = Z[L[k]] /\ L[k] + Z[L[k]] < f,
         \A k \in q..n : Y[L[k]] = Z[L[k]] /\ f + Y[f] < L[k],
         NEW M, M = Splice(L, p, q, f)
  PROVE  Holds(M, Y, L, p, q, f)
  <1>0. p + 1 + (n - q + 1) \in Nat
    OBVIOUS
  <1>2. PICK m \in Nat : m = p + 1 + (n - q + 1)
    BY <1>0
  <1>3. /\ M \in Seq(Addr) /\ Len(M) = m
        /\ \A k \in 1..p : M[k] = L[k]
        /\ M[p + 1] = f
        /\ \A k \in (p + 2)..m : M[k] = L[k - p - 2 + q]
    <2>1. p \in 0..Len(L) /\ q \in (p + 1)..(Len(L) + 1)
      OBVIOUS
    <2>2. M \in Seq(Addr) /\ IsSplice(M, L, p, q, f)
      BY <2>1, Spliced
    <2>3. Len(M) = m
      BY <1>2, <2>2 DEF IsSplice
    <2> QED
      BY <2>2, <2>3, Zenon DEF IsSplice
  <1>4. DOMAIN M = 1..m /\ DOMAIN L = 1..n
    BY <1>3, Listed
  <1>5. PICK g : g = [k \in 1..m |-> IF k <= p THEN k ELSE k - p - 2 + q]
    OBVIOUS
  <1>6. /\ \A k \in 1..p : k \in 1..m
        /\ \A k \in (p + 2)..m : g[k] \in q..n /\ M[k] = L[g[k]]
        /\ p + 1 \in 1..m
        /\ \A k \in 1..m : k \in 1..p \/ k = p + 1 \/ k \in (p + 2)..m
    <2>1. \A k \in (p + 2)..m : g[k] = k - p - 2 + q
      BY <1>5
    <2>2. \A k \in (p + 2)..m : g[k] \in q..n
      BY <1>2, <2>1
    <2>3. \A k \in (p + 2)..m : M[k] = L[g[k]]
      BY <1>3, <2>1, Zenon
    <2>4. \A k \in 1..p : k \in 1..m
      BY <1>2
    <2>5. p + 1 \in 1..m /\ \A k \in 1..m : k \in 1..p \/ k = p + 1 \/ k \in (p + 2)..m
      BY <1>2
    <2> QED
      BY <2>2, <2>3, <2>4, <2>5, Zenon
  <1>7. ASSUME NEW k \in 1..m, NEW l \in 1..m, k < l PROVE M[k] + Y[M[k]] < M[l]
    <2>1. CASE k \in 1..p /\ l \in 1..p
      <3>1. L[k] + Z[L[k]] < L[l]
        BY <1>4, <1>7, <2>1 DEF Sorted
      <3> QED
        BY <1>3, <2>1, <3>1
    <2>2. CASE k \in 1..p /\ l = p + 1
      BY <1>3, <2>2
    <2>3. CASE k = p + 1 /\ l \in (p + 2)..m
      BY <1>3, <1>6, <2>3
    <2>4. CASE k \in 1..p /\ l \in (p + 2)..m
      <3>0. g[l] \in q..n
        BY <1>6, <2>4
      <3>1. k \in 1..n /\ g[l] \in 1..n /\ k < g[l]
        BY <2>4, <3>0
      <3>2. L[k] + Z[L[k]] < L[g[l]]
        BY <1>4, <3>1 DEF Sorted
      <3> QED
        BY <1>3, <1>6, <2>4, <3>2
    <2>5. CASE k \in (p + 2)..m /\ l \in (p + 2)..m
      <3>0. g[k] \in q..n /\ g[l] \in q..n
        BY <1>6, <2>5
      <3>1. g[k] \in 1..n /\ g[l] \in 1..n /\ g[k] < g[l]
        BY <1>5, <1>7, <2>5, <3>0
      <3>2. L[g[k]] + Z[L[g[k]]] < L[g[l]]
        BY <1>4, <3>1 DEF Sorted
      <3>3. Y[L[g[k]]] = Z[L[g[k]]]
        BY <3>0
      <3> QED
        BY <1>6, <2>5, <3>2, <3>3
    <2>6. \/ k \in 1..p /\ l \in 1..p
          \/ k \in 1..p /\ l = p + 1
          \/ k = p + 1 /\ l \in (p + 2)..m
          \/ k \in 1..p /\ l \in (p + 2)..m
          \/ k \in (p + 2)..m /\ l \in (p + 2)..m
      BY <1>7
    <2> QED
      BY <2>1, <2>2, <2>3, <2>4, <2>5, <2>6
  <1>8. Sorted(M, Y)
    BY <1>4, <1>7 DEF Sorted
  <1>9. \A j \in q..n : \E k \in (p + 2)..m : g[k] = j
    <2> SUFFICES ASSUME NEW j \in q..n PROVE \E k \in (p + 2)..m : g[k] = j
      OBVIOUS
    <2>1. j + p + 2 - q \in (p + 2)..m /\ g[j + p + 2 - q] = j
      BY <1>2, <1>5
    <2> QED
      BY <2>1
  <1>10. ASSUME NEW x \in Range(M) PROVE x \in Elems(L, p, q, f)
    <2>1. PICK k \in 1..m : x = M[k]
      BY <1>4 DEF Range
    <2>2. CASE k \in 1..p
      BY <1>3, <2>1, <2>2, Zenon DEF Elems
    <2>3. CASE k = p + 1
      BY <1>3, <2>1, <2>3, Zenon DEF Elems
    <2>4. CASE k \in (p + 2)..m
      <3>1. x = L[g[k]] /\ g[k] \in q..Len(L)
        BY <1>6, <2>1, <2>4, Zenon
      <3> QED
        BY <3>1, Zenon DEF Elems
    <2> QED
      BY <1>6, <2>2, <2>3, <2>4, Zenon
  <1>11. ASSUME NEW x \in Elems(L, p, q, f) PROVE x \in Range(M)
    <2>1. CASE x = f
      BY <1>3, <1>4, <1>6, <2>1 DEF Range
    <2>2. ASSUME NEW k \in 1..p, x = L[k] PROVE x \in Range(M)
      BY <1>3, <1>4, <1>6, <2>2 DEF Range
    <2>3. ASSUME NEW j \in q..n, x = L[j] PROVE x \in Range(M)
      <3>1. PICK k \in (p + 2)..m : g[k] = j
        BY <1>9
      <3>2. M[k] = x
        BY <1>6, <2>3, <3>1, Zenon
      <3>3. k \in 1..m
        OBVIOUS
      <3> QED
        BY <1>4, <3>2, <3>3 DEF Range
    <2> QED
      BY <2>1, <2>2, <2>3, Zenon DEF Elems
  <1>12. Range(M) = Elems(L, p, q, f)
    BY <1>10, <1>11, Zenon
  <1> QED
    BY <1>3, <1>8, <1>12, Zenon DEF Holds

\* What is known of two blocks of the list.
LEMMA Apart ==
  ASSUME NEW L \in Seq(Addr), NEW Z, Sorted(L, Z), \A b \in Range(L) : Z[b] \in Nat,
         NEW j \in 1..Len(L), NEW k \in 1..Len(L), j < k
  PROVE  L[j] + Z[L[j]] < L[k] /\ L[j] < L[k] /\ L[j] # L[k]
  <1>1. L[j] + Z[L[j]] < L[k] /\ L[j] \in Nat /\ L[k] \in Nat /\ Z[L[j]] \in Nat
    BY Listed DEF Sorted
  <1> QED
    BY <1>1

\* The place of a block in the list: in front of the first free block above it.
LEMMA PlaceFound ==
  ASSUME NEW L \in Seq(Addr), NEW Z, Sorted(L, Z), \A a \in Range(L) : Z[a] \in Nat,
         NEW b \in Nat, b \notin Range(L),
         NEW i, i = Place(L, b)
  PROVE  /\ i \in 1..(Len(L) + 1)
         /\ \A j \in 1..(i - 1) : L[j] < b
         /\ \A j \in i..Len(L) : b < L[j]
  <1>1. Len(L) \in Nat /\ \A j \in 1..Len(L) : L[j] \in Nat /\ L[j] \in Range(L)
    BY Listed
  <1>2. PICK T : T = {k \in 1..(Len(L) + 1) : k <= Len(L) => L[k] >= b}
    OBVIOUS
  <1>3. T \in SUBSET Nat /\ Len(L) + 1 \in T
    BY <1>1, <1>2
  <1>4. PICK m \in T : \A k \in T : m <= k
    BY <1>3, LeastNat
  <1>5. \A j \in 1..(m - 1) : L[j] < b
    BY <1>1, <1>2, <1>4
  <1>6. /\ i \in 1..(Len(L) + 1)
        /\ i <= Len(L) => L[i] >= b
        /\ \A j \in 1..(i - 1) : L[j] < b
    BY <1>2, <1>4, <1>5 DEF Place
  <1>7. ASSUME NEW j \in i..Len(L) PROVE b < L[j]
    <2>1. i \in 1..Len(L) /\ j \in 1..Len(L) /\ L[i] >= b /\ L[i] # b
      BY <1>1, <1>6
    <2>2. CASE j = i
      BY <1>1, <2>1, <2>2
    <2>3. CASE i < j
      <3>1. L[i] < L[j]
        BY <2>1, <2>3, Apart
      <3> QED
        BY <1>1, <2>1, <3>1
    <2> QED
      BY <1>1, <2>1, <2>2, <2>3
  <1> QED
    BY <1>6, <1>7

\* What is known of the list when f, with the length X[f], lies between its
\* elements p and q, and the blocks O with it and the list cover the heap.
Between(L, Z, X, O, p, q, f) ==
  /\ f \in Addr
  /\ Tiles(O \cup Elems(L, p, q, f), X)
  /\ O \cap Elems(L, p, q, f) = {}
  /\ \A k \in 1..p : X[L[k]] = Z[L[k]] /\ L[k] + Z[L[k]] < f
  /\ \A k \in q..Len(L) : X[L[k]] = Z[L[k]] /\ f + X[f] <= L[k]
  /\ \A o \in O : X[o] = Z[o]

\* The elements around a place.
LEMMA Around ==
  ASSUME NEW L \in Seq(Addr), NEW n \in Nat, n = Len(L), NEW i \in Nat, 1 <= i, i <= n + 1,
         NEW b
  PROVE  /\ Elems(L, i - 1, i, b) = Range(L) \cup {b}
         /\ i > 1 => Elems(L, i - 2, i, L[i - 1]) = Range(L)
  <1>1. DOMAIN L = 1..n /\ Range(L) = {L[k] : k \in 1..n}
    BY Listed DEF Range
  <1>2. \A k \in 1..n : k \in 1..(i - 1) \/ k \in i..n
    OBVIOUS
  <1>3. \A k \in 1..n : k \in 1..(i - 2) \/ k = i - 1 \/ k \in i..n
    OBVIOUS
  <1>4. /\ \A k \in 1..(i - 1) : k \in 1..n
        /\ \A k \in 1..(i - 2) : k \in 1..n
        /\ \A k \in i..n : k \in 1..n
        /\ i > 1 => i - 1 \in 1..n
    OBVIOUS
  <1>5. Elems(L, i - 1, i, b) = Range(L) \cup {b}
    BY <1>1, <1>2, <1>4, Zenon DEF Elems
  <1>6. ASSUME i > 1 PROVE Elems(L, i - 2, i, L[i - 1]) = Range(L)
    BY <1>1, <1>3, <1>4, <1>6, Zenon DEF Elems
  <1> QED
    BY <1>5, <1>6

\* The bytes in free blocks are those that were free, and those of b.
Kept(L, Z, X, b, p, q, f) == Bytes(Elems(L, p, q, f), X) = Bytes(Range(L) \cup {b}, Z)

\* The block b is merged with the one before it when they touch.
LEMMA JoinedBefore ==
  ASSUME NEW L \in Seq(Addr), NEW n \in Nat, n = Len(L), NEW Z, NEW X, NEW O, NEW b \in Addr,
         b \notin O, b \notin Range(L), O \cap Range(L) = {},
         Tiles(O \cup Range(L) \cup {b}, Z), Sorted(L, Z),
         NEW i \in Nat, 1 <= i, i <= n + 1,
         \A j \in 1..(i - 1) : L[j] < b, \A j \in i..n : b < L[j],
         i > 1, L[i - 1] + Z[L[i - 1]] = b, NEW f, f = L[i - 1],
         X[f] = Z[f] + Z[b], \A a \in Addr : a # f /\ a # b => X[a] = Z[a]
  PROVE  Between(L, Z, X, O, i - 2, i, f) /\ Kept(L, Z, X, b, i - 2, i, f)
  <1>1. PICK B : B = O \cup Range(L) \cup {b}
    OBVIOUS
  <1>2. i - 1 \in 1..n /\ f \in Addr /\ f \in Range(L) /\ f \in Nat /\ b \in Nat /\ f # b
    BY Listed, Addresses
  <1>3. B \subseteq Addr /\ f \in B /\ b \in B /\ Tiles(B, Z) /\ f + Z[f] = b
    BY <1>1, <1>2, Listed DEF Tiles
  <1>4. \A a \in B : a # f /\ a # b => X[a] = Z[a]
    BY <1>3
  <1>5. Tiles(B \ {b}, X) /\ Absorbed(B, Z, X, f, b)
    BY <1>3, <1>4, Merged
  <1>6. Elems(L, i - 2, i, f) = Range(L)
    BY Around
  <1>7. B \ {b} = O \cup Range(L) /\ (Range(L) \cup {b}) \ {b} = Range(L)
    BY <1>1
  <1>8. Bytes(Range(L), X) = Bytes(Range(L) \cup {b}, Z)
    BY <1>1, <1>2, <1>5, <1>7 DEF Absorbed
  <1>9. \A a \in Range(L) : Z[a] \in Nat
    BY <1>1, <1>3, Block
  <1>10. ASSUME NEW k \in 1..(i - 2) PROVE X[L[k]] = Z[L[k]] /\ L[k] + Z[L[k]] < f
    <2>1. k \in 1..Len(L) /\ i - 1 \in 1..Len(L) /\ k < i - 1
      OBVIOUS
    <2>2. L[k] + Z[L[k]] < L[i - 1] /\ L[k] # L[i - 1]
      BY <1>9, <2>1, Apart
    <2>3. L[k] \in Addr /\ L[k] \in Range(L)
      BY <2>1, Listed
    <2> QED
      BY <2>2, <2>3
  <1>11. ASSUME NEW k \in i..n PROVE X[L[k]] = Z[L[k]] /\ f + X[f] <= L[k]
    <2>1. k \in 1..Len(L) /\ i - 1 \in 1..Len(L) /\ i - 1 < k
      OBVIOUS
    <2>2. L[k] # L[i - 1]
      BY <1>9, <2>1, Apart
    <2>3. L[k] \in Addr /\ L[k] \in Range(L) /\ L[k] \in B /\ b < L[k]
      BY <1>1, <2>1, Listed
    <2>4. b + Z[b] <= L[k] /\ Z[b] \in Nat /\ Z[f] \in Nat
      BY <1>3, <2>3, Block
    <2>5. f + (Z[f] + Z[b]) <= L[k]
      BY <1>2, <1>3, <2>4
    <2> QED
      BY <2>2, <2>3, <2>5
  <1>12. \A o \in O : X[o] = Z[o]
    BY <1>1, <1>2, <1>4
  <1> QED
    BY <1>2, <1>5, <1>6, <1>7, <1>8, <1>10, <1>11, <1>12 DEF Between, Kept

\* The block b is put on the list when the one before it does not touch it.
LEMMA NotJoinedBefore ==
  ASSUME NEW L \in Seq(Addr), NEW n \in Nat, n = Len(L), NEW Z, NEW X, NEW O, NEW b \in Addr,
         b \notin O, b \notin Range(L), O \cap Range(L) = {},
         Tiles(O \cup Range(L) \cup {b}, Z), Sorted(L, Z),
         NEW i \in Nat, 1 <= i, i <= n + 1,
         \A j \in 1..(i - 1) : L[j] < b, \A j \in i..n : b < L[j],
         i > 1 => L[i - 1] + Z[L[i - 1]] # b, \A a \in Addr : X[a] = Z[a]
  PROVE  Between(L, Z, X, O, i - 1, i, b) /\ Kept(L, Z, X, b, i - 1, i, b)
  <1>1. PICK B : B = O \cup Range(L) \cup {b}
    OBVIOUS
  <1>2. B \subseteq Addr /\ Tiles(B, Z) /\ \A k \in 1..n : L[k] \in B /\ L[k] \in Range(L)
    BY <1>1, Listed DEF Tiles
  <1>3. /\ Tiles(B, X)
        /\ \A S \in SUBSET B : Bytes(S, X) = Bytes(S, Z)
    BY <1>2, SameTiles
  <1>4. Elems(L, i - 1, i, b) = Range(L) \cup {b}
    BY Around
  <1>5. \A a \in B : a \in Nat /\ Z[a] \in Nat /\ X[a] = Z[a]
    BY <1>2, Block
  <1>6. \A a \in Range(L) : Z[a] \in Nat
    BY <1>1, <1>5
  <1>7. ASSUME NEW k \in 1..(i - 1) PROVE X[L[k]] = Z[L[k]] /\ L[k] + Z[L[k]] < b
    <2>1. k \in 1..n /\ i - 1 \in 1..n /\ L[k] < b /\ L[i - 1] < b /\ i > 1
      OBVIOUS
    <2>2. L[k] + Z[L[k]] <= b
      BY <1>1, <1>2, <2>1, Block
    <2>3. CASE k = i - 1
      <3>1. L[k] \in B /\ b \in B
        BY <1>1, <1>2, <2>1
      <3>2. L[k] + Z[L[k]] # b
        BY <2>1, <2>3
      <3>3. L[k] \in Nat /\ Z[L[k]] \in Nat /\ X[L[k]] = Z[L[k]] /\ b \in Nat
        BY <1>5, <3>1
      <3> QED
        BY <2>2, <3>2, <3>3
    <2>4. CASE k < i - 1
      <3>1. L[k] + Z[L[k]] < L[i - 1]
        BY <1>6, <2>1, <2>4, Apart
      <3> QED
        BY <1>1, <1>2, <1>5, <2>1, <3>1
    <2>5. k = i - 1 \/ k < i - 1
      OBVIOUS
    <2> QED
      BY <2>3, <2>4, <2>5
  <1>8. ASSUME NEW k \in i..n PROVE X[L[k]] = Z[L[k]] /\ b + X[b] <= L[k]
    <2>1. L[k] \in B /\ b < L[k] /\ b \in B
      BY <1>1, <1>2
    <2>2. b + Z[b] <= L[k]
      BY <1>2, <2>1, Block
    <2> QED
      BY <1>5, <2>1, <2>2
  <1>9. O \cup Elems(L, i - 1, i, b) = B /\ O \cap Elems(L, i - 1, i, b) = {}
    BY <1>1, <1>4
  <1>10. \A o \in O : X[o] = Z[o]
    BY <1>1, <1>5
  <1>11. Bytes(Range(L) \cup {b}, X) = Bytes(Range(L) \cup {b}, Z)
    BY <1>1, <1>3
  <1> QED
    BY <1>3, <1>4, <1>7, <1>8, <1>9, <1>10, <1>11 DEF Between, Kept

\* The block f ends before the q-th block of the list and those behind it.
EndsBefore(L, Y, q, f) == \A k \in q..Len(L) : f + Y[f] < L[k]

\* The block f takes up c, which lies behind it: its length grows from X to Y.
TakesUp(X, Y, f, c) ==
  /\ f + X[f] = c /\ Y[f] = X[f] + X[c]
  /\ \A a \in Addr : a # f /\ a # c => Y[a] = X[a]

\* The block f is merged with the one behind it when they touch.
LEMMA JoinedBehind ==
  ASSUME NEW L \in Seq(Addr), NEW n \in Nat, n = Len(L), NEW Z, NEW X, NEW Y, NEW O,
         Sorted(L, Z), \A a \in Range(L) : Z[a] \in Nat,
         NEW p \in Nat, NEW i \in Nat, p < i, i <= n, NEW f, Between(L, Z, X, O, p, i, f),
         NEW b, Kept(L, Z, X, b, p, i, f), NEW c, c = L[i], TakesUp(X, Y, f, c)
  PROVE  /\ Between(L, Z, Y, O, p, i + 1, f)
         /\ Kept(L, Z, Y, b, p, i + 1, f)
         /\ EndsBefore(L, Y, i + 1, f)
  <1> USE DEF TakesUp
  <1>1. PICK B, S : B = O \cup Elems(L, p, i, f) /\ S = Elems(L, p, i, f)
    OBVIOUS
  <1>2. i \in i..Len(L) /\ i \in 1..Len(L)
    OBVIOUS
  <1>3. f \in B /\ c \in B /\ f \in S /\ c \in S /\ S \in SUBSET B /\ Tiles(B, X)
    BY <1>1, <1>2, Zenon DEF Elems, Between
  <1>4. B \subseteq Addr /\ f \in Nat /\ c \in Nat /\ X[f] \in Nat \ {0} /\ X[c] \in Nat \ {0}
    BY <1>3, Block
  <1>5. f \in Addr /\ c \in Addr /\ f # c /\ f < c /\ c \in Range(L) /\ X[c] = Z[c]
    BY <1>2, <1>3, <1>4, Listed DEF Between
  <1>6. \A a \in B : a # f /\ a # c => Y[a] = X[a]
    BY <1>4
  <1>7. Tiles(B \ {c}, Y) /\ Absorbed(B, X, Y, f, c)
    <2>1. f \in B /\ c \in B /\ Tiles(B, X)
      BY <1>3
    <2> QED
      BY <1>6, <2>1, Merged
  <1>8. ASSUME NEW k \in 1..p PROVE L[k] # c /\ Y[L[k]] = Z[L[k]] /\ L[k] + Z[L[k]] < f
    <2>1. k \in 1..Len(L) /\ i \in 1..Len(L) /\ k < i
      OBVIOUS
    <2>2. L[k] # c
      BY <2>1, Apart
    <2>3. L[k] + Z[L[k]] < f /\ X[L[k]] = Z[L[k]]
      BY DEF Between
    <2>4. L[k] \in Addr /\ L[k] \in Nat /\ Z[L[k]] \in Nat
      BY <2>1, Listed
    <2>5. L[k] # f
      BY <1>4, <2>3, <2>4
    <2> QED
      BY <2>2, <2>3, <2>4, <2>5
  <1>9. ASSUME NEW k \in (i + 1)..n
        PROVE  L[k] # c /\ Y[L[k]] = Z[L[k]] /\ f + Y[f] < L[k] /\ f + Y[f] <= L[k]
    <2>1. k \in 1..Len(L) /\ i \in 1..Len(L) /\ i < k /\ k \in i..Len(L)
      OBVIOUS
    <2>2. L[k] # c /\ c < L[k] /\ c + Z[c] < L[k]
      BY <2>1, Apart
    <2>3. X[L[k]] = Z[L[k]]
      BY <2>1 DEF Between
    <2>4. L[k] \in Addr /\ L[k] \in Nat
      BY <2>1, Listed
    <2>5. L[k] # f
      BY <1>4, <1>5, <2>2, <2>4
    <2>6. Y[f] \in Nat /\ f + Y[f] = c + Z[c]
      BY <1>4, <1>5
    <2>7. f + Y[f] < L[k] /\ f + Y[f] <= L[k]
      BY <1>4, <2>2, <2>4, <2>6
    <2> QED
      BY <2>2, <2>3, <2>4, <2>5, <2>7
  <1>10. Elems(L, p, i + 1, f) = S \ {c}
    <2>1. \A k \in (i + 1)..Len(L) : k \in i..Len(L) /\ k \in (i + 1)..n
      OBVIOUS
    <2>2. \A k \in i..Len(L) : k = i \/ k \in (i + 1)..Len(L)
      OBVIOUS
    <2>3. ASSUME NEW x \in Elems(L, p, i + 1, f) PROVE x \in S /\ x # c
      <3>1. CASE x = f
        BY <1>3, <1>5, <3>1
      <3>2. ASSUME NEW k \in 1..p, x = L[k] PROVE x \in S /\ x # c
        BY <1>1, <1>8, <3>2 DEF Elems
      <3>3. ASSUME NEW k \in (i + 1)..Len(L), x = L[k] PROVE x \in S /\ x # c
        BY <1>1, <1>9, <2>1, <3>3 DEF Elems
      <3> QED
        BY <3>1, <3>2, <3>3 DEF Elems
    <2>4. ASSUME NEW x \in S, x # c PROVE x \in Elems(L, p, i + 1, f)
      BY <1>1, <2>2, <2>4, Zenon DEF Elems
    <2> QED
      BY <2>3, <2>4, Zenon
  <1>11. O \cap S = {} /\ \A o \in O : X[o] = Z[o]
    BY <1>1 DEF Between
  <1>12. O \cup (S \ {c}) = B \ {c} /\ O \cap (S \ {c}) = {} /\ \A o \in O : o # f /\ o # c
    BY <1>1, <1>3, <1>11
  <1>13. \A o \in O : Y[o] = Z[o]
    BY <1>1, <1>6, <1>11, <1>12
  <1>14. Tiles(O \cup Elems(L, p, i + 1, f), Y) /\ O \cap Elems(L, p, i + 1, f) = {}
    BY <1>7, <1>10, <1>12
  <1>15. Between(L, Z, Y, O, p, i + 1, f)
    BY <1>5, <1>8, <1>9, <1>13, <1>14 DEF Between
  <1>16. Bytes(S \ {c}, Y) = Bytes(S, X)
    BY <1>3, <1>7 DEF Absorbed
  <1> QED
    BY <1>1, <1>9, <1>10, <1>15, <1>16 DEF Kept, EndsBefore

\* The block f is left as it is when the one behind it does not touch it.
LEMMA NotJoinedBehind ==
  ASSUME NEW L \in Seq(Addr), NEW n \in Nat, n = Len(L), NEW Z, NEW X, NEW Y, NEW O,
         Sorted(L, Z), \A a \in Range(L) : Z[a] \in Nat,
         NEW p \in Nat, NEW i \in Nat, p < i, i <= n + 1, NEW f, Between(L, Z, X, O, p, i, f),
         NEW b, Kept(L, Z, X, b, p, i, f), i <= n => f + X[f] # L[i], \A a \in Addr : Y[a] = X[a]
  PROVE  /\ Between(L, Z, Y, O, p, i, f)
         /\ Kept(L, Z, Y, b, p, i, f)
         /\ EndsBefore(L, Y, i, f)
  <1>1. PICK B, S : B = O \cup Elems(L, p, i, f) /\ S = Elems(L, p, i, f)
    OBVIOUS
  <1>2. S \in SUBSET B /\ Tiles(B, X) /\ B \subseteq Addr /\ f \in B
    BY <1>1 DEF Between, Tiles, Elems
  <1>3. f \in Nat /\ X[f] \in Nat /\ f \in Addr
    BY <1>2, Block
  <1>4. Tiles(B, Y) /\ \A T \in SUBSET B : Bytes(T, Y) = Bytes(T, X)
    BY <1>2, SameTiles
  <1>5. ASSUME NEW k \in i..n
        PROVE  Y[L[k]] = Z[L[k]] /\ f + Y[f] < L[k] /\ f + Y[f] <= L[k]
    <2>1. k \in 1..Len(L) /\ i \in 1..Len(L) /\ k \in i..Len(L) /\ i \in i..Len(L) /\ i <= n
      OBVIOUS
    <2>2. L[k] \in Addr /\ L[k] \in Nat /\ L[i] \in Nat
      BY <2>1, Listed
    <2>3. X[L[k]] = Z[L[k]] /\ f + X[f] <= L[k] /\ f + X[f] <= L[i]
      BY <2>1 DEF Between
    <2>4. CASE k = i
      BY <1>3, <2>1, <2>2, <2>3, <2>4
    <2>5. CASE i < k
      <3>1. L[i] < L[k]
        BY <2>1, <2>5, Apart
      <3> QED
        BY <1>3, <2>2, <2>3, <3>1
    <2>6. k = i \/ i < k
      OBVIOUS
    <2> QED
      BY <2>4, <2>5, <2>6
  <1>6. ASSUME NEW k \in 1..p PROVE Y[L[k]] = Z[L[k]] /\ L[k] + Z[L[k]] < f
    <2>1. k \in 1..Len(L)
      OBVIOUS
    <2>2. L[k] \in Addr
      BY <2>1, Listed
    <2>3. X[L[k]] = Z[L[k]] /\ L[k] + Z[L[k]] < f
      BY DEF Between
    <2> QED
      BY <2>2, <2>3
  <1>7. O \cap S = {} /\ \A o \in O : X[o] = Z[o] /\ o \in Addr
    BY <1>1, <1>2 DEF Between
  <1>8. Between(L, Z, Y, O, p, i, f)
    BY <1>1, <1>3, <1>4, <1>5, <1>6, <1>7 DEF Between
  <1> QED
    BY <1>1, <1>2, <1>4, <1>5, <1>8 DEF Kept, EndsBefore

\* What prvInsertBlockIntoFreeList leaves of the heap's data h when it puts b on
\* the list, where O are the blocks that are not free.
Settled(h, r, O, b) ==
  /\ r \in HeapData
  /\ r.pxEnd = h.pxEnd /\ r.owned = h.owned
  /\ r.remaining = h.remaining /\ r.minimum = h.minimum
  /\ Sorted(r.freeList, r.size)
  /\ Tiles(O \cup Range(r.freeList), r.size)
  /\ O \cap Range(r.freeList) = {}
  /\ Bytes(Range(r.freeList), r.size) = Bytes(Range(h.freeList) \cup {b}, h.size)
  /\ \A o \in O : r.size[o] = h.size[o]

\* The lengths Z when the block f has the length g and the blocks V and U are
\* inside it.
Sized(Z, f, g, V, U) ==
  [a \in Addr |-> IF a = f THEN g ELSE IF a \in V \cup U THEN 0 ELSE Z[a]]

\* The block f, up to the p-th element of the list, that b becomes or becomes a
\* part of: its length is j, and the blocks V are inside it.
JoinBefore(L, Z, b, i, f, p, j, V) ==
  \/ /\ i > 1 /\ L[i - 1] + Z[L[i - 1]] = b
     /\ f = L[i - 1] /\ p = i - 2 /\ j = Z[f] + Z[b] /\ V = {b}
  \/ /\ ~(i > 1 /\ L[i - 1] + Z[L[i - 1]] = b)
     /\ f = b /\ p = i - 1 /\ j = Z[b] /\ V = {}

\* The same for the block behind, if it is the next on the list.
JoinBehind(L, Z, i, f, j, q, g, U) ==
  \/ /\ i <= Len(L) /\ f + j = L[i]
     /\ q = i + 1 /\ g = j + Z[L[i]] /\ U = {L[i]}
  \/ /\ ~(i <= Len(L) /\ f + j = L[i])
     /\ q = i /\ g = j /\ U = {}

\* The heap's data with another list and other lengths.
Relist(h, M, Y) == [h EXCEPT !.freeList = M, !.size = Y]

\* What such a change leaves alone.
LEMMA Relisted ==
  ASSUME NEW h \in HeapData, NEW M \in Seq(Addr), NEW Y \in [Addr -> 0..(AllocatedBit - 1)],
         NEW r, r = Relist(h, M, Y)
  PROVE  /\ r \in HeapData /\ r.freeList = M /\ r.size = Y /\ r.pxEnd = h.pxEnd
         /\ r.owned = h.owned /\ r.remaining = h.remaining /\ r.minimum = h.minimum
  BY DEF HeapData, Relist

\* prvInsertBlockIntoFreeList joins b with the block before and the one behind.
InsertsAs(h, b, L, Z, i, f, p, j, V, q, g, U, M, Y) ==
  /\ L = h.freeList /\ Z = h.size /\ i = Place(L, b)
  /\ JoinBefore(L, Z, b, i, f, p, j, V)
  /\ JoinBehind(L, Z, i, f, j, q, g, U)
  /\ M = Splice(L, p, q, f) /\ Y = Sized(Z, f, g, V, U)

\* These are all the cases of prvInsertBlockIntoFreeList.
LEMMA InsertCases ==
  ASSUME NEW h, NEW b, NEW L, NEW Z, NEW i, NEW f, NEW p, NEW j, NEW V, NEW q, NEW g, NEW U,
         NEW M, NEW Y, InsertsAs(h, b, L, Z, i, f, p, j, V, q, g, U, M, Y)
  PROVE  prvInsertBlockIntoFreeList(h, b) = Relist(h, M, Y)
  <1>0. /\ L = h.freeList /\ Z = h.size /\ i = Place(L, b)
        /\ JoinBefore(L, Z, b, i, f, p, j, V)
        /\ JoinBehind(L, Z, i, f, j, q, g, U)
        /\ M = Splice(L, p, q, f) /\ Y = Sized(Z, f, g, V, U)
    BY DEF InsertsAs
  <1>1. CASE i > 1 /\ L[i - 1] + Z[L[i - 1]] = b
    <2>0. f = L[i - 1] /\ p = i - 2 /\ j = Z[f] + Z[b] /\ V = {b}
      BY <1>0, <1>1 DEF JoinBefore
    <2>1. CASE i <= Len(L) /\ f + (Z[f] + Z[b]) = L[i]
      <3>1. q = i + 1 /\ g = Z[f] + Z[b] + Z[L[i]] /\ U = {L[i]}
        BY <1>0, <2>0, <2>1 DEF JoinBehind
      <3> QED
        BY <1>0, <1>1, <2>0, <2>1, <3>1 DEF prvInsertBlockIntoFreeList, Relist, Splice, Sized
    <2>2. CASE ~(i <= Len(L) /\ f + (Z[f] + Z[b]) = L[i])
      <3>1. q = i /\ g = Z[f] + Z[b] /\ U = {}
        BY <1>0, <2>0, <2>2 DEF JoinBehind
      <3> QED
        BY <1>0, <1>1, <2>0, <2>2, <3>1 DEF prvInsertBlockIntoFreeList, Relist, Splice, Sized
    <2> QED
      BY <2>1, <2>2
  <1>2. CASE ~(i > 1 /\ L[i - 1] + Z[L[i - 1]] = b)
    <2>0. f = b /\ p = i - 1 /\ j = Z[b] /\ V = {}
      BY <1>0, <1>2 DEF JoinBefore
    <2>1. CASE i <= Len(L) /\ f + Z[b] = L[i]
      <3>1. q = i + 1 /\ g = Z[b] + Z[L[i]] /\ U = {L[i]}
        BY <1>0, <2>0, <2>1 DEF JoinBehind
      <3> QED
        BY <1>0, <1>2, <2>0, <2>1, <3>1 DEF prvInsertBlockIntoFreeList, Relist, Splice, Sized
    <2>2. CASE ~(i <= Len(L) /\ f + Z[b] = L[i])
      <3>1. q = i /\ g = Z[b] /\ U = {}
        BY <1>0, <2>0, <2>2 DEF JoinBehind
      <3> QED
        BY <1>0, <1>2, <2>0, <2>2, <3>1 DEF prvInsertBlockIntoFreeList, Relist, Splice, Sized
    <2> QED
      BY <2>1, <2>2
  <1> QED
    BY <1>1, <1>2

\* After the first of the two.
SizedOnce(X, Z, f, j, V) == X = Sized(Z, f, j, V, {})
JoinedOnce(L, Z, O, b, i, f, p, j, V) ==
  /\ JoinBefore(L, Z, b, i, f, p, j, V) /\ p \in Nat /\ p < i /\ f \in Addr
  /\ Between(L, Z, Sized(Z, f, j, V, {}), O, p, i, f)
  /\ Kept(L, Z, Sized(Z, f, j, V, {}), b, p, i, f)

\* The first of the two can be made.
LEMMA FirstJoin ==
  ASSUME NEW L \in Seq(Addr), NEW n \in Nat, n = Len(L), NEW Z, NEW O, NEW b \in Addr,
         b \notin O, b \notin Range(L), O \cap Range(L) = {},
         Tiles(O \cup Range(L) \cup {b}, Z), Sorted(L, Z),
         NEW i \in Nat, 1 <= i, i <= n + 1,
         \A j \in 1..(i - 1) : L[j] < b, \A j \in i..n : b < L[j]
  PROVE  \E f, p, j, V : JoinedOnce(L, Z, O, b, i, f, p, j, V)
  <1>1. CASE i > 1 /\ L[i - 1] + Z[L[i - 1]] = b
    <2>1. PICK f, p, j, V : f = L[i - 1] /\ p = i - 2 /\ j = Z[f] + Z[b] /\ V = {b}
      OBVIOUS
    <2>2. PICK X : X = Sized(Z, f, j, V, {})
      OBVIOUS
    <2>3. i - 1 \in 1..Len(L)
      BY <1>1
    <2>4. f \in Addr /\ f \in Range(L)
      BY <2>1, <2>3, Listed
    <2>5. X[f] = j /\ \A a \in Addr : a # f /\ a # b => X[a] = Z[a]
      BY <2>1, <2>2, <2>4 DEF Sized
    <2>6. X[f] = Z[f] + Z[b]
      BY <2>1, <2>5, Zenon
    <2>7. Between(L, Z, X, O, i - 2, i, f) /\ Kept(L, Z, X, b, i - 2, i, f)
      BY <1>1, <2>1, <2>5, <2>6, JoinedBefore
    <2>8. p \in Nat /\ p < i
      BY <1>1, <2>1
    <2>9. JoinBefore(L, Z, b, i, f, p, j, V)
      BY <1>1, <2>1 DEF JoinBefore
    <2>10. /\ Between(L, Z, Sized(Z, f, j, V, {}), O, p, i, f)
           /\ Kept(L, Z, Sized(Z, f, j, V, {}), b, p, i, f)
      BY <2>1, <2>2, <2>7
    <2>11. JoinedOnce(L, Z, O, b, i, f, p, j, V)
      BY <2>4, <2>8, <2>9, <2>10 DEF JoinedOnce
    <2> QED
      BY <2>11
  <1>2. CASE ~(i > 1 /\ L[i - 1] + Z[L[i - 1]] = b)
    <2>1. PICK f, p, j, V : f = b /\ p = i - 1 /\ j = Z[b] /\ V = {}
      OBVIOUS
    <2>2. PICK X : X = Sized(Z, f, j, V, {})
      OBVIOUS
    <2>3. \A a \in Addr : X[a] = Z[a]
      BY <2>1, <2>2 DEF Sized
    <2>4. Between(L, Z, X, O, i - 1, i, b) /\ Kept(L, Z, X, b, i - 1, i, b)
      BY <1>2, <2>3, NotJoinedBefore
    <2>5. p \in Nat /\ p < i
      BY <2>1
    <2>6. JoinBefore(L, Z, b, i, f, p, j, V)
      BY <1>2, <2>1 DEF JoinBefore
    <2>7. /\ Between(L, Z, Sized(Z, f, j, V, {}), O, p, i, f) /\ f \in Addr
          /\ Kept(L, Z, Sized(Z, f, j, V, {}), b, p, i, f)
      BY <2>1, <2>2, <2>4
    <2>8. JoinedOnce(L, Z, O, b, i, f, p, j, V)
      BY <2>5, <2>6, <2>7 DEF JoinedOnce
    <2> QED
      BY <2>8
  <1> QED
    BY <1>1, <1>2

\* After the second.
JoinedTwice(L, Z, O, b, i, f, p, j, V, q, g, U, Y) ==
  /\ JoinBehind(L, Z, i, f, j, q, g, U) /\ q \in Nat /\ p < q /\ q <= Len(L) + 1
  /\ Y = Sized(Z, f, g, V, U) /\ Y[f] = g
  /\ Between(L, Z, Y, O, p, q, f)
  /\ Kept(L, Z, Y, b, p, q, f)
  /\ EndsBefore(L, Y, q, f)

\* The second can be made after it.
LEMMA SecondJoin ==
  ASSUME NEW L \in Seq(Addr), NEW n \in Nat, n = Len(L), NEW Z, NEW O, Sorted(L, Z),
         \A a \in Range(L) : Z[a] \in Nat, NEW p \in Nat, NEW i \in Nat, p < i, i <= n + 1,
         NEW f, NEW j, NEW V, NEW X, SizedOnce(X, Z, f, j, V), Between(L, Z, X, O, p, i, f),
         NEW b, Kept(L, Z, X, b, p, i, f)
  PROVE  \E q, g, U, Y : JoinedTwice(L, Z, O, b, i, f, p, j, V, q, g, U, Y)
  <1>0. f \in Addr
    BY DEF Between
  <1>1. X[f] = j
    BY <1>0 DEF Sized, SizedOnce
  <1>2. CASE i <= n /\ f + j = L[i]
    <2>1. PICK q, g, U : q = i + 1 /\ g = j + Z[L[i]] /\ U = {L[i]}
      OBVIOUS
    <2>2. PICK Y : Y = Sized(Z, f, g, V, U)
      OBVIOUS
    <2>3. PICK c : c = L[i]
      OBVIOUS
    <2>4. i \in i..Len(L) /\ i <= n
      BY <1>2
    <2>5. X[c] = Z[c]
      BY <2>3, <2>4 DEF Between
    <2>6. Y[f] = g
      BY <1>0, <2>2 DEF Sized, SizedOnce
    <2>7. Y[f] = X[f] + X[c]
      BY <1>1, <2>1, <2>3, <2>5, <2>6, Zenon
    <2>8. \A a \in Addr : a # f /\ a # c => Y[a] = X[a]
      BY <2>1, <2>2, <2>3 DEF Sized, SizedOnce
    <2>9. f + X[f] = c
      BY <1>1, <1>2, <2>3
    <2>10. /\ Between(L, Z, Y, O, p, i + 1, f)
           /\ Kept(L, Z, Y, b, p, i + 1, f)
           /\ EndsBefore(L, Y, i + 1, f)
      <3>1. i <= n
        BY <1>2
      <3>2. TakesUp(X, Y, f, c)
        BY <2>7, <2>8, <2>9, Zenon DEF TakesUp
      <3> QED
        BY <2>3, <3>1, <3>2, JoinedBehind
    <2>11. q \in Nat /\ p < q /\ q <= n + 1
      BY <1>2, <2>1
    <2>12. JoinBehind(L, Z, i, f, j, q, g, U)
      BY <1>2, <2>1 DEF JoinBehind
    <2>13. /\ Between(L, Z, Y, O, p, q, f)
           /\ Kept(L, Z, Y, b, p, q, f)
           /\ EndsBefore(L, Y, q, f)
      BY <2>1, <2>10
    <2>14. JoinedTwice(L, Z, O, b, i, f, p, j, V, q, g, U, Y)
      BY <2>2, <2>6, <2>11, <2>12, <2>13 DEF JoinedTwice
    <2> QED
      BY <2>14
  <1>3. CASE ~(i <= n /\ f + j = L[i])
    <2>1. PICK q, g, U : q = i /\ g = j /\ U = {}
      OBVIOUS
    <2>2. PICK Y : Y = Sized(Z, f, g, V, U)
      OBVIOUS
    <2>3. Y[f] = g /\ \A a \in Addr : Y[a] = X[a]
      BY <1>0, <2>1, <2>2 DEF Sized, SizedOnce
    <2>4. i <= n => f + X[f] # L[i]
      BY <1>1, <1>3
    <2>5. /\ Between(L, Z, Y, O, p, i, f)
          /\ Kept(L, Z, Y, b, p, i, f)
          /\ EndsBefore(L, Y, i, f)
      BY <2>3, <2>4, NotJoinedBehind
    <2>6. q \in Nat /\ p < q /\ q <= n + 1
      BY <2>1
    <2>7. JoinBehind(L, Z, i, f, j, q, g, U)
      BY <1>3, <2>1 DEF JoinBehind
    <2>8. /\ Between(L, Z, Y, O, p, q, f)
          /\ Kept(L, Z, Y, b, p, q, f)
          /\ EndsBefore(L, Y, q, f)
      BY <2>1, <2>5
    <2>9. JoinedTwice(L, Z, O, b, i, f, p, j, V, q, g, U, Y)
      BY <2>2, <2>3, <2>6, <2>7, <2>8 DEF JoinedTwice
    <2> QED
      BY <2>9
  <1> QED
    BY <1>2, <1>3

\* What is needed of the heap's data h to put b on the list, where O are the
\* blocks that stay as they are.
Loose(h, O, b) ==
  /\ h \in HeapData /\ b \in Addr
  /\ b \notin O /\ b \notin Range(h.freeList) /\ O \cap Range(h.freeList) = {}
  /\ Tiles(O \cup Range(h.freeList) \cup {b}, h.size)
  /\ Sorted(h.freeList, h.size)

\* prvInsertBlockIntoFreeList keeps the blocks disjoint, the list sorted and
\* its blocks apart.
LEMMA Inserted ==
  ASSUME NEW h, NEW O, NEW b, Loose(h, O, b), NEW r, r = prvInsertBlockIntoFreeList(h, b)
  PROVE  Settled(h, r, O, b)
  <1>1. PICK L, Z : L = h.freeList /\ Z = h.size
    OBVIOUS
  <1>2. h \in HeapData /\ b \in Addr
    BY DEF Loose
  <1>3. L \in Seq(Addr) /\ Z \in [Addr -> 0..(AllocatedBit - 1)]
    BY <1>1, <1>2 DEF HeapData
  <1>4. /\ b \notin O /\ b \notin Range(L) /\ O \cap Range(L) = {}
        /\ Tiles(O \cup Range(L) \cup {b}, Z) /\ Sorted(L, Z)
    BY <1>1 DEF Loose
  <1>5. PICK n \in Nat : n = Len(L)
    BY <1>3, Listed
  <1>6. PICK i : i = Place(L, b)
    OBVIOUS
  <1>7. \A a \in Range(L) : Z[a] \in Nat
    BY <1>4, Block
  <1>8. b \in Nat
    BY <1>2, Addresses
  <1>9. /\ i \in Nat /\ 1 <= i /\ i <= n + 1
        /\ \A j \in 1..(i - 1) : L[j] < b
        /\ \A j \in i..n : b < L[j]
    <2>1. /\ i \in 1..(Len(L) + 1)
          /\ \A j \in 1..(i - 1) : L[j] < b
          /\ \A j \in i..Len(L) : b < L[j]
      BY <1>3, <1>4, <1>6, <1>7, <1>8, PlaceFound
    <2> QED
      BY <1>5, <2>1
  <1>10. PICK f, p, j, V : JoinedOnce(L, Z, O, b, i, f, p, j, V)
    BY <1>2, <1>3, <1>4, <1>5, <1>9, FirstJoin
  <1>11. PICK X : X = Sized(Z, f, j, V, {})
    OBVIOUS
  <1>12. /\ JoinBefore(L, Z, b, i, f, p, j, V) /\ p \in Nat /\ p < i /\ f \in Addr
         /\ Between(L, Z, X, O, p, i, f) /\ Kept(L, Z, X, b, p, i, f)
    BY <1>10, <1>11 DEF JoinedOnce
  <1>13. PICK q, g, U, Y : JoinedTwice(L, Z, O, b, i, f, p, j, V, q, g, U, Y)
    <2>1. SizedOnce(X, Z, f, j, V)
      BY <1>11 DEF SizedOnce
    <2> QED
      BY <1>3, <1>4, <1>5, <1>7, <1>9, <1>12, <2>1, SecondJoin
  <1>14. /\ JoinBehind(L, Z, i, f, j, q, g, U) /\ q \in Nat /\ p < q /\ q <= n + 1
         /\ Y = Sized(Z, f, g, V, U) /\ Y[f] = g
         /\ Between(L, Z, Y, O, p, q, f) /\ Kept(L, Z, Y, b, p, q, f)
         /\ EndsBefore(L, Y, q, f)
    BY <1>5, <1>13 DEF JoinedTwice
  <1>15. PICK M : M = Splice(L, p, q, f)
    OBVIOUS
  <1>16. r = Relist(h, M, Y)
    <2>1. InsertsAs(h, b, L, Z, i, f, p, j, V, q, g, U, M, Y)
      BY <1>1, <1>6, <1>12, <1>14, <1>15 DEF InsertsAs
    <2> QED
      BY <2>1, InsertCases
  <1>17. /\ Tiles(O \cup Elems(L, p, q, f), Y) /\ O \cap Elems(L, p, q, f) = {}
         /\ \A o \in O : Y[o] = Z[o]
         /\ \A k \in 1..p : Y[L[k]] = Z[L[k]] /\ L[k] + Z[L[k]] < f
         /\ \A k \in q..n : Y[L[k]] = Z[L[k]] /\ f + Y[f] < L[k]
    BY <1>5, <1>14 DEF Between, EndsBefore
  <1>18. Y[f] \in Nat /\ Y[f] <= EndMarker - First
    <2>1. f \in O \cup Elems(L, p, q, f)
      BY DEF Elems
    <2>2. f \in Nat /\ First <= f /\ Y[f] \in Nat /\ f + Y[f] <= EndMarker
      BY <1>17, <2>1, Block
    <2> QED
      BY <2>2, Bounds
  <1>19. M \in Seq(Addr) /\ Sorted(M, Y) /\ Range(M) = Elems(L, p, q, f)
    <2>1. Holds(M, Y, L, p, q, f)
      BY <1>3, <1>4, <1>5, <1>7, <1>12, <1>14, <1>15, <1>17, <1>18, InOrder
    <2> QED
      BY <2>1 DEF Holds
  <1>20. Y \in [Addr -> 0..(AllocatedBit - 1)]
    <2>1. g \in 0..(AllocatedBit - 1) /\ 0 \in 0..(AllocatedBit - 1)
      BY <1>14, <1>18, Bounds
    <2> QED
      BY <1>3, <1>14, <2>1 DEF Sized
  <1>21. /\ r \in HeapData /\ r.freeList = M /\ r.size = Y /\ r.pxEnd = h.pxEnd
         /\ r.owned = h.owned /\ r.remaining = h.remaining /\ r.minimum = h.minimum
    BY <1>2, <1>16, <1>19, <1>20, Relisted
  <1>22. Bytes(Range(M), Y) = Bytes(Range(L) \cup {b}, Z)
    BY <1>14, <1>19 DEF Kept
  <1>23. /\ Sorted(M, Y) /\ Tiles(O \cup Range(M), Y) /\ O \cap Range(M) = {}
         /\ \A o \in O : Y[o] = Z[o]
    BY <1>17, <1>19
  <1> QED
    BY <1>1, <1>21, <1>22, <1>23, Zenon DEF Settled

(***************************************************************************)
(* The invariant.                                                          *)
(***************************************************************************)

\* The blocks tile the heap, those on the list are free and the others owned,
\* and the bytes on the list are counted.
Whole(h) ==
  /\ h \in HeapData
  /\ Tiles(h.owned \cup Range(h.freeList), h.size)
  /\ Sorted(h.freeList, h.size)
  /\ h.owned \cap Range(h.freeList) = {}
  /\ h.remaining = Cardinality(Bytes(Range(h.freeList), h.size))
  /\ h.minimum <= h.remaining

\* The heap before the first call.
Untouched(h) ==
  h = [pxEnd |-> NULL, freeList |-> <<>>, size |-> [a \in Addr |-> 0],
       owned |-> {}, remaining |-> 0, minimum |-> 0]

\* A block is as long as what was asked for and its header, and not longer than
\* the rounding and a remainder that is not split off make it.
Snug(h, asked) ==
  \A b \in h.owned :
    /\ asked[b] \in Nat \ {0}
    /\ asked[b] + StructSize <= h.size[b]
    /\ h.size[b] < asked[b] + StructSize + Align + MinimumBlockSize

HeapInv ==
  /\ IF heap.pxEnd = NULL THEN Untouched(heap) ELSE Whole(heap)
  /\ Snug(heap, requested)
  /\ requested \in [Addr -> Lengths \cup {0}]
  /\ call \in Calls \cup {NoCall}
  /\ result \in {NULL} \cup {a + StructSize : a \in Addr}

\* prvHeapInit leaves one free block.
LEMMA Prepared ==
  ASSUME NEW h, Untouched(h), NEW r, r = prvHeapInit(h)
  PROVE  Whole(r) /\ r.owned = {} /\ r.pxEnd # NULL
  <1>1. PICK w, E : w = EndMarker - First /\ E = [a \in Addr |-> 0]
    OBVIOUS
  <1>2. /\ w \in Nat \ {0} /\ w % Align = 0 /\ First + w = EndMarker
        /\ w \in 0..(AllocatedBit - 1) /\ w \in 0..(Word - 1) /\ 0 \in 0..(AllocatedBit - 1)
        /\ 0 \in 0..(Word - 1) /\ First \in Nat /\ EndMarker \in Nat \ {0}
    <2>1. /\ First \in Nat /\ First % Align = 0 /\ EndMarker \in Nat /\ EndMarker % Align = 0
          /\ First < EndMarker /\ EndMarker - First < AllocatedBit /\ Align \in Nat \ {0}
          /\ AllocatedBit \in Nat /\ 2 * AllocatedBit <= Word /\ Word \in Nat
      BY Bounds
    <2>2. (EndMarker - First) % Align = 0
      <3>1. /\ First \in Int /\ EndMarker \in Int /\ Align \in Nat \ {0}
            /\ First % Align = 0 /\ EndMarker % Align = 0
        BY <2>1
      <3> QED
        BY <3>1, Multiples
    <2> QED
      BY <1>1, <2>1, <2>2
  <1>3. E \in [Addr -> 0..(AllocatedBit - 1)]
    BY <1>1, <1>2
  <1>4. PICK Y : Y = [E EXCEPT ![First] = w]
    OBVIOUS
  <1>5. Y \in [Addr -> 0..(AllocatedBit - 1)] /\ Y[First] = w /\ First \in Addr
    BY <1>2, <1>3, <1>4, Addresses
  <1>6. r = [pxEnd |-> EndMarker, freeList |-> <<First>>, size |-> Y,
             owned |-> {}, remaining |-> w, minimum |-> w]
    BY <1>1, <1>4 DEF prvHeapInit, Untouched
  <1>7. <<First>> \in Seq(Addr) /\ Range(<<First>>) = {First} /\ Sorted(<<First>>, Y)
    <2>1. /\ <<First>> \in Seq(Addr) /\ DOMAIN <<First>> = 1..1 /\ <<First>>[1] = First
          /\ \A i, j \in 1..1 : ~(i < j)
      BY <1>5
    <2> QED
      BY <2>1 DEF Range, Sorted
  <1>8. Tiles({First}, Y)
    <2>1. \A x \in First..(EndMarker - 1) : First <= x /\ x < First + w
      BY <1>2
    <2>2. \A b, c \in {First} : ~(b < c)
      BY <1>2
    <2> QED
      BY <1>2, <1>5, <2>1, <2>2 DEF Tiles
  <1>9. Cardinality(Bytes({First}, Y)) = w
    BY <1>5, <1>8, BlockBytes
  <1>10. r \in HeapData
    BY <1>2, <1>5, <1>6, <1>7 DEF HeapData
  <1>11. /\ r.owned = {} /\ r.pxEnd = EndMarker /\ r.size = Y /\ Range(r.freeList) = {First}
         /\ Sorted(r.freeList, r.size) /\ r.remaining = w /\ r.minimum = w
    BY <1>6, <1>7
  <1>12. r.owned \cup Range(r.freeList) = {First} /\ r.owned \cap Range(r.freeList) = {}
    BY <1>11
  <1>13. Whole(r)
    BY <1>2, <1>8, <1>9, <1>10, <1>11, <1>12 DEF Whole
  <1> QED
    BY <1>2, <1>11, <1>13 DEF NULL

\* What Split leaves when it takes b off the list for w bytes.
CutOff(h, s, b, w) ==
  /\ s \in HeapData /\ s.pxEnd = h.pxEnd /\ s.owned = h.owned
  /\ s.remaining = h.remaining /\ s.minimum = h.minimum
  /\ b \in Addr /\ b \notin h.owned
  /\ Tiles(h.owned \cup {b} \cup Range(s.freeList), s.size)
  /\ Sorted(s.freeList, s.size)
  /\ (h.owned \cup {b}) \cap Range(s.freeList) = {}
  /\ Bytes(Range(h.freeList), h.size) = Bytes(Range(s.freeList) \cup {b}, s.size)
  /\ \A o \in h.owned : s.size[o] = h.size[o]
  /\ w <= s.size[b] /\ s.size[b] <= w + MinimumBlockSize
  /\ s.size[b] <= h.size[b]

Unlist(h, i) == [h EXCEPT !.freeList = RemoveAt(@, i)]

\* A block is taken off the list as it is.
LEMMA TakenWhole ==
  ASSUME NEW h, Whole(h), NEW i \in 1..Len(h.freeList), NEW b, b = h.freeList[i],
         NEW w \in Nat, w <= h.size[b], h.size[b] - w <= MinimumBlockSize,
         NEW s, s = Unlist(h, i)
  PROVE  CutOff(h, s, b, w)
  <1>1. PICK L, Z, M, O : L = h.freeList /\ Z = h.size /\ M = RemoveAt(L, i) /\ O = h.owned
    OBVIOUS
  <1>2. h \in HeapData /\ Tiles(O \cup Range(L), Z) /\ Sorted(L, Z) /\ O \cap Range(L) = {}
    BY <1>1 DEF Whole
  <1>3. L \in Seq(Addr)
    BY <1>1, <1>2 DEF HeapData
  <1>4. \A a \in Range(L) : Z[a] \in Nat
    BY <1>2, Block
  <1>5. M \in Seq(Addr) /\ Sorted(M, Z) /\ Range(M) = Range(L) \ {b}
    BY <1>1, <1>2, <1>3, <1>4, TakenOff
  <1>6. s = Relist(h, M, Z)
    BY <1>1, <1>2 DEF Relist, Unlist, HeapData
  <1>7. Z \in [Addr -> 0..(AllocatedBit - 1)]
    BY <1>1, <1>2 DEF HeapData
  <1>8. /\ s \in HeapData /\ s.freeList = M /\ s.size = Z /\ s.pxEnd = h.pxEnd
        /\ s.owned = h.owned /\ s.remaining = h.remaining /\ s.minimum = h.minimum
    BY <1>2, <1>5, <1>6, <1>7, Relisted
  <1>9. b \in Range(L) /\ b \in Addr
    BY <1>1, <1>3, Listed
  <1>10. /\ b \notin O /\ O \cup {b} \cup Range(M) = O \cup Range(L)
         /\ (O \cup {b}) \cap Range(M) = {} /\ Range(M) \cup {b} = Range(L)
    BY <1>2, <1>5, <1>9
  <1>11. w <= Z[b] /\ Z[b] <= w + MinimumBlockSize /\ Z[b] <= Z[b]
    <2>1. /\ w <= Z[b] /\ Z[b] - w <= MinimumBlockSize /\ Z[b] \in Nat
          /\ MinimumBlockSize \in Nat
      BY <1>1, <1>4, <1>9, Bounds
    <2> QED
      BY <2>1
  <1>12. /\ Tiles(O \cup {b} \cup Range(M), Z)
         /\ Bytes(Range(L), Z) = Bytes(Range(M) \cup {b}, Z)
    BY <1>2, <1>10
  <1> QED
    BY <1>1, <1>5, <1>8, <1>9, <1>10, <1>11, <1>12 DEF CutOff

\* The two parts of a block hold its bytes.
LEMMA HalvedBytes ==
  ASSUME NEW B, NEW Z, NEW Y, Tiles(B, Z), NEW b \in B, NEW w \in Nat \ {0}, w < Z[b],
         NEW c, c = b + w, \A d \in B : d # b => Y[d] = Z[d], Y[b] = w, Y[c] = Z[b] - w,
         NEW S \in SUBSET B, b \in S
  PROVE  Bytes(S, Z) = Bytes(S \cup {c}, Y)
  <1>1. b \in Nat /\ Z[b] \in Nat
    BY Block
  <1>2. ASSUME NEW x \in Bytes(S, Z) PROVE x \in Bytes(S \cup {c}, Y)
    <2>1. x \in First..(EndMarker - 1) /\ x \in Int
      BY Bounds DEF Bytes
    <2>2. PICK d \in S : d <= x /\ x < d + Z[d]
      BY DEF Bytes
    <2>3. \E e \in S \cup {c} : e <= x /\ x < e + Y[e]
      <3>1. CASE d # b
        BY <2>2, <3>1
      <3>2. CASE d = b /\ x < c
        BY <2>2, <3>2
      <3>3. CASE d = b /\ c <= x
        <4>1. c <= x /\ x < c + Y[c]
          BY <1>1, <2>1, <2>2, <3>3
        <4> QED
          BY <4>1
      <3> QED
        BY <1>1, <2>1, <3>1, <3>2, <3>3
    <2> QED
      BY <2>1, <2>3 DEF Bytes
  <1>3. ASSUME NEW x \in Bytes(S \cup {c}, Y) PROVE x \in Bytes(S, Z)
    <2>1. x \in First..(EndMarker - 1) /\ x \in Int
      BY Bounds DEF Bytes
    <2>2. PICK d \in S \cup {c} : d <= x /\ x < d + Y[d]
      BY DEF Bytes
    <2>3. \E e \in S : e <= x /\ x < e + Z[e]
      <3>1. CASE d # b /\ d # c
        BY <2>2, <3>1
      <3>2. CASE d = b
        <4>1. b <= x /\ x < b + Z[b]
          BY <1>1, <2>1, <2>2, <3>2
        <4> QED
          BY <4>1
      <3>3. CASE d = c
        <4>1. b <= x /\ x < b + Z[b]
          BY <1>1, <2>1, <2>2, <3>3
        <4> QED
          BY <4>1
      <3> QED
        BY <3>1, <3>2, <3>3
    <2> QED
      BY <2>1, <2>3 DEF Bytes
  <1> QED
    BY <1>2, <1>3

\* The heap's data when the block b has been cut at w.
Carved(h, i, b, w) ==
  [Unlist(h, i) EXCEPT !.size[b] = w, !.size[b + w] = h.size[b] - w]

IsCarved(k, h, M, b, w, c) ==
  /\ k \in HeapData /\ k.freeList = M /\ k.pxEnd = h.pxEnd
  /\ k.owned = h.owned /\ k.remaining = h.remaining /\ k.minimum = h.minimum
  /\ k.size[b] = w /\ k.size[c] = h.size[b] - w
  /\ \A d \in Addr : d # b /\ d # c => k.size[d] = h.size[d]

\* Carved leaves the rest of the data alone.
LEMMA CarvedData ==
  ASSUME NEW h \in HeapData, NEW i, NEW b \in Addr, NEW w \in 0..(AllocatedBit - 1),
         NEW c \in Addr, c = b + w, c # b, NEW M \in Seq(Addr), M = RemoveAt(h.freeList, i),
         h.size[b] - w \in 0..(AllocatedBit - 1)
  PROVE  IsCarved(Carved(h, i, b, w), h, M, b, w, c)
  <1>1. PICK u : u = Unlist(h, i)
    OBVIOUS
  <1>2. /\ u \in HeapData /\ u.freeList = M /\ u.pxEnd = h.pxEnd /\ u.size = h.size
        /\ u.owned = h.owned /\ u.remaining = h.remaining /\ u.minimum = h.minimum
    BY <1>1 DEF Unlist, HeapData
  <1>3. PICK x : x = h.size[b] - w
    OBVIOUS
  <1>4. PICK v : v = [u EXCEPT !.size[b] = w]
    OBVIOUS
  <1>5. /\ v \in HeapData /\ v.freeList = M /\ v.pxEnd = h.pxEnd
        /\ v.owned = h.owned /\ v.remaining = h.remaining /\ v.minimum = h.minimum
        /\ v.size[b] = w /\ \A d \in Addr : d # b => v.size[d] = h.size[d]
    BY <1>2, <1>4 DEF HeapData
  <1>6. PICK k : k = [v EXCEPT !.size[c] = x]
    OBVIOUS
  <1>7. /\ k \in HeapData /\ k.freeList = M /\ k.pxEnd = h.pxEnd
        /\ k.owned = h.owned /\ k.remaining = h.remaining /\ k.minimum = h.minimum
        /\ k.size[c] = x /\ \A d \in Addr : d # c => k.size[d] = v.size[d]
    BY <1>3, <1>5, <1>6 DEF HeapData
  <1>8. Carved(h, i, b, w) = k
    BY <1>1, <1>3, <1>4, <1>6 DEF Carved
  <1>9. IsCarved(k, h, M, b, w, c)
    BY <1>3, <1>5, <1>7 DEF IsCarved
  <1> QED
    BY <1>8, <1>9

\* A block is split, and the rest of it put on the list.
LEMMA SplitOff ==
  ASSUME NEW h, Whole(h), NEW i \in 1..Len(h.freeList), NEW b, b = h.freeList[i],
         NEW w \in Nat \ {0}, w % Align = 0, h.size[b] - w > MinimumBlockSize,
         NEW s, s = prvInsertBlockIntoFreeList(Carved(h, i, b, w), b + w)
  PROVE  CutOff(h, s, b, w)
  <1>1. PICK L, Z, M, O : L = h.freeList /\ Z = h.size /\ M = RemoveAt(L, i) /\ O = h.owned
    OBVIOUS
  <1>2. h \in HeapData /\ Tiles(O \cup Range(L), Z) /\ Sorted(L, Z) /\ O \cap Range(L) = {}
    BY <1>1 DEF Whole
  <1>3. L \in Seq(Addr) /\ Z \in [Addr -> 0..(AllocatedBit - 1)]
    BY <1>1, <1>2 DEF HeapData
  <1>4. \A a \in Range(L) : Z[a] \in Nat
    BY <1>2, Block
  <1>5. M \in Seq(Addr) /\ Sorted(M, Z) /\ Range(M) = Range(L) \ {b}
    BY <1>1, <1>2, <1>3, <1>4, TakenOff
  <1>6. b \in Range(L) /\ b \in Addr
    BY <1>1, <1>3, Listed
  <1>7. PICK B, c : B = O \cup Range(L) /\ c = b + w
    OBVIOUS
  <1>8. /\ b \in Nat /\ Z[b] \in 0..(AllocatedBit - 1) /\ MinimumBlockSize \in Nat
        /\ AllocatedBit \in Nat /\ Z[b] - w > MinimumBlockSize
    BY <1>1, <1>3, <1>6, Addresses, Bounds
  <1>9. /\ w < Z[b] /\ w \in 0..(AllocatedBit - 1) /\ Z[b] - w \in 0..(AllocatedBit - 1)
        /\ c # b /\ c \in Nat
    <2>1. PICK z : z = Z[b]
      OBVIOUS
    <2>2. /\ b \in Nat /\ z \in Nat /\ z < AllocatedBit /\ MinimumBlockSize \in Nat
          /\ AllocatedBit \in Nat /\ z - w > MinimumBlockSize /\ w \in Nat /\ w > 0
      BY <1>8, <2>1
    <2>3. w < z /\ w \in 0..(AllocatedBit - 1) /\ z - w \in 0..(AllocatedBit - 1)
      BY <2>2
    <2>4. b + w # b /\ b + w \in Nat
      BY <2>2
    <2> QED
      BY <1>7, <2>1, <2>3, <2>4
  <1>10. c \in Addr /\ c \notin B
    <2>2. B \subseteq Addr /\ b \in B /\ Tiles(B, Z)
      BY <1>2, <1>6, <1>7 DEF Tiles
    <2>5. c \notin B
      <3>1. /\ b + Z[b] <= EndMarker /\ EndMarker \in Nat
            /\ \A d \in B : d \in Nat /\ (b < d => b + Z[b] <= d)
        BY <2>2, Block, Bounds
      <3>2. b \in Nat /\ Z[b] \in Nat /\ w \in Nat /\ 0 < w /\ w < Z[b]
        BY <1>8, <1>9
      <3> QED
        BY <1>7, <3>1, <3>2
    <2>6. c % Align = 0
      <3>1. b \in Int /\ w \in Int /\ Align \in Nat \ {0} /\ b % Align = 0 /\ w % Align = 0
        BY <1>8, <2>2, Block, Bounds
      <3> QED
        BY <1>7, <3>1, Multiples
    <2>7. First <= c /\ c < EndMarker
      <3>1. First <= b /\ b + Z[b] <= EndMarker /\ First \in Nat /\ EndMarker \in Nat
        BY <2>2, Block, Bounds
      <3>2. b \in Nat /\ Z[b] \in Nat /\ w \in Nat /\ w < Z[b]
        BY <1>8, <1>9
      <3> QED
        BY <1>7, <3>1, <3>2
    <2> QED
      BY <1>9, <2>5, <2>6, <2>7, Addresses
  <1>11. PICK k, Y : k = Carved(h, i, b, w) /\ Y = k.size
    OBVIOUS
  <1>12. IsCarved(k, h, M, b, w, c)
    BY <1>1, <1>2, <1>5, <1>6, <1>7, <1>9, <1>10, <1>11, CarvedData
  <1>13. /\ Y[b] = w /\ Y[c] = Z[b] - w
         /\ \A d \in Addr : d # b /\ d # c => Y[d] = Z[d]
    BY <1>1, <1>11, <1>12 DEF IsCarved
  <1>14. /\ B \subseteq Addr /\ b \in B /\ Tiles(B, Z)
         /\ \A d \in B : d # b => Y[d] = Z[d]
    BY <1>2, <1>6, <1>7, <1>10, <1>13 DEF Tiles
  <1>15. Tiles(B \cup {c}, Y)
    <2>1. Y[b + w] = Z[b] - w
      BY <1>7, <1>13
    <2>2. Tiles(B \cup {b + w}, Y)
      BY <1>9, <1>13, <1>14, <2>1, Halved
    <2> QED
      BY <1>7, <2>2
  <1>16. Bytes(Range(L), Z) = Bytes(Range(L) \cup {c}, Y)
    BY <1>6, <1>7, <1>9, <1>13, <1>14, HalvedBytes
  <1>17. Sorted(M, Y)
    <2>1. \A a \in Range(M) : Y[a] = Z[a]
      BY <1>5, <1>7, <1>14
    <2>2. \A j \in DOMAIN M : M[j] \in Range(M)
      BY DEF Range
    <2> QED
      BY <1>5, <2>1, <2>2 DEF Sorted
  <1>18. PICK T : T = O \cup {b}
    OBVIOUS
  <1>19. /\ c \notin T /\ c \notin Range(M) /\ T \cap Range(M) = {} /\ b \notin O
         /\ T \cup Range(M) \cup {c} = B \cup {c} /\ Range(L) \cup {c} = Range(M) \cup {c} \cup {b}
    BY <1>2, <1>5, <1>6, <1>7, <1>9, <1>10, <1>18
  <1>20. Loose(k, T, c)
    BY <1>10, <1>11, <1>12, <1>15, <1>17, <1>19 DEF Loose, IsCarved
  <1>21. Settled(k, s, T, c)
    BY <1>7, <1>11, <1>20, Inserted
  <1>22. /\ s \in HeapData /\ s.pxEnd = h.pxEnd /\ s.owned = O
         /\ s.remaining = h.remaining /\ s.minimum = h.minimum
         /\ Sorted(s.freeList, s.size) /\ Tiles(T \cup Range(s.freeList), s.size)
         /\ T \cap Range(s.freeList) = {}
         /\ Bytes(Range(s.freeList), s.size) = Bytes(Range(M) \cup {c}, Y)
         /\ \A o \in T : s.size[o] = Y[o]
    BY <1>1, <1>11, <1>12, <1>21 DEF Settled, IsCarved
  <1>23. s.size[b] = w /\ \A o \in O : s.size[o] = Z[o]
    BY <1>7, <1>13, <1>14, <1>18, <1>19, <1>22
  <1>24. Bytes(Range(M) \cup {c} \cup {b}, Y) = Bytes(Range(s.freeList) \cup {b}, s.size)
    <2>1. \A S, X : Bytes(S \cup {b}, X) = Bytes(S, X) \cup Bytes({b}, X)
      BY DEF Bytes
    <2>2. Bytes({b}, Y) = Bytes({b}, s.size)
      BY <1>13, <1>23 DEF Bytes
    <2>3. Bytes(Range(s.freeList), s.size) = Bytes(Range(M) \cup {c}, Y)
      BY <1>22
    <2>4. Bytes(Range(M) \cup {c} \cup {b}, Y) = Bytes(Range(M) \cup {c}, Y) \cup Bytes({b}, Y)
      BY <2>1, Zenon
    <2>5. Bytes(Range(s.freeList) \cup {b}, s.size)
            = Bytes(Range(s.freeList), s.size) \cup Bytes({b}, s.size)
      BY DEF Bytes
    <2> QED
      BY <2>2, <2>3, <2>4, <2>5, Zenon
  <1>25. Bytes(Range(L), Z) = Bytes(Range(s.freeList) \cup {b}, s.size)
    BY <1>16, <1>19, <1>24
  <1>26. w <= w /\ w <= w + MinimumBlockSize /\ w <= Z[b]
    BY <1>8, <1>9
  <1> QED
    BY <1>1, <1>6, <1>18, <1>19, <1>22, <1>23, <1>25, <1>26 DEF CutOff

\* Split takes the block b off the list for w bytes.
LEMMA SplitCuts ==
  ASSUME NEW h, Whole(h), NEW i \in 1..Len(h.freeList), NEW b, b = h.freeList[i],
         NEW w \in Nat \ {0}, w % Align = 0, w <= h.size[b], NEW s, s = Split(h, i, w)
  PROVE  CutOff(h, s, b, w)
  <1>1. h.size[b] \in Nat /\ MinimumBlockSize \in Nat
    <2>1. h \in HeapData /\ Tiles(h.owned \cup Range(h.freeList), h.size)
      BY DEF Whole
    <2>2. b \in Range(h.freeList)
      BY <2>1, Listed DEF HeapData
    <2> QED
      BY <2>1, <2>2, Block, Bounds
  <1>2. CASE h.size[b] - w > MinimumBlockSize
    <2>1. s = prvInsertBlockIntoFreeList(Carved(h, i, b, w), b + w)
      BY <1>2 DEF Split, Carved, Unlist
    <2> QED
      BY <1>2, <2>1, SplitOff
  <1>3. CASE ~(h.size[b] - w > MinimumBlockSize)
    <2>1. s = Unlist(h, i)
      BY <1>3 DEF Split, Unlist
    <2>2. h.size[b] - w <= MinimumBlockSize
      BY <1>1, <1>3
    <2> QED
      BY <2>1, <2>2, TakenWhole
  <1> QED
    BY <1>2, <1>3

\* The heap's data when b is handed out, and when it is taken back.
HandedOut(s, b, left, least) ==
  [s EXCEPT !.remaining = left, !.minimum = least, !.owned = @ \cup {b}]

\* What HandedOut changes.
LEMMA HandedOutData ==
  ASSUME NEW s \in HeapData, NEW b \in Addr, NEW left \in 0..(Word - 1),
         NEW least \in 0..(Word - 1), NEW r, r = HandedOut(s, b, left, least)
  PROVE  /\ r \in HeapData /\ r.freeList = s.freeList /\ r.size = s.size /\ r.pxEnd = s.pxEnd
         /\ r.owned = s.owned \cup {b} /\ r.remaining = left /\ r.minimum = least
  BY DEF HandedOut, HeapData

TakenBack(h, b) == [h EXCEPT !.owned = @ \ {b}, !.remaining = @ + h.size[b]]

\* What TakenBack changes.
LEMMA TakenBackData ==
  ASSUME NEW h \in HeapData, NEW b \in Addr, h.remaining + h.size[b] \in 0..(Word - 1),
         NEW r, r = TakenBack(h, b)
  PROVE  /\ r \in HeapData /\ r.freeList = h.freeList /\ r.size = h.size /\ r.pxEnd = h.pxEnd
         /\ r.owned = h.owned \ {b} /\ r.remaining = h.remaining + h.size[b]
         /\ r.minimum = h.minimum
  BY DEF TakenBack, HeapData

\* What pvPortMalloc leaves when it hands out the block b for w bytes.
Handed(h, r, b, w) ==
  /\ Whole(r) /\ r.pxEnd = h.pxEnd
  /\ b \in Addr /\ b \notin h.owned /\ r.owned = h.owned \cup {b}
  /\ \A o \in h.owned : r.size[o] = h.size[o]
  /\ w <= r.size[b] /\ r.size[b] <= w + MinimumBlockSize

\* A block that has been cut off can be handed out.
LEMMA HandedWhole ==
  ASSUME NEW h, Whole(h), NEW s, NEW b, NEW w \in Nat, CutOff(h, s, b, w),
         NEW left, left = s.remaining - s.size[b],
         NEW least, least = IF left < s.minimum THEN left ELSE s.minimum,
         NEW r, r = HandedOut(s, b, left, least)
  PROVE  Handed(h, r, b, w)
  <1>1. PICK M, Y, O : M = s.freeList /\ Y = s.size /\ O = h.owned
    OBVIOUS
  <1>2. /\ s \in HeapData /\ s.pxEnd = h.pxEnd /\ s.owned = O
        /\ s.remaining = h.remaining /\ s.minimum = h.minimum
        /\ b \in Addr /\ b \notin O
        /\ Tiles(O \cup {b} \cup Range(M), Y) /\ Sorted(M, Y) /\ (O \cup {b}) \cap Range(M) = {}
        /\ \A o \in O : Y[o] = h.size[o]
        /\ w <= Y[b] /\ Y[b] <= w + MinimumBlockSize
    BY <1>1 DEF CutOff
  <1>3. h.remaining = Cardinality(Bytes(Range(M) \cup {b}, Y))
    BY <1>1 DEF CutOff, Whole
  <1>4. Cardinality(Bytes(Range(M) \cup {b}, Y)) = Cardinality(Bytes(Range(M), Y)) + Y[b]
    <2>1. PICK B : B = O \cup {b} \cup Range(M)
      OBVIOUS
    <2>2. Tiles(B, Y) /\ Range(M) \in SUBSET B /\ b \in B /\ b \notin Range(M)
      BY <1>2, <2>1
    <2> QED
      BY <2>2, BytesAdded
  <1>5. PICK m : m = Cardinality(Bytes(Range(M), Y))
    OBVIOUS
  <1>6. m \in Nat /\ m <= EndMarker - First
    BY <1>5, BytesCounted
  <1>7. Y[b] \in Nat
    <2>1. b \in O \cup {b} \cup Range(M)
      OBVIOUS
    <2> QED
      BY <1>2, <2>1, Block
  <1>8. left = m
    BY <1>1, <1>2, <1>3, <1>4, <1>5, <1>6, <1>7
  <1>9. s.minimum \in 0..(Word - 1) /\ m \in 0..(Word - 1)
    <2>1. s.minimum \in 0..(Word - 1)
      BY <1>2 DEF HeapData
    <2>2. /\ First \in Nat /\ EndMarker \in Nat /\ AllocatedBit \in Nat /\ EndMarker - First < AllocatedBit
          /\ 2 * AllocatedBit <= Word /\ Word \in Nat
      BY Bounds
    <2> QED
      BY <1>6, <2>1, <2>2
  <1>10. least \in 0..(Word - 1) /\ least <= left /\ left \in 0..(Word - 1)
    BY <1>8, <1>9
  <1>11. /\ r \in HeapData /\ r.freeList = M /\ r.size = Y /\ r.pxEnd = h.pxEnd
         /\ r.owned = O \cup {b} /\ r.remaining = m /\ r.minimum = least
    BY <1>1, <1>2, <1>8, <1>10, HandedOutData
  <1>12. Whole(r)
    BY <1>2, <1>5, <1>8, <1>10, <1>11 DEF Whole
  <1> QED
    BY <1>1, <1>2, <1>11, <1>12 DEF Handed

\* A size_t holds what is smaller than the number of its values.
LEMMA NoWrap ==
  ASSUME NEW x \in Nat, x < Word
  PROVE  x % Word = x
  <1>1. Word \in Nat \ {0} /\ x \in 0..(Word - 1) /\ x = 0 * Word + x
    BY Bounds
  <1> QED
    BY <1>1, DivModUnique

\* The length of the block for n bytes.
LEMMA LengthOfBlock ==
  ASSUME NEW n \in Nat, n < AllocatedBit
  PROVE  /\ n = 0 => BlockLength(n) = 0
         /\ n > 0 => /\ BlockLength(n) \in Nat \ {0} /\ BlockLength(n) % Align = 0
                     /\ n + StructSize <= BlockLength(n)
                     /\ BlockLength(n) < n + StructSize + Align
  <1>1. /\ First \in Nat /\ EndMarker \in Nat /\ First + MinimumBlockSize < EndMarker
        /\ EndMarker - First < AllocatedBit /\ AllocatedBit \in Nat /\ 2 * AllocatedBit <= Word
        /\ Word \in Nat /\ Align \in Nat \ {0} /\ StructSize \in Nat \ {0}
        /\ MinimumBlockSize = 2 * StructSize
    BY Bounds DEF MinimumBlockSize
  <1>2. Align <= StructSize
    <2>1. 0 \in Int /\ StructSize \in Int /\ 0 % Align = 0 /\ StructSize % Align = 0 /\ 0 < StructSize
      BY <1>1, Bounds, SmallMultiples
    <2>2. 0 + Align <= StructSize
      BY <1>1, <2>1, Multiples
    <2> QED
      BY <1>1, <2>2
  <1>3. CASE n = 0
    <2>1. WithHeader(n) = 0
      BY <1>3 DEF WithHeader
    <2>2. 0 % Align = 0 /\ 0 % Word = 0
      BY <1>1, SmallMultiples, NoWrap
    <2>3. RoundUp(0) = 0
      BY <2>2 DEF RoundUp
    <2> QED
      BY <1>3, <2>1, <2>2, <2>3 DEF BlockLength
  <1>4. CASE n > 0
    <2>1. PICK w : w = n + StructSize
      OBVIOUS
    <2>2. w \in Nat /\ w < Word /\ w > n /\ w + Align < Word /\ w > 0
      BY <1>1, <1>2, <1>4, <2>1
    <2>3. WithHeader(n) = w
      BY <1>4, <2>1, <2>2, NoWrap DEF WithHeader
    <2>4. PICK v : v = RoundUp(w)
      OBVIOUS
    <2>5. v \in Nat /\ v % Align = 0 /\ w <= v /\ v < w + Align
      BY <2>2, <2>4, RoundedUp
    <2>6. v % Word = v
      BY <1>1, <2>2, <2>5, NoWrap
    <2>7. w % Align = 0 \/ v > w
      <3>1. w % Align # 0 => v # w
        BY <2>5
      <3> QED
        BY <2>2, <2>5, <3>1
    <2>8. BlockLength(n) = v
      BY <2>3, <2>4, <2>6, <2>7 DEF BlockLength
    <2> QED
      BY <1>4, <2>1, <2>2, <2>5, <2>8
  <1> QED
    BY <1>3, <1>4

\* The first of the free blocks that are large enough.
LEMMA Found ==
  ASSUME NEW h, Whole(h), NEW n, Succeeds(h, n)
  PROVE  /\ Position(h, n) \in 1..Len(h.freeList)
         /\ Chosen(h, n) = h.freeList[Position(h, n)]
         /\ BlockLength(n) <= h.size[Chosen(h, n)]
  <1>1. PICK T : T = Fitting(h, BlockLength(n))
    OBVIOUS
  <1>2. h.freeList \in Seq(Addr)
    BY DEF Whole, HeapData
  <1>3. DOMAIN h.freeList = 1..Len(h.freeList) /\ Len(h.freeList) \in Nat
    BY <1>2, Listed
  <1>4. T # {} /\ T \in SUBSET Nat
    BY <1>1, <1>3 DEF Succeeds, Fitting
  <1>5. PICK x \in T : \A y \in T : x <= y
    BY <1>4, LeastNat
  <1>6. Min(T) \in T
    BY <1>5 DEF Min
  <1> QED
    BY <1>1, <1>3, <1>6 DEF Position, Chosen, Fitting

\* pvPortMalloc hands out a block that was free.
LEMMA Allocates ==
  ASSUME NEW h, Whole(h), NEW n \in Nat, Succeeds(h, n)
  PROVE  Handed(h, Allocated(h, n), Chosen(h, n), BlockLength(n))
  <1>1. PICK i, b, w : i = Position(h, n) /\ b = Chosen(h, n) /\ w = BlockLength(n)
    OBVIOUS
  <1>2. i \in 1..Len(h.freeList) /\ b = h.freeList[i] /\ w <= h.size[b]
    BY <1>1, Found
  <1>3. w \in Nat \ {0} /\ w % Align = 0
    <2>1. n < AllocatedBit /\ BlockLength(n) > 0
      BY DEF Succeeds
    <2>2. n # 0
      BY <2>1, LengthOfBlock
    <2>3. n > 0
      BY <2>2
    <2> QED
      BY <1>1, <2>1, <2>3, LengthOfBlock
  <1>4. PICK s : s = Split(h, i, w)
    OBVIOUS
  <1>5. CutOff(h, s, b, w)
    BY <1>2, <1>3, <1>4, SplitCuts
  <1>6. PICK left : left = s.remaining - s.size[b]
    OBVIOUS
  <1>7. PICK least : least = IF left < s.minimum THEN left ELSE s.minimum
    OBVIOUS
  <1>8. Allocated(h, n) = HandedOut(s, b, left, least)
    BY <1>1, <1>4, <1>6, <1>7 DEF Allocated, HandedOut
  <1>9. Handed(h, HandedOut(s, b, left, least), b, w)
    BY <1>3, <1>5, <1>6, <1>7, HandedWhole
  <1> QED
    BY <1>1, <1>8, <1>9

\* What vPortFree leaves when it takes back the block b.
TakenIn(h, r, b) ==
  /\ Whole(r) /\ r.pxEnd = h.pxEnd /\ r.owned = h.owned \ {b}
  /\ \A o \in h.owned : o # b => r.size[o] = h.size[o]

\* vPortFree takes back a block that a TA owns.
LEMMA Frees ==
  ASSUME NEW h, Whole(h), NEW b \in h.owned
  PROVE  TakenIn(h, Freed(h, b), b)
  <1>1. PICK L, Z, O : L = h.freeList /\ Z = h.size /\ O = h.owned \ {b}
    OBVIOUS
  <1>2. /\ h \in HeapData /\ Tiles(h.owned \cup Range(L), Z) /\ Sorted(L, Z)
        /\ h.owned \cap Range(L) = {} /\ h.remaining = Cardinality(Bytes(Range(L), Z))
        /\ h.minimum <= h.remaining
    BY <1>1 DEF Whole
  <1>3. /\ b \in Addr /\ b \notin O /\ b \notin Range(L) /\ O \cap Range(L) = {}
        /\ O \cup Range(L) \cup {b} = h.owned \cup Range(L)
    BY <1>1, <1>2 DEF Tiles
  <1>4. Cardinality(Bytes(Range(L) \cup {b}, Z)) = h.remaining + Z[b]
    <2>1. PICK B : B = h.owned \cup Range(L)
      OBVIOUS
    <2>2. Tiles(B, Z) /\ Range(L) \in SUBSET B /\ b \in B /\ b \notin Range(L)
      BY <1>2, <1>3, <2>1
    <2> QED
      BY <1>2, <2>2, BytesAdded
  <1>5. h.remaining + Z[b] \in 0..(Word - 1)
    <2>1. h.remaining + Z[b] \in Nat /\ h.remaining + Z[b] <= EndMarker - First
      BY <1>4, BytesCounted
    <2>2. /\ First \in Nat /\ EndMarker \in Nat /\ AllocatedBit \in Nat /\ EndMarker - First < AllocatedBit
          /\ 2 * AllocatedBit <= Word /\ Word \in Nat
      BY Bounds
    <2> QED
      BY <2>1, <2>2
  <1>6. PICK k : k = TakenBack(h, b)
    OBVIOUS
  <1>7. /\ k \in HeapData /\ k.freeList = L /\ k.size = Z /\ k.pxEnd = h.pxEnd
        /\ k.owned = O /\ k.remaining = h.remaining + Z[b] /\ k.minimum = h.minimum
    BY <1>1, <1>2, <1>3, <1>5, <1>6, TakenBackData
  <1>8. Loose(k, O, b)
    BY <1>2, <1>3, <1>7 DEF Loose
  <1>9. PICK r : r = prvInsertBlockIntoFreeList(k, b)
    OBVIOUS
  <1>10. Settled(k, r, O, b)
    BY <1>8, <1>9, Inserted
  <1>11. /\ r \in HeapData /\ r.pxEnd = h.pxEnd /\ r.owned = O
         /\ r.remaining = h.remaining + Z[b] /\ r.minimum = h.minimum
         /\ Sorted(r.freeList, r.size) /\ Tiles(O \cup Range(r.freeList), r.size)
         /\ O \cap Range(r.freeList) = {}
         /\ Bytes(Range(r.freeList), r.size) = Bytes(Range(L) \cup {b}, Z)
         /\ \A o \in O : r.size[o] = Z[o]
    BY <1>7, <1>10 DEF Settled
  <1>12. r.minimum <= r.remaining
    <2>1. h.minimum \in Nat /\ h.remaining \in Nat /\ Z[b] \in Nat
      <3>1. h.minimum \in 0..(Word - 1) /\ h.remaining \in 0..(Word - 1)
            /\ Z \in [Addr -> 0..(AllocatedBit - 1)]
        BY <1>1, <1>2 DEF HeapData
      <3> QED
        BY <1>3, <3>1
    <2> QED
      BY <1>2, <1>11, <2>1
  <1>13. r.remaining = Cardinality(Bytes(Range(r.freeList), r.size))
    BY <1>4, <1>11
  <1>14. Whole(r)
    BY <1>11, <1>12, <1>13 DEF Whole
  <1>15. Freed(h, b) = r
    BY <1>6, <1>9 DEF Freed, TakenBack
  <1> QED
    BY <1>1, <1>11, <1>14, <1>15 DEF TakenIn

\* The heap that a call of pvPortMalloc works on.
LEMMA ReadyHeap ==
  ASSUME HeapInv
  PROVE  /\ Whole(Ready) /\ Ready.pxEnd # NULL /\ Ready.owned = heap.owned
         /\ Snug(Ready, requested)
  <1>1. CASE heap.pxEnd = NULL
    <2>1. Untouched(heap) /\ Ready = prvHeapInit(heap)
      BY <1>1 DEF HeapInv, Ready
    <2>2. Whole(Ready) /\ Ready.owned = {} /\ Ready.pxEnd # NULL
      BY <2>1, Prepared
    <2>3. heap.owned = {}
      BY <2>1 DEF Untouched
    <2> QED
      BY <2>2, <2>3 DEF Snug
  <1>2. CASE heap.pxEnd # NULL
    BY <1>2 DEF HeapInv, Ready
  <1> QED
    BY <1>1, <1>2

\* The block handed out is snug, and the others stay so.
LEMMA HandedSnug ==
  ASSUME NEW h, NEW r, NEW b, NEW n \in Nat, Handed(h, r, b, BlockLength(n)),
         n < AllocatedBit, BlockLength(n) > 0, Whole(h),
         NEW asked \in [Addr -> Lengths \cup {0}], Snug(h, asked)
  PROVE  n > 0 /\ Snug(r, [asked EXCEPT ![b] = n])
  <1>1. PICK w : w = BlockLength(n)
    OBVIOUS
  <1>2. /\ Whole(r) /\ b \in Addr /\ b \notin h.owned /\ r.owned = h.owned \cup {b}
        /\ \A o \in h.owned : r.size[o] = h.size[o]
        /\ w <= r.size[b] /\ r.size[b] <= w + MinimumBlockSize
    BY <1>1 DEF Handed
  <1>3. n > 0
    <2>1. n # 0
      BY LengthOfBlock
    <2> QED
      BY <2>1
  <1>4. w \in Nat /\ n + StructSize <= w /\ w < n + StructSize + Align
    BY <1>1, <1>3, LengthOfBlock
  <1>5. r.size[b] \in Nat
    <2>1. r.size \in [Addr -> 0..(AllocatedBit - 1)] /\ AllocatedBit \in Nat
      BY <1>2, Bounds DEF Whole, HeapData
    <2> QED
      BY <1>2, <2>1
  <1>6. /\ n + StructSize <= r.size[b]
        /\ r.size[b] < n + StructSize + Align + MinimumBlockSize
    <2>1. StructSize \in Nat /\ Align \in Nat /\ MinimumBlockSize \in Nat
      BY Bounds
    <2> QED
      BY <1>2, <1>4, <1>5, <2>1
  <1>7. h.owned \subseteq Addr
    BY DEF Whole, HeapData
  <1>8. PICK g : g = [asked EXCEPT ![b] = n]
    OBVIOUS
  <1>9. g[b] = n /\ \A o \in h.owned : g[o] = asked[o]
    BY <1>2, <1>7, <1>8
  <1>10. ASSUME NEW o \in r.owned
         PROVE  /\ g[o] \in Nat \ {0} /\ g[o] + StructSize <= r.size[o]
                /\ r.size[o] < g[o] + StructSize + Align + MinimumBlockSize
    <2>1. CASE o = b
      BY <1>3, <1>6, <1>9, <2>1
    <2>2. CASE o \in h.owned
      BY <1>2, <1>9, <2>2 DEF Snug
    <2> QED
      BY <1>2, <2>1, <2>2
  <1>11. Snug(r, g)
    BY <1>10 DEF Snug
  <1> QED
    BY <1>3, <1>8, <1>11

\* A call of pvPortMalloc keeps the invariant.
LEMMA MallocStep ==
  ASSUME HeapInv, NEW n \in Lengths, pvPortMalloc(n)
  PROVE  /\ heap'.pxEnd # NULL /\ Whole(heap') /\ Snug(heap', requested')
         /\ requested' \in [Addr -> Lengths \cup {0}]
         /\ result' \in {NULL} \cup {a + StructSize : a \in Addr}
  <1>1. /\ Whole(Ready) /\ Ready.pxEnd # NULL /\ Snug(Ready, requested)
        /\ requested \in [Addr -> Lengths \cup {0}] /\ n \in Nat
    <2>1. n \in 0..(Word - 1)
      BY HeapAssumption
    <2> QED
      BY <2>1, ReadyHeap DEF HeapInv
  <1>2. CASE Succeeds(Ready, n)
    <2>1. PICK b : b = Chosen(Ready, n)
      OBVIOUS
    <2>2. /\ heap' = Allocated(Ready, n) /\ result' = b + StructSize
          /\ requested' = [requested EXCEPT ![b] = n]
      BY <1>2, <2>1 DEF pvPortMalloc
    <2>3. Handed(Ready, heap', b, BlockLength(n))
      BY <1>1, <1>2, <2>1, <2>2, Allocates
    <2>4. n < AllocatedBit /\ BlockLength(n) > 0
      BY <1>2 DEF Succeeds
    <2>5. Snug(heap', requested')
      BY <1>1, <2>2, <2>3, <2>4, HandedSnug
    <2>6. b \in Addr /\ Whole(heap') /\ heap'.pxEnd # NULL
      BY <1>1, <2>3 DEF Handed
    <2>7. requested' \in [Addr -> Lengths \cup {0}]
      BY <1>1, <2>2, <2>6
    <2> QED
      BY <2>2, <2>5, <2>6, <2>7
  <1>3. CASE ~Succeeds(Ready, n)
    <2>1. heap' = Ready /\ result' = NULL /\ requested' = requested
      BY <1>3 DEF pvPortMalloc
    <2> QED
      BY <1>1, <2>1
  <1> QED
    BY <1>2, <1>3

\* A block taken back leaves the others as they are.
LEMMA FreeStep ==
  ASSUME HeapInv, NEW b \in Addr, TEE_Free(b)
  PROVE  /\ heap.pxEnd # NULL /\ Whole(heap) /\ TakenIn(heap, heap', b)
         /\ heap'.pxEnd # NULL /\ Whole(heap') /\ Snug(heap', requested')
         /\ requested' \in [Addr -> Lengths \cup {0}]
  <1>1. b \in heap.owned /\ heap' = Freed(heap, b) /\ requested' = [requested EXCEPT ![b] = 0]
    BY DEF TEE_Free
  <1>2. heap.pxEnd # NULL
    BY <1>1 DEF HeapInv, Untouched
  <1>3. Whole(heap) /\ Snug(heap, requested) /\ requested \in [Addr -> Lengths \cup {0}]
    BY <1>2 DEF HeapInv
  <1>4. TakenIn(heap, heap', b)
    BY <1>1, <1>3, Frees
  <1>5. /\ Whole(heap') /\ heap'.pxEnd # NULL /\ heap'.owned = heap.owned \ {b}
        /\ \A o \in heap.owned : o # b => heap'.size[o] = heap.size[o]
    BY <1>2, <1>4 DEF TakenIn
  <1>6. heap.owned \subseteq Addr
    BY <1>3 DEF Whole, HeapData
  <1>7. \A o \in heap.owned : o # b => requested'[o] = requested[o]
    BY <1>1, <1>3, <1>6
  <1>8. Snug(heap', requested')
    BY <1>3, <1>5, <1>7 DEF Snug
  <1>9. requested' \in [Addr -> Lengths \cup {0}]
    BY <1>1, <1>3
  <1> QED
    BY <1>2, <1>3, <1>4, <1>5, <1>8, <1>9

\* The invariant holds at the start.
LEMMA InvStart == Init => HeapInv
  <1> SUFFICES ASSUME Init PROVE HeapInv
    OBVIOUS
  <1>1. Untouched(heap) /\ heap.pxEnd = NULL /\ heap.owned = {}
    BY DEF Init, Untouched
  <1>2. /\ requested \in [Addr -> Lengths \cup {0}] /\ call \in Calls \cup {NoCall}
        /\ result \in {NULL} \cup {a + StructSize : a \in Addr}
    BY DEF Init
  <1> QED
    BY <1>1, <1>2 DEF HeapInv, Snug

\* Every step keeps the invariant.
LEMMA InvKept == HeapInv /\ [Next]_vars => HeapInv'
  <1> SUFFICES ASSUME HeapInv, [Next]_vars PROVE HeapInv'
    OBVIOUS
  <1>1. ASSUME NEW n \in Lengths, NEW hint \in Hints, TEE_Malloc(n, hint) PROVE HeapInv'
    <2>1. call' \in Calls \cup {NoCall}
      BY <1>1 DEF TEE_Malloc, Calls
    <2>2. CASE hint = "invalid"
      <3>1. heap' = heap /\ requested' = requested /\ result' = NULL
        BY <1>1, <2>2 DEF TEE_Malloc
      <3> QED
        BY <2>1, <3>1 DEF HeapInv, Untouched, Whole, Snug
    <2>3. CASE hint # "invalid"
      <3>1. pvPortMalloc(n)
        BY <1>1, <2>3 DEF TEE_Malloc
      <3>2. /\ heap'.pxEnd # NULL /\ Whole(heap') /\ Snug(heap', requested')
            /\ requested' \in [Addr -> Lengths \cup {0}]
            /\ result' \in {NULL} \cup {a + StructSize : a \in Addr}
        BY <3>1, MallocStep
      <3> QED
        BY <2>1, <3>2 DEF HeapInv
    <2> QED
      BY <2>2, <2>3
  <1>2. ASSUME NEW b \in Addr, TEE_Free(b) PROVE HeapInv'
    <2>1. /\ heap'.pxEnd # NULL /\ Whole(heap') /\ Snug(heap', requested')
          /\ requested' \in [Addr -> Lengths \cup {0}]
      BY <1>2, FreeStep
    <2>2. call' = NoCall /\ result' = NULL
      BY <1>2 DEF TEE_Free
    <2> QED
      BY <2>1, <2>2 DEF HeapInv
  <1>3. CASE UNCHANGED vars
    BY <1>3 DEF vars, HeapInv, Untouched, Whole, Snug
  <1> QED
    BY <1>1, <1>2, <1>3 DEF Next

\* The invariant always holds.
THEOREM HeapAlways == Spec => []HeapInv
  BY InvStart, InvKept, PTL DEF Spec

\* The heap before the first call has no blocks.
LEMMA Empty ==
  ASSUME NEW h, Untouched(h)
  PROVE  /\ h \in HeapData /\ h.freeList = <<>> /\ h.remaining = 0 /\ h.minimum = 0
         /\ h.owned = {} /\ h.pxEnd = NULL
  <1>1. 0 \in 0..(AllocatedBit - 1) /\ 0 \in 0..(Word - 1)
    BY Bounds
  <1>2. <<>> \in Seq(Addr) /\ [a \in Addr |-> 0] \in [Addr -> 0..(AllocatedBit - 1)]
    BY <1>1
  <1> QED
    BY <1>1, <1>2 DEF Untouched, HeapData

\* The invariant gives the types.
LEMMA InvTypes == HeapInv => TypeOK
  <1> SUFFICES ASSUME HeapInv PROVE TypeOK
    OBVIOUS
  <1>1. heap \in HeapData
    BY Empty DEF HeapInv, Whole
  <1> QED
    BY <1>1 DEF HeapInv, TypeOK

\* Blocks that tile the heap leave no byte out and share none.
LEMMA InvBytes == HeapInv => EachByteInOneBlock
  <1> SUFFICES ASSUME HeapInv, heap.pxEnd # NULL, NEW x \in First..(EndMarker - 1)
               PROVE  Cardinality({b \in heap.owned \cup Range(heap.freeList) :
                                     b <= x /\ x < b + heap.size[b]}) = 1
    BY DEF EachByteInOneBlock
  <1>1. PICK B, Z : B = heap.owned \cup Range(heap.freeList) /\ Z = heap.size
    OBVIOUS
  <1>2. Tiles(B, Z)
    BY <1>1 DEF HeapInv, Whole
  <1>3. PICK b \in B : b <= x /\ x < b + Z[b]
    BY <1>2 DEF Tiles
  <1>4. \A c \in B : c <= x /\ x < c + Z[c] => c = b
    <2> SUFFICES ASSUME NEW c \in B, c <= x, x < c + Z[c] PROVE c = b
      OBVIOUS
    <2>1. /\ b \in Nat /\ c \in Nat /\ x \in Int /\ Z[b] \in Nat /\ Z[c] \in Nat
          /\ c < b => c + Z[c] <= b
          /\ b < c => b + Z[b] <= c
      BY <1>2, Block, Bounds
    <2> QED
      BY <1>3, <2>1
  <1>5. {c \in B : c <= x /\ x < c + Z[c]} = {b}
    BY <1>3, <1>4
  <1>6. Cardinality({c \in B : c <= x /\ x < c + Z[c]}) = 1
    BY <1>5, FS_Singleton
  <1> QED
    BY <1>1, <1>6

\* The list is sorted and its blocks are apart.
LEMMA InvCoalesced == HeapInv => Coalesced
  <1> SUFFICES ASSUME HeapInv, NEW i \in 1..(Len(heap.freeList) - 1)
               PROVE  heap.freeList[i] + heap.size[heap.freeList[i]] < heap.freeList[i + 1]
    BY DEF Coalesced
  <1>1. heap.pxEnd # NULL
    <2> SUFFICES ASSUME heap.pxEnd = NULL PROVE FALSE
      OBVIOUS
    <2>1. Len(heap.freeList) = 0
      BY Empty DEF HeapInv
    <2> QED
      BY <2>1
  <1>2. heap.freeList \in Seq(Addr) /\ Sorted(heap.freeList, heap.size)
    BY <1>1 DEF HeapInv, Whole, HeapData
  <1>3. DOMAIN heap.freeList = 1..Len(heap.freeList) /\ Len(heap.freeList) \in Nat
    BY <1>2, Listed
  <1>4. i \in DOMAIN heap.freeList /\ i + 1 \in DOMAIN heap.freeList /\ i < i + 1
    BY <1>3
  <1> QED
    BY <1>2, <1>4 DEF Sorted

\* The count is that of the bytes in free blocks.
LEMMA InvCounted == HeapInv => FreeBytesExact
  <1> SUFFICES ASSUME HeapInv PROVE FreeBytesExact
    OBVIOUS
  <1>1. FreeBytes = Bytes(Range(heap.freeList), heap.size)
    BY DEF FreeBytes, Bytes, Range
  <1>2. CASE heap.pxEnd # NULL
    BY <1>1, <1>2 DEF HeapInv, Whole, FreeBytesExact
  <1>3. CASE heap.pxEnd = NULL
    <2>1. heap.freeList = <<>> /\ heap.remaining = 0 /\ heap.minimum = 0
      BY <1>3, Empty DEF HeapInv
    <2>2. Range(heap.freeList) = {}
      BY <2>1 DEF Range
    <2>3. FreeBytes = {}
      BY <1>1, <2>2 DEF Bytes
    <2>4. Cardinality(FreeBytes) = 0
      BY <2>3, FS_EmptySet
    <2> QED
      BY <2>1, <2>4 DEF FreeBytesExact
  <1> QED
    BY <1>2, <1>3

\* The heap's data keep their types; xFreeBytesRemaining never wraps.
THEOREM HeapTypes == Spec => []TypeOK
  BY HeapAlways, InvTypes, PTL

\* Every byte of the heap is in exactly one block, owned or free, after any
\* number of splits and merges.
THEOREM BytesInOneBlock == Spec => []EachByteInOneBlock
  BY HeapAlways, InvBytes, PTL

\* No two free blocks touch, and the list is in the order of their addresses.
THEOREM FreeBlocksApart == Spec => []Coalesced
  BY HeapAlways, InvCoalesced, PTL

\* xFreeBytesRemaining counts the bytes in free blocks.
THEOREM FreeBytesCounted == Spec => []FreeBytesExact
  BY HeapAlways, InvCounted, PTL

(***************************************************************************)
(* The heap implements Allocator.                                          *)
(***************************************************************************)

\* What a request may lose to headers, rounding and unsplit remainders.
Waste == 2 * StructSize + MinimumBlockSize + 2 * (Align - 1)

\* The part of the heap from lo up to hi, that no region reaches into.
Clear(h, asked, lo, hi) ==
  /\ First <= lo /\ hi <= EndMarker
  /\ \A o \in h.owned : o + StructSize + asked[o] <= lo \/ hi <= o + StructSize

\* What lies in a gap, but for the end of the block before it and the header of
\* the block behind it, is free.
LEMMA FreeInGap ==
  ASSUME NEW h, Whole(h), NEW asked, Snug(h, asked), NEW lo \in Nat, NEW hi \in Nat,
         Clear(h, asked, lo, hi), NEW x \in Nat,
         lo + MinimumBlockSize + Align - 1 <= x, x < hi - StructSize
  PROVE  \E i \in 1..Len(h.freeList) :
            h.freeList[i] <= x /\ x < h.freeList[i] + h.size[h.freeList[i]]
  <1>1. PICK B, Z : B = h.owned \cup Range(h.freeList) /\ Z = h.size
    OBVIOUS
  <1>2. Tiles(B, Z) /\ h.freeList \in Seq(Addr)
    BY <1>1 DEF Whole, HeapData
  <1>3. /\ First \in Nat /\ EndMarker \in Nat /\ Align \in Nat \ {0}
        /\ StructSize \in Nat \ {0} /\ MinimumBlockSize \in Nat
    BY Bounds
  <1>4. First <= lo /\ hi <= EndMarker
    BY DEF Clear
  <1>5. x \in First..(EndMarker - 1)
    BY <1>3, <1>4
  <1>6. PICK b \in B : b <= x /\ x < b + Z[b]
    BY <1>2, <1>5 DEF Tiles
  <1>7. b \notin h.owned
    <2> SUFFICES ASSUME b \in h.owned PROVE FALSE
      OBVIOUS
    <2>1. PICK a, z : a = asked[b] /\ z = Z[b]
      OBVIOUS
    <2>2. a \in Nat /\ z < a + StructSize + Align + MinimumBlockSize
      BY <1>1, <2>1 DEF Snug
    <2>3. b + StructSize + a <= lo \/ hi <= b + StructSize
      BY <2>1 DEF Clear
    <2>4. b \in Nat /\ z \in Nat
      BY <1>2, <2>1, Block
    <2>5. b <= x /\ x < b + z
      BY <1>6, <2>1
    <2> QED
      BY <1>3, <2>2, <2>3, <2>4, <2>5
  <1>8. b \in Range(h.freeList)
    BY <1>1, <1>7
  <1>9. PICK i \in 1..Len(h.freeList) : b = h.freeList[i]
    BY <1>2, <1>8, Listed
  <1> QED
    BY <1>1, <1>6, <1>9

\* Free bytes one after the other lie in one block: two would touch.
LEMMA OneBlock ==
  ASSUME NEW h, Whole(h), NEW u \in Nat, NEW v \in Nat, u < v,
         \A x \in Nat : u <= x /\ x < v =>
            \E i \in 1..Len(h.freeList) :
               h.freeList[i] <= x /\ x < h.freeList[i] + h.size[h.freeList[i]]
  PROVE  \E i \in 1..Len(h.freeList) : h.size[h.freeList[i]] >= v - u
  <1>1. PICK L, Z, n : L = h.freeList /\ Z = h.size /\ n = Len(L)
    OBVIOUS
  <1>2. L \in Seq(Addr) /\ Sorted(L, Z) /\ Tiles(h.owned \cup Range(L), Z)
    BY <1>1 DEF Whole, HeapData
  <1>3. n \in Nat /\ \A i \in 1..n : L[i] \in Nat /\ L[i] \in Range(L)
    BY <1>1, <1>2, Listed
  <1>4. \A b \in Range(L) : Z[b] \in Nat
    <2>1. PICK B : B = h.owned \cup Range(L)
      OBVIOUS
    <2> QED
      BY <1>2, <2>1, Block
  <1>5. PICK i \in 1..n : L[i] <= u /\ u < L[i] + Z[L[i]]
    BY <1>1
  <1>6. PICK b, z : b = L[i] /\ z = Z[L[i]]
    OBVIOUS
  <1>7. b \in Nat /\ z \in Nat /\ b <= u /\ u < b + z
    BY <1>3, <1>4, <1>5, <1>6
  <1>8. ~(b + z < v)
    <2> SUFFICES ASSUME b + z < v PROVE FALSE
      OBVIOUS
    <2>1. PICK y : y = b + z
      OBVIOUS
    <2>2. y \in Nat /\ u <= y /\ y < v
      BY <1>7, <2>1
    <2>3. PICK j \in 1..n : L[j] <= y /\ y < L[j] + Z[L[j]]
      BY <1>1, <2>2
    <2>4. PICK c, q : c = L[j] /\ q = Z[L[j]]
      OBVIOUS
    <2>5. c \in Nat /\ q \in Nat /\ c <= y /\ y < c + q
      BY <1>3, <1>4, <2>3, <2>4
    <2>6. i < j => b + z < c
      BY <1>1, <1>2, <1>4, <1>6, <2>4, Apart
    <2>7. j < i => c + q < b
      BY <1>1, <1>2, <1>4, <1>6, <2>4, Apart
    <2>8. i = j => b = c /\ z = q
      BY <1>6, <2>4
    <2>9. i < j \/ j < i \/ i = j
      BY <1>3
    <2> QED
      BY <1>7, <2>1, <2>5, <2>6, <2>7, <2>8, <2>9
  <1>9. z >= v - u
    BY <1>7, <1>8
  <1> QED
    BY <1>1, <1>6, <1>9

\* A free block is no larger than what is counted as free.
LEMMA NotMoreThanRemains ==
  ASSUME NEW h, Whole(h), NEW i \in 1..Len(h.freeList)
  PROVE  /\ h.size[h.freeList[i]] \in Nat /\ h.remaining \in Nat
         /\ h.size[h.freeList[i]] <= h.remaining
  <1>1. PICK L, Z, B : L = h.freeList /\ Z = h.size /\ B = h.owned \cup Range(L)
    OBVIOUS
  <1>2. L \in Seq(Addr) /\ Tiles(B, Z) /\ h.remaining = Cardinality(Bytes(Range(L), Z))
    BY <1>1 DEF Whole, HeapData
  <1>3. L[i] \in Range(L) /\ L[i] \in B
    BY <1>1, <1>2, Listed
  <1>4. {L[i]} \in SUBSET Range(L)
    BY <1>3
  <1>5. Cardinality(Bytes({L[i]}, Z)) <= Cardinality(Bytes(Range(L), Z))
    BY <1>4, BytesCounted
  <1>6. Cardinality(Bytes({L[i]}, Z)) = Z[L[i]] /\ Z[L[i]] \in Nat
    BY <1>2, <1>3, Block, BlockBytes
  <1>7. h.remaining \in Nat
    BY <1>2, BytesCounted
  <1> QED
    BY <1>1, <1>2, <1>5, <1>6, <1>7

\* pvPortMalloc finds a block when a gap is larger than the request by Waste.
LEMMA RoomFound ==
  ASSUME NEW h, Whole(h), NEW asked, Snug(h, asked), NEW lo \in Nat,
         NEW n \in Nat \ {0}, Clear(h, asked, lo, lo + n + Waste)
  PROVE  Succeeds(h, n)
  <1>1. /\ First \in Nat /\ EndMarker \in Nat /\ EndMarker - First < AllocatedBit
        /\ AllocatedBit \in Nat /\ Align \in Nat \ {0} /\ StructSize \in Nat \ {0} /\ MinimumBlockSize \in Nat
    BY Bounds
  <1>2. PICK hi : hi = lo + n + 2 * StructSize + MinimumBlockSize + 2 * (Align - 1)
    OBVIOUS
  <1>3. hi = lo + n + Waste /\ hi \in Nat
    BY <1>1, <1>2 DEF Waste
  <1>4. Clear(h, asked, lo, hi)
    BY <1>3
  <1>5. First <= lo /\ hi <= EndMarker
    BY <1>4 DEF Clear
  <1>6. n < AllocatedBit
    BY <1>1, <1>2, <1>5
  <1>7. PICK u, v : u = lo + MinimumBlockSize + Align - 1 /\ v = hi - StructSize
    OBVIOUS
  <1>8. /\ u \in Nat /\ v \in Nat /\ u < v /\ v - u = n + StructSize + Align - 1
    BY <1>1, <1>2, <1>7
  <1>9. \A x \in Nat : u <= x /\ x < v =>
            \E i \in 1..Len(h.freeList) :
               h.freeList[i] <= x /\ x < h.freeList[i] + h.size[h.freeList[i]]
    BY <1>3, <1>4, <1>7, FreeInGap
  <1>10. PICK i \in 1..Len(h.freeList) : h.size[h.freeList[i]] >= v - u
    BY <1>8, <1>9, OneBlock
  <1>11. PICK w, z : w = BlockLength(n) /\ z = h.size[h.freeList[i]]
    OBVIOUS
  <1>12. w \in Nat \ {0} /\ w < n + StructSize + Align
    <2>1. n > 0
      OBVIOUS
    <2> QED
      BY <1>6, <1>11, <2>1, LengthOfBlock
  <1>13. z \in Nat /\ h.remaining \in Nat /\ z <= h.remaining
    BY <1>11, NotMoreThanRemains
  <1>14. z >= v - u
    BY <1>10, <1>11
  <1>15. w <= z
    BY <1>1, <1>8, <1>12, <1>13, <1>14
  <1>16. w > 0 /\ w <= h.remaining
    BY <1>12, <1>13, <1>15
  <1>17. i \in DOMAIN h.freeList
    BY Listed DEF Whole, HeapData
  <1>18. h.size[h.freeList[i]] >= w
    BY <1>11, <1>12, <1>13, <1>15
  <1>19. i \in Fitting(h, w)
    BY <1>17, <1>18 DEF Fitting
  <1> QED
    BY <1>6, <1>11, <1>16, <1>19 DEF Succeeds

\* The regions of owned blocks lie in the heap and do not overlap.
LEMMA RegionsApart ==
  ASSUME NEW h, Whole(h), NEW asked, Snug(h, asked), NEW b \in h.owned
  PROVE  /\ b \in Nat /\ b + StructSize \in First..EndMarker
         /\ b + StructSize + asked[b] <= EndMarker
         /\ \A c \in h.owned : b # c =>
              \/ b + StructSize + asked[b] <= c + StructSize
              \/ c + StructSize + asked[c] <= b + StructSize
  <1>1. PICK B, Z : B = h.owned \cup Range(h.freeList) /\ Z = h.size
    OBVIOUS
  <1>2. Tiles(B, Z)
    BY <1>1 DEF Whole
  <1>3. StructSize \in Nat /\ First \in Nat /\ EndMarker \in Nat
    BY Bounds
  <1>4. /\ b \in Nat /\ First <= b /\ Z[b] \in Nat /\ b + Z[b] <= EndMarker
        /\ \A c \in B : b < c => b + Z[b] <= c
    BY <1>1, <1>2, Block
  <1>5. asked[b] \in Nat /\ asked[b] + StructSize <= Z[b]
    BY <1>1 DEF Snug
  <1>6. ASSUME NEW c \in h.owned, b # c
        PROVE  \/ b + StructSize + asked[b] <= c + StructSize
               \/ c + StructSize + asked[c] <= b + StructSize
    <2>1. PICK y, q, a : y = Z[b] /\ q = Z[c] /\ a = asked[c]
      OBVIOUS
    <2>2. c \in B /\ b \in B
      BY <1>1, <1>6
    <2>3. c \in Nat /\ q \in Nat /\ \A d \in B : c < d => c + q <= d
      BY <1>2, <2>1, <2>2, Block
    <2>4. a \in Nat /\ a + StructSize <= q
      BY <1>1, <2>1 DEF Snug
    <2>5. b < c => b + y <= c
      BY <1>4, <2>1, <2>2
    <2>6. c < b => c + q <= b
      BY <2>2, <2>3
    <2>7. b < c \/ c < b
      BY <1>4, <1>6, <2>3
    <2>8. PICK d : d = asked[b]
      OBVIOUS
    <2>9. d \in Nat /\ d + StructSize <= y /\ y \in Nat
      BY <1>4, <1>5, <2>1, <2>8
    <2>10. b + StructSize + d <= c + StructSize \/ c + StructSize + a <= b + StructSize
      BY <1>3, <1>4, <2>3, <2>4, <2>5, <2>6, <2>7, <2>9
    <2> QED
      BY <2>1, <2>8, <2>10
  <1> QED
    BY <1>3, <1>4, <1>5, <1>6

\* A request is refused only when no gap has room for it.
LEMMA RefusesStep ==
  ASSUME HeapInv, NEW n \in Lengths, ~Succeeds(Ready, n)
  PROVE  \/ n = 0
         \/ \A lo \in First..EndMarker : ~Memory!Gap(lo, lo + n + Waste)
  <1> SUFFICES ASSUME n # 0, NEW lo \in First..EndMarker, Memory!Gap(lo, lo + n + Waste)
               PROVE  FALSE
    OBVIOUS
  <1>1. Whole(Ready) /\ Snug(Ready, requested) /\ Ready.owned = heap.owned
    BY ReadyHeap
  <1>2. n \in Nat \ {0} /\ lo \in Nat
    BY HeapAssumption, Bounds
  <1>3. PICK hi : hi = lo + n + Waste
    OBVIOUS
  <1>4. /\ First <= lo /\ hi <= EndMarker
        /\ \A r \in Regions : r.from + r.len <= lo \/ hi <= r.from
    BY <1>3 DEF Memory!Gap, Memory!EndOf
  <1>5. ASSUME NEW o \in heap.owned
        PROVE  o + StructSize + requested[o] <= lo \/ hi <= o + StructSize
    <2>1. PICK r : r = [from |-> o + StructSize, len |-> requested[o]]
      OBVIOUS
    <2>2. r \in Regions /\ r.from = o + StructSize /\ r.len = requested[o]
      BY <2>1 DEF Regions
    <2> QED
      BY <1>4, <2>2
  <1>6. Clear(Ready, requested, lo, hi)
    BY <1>1, <1>4, <1>5 DEF Clear
  <1>7. Succeeds(Ready, n)
    BY <1>1, <1>2, <1>3, <1>6, RoomFound
  <1> QED
    BY <1>7

\* The region handed out lies in the heap and apart from the others.
LEMMA TakesStep ==
  ASSUME HeapInv, NEW n \in Lengths, Succeeds(Ready, n), pvPortMalloc(n)
  PROVE  \E p \in First..EndMarker :
            /\ n > 0 /\ p + n <= EndMarker
            /\ \A q \in Regions : p + n <= q.from \/ q.from + q.len <= p
            /\ Regions' = Regions \cup {[from |-> p, len |-> n]}
            /\ result' = p
  <1>1. PICK b : b = Chosen(Ready, n)
    OBVIOUS
  <1>2. /\ heap' = Allocated(Ready, n) /\ result' = b + StructSize
        /\ requested' = [requested EXCEPT ![b] = n]
    BY <1>1 DEF pvPortMalloc
  <1>3. Whole(Ready) /\ Ready.owned = heap.owned /\ n \in Nat
    BY ReadyHeap, HeapAssumption
  <1>4. Whole(heap') /\ Snug(heap', requested')
    BY MallocStep
  <1>5. Handed(Ready, heap', b, BlockLength(n))
    BY <1>1, <1>2, <1>3, Allocates
  <1>6. b \in Addr /\ b \notin heap.owned /\ heap'.owned = heap.owned \cup {b}
    BY <1>3, <1>5 DEF Handed
  <1>7. heap.owned \subseteq Addr /\ requested \in [Addr -> Lengths \cup {0}]
    BY <1>3 DEF Whole, HeapData, HeapInv
  <1>8. requested'[b] = n /\ \A o \in heap.owned : requested'[o] = requested[o]
    BY <1>2, <1>6, <1>7
  <1>9. b \in heap'.owned
    BY <1>6
  <1>10. n > 0
    <2>1. requested'[b] \in Nat \ {0}
      BY <1>4, <1>9 DEF Snug
    <2> QED
      BY <1>8, <2>1
  <1>11. PICK h, asked : h = heap' /\ asked = requested'
    OBVIOUS
  <1>12. /\ b + StructSize \in First..EndMarker
         /\ b + StructSize + asked[b] <= EndMarker
         /\ \A c \in h.owned : b # c =>
              \/ b + StructSize + asked[b] <= c + StructSize
              \/ c + StructSize + asked[c] <= b + StructSize
    BY <1>4, <1>9, <1>11, RegionsApart
  <1>13. ASSUME NEW q \in Regions
         PROVE  b + StructSize + n <= q.from \/ q.from + q.len <= b + StructSize
    <2>1. PICK c \in heap.owned : q = [from |-> c + StructSize, len |-> requested[c]]
      BY DEF Regions
    <2>2. c \in h.owned /\ b # c /\ asked[c] = requested[c] /\ asked[b] = n
      BY <1>6, <1>8, <1>11
    <2>3. q.from = c + StructSize /\ q.len = requested[c]
      BY <2>1
    <2> QED
      BY <1>12, <2>2, <2>3
  <1>14. Regions' = Regions \cup {[from |-> b + StructSize, len |-> n]}
    BY <1>6, <1>8 DEF Regions
  <1> QED
    BY <1>2, <1>8, <1>10, <1>11, <1>12, <1>13, <1>14

\* A region is given back whole, and the others stay.
LEMMA GivesStep ==
  ASSUME HeapInv, NEW b \in Addr, TEE_Free(b)
  PROVE  \E r \in Regions : Regions' = Regions \ {r}
  <1>1. b \in heap.owned /\ requested' = [requested EXCEPT ![b] = 0]
    BY DEF TEE_Free
  <1>2. Whole(heap) /\ heap'.owned = heap.owned \ {b}
    BY FreeStep DEF TakenIn
  <1>3. heap.owned \subseteq Addr /\ requested \in [Addr -> Lengths \cup {0}]
    BY <1>2 DEF Whole, HeapData, HeapInv
  <1>4. \A o \in heap.owned : o # b => requested'[o] = requested[o]
    BY <1>1, <1>3
  <1>5. StructSize \in Nat /\ \A o \in heap.owned : o \in Nat
    BY <1>3, Bounds, Addresses
  <1>6. PICK r : r = [from |-> b + StructSize, len |-> requested[b]]
    OBVIOUS
  <1>7. r \in Regions /\ r.from = b + StructSize
    BY <1>1, <1>6 DEF Regions
  <1>8. ASSUME NEW q \in Regions, q # r PROVE q \in Regions'
    <2>1. PICK o \in heap.owned : q = [from |-> o + StructSize, len |-> requested[o]]
      BY DEF Regions
    <2>2. o # b
      BY <1>6, <1>8, <2>1
    <2>3. o \in heap'.owned /\ q = [from |-> o + StructSize, len |-> requested'[o]]
      BY <1>2, <1>4, <2>1, <2>2
    <2> QED
      BY <2>3 DEF Regions
  <1>9. ASSUME NEW q \in Regions' PROVE q \in Regions /\ q # r
    <2>1. PICK o \in heap'.owned : q = [from |-> o + StructSize, len |-> requested'[o]]
      BY <1>9 DEF Regions
    <2>2. o \in heap.owned /\ o # b /\ q = [from |-> o + StructSize, len |-> requested[o]]
      BY <1>2, <1>4, <2>1
    <2>3. o + StructSize # b + StructSize
      BY <1>1, <1>5, <2>2
    <2>4. q.from = o + StructSize
      BY <2>2
    <2> QED
      BY <1>7, <2>2, <2>3, <2>4 DEF Regions
  <1> QED
    BY <1>7, <1>8, <1>9

\* The heap starts without regions.
LEMMA InitMemory == Init => Memory!AllocatorInit
  BY DEF Init, Regions, NULL, NoCall, Memory!AllocatorInit, Memory!NoCall

\* Every step of the heap is one of Allocator, or changes nothing it speaks of.
LEMMA StepMemory ==
  HeapInv /\ [Next]_vars => [Memory!AllocatorNext]_(Memory!avars)
  <1> SUFFICES ASSUME HeapInv, [Next]_vars
               PROVE  Memory!AllocatorNext \/ UNCHANGED Memory!avars
    OBVIOUS
  <1>1. ASSUME NEW n \in Lengths, NEW hint \in Hints, TEE_Malloc(n, hint)
        PROVE  Memory!AllocatorNext
    <2>1. PICK c : c = [len |-> n, hint |-> hint]
      OBVIOUS
    <2>2. c \in Calls /\ c.len = n /\ c.hint = hint /\ call' = c
      BY <1>1, <2>1 DEF Calls, TEE_Malloc
    <2>3. CASE hint = "invalid"
      <3>1. heap' = heap /\ requested' = requested /\ result' = NULL
        BY <1>1, <2>3 DEF TEE_Malloc
      <3>2. Regions' = Regions
        BY <3>1 DEF Regions
      <3>3. Memory!Refuse(c)
        BY <2>2, <2>3, <3>1, <3>2 DEF Memory!Refuse, NULL
      <3> QED
        BY <2>2, <3>3 DEF Memory!AllocatorNext
    <2>4. CASE hint # "invalid" /\ ~Succeeds(Ready, n)
      <3>1. heap' = Ready /\ requested' = requested /\ result' = NULL
        BY <1>1, <2>4 DEF TEE_Malloc, pvPortMalloc
      <3>2. Regions' = Regions
        BY <3>1, ReadyHeap DEF Regions
      <3>3. n = 0 \/ \A lo \in First..EndMarker : ~Memory!Gap(lo, lo + n + Waste)
        BY <2>4, RefusesStep
      <3>4. Memory!Refuse(c)
        BY <2>2, <3>1, <3>2, <3>3 DEF Memory!Refuse, NULL, Waste
      <3> QED
        BY <2>2, <3>4 DEF Memory!AllocatorNext
    <2>5. CASE hint # "invalid" /\ Succeeds(Ready, n)
      <3>1. pvPortMalloc(n)
        BY <1>1, <2>5 DEF TEE_Malloc
      <3>2. PICK p \in First..EndMarker :
              /\ n > 0 /\ p + n <= EndMarker
              /\ \A q \in Regions : p + n <= q.from \/ q.from + q.len <= p
              /\ Regions' = Regions \cup {[from |-> p, len |-> n]}
              /\ result' = p
        BY <2>5, <3>1, TakesStep
      <3>3. Memory!Take(c)
        BY <2>2, <2>5, <3>2 DEF Memory!Take, Memory!EndOf, Memory!Disjoint
      <3> QED
        BY <2>2, <3>3 DEF Memory!AllocatorNext
    <2> QED
      BY <2>3, <2>4, <2>5
  <1>2. ASSUME NEW b \in Addr, TEE_Free(b) PROVE Memory!AllocatorNext
    <2>1. call' = NoCall /\ result' = NULL
      BY <1>2 DEF TEE_Free
    <2>2. PICK r \in Regions : Regions' = Regions \ {r}
      BY <1>2, GivesStep
    <2>3. Memory!Give(r)
      BY <2>1, <2>2 DEF Memory!Give, NoCall, Memory!NoCall, NULL
    <2> QED
      BY <2>2, <2>3 DEF Memory!AllocatorNext
  <1>3. CASE UNCHANGED vars
    BY <1>3 DEF vars, Memory!avars, Regions
  <1> QED
    BY <1>1, <1>2, <1>3 DEF Next

\* The heap implements Allocator: TEE_Malloc hands out regions that lie in the
\* heap and never overlap, and refuses only when no gap is larger than the
\* request by the header of the block behind the gap, its own, a remainder that
\* was not split off and two roundings.
THEOREM AllocatorRefined == Spec => ImplementsAllocator
  BY InitMemory, StepMemory, HeapAlways, PTL
     DEF Spec, ImplementsAllocator, Memory!AllocatorSpec
=============================================================================
