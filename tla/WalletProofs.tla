----------------------------- MODULE WalletProofs -----------------------------
(***************************************************************************)
(* Proofs about Wallet, for every number of blocks, keys and other TAs:    *)
(* the list of the persistent objects stays well linked and holds exactly  *)
(* the objects in memory, although deleting an object unlinks it twice.    *)
(***************************************************************************)
EXTENDS Wallet, ProofLemmas

ListType == [first : Ptr, next : [Block -> Ptr], prev : [Block -> Ptr \cup {ListHead}]]
PobjType == [Block -> Objects \cup {Unused}]

\* The list l is a chain of the objects that p has.
ChainOf(l, p, n, q) ==
  /\ Chain(l, Block, NULL, ListHead, n, q)
  /\ \A b \in Block : Among(b, n, q) <=> p[b] # Unused

Chained(l, p) == \E n \in Nat : \E q \in [1..n -> Block] : ChainOf(l, p, n, q)

\* The inductive invariant.  After a wild pointer or a panic nothing is said of
\* the links.
WalletInv == TypeOK /\ (phase = "run" => Chained(list, pobj))

(***************************************************************************)
(* Walking the list.                                                       *)
(***************************************************************************)

\* TAILQ_FOREACH meets the blocks of the chain one by one and then stops.
LEMMA Walked ==
  ASSUME NEW l, NEW n \in Nat, NEW q, Chain(l, Block, NULL, ListHead, n, q)
  PROVE  \A i \in 1..(Cardinality(Block) + 1) : Nth(l)[i] = IF i <= n THEN q[i] ELSE NULL
<1>1. PICK c \in Nat : c = Cardinality(Block) /\ n <= c
  BY ChainBounded, WalletAssumption
<1>2. /\ q \in [1..n -> Block] /\ NULL \notin Block
      /\ l.first = IF n = 0 THEN NULL ELSE q[1]
      /\ \A i \in 1..n : l.next[q[i]] = IF i = n THEN NULL ELSE q[i + 1]
  BY WalletAssumption DEF Chain
<1>3. PICK g : g = [i \in 1..(c + 1) |-> IF i <= n THEN q[i] ELSE NULL]
  OBVIOUS
<1>4. \A i \in 1..(c + 1) :
        g[i] = IF i = 1 THEN l.first
               ELSE IF g[i - 1] = NULL THEN NULL ELSE l.next[g[i - 1]]
  <2> SUFFICES ASSUME NEW i \in 1..(c + 1)
               PROVE  g[i] = IF i = 1 THEN l.first
                             ELSE IF g[i - 1] = NULL THEN NULL ELSE l.next[g[i - 1]]
    OBVIOUS
  <2>1. CASE i = 1
    BY <1>2, <1>3, <2>1
  <2>2. CASE i # 1 /\ i - 1 <= n
    <3>1. PICK j \in 1..n : j = i - 1
      BY <2>2
    <3>2. g[j] = q[j] /\ q[j] # NULL /\ l.next[q[j]] = IF j = n THEN NULL ELSE q[j + 1]
      BY <1>1, <1>2, <1>3
    <3>3. g[i] = IF j = n THEN NULL ELSE q[j + 1]
      BY <1>3, <3>1
    <3> QED
      BY <2>2, <3>1, <3>2, <3>3
  <2>3. CASE i # 1 /\ ~(i - 1 <= n)
    <3>1. g[i] = NULL /\ g[i - 1] = NULL
      BY <1>3, <2>3
    <3> QED
      BY <2>3, <3>1
  <2> QED
    BY <2>1, <2>2, <2>3
<1>5. g = [i \in 1..(c + 1) |->
             IF i = 1 THEN l.first ELSE IF g[i - 1] = NULL THEN NULL ELSE l.next[g[i - 1]]]
  BY <1>3, <1>4
<1>6. PICK f : f = Nth(l)
  OBVIOUS
<1>7. f = [i \in 1..(c + 1) |->
             IF i = 1 THEN l.first ELSE IF f[i - 1] = NULL THEN NULL ELSE l.next[f[i - 1]]]
  BY <1>1, <1>5, <1>6 DEF Nth
<1>8. \A i \in 1..(c + 1) : f[i] = g[i]
  <2> DEFINE T == {i \in 0..c : f[i + 1] = g[i + 1]}
  <2>1. 0 \in T
    BY <1>5, <1>7
  <2>2. \A i \in Nat : i < c /\ i \in T => i + 1 \in T
    <3> SUFFICES ASSUME NEW i \in Nat, i < c, f[i + 1] = g[i + 1] PROVE i + 1 \in T
      OBVIOUS
    <3>1. PICK j \in 1..(c + 1) : j = (i + 1) + 1 /\ j # 1 /\ j - 1 = i + 1
      OBVIOUS
    <3>2. f[j] = g[j]
      BY <1>5, <1>7, <3>1
    <3> QED
      BY <3>1, <3>2
  <2> HIDE DEF T
  <2>3. \A i \in 0..c : i \in T
    BY <2>1, <2>2, UpTo
  <2>4. \A i \in 0..c : f[i + 1] = g[i + 1]
    BY <2>3 DEF T
  <2>5. ASSUME NEW i \in 1..(c + 1) PROVE f[i] = g[i]
    <3>1. PICK j \in 0..c : j = i - 1 /\ j + 1 = i
      OBVIOUS
    <3> QED
      BY <2>4, <3>1
  <2> QED
    BY <2>5
<1> QED
  BY <1>1, <1>3, <1>6, <1>8

\* So the walk finds exactly the blocks of the chain.
LEMMA LinkedBlocks ==
  ASSUME NEW l, NEW n \in Nat, NEW q, Chain(l, Block, NULL, ListHead, n, q)
  PROVE  /\ \A b : b \in Linked(l) <=> Among(b, n, q)
         /\ Cardinality(Linked(l)) = n
         /\ Nth(l)[n + 1] = NULL
<1>1. PICK c \in Nat : c = Cardinality(Block) /\ n <= c
  BY ChainBounded, WalletAssumption
<1>2. \A i \in 1..(c + 1) : Nth(l)[i] = IF i <= n THEN q[i] ELSE NULL
  BY <1>1, Walked
<1>3. q \in [1..n -> Block] /\ NULL \notin Block /\ \A i, j \in 1..n : q[i] = q[j] => i = j
  BY WalletAssumption DEF Chain
<1>4. PICK f : f = Nth(l)
  OBVIOUS
<1>5. Linked(l) = {f[i] : i \in 1..(c + 1)} \ {NULL}
  BY <1>1, <1>4 DEF Linked
<1>6. ASSUME NEW b PROVE b \in Linked(l) <=> Among(b, n, q)
  <2>1. ASSUME b \in Linked(l) PROVE Among(b, n, q)
    <3>1. PICK i \in 1..(c + 1) : f[i] = b /\ b # NULL
      BY <1>5, <2>1
    <3>2. i \in 1..n /\ q[i] = b
      BY <1>2, <1>4, <3>1
    <3> QED
      BY <3>2 DEF Among
  <2>2. ASSUME Among(b, n, q) PROVE b \in Linked(l)
    <3>1. PICK i \in 1..n : q[i] = b
      BY <2>2 DEF Among
    <3>2. i \in 1..(c + 1) /\ f[i] = b /\ b # NULL
      BY <1>1, <1>2, <1>3, <1>4, <3>1
    <3> QED
      BY <1>5, <3>2
  <2> QED
    BY <2>1, <2>2
<1>7. Cardinality(Linked(l)) = n
  <2>1. PICK T : T = Linked(l)
    OBVIOUS
  <2>2. q \in [1..n -> T] /\ \A b \in T : \E i \in 1..n : q[i] = b
    BY <1>3, <1>6, <2>1 DEF Among
  <2>3. q \in Surjection(1..n, T) /\ q \in Injection(1..n, T)
    BY <1>3, <2>2 DEF Surjection, Injection, IsInjective
  <2>4. IsFiniteSet(1..n) /\ Cardinality(1..n) = n
    BY FS_Interval
  <2>5. Cardinality(T) = Cardinality(1..n)
    BY <2>3, <2>4, FS_Surjection
  <2> QED
    BY <2>1, <2>4, <2>5
<1>8. Nth(l)[n + 1] = NULL
  BY <1>1, <1>2
<1> QED
  BY <1>6, <1>7, <1>8

(***************************************************************************)
(* The queue of objects.                                                   *)
(***************************************************************************)

\* What KeyStore knows of an object, and of the objects of a chain, which are
\* linked from the newest to the oldest.
Entry(p, b) == [owner |-> p[b].owner, key |-> p[b].key]
Seen(p, n, q) == [i \in 1..n |-> Entry(p, q[n + 1 - i])]

\* The queue of a chained list is the chain read backwards.
LEMMA ObjectsSeen ==
  ASSUME NEW l, NEW p, NEW n \in Nat, NEW q, Chain(l, Block, NULL, ListHead, n, q)
  PROVE  StoredObjects(l, p) = Seen(p, n, q)
<1>1. PICK c \in Nat : c = Cardinality(Block) /\ n <= c
  BY ChainBounded, WalletAssumption
<1>2. PICK f : f = Nth(l)
  OBVIOUS
<1>3. \A i \in 1..(c + 1) : f[i] = IF i <= n THEN q[i] ELSE NULL
  BY <1>1, <1>2, Walked
<1>4. \A i \in 1..n : f[n + 1 - i] = q[n + 1 - i]
  BY <1>1, <1>3
<1>5. Cardinality(Linked(l)) = n
  BY LinkedBlocks
<1>6. StoredObjects(l, p) =
        [i \in 1..n |-> [owner |-> p[f[n + 1 - i]].owner, key |-> p[f[n + 1 - i]].key]]
  BY <1>2, <1>5 DEF StoredObjects
<1> QED
  BY <1>4, <1>6 DEF Seen, Entry

\* It is a sequence.
LEMMA SeenSeq ==
  ASSUME NEW p, NEW n \in Nat, NEW q \in [1..n -> Block]
  PROVE  /\ Seen(p, n, q) \in Seq({Entry(p, b) : b \in Block})
         /\ Len(Seen(p, n, q)) = n
         /\ \A i \in 1..n : Seen(p, n, q)[i] = Entry(p, q[n + 1 - i])
<1>1. PICK s : s = Seen(p, n, q)
  OBVIOUS
<1>2. PICK T : T = {Entry(p, b) : b \in Block}
  OBVIOUS
<1>3. \A i \in 1..n : s[i] = Entry(p, q[n + 1 - i])
  BY <1>1 DEF Seen
<1>4. \A i \in 1..n : s[i] \in T
  <2> SUFFICES ASSUME NEW i \in 1..n PROVE s[i] \in T
    OBVIOUS
  <2>1. q[n + 1 - i] \in Block
    OBVIOUS
  <2> QED
    BY <1>2, <1>3, <2>1
<1>5. s \in [1..n -> T]
  BY <1>1, <1>4 DEF Seen
<1>6. s \in Seq(T) /\ Len(s) = n
  BY <1>5
<1> QED
  BY <1>1, <1>2, <1>3, <1>6

\* A block in front of the chain is a new end of the queue.
LEMMA SeenGrows ==
  ASSUME NEW p, NEW r, NEW n \in Nat, NEW q \in [1..n -> Block], NEW b \in Block,
         \A i \in 1..n : r[q[i]] = p[q[i]]
  PROVE  Seen(r, n + 1, InFront(b, n, q)) = Append(Seen(p, n, q), Entry(r, b))
<1>1. PICK q2 : q2 = InFront(b, n, q)
  OBVIOUS
<1>2. /\ q2 \in [1..(n + 1) -> Block] /\ q2[1] = b
      /\ \A i \in 1..n : q2[i + 1] = q[i]
  BY <1>1 DEF InFront
<1>3. PICK s, t : s = Seen(p, n, q) /\ t = Seen(r, n + 1, q2)
  OBVIOUS
<1>4. PICK T : T = {Entry(p, x) : x \in Block} \cup {Entry(r, x) : x \in Block}
  OBVIOUS
<1>5. /\ s \in Seq(T) /\ Len(s) = n
      /\ \A i \in 1..n : s[i] = Entry(p, q[n + 1 - i])
  <2>1. s \in Seq({Entry(p, x) : x \in Block}) /\ Len(s) = n
        /\ \A i \in 1..n : s[i] = Entry(p, q[n + 1 - i])
    BY <1>3, SeenSeq
  <2>2. \A i \in 1..n : s[i] \in T
    BY <1>4, <2>1
  <2>3. s \in [1..n -> T]
    BY <1>3, <2>2 DEF Seen
  <2> QED
    BY <2>1, <2>3
<1>6. PICK m \in Nat : m = n + 1
  OBVIOUS
<1>7. /\ t \in Seq(T) /\ Len(t) = m
      /\ \A i \in 1..m : t[i] = Entry(r, q2[m + 1 - i])
  <2>1. t = Seen(r, m, q2) /\ q2 \in [1..m -> Block]
    BY <1>2, <1>3, <1>6
  <2>2. t \in Seq({Entry(r, x) : x \in Block}) /\ Len(t) = m
        /\ \A i \in 1..m : t[i] = Entry(r, q2[m + 1 - i])
    BY <2>1, SeenSeq
  <2>3. \A i \in 1..m : t[i] \in T
    BY <1>4, <2>2
  <2>4. t \in [1..m -> T]
    BY <2>1, <2>3 DEF Seen
  <2> QED
    BY <2>2, <2>4
<1>8. PICK e : e = Entry(r, b)
  OBVIOUS
<1>9. e \in T
  BY <1>4, <1>8
<1>10. PICK u : u = Append(s, e)
  OBVIOUS
<1>11. /\ u \in Seq(T) /\ Len(u) = n + 1 /\ u[n + 1] = e
       /\ \A i \in 1..n : u[i] = s[i]
  BY <1>5, <1>9, <1>10, AppendProperties
<1>12. ASSUME NEW i \in 1..(n + 1) PROVE t[i] = u[i]
  <2>1. CASE i = n + 1
    <3>1. m + 1 - i = 1
      BY <1>6, <2>1
    <3> QED
      BY <1>2, <1>6, <1>7, <1>8, <1>11, <2>1, <3>1
  <2>2. CASE i # n + 1
    <3>1. PICK j \in 1..n : j = n + 1 - i
      BY <2>2
    <3>2. i \in 1..n /\ m + 1 - i = j + 1
      BY <1>6, <2>2, <3>1
    <3>3. q2[m + 1 - i] = q[j]
      BY <1>2, <3>2
    <3>4. t[i] = Entry(r, q[j]) /\ u[i] = Entry(p, q[j])
      BY <1>5, <1>6, <1>7, <1>11, <3>1, <3>2, <3>3
    <3> QED
      BY <3>4 DEF Entry
  <2> QED
    BY <2>1, <2>2
<1>13. t = u
  BY <1>6, <1>7, <1>11, <1>12, SameElements
<1> QED
  BY <1>1, <1>3, <1>8, <1>10, <1>13

\* The last block of the chain is the front of the queue.
LEMMA SeenShrinks ==
  ASSUME NEW p, NEW r, NEW n \in Nat \ {0}, NEW q \in [1..n -> Block],
         \A i \in 1..(n - 1) : r[q[i]] = p[q[i]]
  PROVE  /\ Seen(p, n, q) # <<>> /\ Head(Seen(p, n, q)) = Entry(p, q[n])
         /\ Seen(r, n - 1, Without(n, n, q)) = Tail(Seen(p, n, q))
<1>1. PICK q2 : q2 = Without(n, n, q)
  OBVIOUS
<1>2. q2 \in [1..(n - 1) -> Block] /\ \A i \in 1..(n - 1) : q2[i] = q[i]
  BY <1>1 DEF Without
<1>3. PICK s, t : s = Seen(p, n, q) /\ t = Seen(r, n - 1, q2)
  OBVIOUS
<1>4. PICK T : T = {Entry(p, x) : x \in Block} \cup {Entry(r, x) : x \in Block}
  OBVIOUS
<1>5. /\ s \in Seq(T) /\ Len(s) = n
      /\ \A i \in 1..n : s[i] = Entry(p, q[n + 1 - i])
  <2>1. s \in Seq({Entry(p, x) : x \in Block}) /\ Len(s) = n
        /\ \A i \in 1..n : s[i] = Entry(p, q[n + 1 - i])
    BY <1>3, SeenSeq
  <2>2. \A i \in 1..n : s[i] \in T
    BY <1>4, <2>1
  <2>3. s \in [1..n -> T]
    BY <1>3, <2>2 DEF Seen
  <2> QED
    BY <2>1, <2>3
<1>6. PICK m \in Nat : m = n - 1
  OBVIOUS
<1>7. /\ t \in Seq(T) /\ Len(t) = m
      /\ \A i \in 1..m : t[i] = Entry(r, q2[m + 1 - i])
  <2>1. t = Seen(r, m, q2) /\ q2 \in [1..m -> Block]
    BY <1>2, <1>3, <1>6
  <2>2. t \in Seq({Entry(r, x) : x \in Block}) /\ Len(t) = m
        /\ \A i \in 1..m : t[i] = Entry(r, q2[m + 1 - i])
    BY <2>1, SeenSeq
  <2>3. \A i \in 1..m : t[i] \in T
    BY <1>4, <2>2
  <2>4. t \in [1..m -> T]
    BY <2>1, <2>3 DEF Seen
  <2> QED
    BY <2>2, <2>4
<1>8. s # <<>>
  BY <1>5
<1>9. PICK u : u = Tail(s)
  OBVIOUS
<1>10. u \in Seq(T) /\ Len(u) = n - 1 /\ \A i \in 1..(n - 1) : u[i] = s[i + 1]
  BY <1>5, <1>8, <1>9, HeadTailProperties
<1>11. ASSUME NEW i \in 1..(n - 1) PROVE t[i] = u[i]
  <2>1. PICK j \in 1..(n - 1) : j = n - i
    OBVIOUS
  <2>2. m + 1 - i = j /\ n + 1 - (i + 1) = j /\ i + 1 \in 1..n
    BY <1>6, <2>1
  <2>3. t[i] = Entry(r, q[j]) /\ u[i] = Entry(p, q[j])
    BY <1>2, <1>5, <1>6, <1>7, <1>10, <2>2
  <2> QED
    BY <2>3 DEF Entry
<1>12. t = u
  BY <1>6, <1>7, <1>10, <1>11, SameElements
<1>13. Head(s) = Entry(p, q[n])
  <2>1. 1 \in 1..n /\ n + 1 - 1 = n
    OBVIOUS
  <2>2. s[1] = Entry(p, q[n])
    BY <1>5, <2>1
  <2> QED
    BY <1>5, <1>8, <2>2
<1> QED
  BY <1>1, <1>3, <1>8, <1>9, <1>12, <1>13

(***************************************************************************)
(* The services.                                                           *)
(***************************************************************************)

\* What is known of a store between two commands.
StoreOK(s) == s.list \in ListType /\ s.pobj \in PobjType /\ Chained(s.list, s.pobj)

\* The queue of a store, and that all of its objects are the owner's.
Queued(s) == StoredObjects(s.list, s.pobj)
AllOf(s, owner) ==
  Queued(s) # <<>> /\ \A i \in DOMAIN Queued(s) : Queued(s)[i].owner = owner

\* An object is not an unused block.
LEMMA ObjectsUsed ==
  /\ \A o \in Objects : o # Unused /\ o.refcnt = 1
  /\ \A w \in Others \cup {Bw}, k \in Keys \cup {NoKey} :
       [owner |-> w, key |-> k, refcnt |-> 1] \in Objects
  BY DEF Objects, Unused

\* A new object in front of the others.
LEMMA StoredOK ==
  ASSUME NEW s, StoreOK(s), NEW b \in Block, s.pobj[b] = Unused,
         NEW owner \in Others \cup {Bw}, NEW k \in Keys \cup {NoKey}
  PROVE  /\ StoreOK(Stored(s, b, owner, k))
         /\ Queued(Stored(s, b, owner, k)) = Append(Queued(s), [owner |-> owner, key |-> k])
<1>1. PICK l, p : l = s.list /\ p = s.pobj
  OBVIOUS
<1>2. PICK m : m = TAILQ_INSERT_HEAD(l, b)
  OBVIOUS
<1>3. PICK o \in Objects : o = [owner |-> owner, key |-> k, refcnt |-> 1] /\ o # Unused
  BY ObjectsUsed
<1>4. PICK r : r = [p EXCEPT ![b] = o]
  OBVIOUS
<1>5. Stored(s, b, owner, k) = [list |-> m, pobj |-> r]
  BY <1>1, <1>2, <1>3, <1>4 DEF Stored
<1>6. l \in ListType /\ p \in PobjType /\ p[b] = Unused
  BY <1>1 DEF StoreOK
<1>7. r \in PobjType /\ r[b] = o /\ \A x \in Block : x # b => r[x] = p[x]
  BY <1>4, <1>6 DEF PobjType
<1>8. m \in ListType
  BY <1>2, <1>6 DEF ListType, TAILQ_INSERT_HEAD, Ptr
<1>9. PICK n \in Nat : \E q \in [1..n -> Block] : ChainOf(l, p, n, q)
  BY <1>1 DEF StoreOK, Chained
<1>10. PICK q \in [1..n -> Block] : ChainOf(l, p, n, q)
  BY <1>9
<1>11. Chain(l, Block, NULL, ListHead, n, q) /\ ~Among(b, n, q)
  BY <1>6, <1>10 DEF ChainOf
<1>12. m.first = b /\ m.next[b] = l.first /\ m.prev[b] = ListHead
  BY <1>2, <1>6 DEF TAILQ_INSERT_HEAD, ListType
<1>13. ASSUME NEW i \in 1..n
       PROVE  /\ m.next[q[i]] = l.next[q[i]]
              /\ m.prev[q[i]] = IF i = 1 THEN b ELSE l.prev[q[i]]
  <2>1. PICK x \in Block : x = q[i] /\ x # b
    BY <1>11 DEF Among
  <2>2. x = l.first <=> i = 1
    BY <1>11, <2>1 DEF Chain
  <2>3. /\ m.next[x] = l.next[x]
        /\ m.prev[x] = IF x = l.first THEN b ELSE l.prev[x]
    BY <1>2, <1>6, <2>1 DEF TAILQ_INSERT_HEAD, ListType
  <2> QED
    BY <2>1, <2>2, <2>3
<1>14. PICK q2 : q2 = InFront(b, n, q)
  OBVIOUS
<1>15. /\ Chain(m, Block, NULL, ListHead, n + 1, q2)
       /\ \A x : Among(x, n + 1, q2) <=> x = b \/ Among(x, n, q)
  <2>1. Pushed(l, m, ListHead, n, q, b)
    BY <1>12, <1>13 DEF Pushed
  <2> QED
    BY <1>11, <1>14, <2>1, ChainInserted
<1>16. \A x \in Block : Among(x, n + 1, q2) <=> r[x] # Unused
  BY <1>3, <1>7, <1>10, <1>15 DEF ChainOf
<1>17. Chained(m, r)
  <2>1. n + 1 \in Nat /\ q2 \in [1..(n + 1) -> Block] /\ ChainOf(m, r, n + 1, q2)
    BY <1>15, <1>16 DEF Chain, ChainOf
  <2> QED
    BY <2>1 DEF Chained
<1>18. StoredObjects(m, r) = Append(StoredObjects(l, p), [owner |-> owner, key |-> k])
  <2>1. StoredObjects(l, p) = Seen(p, n, q)
    BY <1>11, ObjectsSeen
  <2>2. PICK j \in Nat : j = n + 1
    OBVIOUS
  <2>3. StoredObjects(m, r) = Seen(r, j, q2)
    BY <1>15, <2>2, ObjectsSeen
  <2>4. \A i \in 1..n : r[q[i]] = p[q[i]]
    BY <1>7, <1>11 DEF Among
  <2>5. Seen(r, n + 1, InFront(b, n, q)) = Append(Seen(p, n, q), Entry(r, b))
    BY <2>4, SeenGrows
  <2>6. Entry(r, b) = [owner |-> owner, key |-> k]
    BY <1>3, <1>7 DEF Entry
  <2> QED
    BY <1>14, <2>1, <2>2, <2>3, <2>5, <2>6
<1>19. StoreOK([list |-> m, pobj |-> r])
  BY <1>7, <1>8, <1>17 DEF StoreOK
<1>20. Queued([list |-> m, pobj |-> r]) = StoredObjects(m, r) /\ Queued(s) = StoredObjects(l, p)
  BY <1>1 DEF Queued
<1> QED
  BY <1>5, <1>18, <1>19, <1>20

\* Unlinking keeps the type of the list, whatever the links of the block are.
LEMMA RemovedType ==
  ASSUME NEW l \in ListType, NEW b \in Block
  PROVE  TAILQ_REMOVE(l, b) \in ListType /\ Wiped(l, b) \in ListType
  BY DEF ListType, TAILQ_REMOVE, Wiped, Ptr

\* Of a chained list the k-th block is unlinked, and its memory freed: the others
\* remain.  m is what is done to the links of the others.
LEMMA ChainFreed ==
  ASSUME NEW l \in ListType, NEW p \in PobjType, NEW n \in Nat, NEW q \in [1..n -> Block],
         ChainOf(l, p, n, q), NEW k \in 1..n, NEW m,
         m.first = TAILQ_REMOVE(l, q[k]).first,
         \A x \in Block \ {q[k]} : /\ m.next[x] = TAILQ_REMOVE(l, q[k]).next[x]
                                   /\ m.prev[x] = TAILQ_REMOVE(l, q[k]).prev[x]
  PROVE  /\ Chained(m, [p EXCEPT ![q[k]] = Unused])
         /\ k = n => StoredObjects(m, [p EXCEPT ![q[k]] = Unused]) = Tail(StoredObjects(l, p))
<1>1. PICK b \in Block : b = q[k]
  OBVIOUS
<1>2. Chain(l, Block, NULL, ListHead, n, q)
  BY DEF ChainOf
<1>3. /\ \A i, j \in 1..n : q[i] = q[j] => i = j
      /\ NULL \notin Block /\ ListHead \notin Block
      /\ l.next[b] = IF k = n THEN NULL ELSE q[k + 1]
      /\ l.prev[b] = IF k = 1 THEN ListHead ELSE q[k - 1]
  BY <1>1, <1>2, WalletAssumption DEF Chain
<1>4. m.first = IF k = 1 THEN l.next[b] ELSE l.first
  BY <1>1, <1>3 DEF TAILQ_REMOVE
<1>5. ASSUME NEW i \in 1..n, i # k
      PROVE  /\ m.next[q[i]] = IF i = k - 1 THEN l.next[b] ELSE l.next[q[i]]
             /\ m.prev[q[i]] = IF i = k + 1 THEN l.prev[b] ELSE l.prev[q[i]]
  <2>1. PICK x \in Block \ {b} : x = q[i]
    BY <1>1, <1>3, <1>5
  <2>2. x = l.prev[b] <=> i = k - 1
    BY <1>3, <2>1
  <2>3. x = l.next[b] <=> i = k + 1
    BY <1>3, <2>1
  <2>4. /\ m.next[x] = IF x = l.prev[b] THEN l.next[b] ELSE l.next[x]
        /\ m.prev[x] = IF x = l.next[b] THEN l.prev[b] ELSE l.prev[x]
    BY <1>1 DEF TAILQ_REMOVE
  <2> QED
    BY <2>1, <2>2, <2>3, <2>4
<1>6. PICK q2 : q2 = Without(k, n, q)
  OBVIOUS
<1>7. /\ Chain(m, Block, NULL, ListHead, n - 1, q2)
      /\ \A x : Among(x, n - 1, q2) <=> x # b /\ Among(x, n, q)
  <2>1. Unlinked(l, m, n, q, k)
    BY <1>1, <1>4, <1>5 DEF Unlinked
  <2>2. /\ Chain(m, Block, NULL, ListHead, n - 1, Without(k, n, q))
        /\ \A x : Among(x, n - 1, Without(k, n, q)) <=> x # q[k] /\ Among(x, n, q)
    BY <1>2, <2>1, ChainRemoved
  <2> QED
    BY <1>1, <1>6, <2>2
<1>8. PICK r : r = [p EXCEPT ![b] = Unused]
  OBVIOUS
<1>9. r[b] = Unused /\ \A x \in Block : x # b => r[x] = p[x]
  BY <1>8 DEF PobjType
<1>10. \A x \in Block : Among(x, n - 1, q2) <=> r[x] # Unused
  BY <1>7, <1>9 DEF ChainOf
<1>11. n - 1 \in Nat /\ q2 \in [1..(n - 1) -> Block] /\ ChainOf(m, r, n - 1, q2)
  BY <1>7, <1>10 DEF Chain, ChainOf
<1>12. ASSUME k = n PROVE StoredObjects(m, r) = Tail(StoredObjects(l, p))
  <2>1. StoredObjects(l, p) = Seen(p, n, q)
    BY <1>2, ObjectsSeen
  <2>2. PICK j \in Nat : j = n - 1
    BY <1>11
  <2>3. StoredObjects(m, r) = Seen(r, j, q2)
    BY <1>7, <2>2, ObjectsSeen
  <2>4. \A i \in 1..(n - 1) : r[q[i]] = p[q[i]]
    BY <1>1, <1>3, <1>9, <1>12
  <2>5. n \in Nat \ {0}
    OBVIOUS
  <2>6. Seen(r, n - 1, Without(n, n, q)) = Tail(Seen(p, n, q))
    BY <2>4, <2>5, SeenShrinks
  <2> QED
    BY <1>6, <1>12, <2>1, <2>2, <2>3, <2>6
<1>13. Chained(m, r)
  BY <1>11 DEF Chained
<1> QED
  BY <1>1, <1>8, <1>12, <1>13

\* An object is released, with or without having been unlinked before: it is gone,
\* and the list of the others is well linked.
LEMMA ReleasedOK ==
  ASSUME NEW s, StoreOK(s), NEW b \in Block, s.pobj[b] # Unused
  PROVE  /\ StoreOK(tee_pobj_release(s, b))
         /\ s.list.next[b] = NULL => Queued(tee_pobj_release(s, b)) = Tail(Queued(s))
         /\ s = [list |-> s.list, pobj |-> s.pobj] =>
              /\ StoreOK(utee_storage_obj_del(s, b))
              /\ s.list.next[b] = NULL =>
                   Queued(utee_storage_obj_del(s, b)) = Tail(Queued(s))
<1>1. PICK l, p : l = s.list /\ p = s.pobj
  OBVIOUS
<1>2. l \in ListType /\ p \in PobjType /\ p[b] # Unused
  BY <1>1 DEF StoreOK
<1>3. p[b].refcnt = 1
  BY <1>2, ObjectsUsed DEF PobjType
<1>4. PICK r : r = [p EXCEPT ![b] = Unused]
  OBVIOUS
<1>5. r \in PobjType
  BY <1>2, <1>4 DEF PobjType
<1>6. PICK n \in Nat : \E q \in [1..n -> Block] : ChainOf(l, p, n, q)
  BY <1>1 DEF StoreOK, Chained
<1>7. PICK q \in [1..n -> Block] : ChainOf(l, p, n, q)
  BY <1>6
<1>8. PICK k \in 1..n : b = q[k]
  BY <1>2, <1>7 DEF ChainOf, Among
<1>9. PICK m : m = TAILQ_REMOVE(l, b)
  OBVIOUS
<1>10. m \in ListType
  BY <1>2, <1>9, RemovedType
<1>11. ASSUME NEW u \in ListType, u.first = m.first,
              \A x \in Block \ {b} : u.next[x] = m.next[x] /\ u.prev[x] = m.prev[x]
       PROVE  /\ Chained(u, r)
              /\ l.next[b] = NULL => StoredObjects(u, r) = Tail(StoredObjects(l, p))
  <2>1. l.next[b] = NULL => k = n
    BY <1>7, <1>8, WalletAssumption DEF ChainOf, Chain
  <2>2. /\ Chained(u, r)
        /\ k = n => StoredObjects(u, r) = Tail(StoredObjects(l, p))
    BY <1>2, <1>4, <1>7, <1>8, <1>9, <1>11, ChainFreed
  <2> QED
    BY <2>1, <2>2
<1>12. ASSUME NEW u \in ListType
       PROVE  /\ Wiped(u, b) \in ListType
              /\ Wiped(u, b).first = u.first
              /\ \A x \in Block \ {b} : /\ Wiped(u, b).next[x] = u.next[x]
                                        /\ Wiped(u, b).prev[x] = u.prev[x]
  BY DEF Wiped, ListType, Ptr
<1>13. /\ StoreOK(tee_pobj_release(s, b))
       /\ l.next[b] = NULL => Queued(tee_pobj_release(s, b)) = Tail(Queued(s))
  <2>1. tee_pobj_release(s, b) = [list |-> Wiped(m, b), pobj |-> r]
    BY <1>1, <1>3, <1>4, <1>9 DEF tee_pobj_release
  <2>2. /\ Wiped(m, b) \in ListType /\ Chained(Wiped(m, b), r)
        /\ l.next[b] = NULL => StoredObjects(Wiped(m, b), r) = Tail(StoredObjects(l, p))
    BY <1>10, <1>11, <1>12
  <2> QED
    BY <1>1, <1>5, <2>1, <2>2 DEF StoreOK, Queued
<1>14. ASSUME s = [list |-> l, pobj |-> p]
       PROVE  /\ StoreOK(utee_storage_obj_del(s, b))
              /\ l.next[b] = NULL => Queued(utee_storage_obj_del(s, b)) = Tail(Queued(s))
  <2>1. PICK u : u = TAILQ_REMOVE(m, b)
    OBVIOUS
  <2>2. utee_storage_obj_del(s, b) = [list |-> Wiped(u, b), pobj |-> r]
    <3>1. [s EXCEPT !.list = TAILQ_REMOVE(@, b)] = [list |-> m, pobj |-> p]
      BY <1>9, <1>14
    <3> QED
      BY <1>3, <1>4, <2>1, <3>1 DEF utee_storage_obj_del, tee_pobj_release
  <2>3. u \in ListType
    BY <1>10, <2>1, RemovedType
  <2>4. m.next[b] = l.next[b] /\ m.prev[b] = l.prev[b]
    <3>1. l.prev[b] # b /\ l.next[b] # b
      BY <1>7, <1>8, WalletAssumption DEF ChainOf, Chain
    <3> QED
      BY <1>2, <1>9, <3>1 DEF TAILQ_REMOVE, ListType
  <2>5. u.first = m.first
    BY <1>9, <2>1, <2>4 DEF TAILQ_REMOVE
  <2>6. ASSUME NEW x \in Block PROVE u.next[x] = m.next[x] /\ u.prev[x] = m.prev[x]
    BY <1>9, <2>1, <2>4 DEF TAILQ_REMOVE
  <2>7. /\ Wiped(u, b) \in ListType /\ Chained(Wiped(u, b), r)
        /\ l.next[b] = NULL => StoredObjects(Wiped(u, b), r) = Tail(StoredObjects(l, p))
    BY <1>11, <1>12, <2>3, <2>5, <2>6
  <2> QED
    BY <1>1, <1>5, <2>2, <2>7 DEF StoreOK, Queued
<1> QED
  BY <1>1, <1>13, <1>14

\* What is found is an object, and the front of a queue of the owner's objects.
LEMMA FoundOK ==
  ASSUME NEW s, StoreOK(s), NEW owner, Found(s, owner) # NULL
  PROVE  /\ Found(s, owner) \in Block /\ s.pobj[Found(s, owner)] # Unused
         /\ s.list.next[Found(s, owner)] = NULL
         /\ AllOf(s, owner) /\ Head(Queued(s)).key = s.pobj[Found(s, owner)].key
<1>1. PICK l, p : l = s.list /\ p = s.pobj
  OBVIOUS
<1>2. PICK n \in Nat : \E q \in [1..n -> Block] : ChainOf(l, p, n, q)
  BY <1>1 DEF StoreOK, Chained
<1>3. PICK q \in [1..n -> Block] : ChainOf(l, p, n, q)
  BY <1>2
<1>4. Chain(l, Block, NULL, ListHead, n, q)
  BY <1>3 DEF ChainOf
<1>5. \A b : b \in Linked(l) <=> Among(b, n, q)
  BY <1>4, LinkedBlocks
<1>6. l.first # NULL /\ Found(s, owner) = CHOOSE b \in Linked(l) : l.next[b] = NULL
  BY <1>1 DEF Found
<1>7. n # 0
  BY <1>4, <1>6 DEF Chain
<1>8. q[n] \in Linked(l) /\ l.next[q[n]] = NULL
  <2>1. Among(q[n], n, q)
    BY <1>7 DEF Among
  <2> QED
    BY <1>4, <1>5, <1>7, <2>1 DEF Chain
<1>9. PICK b : b = Found(s, owner)
  OBVIOUS
<1>10. b \in Linked(l) /\ l.next[b] = NULL
  BY <1>6, <1>8, <1>9
<1>11. b \in Block /\ p[b] # Unused
  BY <1>3, <1>5, <1>10 DEF ChainOf, Among
<1>12. b = q[n]
  <2>1. PICK i \in 1..n : q[i] = b
    BY <1>5, <1>10 DEF Among
  <2> QED
    BY <1>4, <1>10, <2>1, WalletAssumption DEF Chain
<1>13. Queued(s) = Seen(p, n, q)
  BY <1>1, <1>4, ObjectsSeen DEF Queued
<1>14. Queued(s) # <<>> /\ Head(Queued(s)) = Entry(p, b)
  <2>1. n \in Nat \ {0}
    BY <1>7
  <2>2. \A i \in 1..(n - 1) : p[q[i]] = p[q[i]]
    OBVIOUS
  <2> QED
    BY <1>12, <1>13, <2>1, <2>2, SeenShrinks
<1>15. \A i \in DOMAIN Queued(s) : Queued(s)[i].owner = owner
  <2>1. \A x \in Linked(l) : p[x].owner = owner
    BY <1>1 DEF Found
  <2>2. DOMAIN Queued(s) = 1..n
    BY <1>13 DEF Seen
  <2>3. ASSUME NEW i \in 1..n PROVE Queued(s)[i].owner = owner
    <3>1. Queued(s)[i] = Entry(p, q[n + 1 - i])
      BY <1>13 DEF Seen
    <3>2. q[n + 1 - i] \in Linked(l)
      <4>1. n + 1 - i \in 1..n
        OBVIOUS
      <4> QED
        BY <1>5, <4>1 DEF Among
    <3> QED
      BY <2>1, <3>1, <3>2 DEF Entry
  <2> QED
    BY <2>2, <2>3
<1>16. Head(Queued(s)).key = p[b].key
  BY <1>14 DEF Entry
<1> QED
  BY <1>1, <1>9, <1>10, <1>11, <1>14, <1>15, <1>16 DEF AllOf

\* Every outcome of an open leaves a sound store, and an object that is open is
\* in it, in front of the queue.  Without one the front of the queue may be lost.
LEMMA OpenOK ==
  ASSUME NEW s, StoreOK(s), NEW owner, NEW o \in utee_storage_obj_open(s, owner)
  PROVE  /\ StoreOK(o.store)
         /\ o.obj # NULL => /\ o.obj \in Block /\ o.store = s
                            /\ s.pobj[o.obj] # Unused /\ s.list.next[o.obj] = NULL
                            /\ AllOf(s, owner)
                            /\ Head(Queued(s)).key = s.pobj[o.obj].key
         /\ \/ o.store = s
            \/ o.obj = NULL /\ AllOf(s, owner) /\ Queued(o.store) = Tail(Queued(s))
<1>1. PICK b : b = Found(s, owner)
  OBVIOUS
<1>2. b # NULL => /\ b \in Block /\ s.pobj[b] # Unused /\ s.list.next[b] = NULL
                  /\ AllOf(s, owner) /\ Head(Queued(s)).key = s.pobj[b].key
  BY <1>1, FoundOK
<1>3. CASE o = [obj |-> b, store |-> s]
  BY <1>2, <1>3
<1>4. CASE b # NULL /\ o = [obj |-> NULL, store |-> tee_pobj_release(s, b)]
  BY <1>2, <1>4, ReleasedOK
<1> QED
  BY <1>1, <1>3, <1>4 DEF utee_storage_obj_open

(***************************************************************************)
(* The commands.                                                           *)
(***************************************************************************)

Answers == {"none", "found", "unset"}

\* The store between two commands is sound.
LEMMA StoreSound ==
  ASSUME WalletInv, phase = "run"
  PROVE  StoreOK(Store) /\ Store = [list |-> Store.list, pobj |-> Store.pobj]
  BY DEF WalletInv, TypeOK, StoreOK, Store, ListType, PobjType

\* A command that is served leaves the store s.
LEMMA ServedKeeps ==
  ASSUME NEW s, StoreOK(s), NEW c \in Commands, NEW a \in Answers, NEW k \in Keys \cup {NoKey},
         Served(c, s, a, k)
  PROVE  WalletInv'
  BY DEF WalletInv, TypeOK, StoreOK, Served, ListType, PobjType, Answers

\* A command that stops the secure world.
LEMMA StopsKeeps ==
  ASSUME NEW s, StoreOK(s), NEW c \in Commands, NEW how \in {"stopped", "undefined"},
         Stops(c, s, how)
  PROVE  WalletInv'
  BY DEF WalletInv, TypeOK, StoreOK, Stops, ListType, PobjType

\* Storing an object, by the wallet or by another TA.
LEMMA CreatesKeeps ==
  ASSUME WalletInv, phase = "run", NEW c \in Commands, NEW owner \in Others \cup {Bw},
         NEW k \in Keys \cup {NoKey}, Creates(c, owner, k)
  PROVE  WalletInv'
<1>1. StoreOK(Store)
  BY StoreSound
<1>2. CASE \E b \in FreeBlocks : Served(c, Stored(Store, b, owner, k), "none", NoKey)
  <2>1. PICK b \in FreeBlocks : Served(c, Stored(Store, b, owner, k), "none", NoKey)
    BY <1>2
  <2>2. b \in Block /\ Store.pobj[b] = Unused
    BY DEF FreeBlocks, Store
  <2>3. StoreOK(Stored(Store, b, owner, k))
    BY <1>1, <2>2, StoredOK
  <2> QED
    BY <2>1, <2>3, ServedKeeps DEF Answers
<1>3. CASE Served(c, Store, "none", NoKey)
  BY <1>1, <1>3, ServedKeeps DEF Answers
<1>4. CASE Stops(c, Store, "undefined")
  BY <1>1, <1>4, StopsKeeps
<1> QED
  BY <1>2, <1>3, <1>4 DEF Creates

\* Signing and asking for an address.
LEMMA UsesKeeps ==
  ASSUME WalletInv, phase = "run", NEW c \in Commands, UsesKey(c)
  PROVE  WalletInv'
<1>1. StoreOK(Store)
  BY StoreSound
<1>2. PICK o \in utee_storage_obj_open(Store, Bw) :
        IF o.obj = NULL
        THEN Stops(c, o.store, "stopped")
        ELSE \E p \in utee_storage_obj_open(o.store, Bw) :
               IF p.obj = NULL
               THEN Stops(c, p.store, "stopped")
               ELSE \/ Served(c, p.store, "none", p.store.pobj[p.obj].key)
                    \/ Shortage /\ Stops(c, p.store, "stopped")
  BY DEF UsesKey
<1>3. StoreOK(o.store)
  BY <1>1, OpenOK
<1>4. CASE o.obj = NULL
  BY <1>2, <1>3, <1>4, StopsKeeps
<1>5. CASE o.obj # NULL
  <2>1. PICK p \in utee_storage_obj_open(o.store, Bw) :
          IF p.obj = NULL
          THEN Stops(c, p.store, "stopped")
          ELSE \/ Served(c, p.store, "none", p.store.pobj[p.obj].key)
               \/ Shortage /\ Stops(c, p.store, "stopped")
    BY <1>2, <1>5
  <2>2. StoreOK(p.store)
    BY <1>3, OpenOK
  <2>3. CASE Stops(c, p.store, "stopped")
    BY <2>2, <2>3, StopsKeeps
  <2>4. CASE p.obj # NULL /\ Served(c, p.store, "none", p.store.pobj[p.obj].key)
    <3>1. p.obj \in Block /\ p.store.pobj \in PobjType
      BY <1>3, <2>2, <2>4, OpenOK DEF StoreOK
    <3>2. p.store.pobj[p.obj] \in Objects \cup {Unused}
      BY <3>1 DEF PobjType
    <3>3. p.store.pobj[p.obj].key \in Keys \cup {NoKey}
      BY <3>2 DEF Objects, Unused
    <3> QED
      BY <2>2, <2>4, <3>3, ServedKeeps DEF Answers
  <2> QED
    BY <2>1, <2>3, <2>4
<1> QED
  BY <1>4, <1>5

\* Erasing: the object is unlinked twice.
LEMMA EraseKeeps ==
  ASSUME WalletInv, erase_masterkey
  PROVE  WalletInv'
<1>1. phase = "run" /\ StoreOK(Store) /\ Store = [list |-> Store.list, pobj |-> Store.pobj]
  BY StoreSound DEF erase_masterkey
<1>2. PICK o \in utee_storage_obj_open(Store, Bw) :
        IF o.obj = NULL
        THEN Served("erase", o.store, "none", NoKey)
        ELSE Served("erase", utee_storage_obj_del(o.store, o.obj), "found", NoKey)
  BY DEF erase_masterkey
<1>3. "erase" \in Commands /\ "none" \in Answers /\ "found" \in Answers
  BY DEF Commands, Answers
<1>4. CASE o.obj = NULL
  <2>1. StoreOK(o.store)
    BY <1>1, OpenOK
  <2> QED
    BY <1>2, <1>3, <1>4, <2>1, ServedKeeps
<1>5. CASE o.obj # NULL
  <2>1. o.store = Store /\ o.obj \in Block /\ Store.pobj[o.obj] # Unused
    BY <1>1, <1>5, OpenOK
  <2>2. StoreOK(utee_storage_obj_del(Store, o.obj))
    BY <1>1, <2>1, ReleasedOK
  <2> QED
    BY <1>2, <1>3, <1>5, <2>1, <2>2, ServedKeeps
<1> QED
  BY <1>4, <1>5

\* Asking whether there is a master key.
LEMMA CheckKeeps ==
  ASSUME WalletInv, check_masterkey
  PROVE  WalletInv'
<1>1. PICK o \in utee_storage_obj_open(Store, Bw) :
        \E a \in IF o.obj = NULL THEN {"none"} ELSE {"found", "unset"} :
          Served("check", o.store, a, NoKey)
  BY DEF check_masterkey
<1>2. PICK a \in Answers : Served("check", o.store, a, NoKey)
  BY <1>1 DEF Answers
<1>3. StoreOK(o.store)
  BY StoreSound, OpenOK DEF check_masterkey
<1>4. "check" \in Commands
  BY DEF Commands
<1> QED
  BY <1>2, <1>3, <1>4, ServedKeeps

\* Every step keeps the invariant.
LEMMA WalletSteps == WalletInv /\ [Next]_vars => WalletInv'
<1> SUFFICES ASSUME WalletInv, [Next]_vars PROVE WalletInv'
  OBVIOUS
<1>1. CASE UNCHANGED vars
  BY <1>1 DEF vars, WalletInv, TypeOK
<1>2. ASSUME NEW c \in Commands \ {"none", "other"}, WrongPin(c) PROVE WalletInv'
  BY <1>2, StoreSound, ServedKeeps DEF WrongPin, Answers
<1>3. ASSUME NEW k \in Keys, generate_new_masterkey(k) \/ mnemonic_to_masterkey(k)
      PROVE  WalletInv'
  <2>1. {"generate", "import"} \subseteq Commands
    BY DEF Commands
  <2> QED
    BY <1>3, <2>1, CreatesKeeps DEF generate_new_masterkey, mnemonic_to_masterkey
<1>4. CASE sign_transaction \/ get_bitcoin_address
  <2>1. {"sign", "address"} \subseteq Commands
    BY DEF Commands
  <2> QED
    BY <1>4, <2>1, UsesKeeps DEF sign_transaction, get_bitcoin_address
<1>5. ASSUME NEW t \in Others, OtherStores(t) PROVE WalletInv'
  <2>1. "other" \in Commands
    BY DEF Commands
  <2> QED
    BY <1>5, <2>1, CreatesKeeps DEF OtherStores
<1>6. CASE Halted
  BY <1>1, <1>6 DEF Halted
<1> QED
  BY <1>1, <1>2, <1>3, <1>4, <1>5, <1>6, CheckKeeps, EraseKeeps DEF Next

\* In the beginning the list is empty.
LEMMA WalletStarts == Init => WalletInv
<1> SUFFICES ASSUME Init PROVE WalletInv
  OBVIOUS
<1>1. TypeOK
  BY DEF Init, TypeOK, Ptr, Commands
<1>2. PICK q \in [1..0 -> Block] : TRUE
  <2>1. [i \in 1..0 |-> NULL] \in [1..0 -> Block]
    OBVIOUS
  <2> QED
    BY <2>1
<1>3. ChainOf(list, pobj, 0, q)
  BY DEF Init, ChainOf, Chain, Among
<1> QED
  BY <1>1, <1>3 DEF WalletInv, Chained

\* The persistent objects stay in a chain, from any sequence of commands and
\* failed allocations (tee_svc_storage.c, tee_pobj.c).
THEOREM Wallets == Spec => []WalletInv
  BY WalletStarts, WalletSteps, PTL DEF Spec

\* No link of the object list, no reference count and no answer is ever outside
\* its type (tee_pobj.c, tee_svc_storage.c).
THEOREM WalletTypes == Spec => []TypeOK
<1>1. WalletInv => TypeOK
  BY DEF WalletInv
<1> QED
  BY <1>1, Wallets, PTL

\* For every number of objects the list holds exactly the objects in memory, each
\* once, and can be walked both ways, although utee_storage_obj_del unlinks an
\* object twice and a failed utee_storage_obj_open the one it found.
THEOREM WalletList == Spec => []ListIsStore
<1>1. ASSUME WalletInv PROVE ListIsStore
  <2> SUFFICES ASSUME phase = "run"
               PROVE  /\ Linked(list) = {b \in Block : pobj[b] # Unused}
                      /\ Nth(list)[Cardinality(Linked(list)) + 1] = NULL
                      /\ list.first # NULL => list.prev[list.first] = ListHead
                      /\ \A b \in Linked(list) :
                           list.next[b] # NULL => list.prev[list.next[b]] = b
    BY DEF ListIsStore
  <2>1. PICK n \in Nat : \E q \in [1..n -> Block] : ChainOf(list, pobj, n, q)
    BY <1>1 DEF WalletInv, Chained
  <2>2. PICK q \in [1..n -> Block] : ChainOf(list, pobj, n, q)
    BY <2>1
  <2>3. Chain(list, Block, NULL, ListHead, n, q)
    BY <2>2 DEF ChainOf
  <2>4. /\ \A b : b \in Linked(list) <=> Among(b, n, q)
        /\ Cardinality(Linked(list)) = n
        /\ Nth(list)[n + 1] = NULL
    BY <2>3, LinkedBlocks
  <2>5. Linked(list) = {b \in Block : pobj[b] # Unused}
    BY <2>2, <2>4 DEF ChainOf, Among
  <2>6. list.first # NULL => list.prev[list.first] = ListHead
    BY <2>3 DEF Chain
  <2>7. ASSUME NEW b \in Linked(list), list.next[b] # NULL PROVE list.prev[list.next[b]] = b
    <3>1. PICK i \in 1..n : q[i] = b
      BY <2>4 DEF Among
    <3>2. i # n /\ list.next[b] = q[i + 1] /\ i + 1 \in 1..n
      BY <2>3, <2>7, <3>1 DEF Chain
    <3>3. list.prev[q[i + 1]] = q[(i + 1) - 1]
      BY <2>3, <3>2 DEF Chain
    <3> QED
      BY <3>1, <3>2, <3>3
  <2> QED
    BY <2>4, <2>5, <2>6, <2>7
<1> QED
  BY <1>1, Wallets, PTL
(***************************************************************************)
(* The storage implements KeyStore.                                        *)
(***************************************************************************)

Objs == StoredObjects(list, pobj)
Erased == cmd = "erase" /\ answer = "found"

\* What KeyStore sees of a command that is served or stops the secure world.
LEMMA ServedSeen ==
  ASSUME NEW s, NEW c, NEW a, NEW k, Served(c, s, a, k)
  PROVE  /\ Objs' = Queued(s) /\ used' = k /\ phase' = "run"
         /\ Erased' = (c = "erase" /\ a = "found")
  BY DEF Served, Objs, Queued, Erased

LEMMA StopsSeen ==
  ASSUME NEW s, NEW c, NEW how \in {"stopped", "undefined"}, Stops(c, s, how)
  PROVE  Objs' = Queued(s) /\ used' = NoKey /\ phase' # "run" /\ Erased' = FALSE
  BY DEF Stops, Objs, Queued, Erased

\* The queue between two commands.
LEMMA StoreSeen ==
  /\ Queued(Store) = Objs
  /\ AllOf(Store, Bw) <=> Queue!Visible
  BY DEF Queued, Store, Objs, AllOf, Queue!Visible

\* Storing an object.
LEMMA CreatesSeen ==
  ASSUME WalletInv, phase = "run", NEW c \in Commands \ {"erase"},
         NEW owner \in Others \cup {Bw}, NEW k \in Keys \cup {NoKey}, Creates(c, owner, k)
  PROVE  /\ used' = NoKey /\ Erased' = FALSE
         /\ \/ phase' = "run" /\ Objs' = Append(Objs, [owner |-> owner, key |-> k])
            \/ phase' = "run" /\ Objs' = Objs
            \/ phase' # "run" /\ Objs' = Objs
<1>1. StoreOK(Store) /\ Queued(Store) = Objs
  BY StoreSound, StoreSeen
<1>2. CASE \E b \in FreeBlocks : Served(c, Stored(Store, b, owner, k), "none", NoKey)
  <2>1. PICK b \in FreeBlocks : Served(c, Stored(Store, b, owner, k), "none", NoKey)
    BY <1>2
  <2>2. b \in Block /\ Store.pobj[b] = Unused
    BY DEF FreeBlocks, Store
  <2>3. Queued(Stored(Store, b, owner, k)) = Append(Queued(Store), [owner |-> owner, key |-> k])
    BY <1>1, <2>2, StoredOK
  <2>4. /\ Objs' = Queued(Stored(Store, b, owner, k)) /\ used' = NoKey /\ phase' = "run"
        /\ Erased' = FALSE
    BY <2>1, ServedSeen
  <2> QED
    BY <1>1, <2>3, <2>4
<1>3. CASE Served(c, Store, "none", NoKey)
  BY <1>1, <1>3, ServedSeen
<1>4. CASE Stops(c, Store, "undefined")
  BY <1>1, <1>4, StopsSeen
<1> QED
  BY <1>2, <1>3, <1>4 DEF Creates

\* What a command of the wallet does to the queue: it uses the front, takes it,
\* loses it, or leaves the queue alone.
Serves ==
  \/ Queue!Use \/ Queue!Erase \/ Queue!Lose \/ Queue!Nothing \/ Queue!Stop

\* Signing and asking for an address.
LEMMA UsesSeen ==
  ASSUME WalletInv, phase = "run", NEW c \in {"sign", "address"}, UsesKey(c)
  PROVE  Serves
<1>1. StoreOK(Store) /\ Queued(Store) = Objs /\ (AllOf(Store, Bw) <=> Queue!Visible)
  BY StoreSound, StoreSeen
<1>2. PICK o \in utee_storage_obj_open(Store, Bw) :
        IF o.obj = NULL
        THEN Stops(c, o.store, "stopped")
        ELSE \E p \in utee_storage_obj_open(o.store, Bw) :
               IF p.obj = NULL
               THEN Stops(c, p.store, "stopped")
               ELSE \/ Served(c, p.store, "none", p.store.pobj[p.obj].key)
                    \/ Shortage /\ Stops(c, p.store, "stopped")
  BY DEF UsesKey
<1>3. ASSUME NEW p \in utee_storage_obj_open(Store, Bw), Stops(c, p.store, "stopped")
      PROVE  Serves
  <2>1. p.store = Store \/ (AllOf(Store, Bw) /\ Queued(p.store) = Tail(Queued(Store)))
    BY <1>1, OpenOK
  <2>2. Objs' = Queued(p.store) /\ used' = NoKey /\ phase' # "run" /\ Erased' = FALSE
    BY <1>3, StopsSeen
  <2>3. Objs' = Objs \/ (Queue!Visible /\ Objs' = Tail(Objs))
    BY <1>1, <2>1, <2>2
  <2>4. Queue!Stop
    BY <2>2, <2>3 DEF Queue!Stop, Objs, Erased
  <2> QED
    BY <2>4 DEF Serves
<1>4. CASE o.obj = NULL
  BY <1>2, <1>3, <1>4
<1>5. CASE o.obj # NULL
  <2>1. o.store = Store
    BY <1>1, <1>5, OpenOK
  <2>2. PICK p \in utee_storage_obj_open(Store, Bw) :
          IF p.obj = NULL
          THEN Stops(c, p.store, "stopped")
          ELSE \/ Served(c, p.store, "none", p.store.pobj[p.obj].key)
               \/ Shortage /\ Stops(c, p.store, "stopped")
    BY <1>2, <1>5, <2>1
  <2>3. CASE Stops(c, p.store, "stopped")
    BY <1>3, <2>3
  <2>4. CASE p.obj # NULL /\ Served(c, p.store, "none", p.store.pobj[p.obj].key)
    <3>1. /\ p.store = Store /\ AllOf(Store, Bw)
          /\ Head(Queued(Store)).key = Store.pobj[p.obj].key
      BY <1>1, <2>4, OpenOK
    <3>2. /\ Objs' = Queued(Store) /\ used' = Store.pobj[p.obj].key /\ phase' = "run"
          /\ Erased' = FALSE
      BY <2>4, <3>1, ServedSeen
    <3>3. Queue!Visible /\ Objs' = Objs /\ used' = Head(Objs).key
      BY <1>1, <3>1, <3>2
    <3>4. Queue!Use
      BY <3>2, <3>3 DEF Queue!Use, Objs, Erased
    <3> QED
      BY <3>4 DEF Serves
  <2> QED
    BY <2>2, <2>3, <2>4
<1> QED
  BY <1>4, <1>5

\* An open without an object, after which the command reports nothing.
LEMMA OpenSeen ==
  ASSUME WalletInv, phase = "run", NEW o \in utee_storage_obj_open(Store, Bw),
         NEW c, NEW a, Served(c, o.store, a, NoKey), ~(c = "erase" /\ a = "found")
  PROVE  Serves
<1>1. StoreOK(Store) /\ Queued(Store) = Objs /\ (AllOf(Store, Bw) <=> Queue!Visible)
  BY StoreSound, StoreSeen
<1>2. o.store = Store \/ (AllOf(Store, Bw) /\ Queued(o.store) = Tail(Queued(Store)))
  BY <1>1, OpenOK
<1>3. Objs' = Queued(o.store) /\ used' = NoKey /\ phase' = "run" /\ Erased' = FALSE
  BY ServedSeen
<1>4. CASE o.store = Store
  <2>1. Queue!Nothing
    BY <1>1, <1>3, <1>4 DEF Queue!Nothing, Objs, Erased
  <2> QED
    BY <2>1 DEF Serves
<1>5. CASE AllOf(Store, Bw) /\ Queued(o.store) = Tail(Queued(Store))
  <2>1. Queue!Lose
    BY <1>1, <1>3, <1>5 DEF Queue!Lose, Objs, Erased
  <2> QED
    BY <2>1 DEF Serves
<1> QED
  BY <1>2, <1>4, <1>5

\* Erasing takes the front of the queue.
LEMMA EraseSeen ==
  ASSUME WalletInv, erase_masterkey
  PROVE  Serves
<1>1. /\ phase = "run" /\ StoreOK(Store) /\ Store = [list |-> Store.list, pobj |-> Store.pobj]
      /\ Queued(Store) = Objs /\ (AllOf(Store, Bw) <=> Queue!Visible)
  BY StoreSound, StoreSeen DEF erase_masterkey
<1>2. PICK o \in utee_storage_obj_open(Store, Bw) :
        IF o.obj = NULL
        THEN Served("erase", o.store, "none", NoKey)
        ELSE Served("erase", utee_storage_obj_del(o.store, o.obj), "found", NoKey)
  BY DEF erase_masterkey
<1>3. CASE o.obj = NULL
  BY <1>1, <1>2, <1>3, OpenSeen
<1>4. CASE o.obj # NULL
  <2>1. /\ o.store = Store /\ o.obj \in Block /\ Store.pobj[o.obj] # Unused
        /\ Store.list.next[o.obj] = NULL /\ AllOf(Store, Bw)
    BY <1>1, <1>4, OpenOK
  <2>2. Queued(utee_storage_obj_del(Store, o.obj)) = Tail(Queued(Store))
    BY <1>1, <2>1, ReleasedOK
  <2>3. Served("erase", utee_storage_obj_del(Store, o.obj), "found", NoKey)
    BY <1>2, <1>4, <2>1
  <2>4. /\ Objs' = Queued(utee_storage_obj_del(Store, o.obj)) /\ used' = NoKey
        /\ phase' = "run" /\ Erased' = TRUE
    BY <2>3, ServedSeen
  <2>5. Queue!Erase
    BY <1>1, <2>1, <2>2, <2>4 DEF Queue!Erase, Objs, Erased
  <2> QED
    BY <2>5 DEF Serves
<1> QED
  BY <1>3, <1>4

\* Asking whether there is a master key.
LEMMA CheckSeen ==
  ASSUME WalletInv, check_masterkey
  PROVE  Serves
<1>1. PICK o \in utee_storage_obj_open(Store, Bw) :
        \E a \in IF o.obj = NULL THEN {"none"} ELSE {"found", "unset"} :
          Served("check", o.store, a, NoKey)
  BY DEF check_masterkey
<1>2. PICK a : Served("check", o.store, a, NoKey)
  BY <1>1
<1>3. phase = "run" /\ ~("check" = "erase" /\ a = "found")
  BY DEF check_masterkey
<1> QED
  BY <1>2, <1>3, OpenSeen

\* In the beginning nothing is stored.
LEMMA InitQueue == Init => Queue!KeyStoreInit
<1> SUFFICES ASSUME Init PROVE Queue!KeyStoreInit
  OBVIOUS
<1>1. Chained(list, pobj)
  BY WalletStarts DEF WalletInv, Init
<1>2. PICK n \in Nat : \E q \in [1..n -> Block] : ChainOf(list, pobj, n, q)
  BY <1>1 DEF Chained
<1>3. PICK q \in [1..n -> Block] : ChainOf(list, pobj, n, q)
  BY <1>2
<1>4. n = 0
  <2>1. list.first = NULL /\ list.first = IF n = 0 THEN NULL ELSE q[1]
    BY <1>3 DEF Init, ChainOf, Chain
  <2> QED
    BY <2>1, WalletAssumption
<1>5. StoredObjects(list, pobj) = Seen(pobj, 0, q)
  BY <1>3, <1>4, ObjectsSeen DEF ChainOf
<1>6. Seen(pobj, 0, q) = <<>>
  BY DEF Seen
<1> QED
  BY <1>5, <1>6 DEF Init, Queue!KeyStoreInit

\* Every command is a step of KeyStore.
LEMMA StepQueue == WalletInv /\ [Next]_vars => [Queue!KeyStoreNext]_(Queue!kvars)
<1> SUFFICES ASSUME WalletInv, [Next]_vars
             PROVE  Queue!KeyStoreNext \/ UNCHANGED Queue!kvars
  OBVIOUS
<1>1. CASE UNCHANGED vars
  <2>1. list' = list /\ pobj' = pobj /\ cmd' = cmd /\ answer' = answer /\ used' = used
        /\ phase' = phase
    BY <1>1 DEF vars
  <2> QED
    BY <2>1 DEF Queue!kvars
<1>2. ASSUME phase = "run", Serves PROVE Queue!KeyStoreNext
  BY <1>2 DEF Serves, Queue!KeyStoreNext
<1>3. ASSUME NEW c \in Commands \ {"none", "other"}, WrongPin(c) PROVE Queue!KeyStoreNext
  <2>1. phase = "run" /\ Served(c, Store, "none", NoKey)
    BY <1>3 DEF WrongPin
  <2>2. /\ Objs' = Queued(Store) /\ used' = NoKey /\ phase' = "run"
        /\ Erased' = (c = "erase" /\ "none" = "found")
    BY <2>1, ServedSeen
  <2>3. Objs' = Objs /\ Erased' = FALSE
    BY <2>2, StoreSeen
  <2>4. Queue!Nothing
    BY <2>1, <2>2, <2>3 DEF Queue!Nothing, Objs, Erased
  <2> QED
    BY <1>2, <2>1, <2>4 DEF Serves
<1>4. ASSUME NEW owner \in Others \cup {Bw}, NEW k \in Keys \cup {NoKey},
             NEW c \in Commands \ {"erase"}, phase = "run", Creates(c, owner, k),
             (owner = Bw /\ k \in Keys) \/ (owner \in Others /\ k = NoKey)
      PROVE  Queue!KeyStoreNext
  <2>1. used' = NoKey /\ Erased' = FALSE
    BY <1>4, CreatesSeen
  <2>2. CASE phase' = "run" /\ Objs' = Append(Objs, [owner |-> owner, key |-> k])
    <3>1. CASE owner = Bw /\ k \in Keys
      <4>1. Queue!Store(k)
        BY <1>4, <2>1, <2>2, <3>1 DEF Queue!Store, Objs, Erased
      <4> QED
        BY <1>4, <3>1, <4>1 DEF Queue!KeyStoreNext
    <3>2. CASE owner \in Others /\ k = NoKey
      <4>1. Queue!StoreForeign(owner)
        BY <1>4, <2>1, <2>2, <3>2 DEF Queue!StoreForeign, Objs, Erased
      <4> QED
        BY <1>4, <3>2, <4>1 DEF Queue!KeyStoreNext
    <3> QED
      BY <1>4, <3>1, <3>2
  <2>3. CASE phase' = "run" /\ Objs' = Objs
    <3>1. Queue!Nothing
      BY <1>4, <2>1, <2>3 DEF Queue!Nothing, Objs, Erased
    <3> QED
      BY <1>2, <1>4, <3>1 DEF Serves
  <2>4. CASE phase' # "run" /\ Objs' = Objs
    <3>1. Queue!Stop
      BY <1>4, <2>1, <2>4 DEF Queue!Stop, Objs, Erased
    <3> QED
      BY <1>2, <1>4, <3>1 DEF Serves
  <2> QED
    BY <1>4, <2>2, <2>3, <2>4, CreatesSeen
<1>5. ASSUME NEW k \in Keys, generate_new_masterkey(k) \/ mnemonic_to_masterkey(k)
      PROVE  Queue!KeyStoreNext
  <2>1. {"generate", "import"} \subseteq Commands \ {"erase"}
    BY DEF Commands
  <2>2. phase = "run" /\ (Creates("generate", Bw, k) \/ Creates("import", Bw, k))
    BY <1>5 DEF generate_new_masterkey, mnemonic_to_masterkey
  <2>3. Bw \in Others \cup {Bw} /\ k \in Keys \cup {NoKey}
    OBVIOUS
  <2> QED
    BY <1>4, <2>1, <2>2, <2>3
<1>6. ASSUME NEW t \in Others, OtherStores(t) PROVE Queue!KeyStoreNext
  <2>1. "other" \in Commands \ {"erase"}
    BY DEF Commands
  <2> QED
    BY <1>4, <1>6, <2>1 DEF OtherStores
<1>7. CASE sign_transaction \/ get_bitcoin_address
  <2>1. phase = "run" /\ Serves
    BY <1>7, UsesSeen DEF sign_transaction, get_bitcoin_address
  <2> QED
    BY <1>2, <2>1
<1>8. CASE check_masterkey \/ erase_masterkey
  <2>1. phase = "run" /\ Serves
    BY <1>8, CheckSeen, EraseSeen DEF check_masterkey, erase_masterkey
  <2> QED
    BY <1>2, <2>1
<1>9. CASE Halted
  BY <1>1, <1>9 DEF Halted
<1> QED
  BY <1>1, <1>3, <1>5, <1>6, <1>7, <1>8, <1>9 DEF Next

\* The storage implements KeyStore for every number of blocks and keys: whatever
\* was stored twice, deleted, lost or stored by another TA before, a command uses or
\* erases the oldest object, and only when all of them are the wallet's.
THEOREM KeyStoreRefined == Spec => ImplementsKeyStore
  BY InitQueue, StepQueue, Wallets, PTL
     DEF Spec, ImplementsKeyStore, Queue!KeyStoreSpec
=============================================================================
