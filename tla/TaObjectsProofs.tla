-------------------------- MODULE TaObjectsProofs ---------------------------
(***************************************************************************)
(* Proofs about TaObjects, for every set of blocks and operations, and     *)
(* whether or not the TA frees its objects or memory is short: an          *)
(* operation owns its key even while the object list is not what it should *)
(* be, and no object is freed under its owner.  For a TA that leaves its   *)
(* objects to the end of its session the list is proved well linked.       *)
(***************************************************************************)
EXTENDS TaObjects, ProofLemmas

\* A list whose links have their types: the part of TypeOK about a list.
ListOK(l) ==
    l \in [first : Pointer, next : [Block -> Pointer],
           prev : [Block -> Pointer \union {ListHead}]]

\* The inductive invariant.  An object handle of the TA is an allocated object,
\* so that a key put into a free block is not one the TA has a handle of; the
\* handles are gone when the context is cleared, which frees every object.
HeldAllocated ==
    /\ heldObjs \subseteq Objects
    /\ phase = "clear" => heldObjs = {}

\* The inductive invariant, continued.  Every operation has an element of the
\* handle list, which TEE_FreeOperation takes off it.
Tracked ==
    /\ states \subseteq alive
    /\ \A p \in alive : hndls[p] > 0

ObjectsInv == TypeOK /\ HeldAllocated /\ Tracked /\ KeysClaimed

(***************************************************************************)
(* The list operations keep the links inside the blocks.                   *)
(***************************************************************************)

\* TAILQ_INSERT_HEAD keeps the types of the links.
LEMMA InsertedOK ==
    ASSUME NEW l, ListOK(l), NEW b \in Block
    PROVE  ListOK(Inserted(l, b))
  BY DEF ListOK, Inserted, Pointer

\* Zeroing a block keeps the types of the links.
LEMMA ZeroedOK ==
    ASSUME NEW l, ListOK(l), NEW b \in Block
    PROVE  ListOK(Zeroed(l, b))
  BY DEF ListOK, Zeroed, Pointer

\* TAILQ_REMOVE of a block that has a link back keeps the types of the links.
LEMMA RemovedOK ==
    ASSUME NEW l, ListOK(l), NEW b \in Block, l.prev[b] # NULL
    PROVE  ListOK(Removed(l, b))
  BY ObjectsAssumption DEF ListOK, Removed, Pointer

\* tee_obj_get never finds the object 0.
LEMMA FoundIsBlock ==
    ASSUME NEW l, NEW x \in Pointer, Find(l, x) = "found"
    PROVE  x \in Block
  BY DEF Find, Pointer

\* cryp_state_free ends normally only if the key it unlinks has a link back.
LEMMA EndsHasPrev ==
    ASSUME NEW p, FreeingState(p) = "ends", Find(list, key[p]) = "found"
    PROVE  list.prev[key[p]] # NULL
  BY DEF FreeingState

(***************************************************************************)
(* The invariant.                                                          *)
(***************************************************************************)

\* A call that stops the secure world changes the phase only.
LEMMA StopsKeeps ==
    ASSUME ObjectsInv, NEW how \in {"hang", "panic", "fault"}, Stops(how)
    PROVE  ObjectsInv'
  BY DEF ObjectsInv, TypeOK, HeldAllocated, Tracked, KeysClaimed, Objects, Stops

\* Freeing the state of an operation keeps the types, and frees no object but
\* the key of that operation.
LEMMA StateFreed ==
    ASSUME ObjectsInv, NEW p \in states, FreeingState(p) = "ends",
           cryp_state_free(p)
    PROVE  /\ heap' \in [Block -> {"free", "object"}]
           /\ ListOK(list')
           /\ states' = states \ {p}
           /\ \A b \in Objects : b # key[p] => heap'[b] = "object"
<1>1. /\ key[p] \in Pointer
      /\ ListOK(list)
      /\ heap \in [Block -> {"free", "object"}]
  BY DEF ObjectsInv, TypeOK, ListOK
<1>2. CASE Find(list, key[p]) = "found"
  <2>1. key[p] \in Block
    BY <1>1, <1>2, FoundIsBlock
  <2>2. list.prev[key[p]] # NULL
    BY <1>2, EndsHasPrev
  <2>3. ListOK(Removed(list, key[p]))
    BY <1>1, <2>1, <2>2, RemovedOK
  <2> QED
    BY <1>1, <1>2, <2>1, <2>3 DEF cryp_state_free, Objects
<1>3. CASE Find(list, key[p]) # "found"
  BY <1>1, <1>3 DEF cryp_state_free, Objects
<1> QED
  BY <1>2, <1>3

\* The invariant survives the freeing of a state, by the TA or at the end of its
\* session.
LEMMA StateFreedKeeps ==
    ASSUME ObjectsInv, NEW p \in states, FreeingState(p) = "ends",
           cryp_state_free(p), key' = key, heldObjs' = heldObjs,
           phase' = phase, alive' \subseteq alive, hndls' \in [Op -> Nat],
           \A q \in alive' : hndls'[q] > 0, states \ {p} \subseteq alive'
    PROVE  ObjectsInv'
<1>1. /\ heap' \in [Block -> {"free", "object"}]
      /\ ListOK(list')
      /\ states' = states \ {p}
      /\ \A b \in Objects : b # key[p] => heap'[b] = "object"
  BY StateFreed
<1>2. TypeOK'
  BY <1>1 DEF ObjectsInv, TypeOK, ListOK, Pointer
<1>3. HeldAllocated'
  <2>1. \A b \in heldObjs : b \in Objects /\ b # key[p] /\ b \in Block
    BY ObjectsAssumption DEF ObjectsInv, HeldAllocated, KeysClaimed, Objects
  <2> QED
    BY <1>1, <2>1 DEF ObjectsInv, HeldAllocated, Objects
<1>4. Tracked'
  BY <1>1 DEF Tracked
<1>5. KeysClaimed'
  <2>1. ASSUME NEW q \in states', key[q] # NULL
        PROVE  key[q] \in Objects \ heldObjs /\ key[q] # key[p]
    BY <1>1, <2>1 DEF ObjectsInv, KeysClaimed
  <2> QED
    BY <1>1, <2>1 DEF KeysClaimed, Objects, ObjectsInv
<1> QED
  BY <1>2, <1>3, <1>4, <1>5 DEF ObjectsInv

\* Init establishes the invariant.
LEMMA InvInit == Init => ObjectsInv
  BY ObjectsAssumption
  DEF Init, ObjectsInv, TypeOK, HeldAllocated, Tracked, KeysClaimed,
      Objects, Pointer

\* Every step keeps the invariant.
LEMMA InvStep == ObjectsInv /\ [Next]_vars => ObjectsInv'
<1> SUFFICES ASSUME ObjectsInv, [Next]_vars
             PROVE  ObjectsInv'
  OBVIOUS
<1> USE ObjectsAssumption
<1>list. ListOK(list)
  BY DEF ObjectsInv, TypeOK, ListOK
<1>1. ASSUME NEW b \in Block, TEE_AllocateTransientObject(b)
      PROVE  ObjectsInv'
  <2>1. ListOK(list')
    BY <1>1, <1>list, InsertedOK DEF TEE_AllocateTransientObject
  <2>2. TypeOK'
    BY <1>1, <2>1 DEF ObjectsInv, TypeOK, ListOK, Pointer,
                      TEE_AllocateTransientObject, FreeBlocks
  <2>3. HeldAllocated' /\ Tracked' /\ KeysClaimed'
    BY <1>1 DEF ObjectsInv, TypeOK, HeldAllocated, Tracked, KeysClaimed,
                Objects, Pointer, TEE_AllocateTransientObject, FreeBlocks
  <2> QED
    BY <2>2, <2>3 DEF ObjectsInv
<1>2. ASSUME NEW b \in Block, AllocateObjectFails(b)
      PROVE  ObjectsInv'
  <2>1. ListOK(list')
    BY <1>2, <1>list, ZeroedOK DEF AllocateObjectFails
  <2> QED
    BY <1>2, <2>1 DEF ObjectsInv, TypeOK, HeldAllocated, Tracked, KeysClaimed,
                      Objects, ListOK, Pointer, AllocateObjectFails
<1>3. ASSUME NEW b \in Block, TEE_FreeTransientObject(b)
      PROVE  ObjectsInv'
  <2>1. CASE Stops("panic") \/ Stops("hang")
    BY <2>1, StopsKeeps
  <2>2. CASE /\ b \in heldObjs
             /\ heap' = [heap EXCEPT ![b] = "free"]
             /\ heldObjs' = heldObjs \ {b}
             /\ UNCHANGED <<list, key, states, alive, hndls, phase>>
    BY <2>2 DEF ObjectsInv, TypeOK, HeldAllocated, Tracked, KeysClaimed,
                Objects, Pointer
  <2> QED
    BY <1>3, <2>1, <2>2 DEF TEE_FreeTransientObject
<1>4. ASSUME NEW b \in Block, UseObject(b)
      PROVE  ObjectsInv'
  BY <1>4, StopsKeeps DEF UseObject
<1>5. ASSUME NEW p \in Op, AllocateDigest(p)
      PROVE  ObjectsInv'
  BY <1>5 DEF ObjectsInv, TypeOK, HeldAllocated, Tracked, KeysClaimed,
              Objects, Pointer, AllocateDigest
<1>6. ASSUME NEW p \in Op, AllocateFailsEarly(p)
      PROVE  ObjectsInv'
  <2>1. ListOK(list')
    BY <1>6, <1>list, ZeroedOK DEF AllocateFailsEarly, FreeBlocks
  <2> QED
    BY <1>6, <2>1 DEF ObjectsInv, TypeOK, HeldAllocated, Tracked, KeysClaimed,
                      Objects, ListOK, Pointer, AllocateFailsEarly
<1>7. ASSUME NEW p \in Op, TEE_FreeOperation(p)
      PROVE  ObjectsInv'
  <2>1. CASE Stops("hang") \/ Stops("fault")
    BY <2>1, StopsKeeps
  <2>2. CASE /\ FreeingState(p) = "ends"
             /\ cryp_state_free(p)
             /\ alive' = alive \ {p}
             /\ hndls' = [hndls EXCEPT ![p] = @ - 1]
             /\ UNCHANGED <<key, heldObjs, phase>>
    <3>1. p \in alive /\ hndls[p] \in Nat \ {0}
      BY <1>7 DEF ObjectsInv, TypeOK, Tracked, TEE_FreeOperation
    <3>2. /\ alive' \subseteq alive
          /\ hndls' \in [Op -> Nat]
          /\ \A q \in alive' : hndls'[q] > 0
          /\ states \ {p} \subseteq alive'
      BY <2>2, <3>1 DEF ObjectsInv, TypeOK, Tracked
    <3> QED
      BY <1>7, <2>2, <3>2, StateFreedKeeps DEF TEE_FreeOperation
  <2> QED
    BY <1>7, <2>1, <2>2 DEF TEE_FreeOperation
<1>8. ASSUME NEW p \in Op, NEW b \in Block, AllocateKeyed(p, b)
      PROVE  ObjectsInv'
  <2>1. ListOK(list')
    BY <1>8, <1>list, InsertedOK DEF AllocateKeyed
  <2>2. TypeOK'
    BY <1>8, <2>1 DEF ObjectsInv, TypeOK, ListOK, Pointer, AllocateKeyed,
                      FreeBlocks
  <2>3. HeldAllocated' /\ Tracked' /\ KeysClaimed'
    BY <1>8 DEF ObjectsInv, TypeOK, HeldAllocated, Tracked, KeysClaimed,
                Objects, Pointer, AllocateKeyed, FreeBlocks
  <2> QED
    BY <2>2, <2>3 DEF ObjectsInv
<1>9. ASSUME NEW p \in Op, NEW b \in Block, AllocateFailsLate(p, b)
      PROVE  ObjectsInv'
  <2>1. ListOK(list')
    BY <1>9, <1>list, InsertedOK DEF AllocateFailsLate
  <2>2. TypeOK'
    BY <1>9, <2>1 DEF ObjectsInv, TypeOK, ListOK, Pointer, AllocateFailsLate,
                      FreeBlocks
  <2>3. HeldAllocated' /\ Tracked' /\ KeysClaimed'
    BY <1>9 DEF ObjectsInv, TypeOK, HeldAllocated, Tracked, KeysClaimed,
                Objects, Pointer, AllocateFailsLate, FreeBlocks
  <2> QED
    BY <2>2, <2>3 DEF ObjectsInv
<1>10. CASE CloseSession
  BY <1>10 DEF ObjectsInv, TypeOK, HeldAllocated, Tracked, KeysClaimed,
               Objects, Pointer, CloseSession
<1>11. ASSUME NEW p \in Op, ClearState(p)
       PROVE  ObjectsInv'
  <2>1. CASE Stops("hang") \/ Stops("fault")
    BY <2>1, StopsKeeps
  <2>2. CASE /\ FreeingState(p) = "ends"
             /\ cryp_state_free(p)
             /\ UNCHANGED <<key, alive, hndls, heldObjs, phase>>
    <3>1. /\ alive' \subseteq alive
          /\ hndls' \in [Op -> Nat]
          /\ \A q \in alive' : hndls'[q] > 0
          /\ states \ {p} \subseteq alive'
      BY <2>2 DEF ObjectsInv, TypeOK, Tracked
    <3> QED
      BY <1>11, <2>2, <3>1, StateFreedKeeps DEF ClearState
  <2> QED
    BY <1>11, <2>1, <2>2 DEF ClearState
<1>12. CASE ClearDone \/ Halted \/ UNCHANGED vars
  BY <1>12 DEF ObjectsInv, TypeOK, HeldAllocated, Tracked, KeysClaimed,
               Objects, Pointer, ClearDone, Halted, vars
<1>13. CASE ClearObject
  <2>1. CASE Stops("fault")
    BY <2>1, StopsKeeps
  <2>2. CASE /\ list.prev[list.first] # NULL
             /\ heap' = [heap EXCEPT ![list.first] = "free"]
             /\ list' = Removed(list, list.first)
             /\ UNCHANGED <<key, states, alive, hndls, heldObjs, phase>>
    <3>1. list.first \in Block
      BY <1>13, <1>list DEF ClearObject, ListOK, Pointer
    <3>2. ListOK(list')
      BY <1>list, <2>2, <3>1, RemovedOK
    <3>3. heldObjs = {} /\ states = {}
      BY <1>13 DEF ClearObject, ObjectsInv, HeldAllocated
    <3> QED
      BY <2>2, <3>1, <3>2, <3>3
      DEF ObjectsInv, TypeOK, HeldAllocated, Tracked, KeysClaimed,
          Objects, ListOK, Pointer
  <2> QED
    BY <1>13, <2>1, <2>2 DEF ClearObject
<1> QED
  BY <1>1, <1>2, <1>3, <1>4, <1>5, <1>6, <1>7, <1>8, <1>9, <1>10, <1>11, <1>12,
     <1>13 DEF Next, Clear

\* The inductive invariant always holds.
THEOREM ObjectsInvAlways == Spec => []ObjectsInv
<1>1. Init => ObjectsInv
  BY InvInit
<1>2. ObjectsInv /\ [Next]_vars => ObjectsInv'
  BY InvStep
<1> QED
  BY <1>1, <1>2, PTL DEF Spec

\* An operation owns its key whatever the TA allocates and frees and whatever
\* fails: cryp_state_free never meets a key that somebody else has freed, and
\* utee_cryp_state_alloc never claims one in use.
THEOREM KeysAlways == Spec => []KeysClaimed
<1>1. ObjectsInv => KeysClaimed
  BY DEF ObjectsInv
<1> QED
  BY <1>1, ObjectsInvAlways, PTL

\* Type correctness: a link of the object list is a block or null also after
\* linked objects were freed and their blocks handed out again.
THEOREM TypesAlways == Spec => []TypeOK
<1>1. ObjectsInv => TypeOK
  BY DEF ObjectsInv
<1> QED
  BY <1>1, ObjectsInvAlways, PTL

\* A step frees an object only together with its owner.
LEMMA FreedWithOwner ==
    ASSUME ObjectsInv, [Next]_vars, NEW b \in Objects, heap'[b] = "free"
    PROVE  \/ b \in heldObjs \ heldObjs'
           \/ \E p \in states \ states' : key[p] = b
           \/ phase = "clear" /\ states = {}
<1>heap. /\ b \in Block
         /\ heap[b] = "object"
         /\ heap \in [Block -> {"free", "object"}]
  BY DEF Objects, ObjectsInv, TypeOK
<1>1. ASSUME NEW p \in states, FreeingState(p) = "ends", cryp_state_free(p)
      PROVE  p \in states \ states' /\ key[p] = b
  BY <1>1, StateFreed
<1>2. ASSUME NEW how, Stops(how)
      PROVE  FALSE
  BY <1>2, <1>heap DEF Stops
<1>3. ASSUME NEW c \in Block, TEE_FreeTransientObject(c)
      PROVE  b \in heldObjs \ heldObjs'
  BY <1>3, <1>2, <1>heap DEF TEE_FreeTransientObject
<1>4. ASSUME NEW c \in Block, UseObject(c)
      PROVE  FALSE
  BY <1>4, <1>2 DEF UseObject
<1>5. ASSUME NEW c \in Block,
             \/ TEE_AllocateTransientObject(c)
             \/ AllocateObjectFails(c)
             \/ \E p \in Op : AllocateKeyed(p, c) \/ AllocateFailsLate(p, c)
      PROVE  FALSE
  BY <1>5, <1>heap DEF TEE_AllocateTransientObject, AllocateObjectFails,
                       AllocateKeyed, AllocateFailsLate
<1>6. ASSUME NEW p \in Op, AllocateDigest(p) \/ AllocateFailsEarly(p)
      PROVE  FALSE
  BY <1>6, <1>heap DEF AllocateDigest, AllocateFailsEarly
<1>7. ASSUME NEW p \in Op, TEE_FreeOperation(p) \/ ClearState(p)
      PROVE  p \in states \ states' /\ key[p] = b
  BY <1>7, <1>1, <1>2 DEF TEE_FreeOperation, ClearState
<1>8. CASE ClearObject
  BY <1>8 DEF ClearObject
<1>9. CASE CloseSession \/ ClearDone \/ Halted \/ UNCHANGED vars
  BY <1>9, <1>heap DEF CloseSession, ClearDone, Halted, vars
<1> QED
  BY <1>3, <1>4, <1>5, <1>6, <1>7, <1>8, <1>9 DEF Next, Clear

\* No object is ever freed under its owner, in any order of the calls and at the
\* end of a session.
THEOREM OwnerAlways == Spec => ObjectsEndWithOwner
<1>1. ObjectsInv /\ [Next]_vars =>
         [\A b \in Objects :
             heap'[b] = "free" =>
                \/ b \in heldObjs \ heldObjs'
                \/ \E p \in states \ states' : key[p] = b
                \/ phase = "clear" /\ states = {}]_vars
  BY FreedWithOwner
<1> QED
  BY <1>1, ObjectsInvAlways, PTL DEF Spec, ObjectsEndWithOwner

(***************************************************************************)
(* The object list of a TA that leaves its objects to the end of its       *)
(* session, as the wallet's does, while memory lasts.                      *)
(***************************************************************************)

\* The list is a chain of the allocated objects.
ChainOf(l, h, n, q) ==
    /\ Chain(l, Block, NULL, ListHead, n, q)
    /\ \A b \in Block : Among(b, n, q) <=> h[b] = "object"

Chained(l, h) == \E n \in Nat : \E q \in [1..n -> Block] : ChainOf(l, h, n, q)

\* The inductive invariant.  The list determines which lookups succeed, and so
\* whether the secure world stops; what the lookups look for is in ObjectsInv.
LinkedInv == ObjectsInv /\ Chained(list, heap) /\ NeverStops

\* TAILQ_FOREACH over a chain meets its blocks one by one and then ends.
LEMMA Walked ==
    ASSUME NEW l, NEW n \in Nat, NEW q, Chain(l, Block, NULL, ListHead, n, q)
    PROVE  /\ n <= Cardinality(Block) /\ Cardinality(Block) \in Nat
           /\ \A i \in Steps : Walk(l)[i] = IF i < n THEN q[i + 1] ELSE NULL
<1>1. PICK c \in Nat : c = Cardinality(Block) /\ n <= c
  BY ChainBounded, ObjectsAssumption
<1>2. /\ q \in [1..n -> Block] /\ NULL \notin Block
      /\ l.first = IF n = 0 THEN NULL ELSE q[1]
      /\ \A i \in 1..n : l.next[q[i]] = IF i = n THEN NULL ELSE q[i + 1]
  BY ObjectsAssumption DEF Chain
<1>3. PICK g : g = [i \in 0..c |-> IF i < n THEN q[i + 1] ELSE NULL]
  OBVIOUS
<1>4. \A i \in 0..c :
        g[i] = IF i = 0 THEN l.first
               ELSE IF g[i - 1] \in Block THEN l.next[g[i - 1]] ELSE NULL
  <2> SUFFICES ASSUME NEW i \in 0..c
               PROVE  g[i] = IF i = 0 THEN l.first
                             ELSE IF g[i - 1] \in Block THEN l.next[g[i - 1]] ELSE NULL
    OBVIOUS
  <2>1. CASE i = 0
    BY <1>2, <1>3, <2>1
  <2>2. CASE i # 0 /\ i <= n
    <3>1. i \in 1..n /\ i - 1 \in 0..c /\ i - 1 < n /\ (i - 1) + 1 = i
      BY <1>1, <2>2
    <3>2. g[i - 1] = q[i] /\ q[i] \in Block /\ l.next[q[i]] = IF i = n THEN NULL ELSE q[i + 1]
      BY <1>2, <1>3, <3>1
    <3>3. g[i] = IF i = n THEN NULL ELSE q[i + 1]
      BY <1>3, <2>2
    <3> QED
      BY <2>2, <3>2, <3>3
  <2>3. CASE i # 0 /\ ~(i <= n)
    <3>1. g[i] = NULL /\ g[i - 1] = NULL
      BY <1>3, <2>3
    <3> QED
      BY <1>2, <2>3, <3>1
  <2> QED
    BY <2>1, <2>2, <2>3
<1>5. g = [i \in 0..c |->
             IF i = 0 THEN l.first ELSE IF g[i - 1] \in Block THEN l.next[g[i - 1]] ELSE NULL]
  BY <1>3, <1>4
<1>6. PICK f : f = Walk(l)
  OBVIOUS
<1>7. f = [i \in 0..c |->
             IF i = 0 THEN l.first ELSE IF f[i - 1] \in Block THEN l.next[f[i - 1]] ELSE NULL]
  BY <1>1, <1>5, <1>6 DEF Walk, Steps
<1>8. \A i \in 0..c : f[i] = g[i]
  <2> DEFINE T == {i \in 0..c : f[i] = g[i]}
  <2>1. 0 \in T
    BY <1>5, <1>7
  <2>2. \A i \in Nat : i < c /\ i \in T => i + 1 \in T
    <3> SUFFICES ASSUME NEW i \in Nat, i < c, f[i] = g[i] PROVE i + 1 \in T
      OBVIOUS
    <3>1. PICK j \in 0..c : j = i + 1 /\ j # 0 /\ j - 1 = i
      OBVIOUS
    <3>2. f[j] = g[j]
      BY <1>5, <1>7, <3>1
    <3> QED
      BY <3>1, <3>2
  <2> HIDE DEF T
  <2>3. \A i \in 0..c : i \in T
    BY <2>1, <2>2, UpTo
  <2> QED
    BY <2>3 DEF T
<1> QED
  BY <1>1, <1>3, <1>6, <1>8 DEF Steps

\* So tee_obj_get finds exactly the blocks of a chain, and never loops.
LEMMA Finds ==
    ASSUME NEW l, NEW n \in Nat, NEW q, Chain(l, Block, NULL, ListHead, n, q), NEW x \in Pointer
    PROVE  Find(l, x) = IF Among(x, n, q) THEN "found" ELSE "absent"
<1>1. /\ n <= Cardinality(Block) /\ Cardinality(Block) \in Nat
      /\ \A i \in Steps : Walk(l)[i] = IF i < n THEN q[i + 1] ELSE NULL
  BY Walked
<1>2. q \in [1..n -> Block] /\ NULL \notin Block
  BY ObjectsAssumption DEF Chain
<1>3. PICK w : w = Walk(l)
  OBVIOUS
<1>4. PICK c \in Nat : c = Cardinality(Block) /\ n <= c /\ Steps = 0..c
  BY <1>1 DEF Steps
<1>5. w[c] = NULL
  BY <1>1, <1>3, <1>4
<1>6. CASE Among(x, n, q)
  <2>1. PICK i \in 1..n : q[i] = x
    BY <1>6 DEF Among
  <2>2. i - 1 \in Steps /\ w[i - 1] = x /\ x # NULL
    BY <1>1, <1>2, <1>3, <1>4, <2>1
  <2>3. x # NULL /\ \E j \in Steps : w[j] = x
    BY <2>2
  <2> QED
    BY <1>3, <1>6, <2>3 DEF Find
<1>7. CASE ~Among(x, n, q)
  <2>1. x # NULL => \A i \in Steps : w[i] # x
    <3> SUFFICES ASSUME x # NULL, NEW i \in Steps, w[i] = x PROVE FALSE
      OBVIOUS
    <3>1. i < n /\ q[i + 1] = x /\ i + 1 \in 1..n
      BY <1>1, <1>3, <1>4
    <3> QED
      BY <1>7, <3>1 DEF Among
  <2>2. ~(x # NULL /\ \E j \in Steps : w[j] = x)
    BY <2>1
  <2> QED
    BY <1>3, <1>4, <1>5, <1>7, <2>1, <2>2 DEF Find
<1> QED
  BY <1>6, <1>7

\* A new object goes in front of the others.
LEMMA InsertedChained ==
    ASSUME NEW l, ListOK(l), NEW h \in [Block -> {"free", "object"}], Chained(l, h),
           NEW b \in Block, h[b] = "free"
    PROVE  Chained(Inserted(l, b), [h EXCEPT ![b] = "object"])
<1>1. PICK m, r : m = Inserted(l, b) /\ r = [h EXCEPT ![b] = "object"]
  OBVIOUS
<1>2. PICK n \in Nat : \E q \in [1..n -> Block] : ChainOf(l, h, n, q)
  BY DEF Chained
<1>3. PICK q \in [1..n -> Block] : ChainOf(l, h, n, q)
  BY <1>2
<1>4. Chain(l, Block, NULL, ListHead, n, q) /\ ~Among(b, n, q)
  BY <1>3 DEF ChainOf
<1>5. m.first = b /\ m.next[b] = l.first /\ m.prev[b] = ListHead
  BY <1>1 DEF Inserted, ListOK
<1>6. ASSUME NEW i \in 1..n
      PROVE  /\ m.next[q[i]] = l.next[q[i]]
             /\ m.prev[q[i]] = IF i = 1 THEN b ELSE l.prev[q[i]]
  <2>1. PICK x \in Block : x = q[i] /\ x # b
    BY <1>4 DEF Among
  <2>2. x = l.first <=> i = 1
    BY <1>4, <2>1 DEF Chain
  <2>3. /\ m.next[x] = l.next[x]
        /\ m.prev[x] = IF x = l.first THEN b ELSE l.prev[x]
    BY <1>1, <2>1 DEF Inserted, ListOK
  <2> QED
    BY <2>1, <2>2, <2>3
<1>7. PICK q2 : q2 = InFront(b, n, q)
  OBVIOUS
<1>8. /\ Chain(m, Block, NULL, ListHead, n + 1, q2)
      /\ \A x : Among(x, n + 1, q2) <=> x = b \/ Among(x, n, q)
  <2>1. Pushed(l, m, ListHead, n, q, b)
    BY <1>5, <1>6 DEF Pushed
  <2> QED
    BY <1>4, <1>7, <2>1, ChainInserted
<1>9. \A x \in Block : Among(x, n + 1, q2) <=> r[x] = "object"
  <2>1. r[b] = "object" /\ \A x \in Block : x # b => r[x] = h[x]
    BY <1>1
  <2> QED
    BY <1>3, <1>8, <2>1 DEF ChainOf
<1>10. n + 1 \in Nat /\ q2 \in [1..(n + 1) -> Block] /\ ChainOf(m, r, n + 1, q2)
  BY <1>8, <1>9 DEF Chain, ChainOf
<1> QED
  BY <1>1, <1>10 DEF Chained

\* An object that is freed leaves the list; it had a link back.
LEMMA RemovedChained ==
    ASSUME NEW l, ListOK(l), NEW h \in [Block -> {"free", "object"}], Chained(l, h),
           NEW b \in Block, h[b] = "object"
    PROVE  /\ l.prev[b] # NULL
           /\ Chained(Removed(l, b), [h EXCEPT ![b] = "free"])
<1>1. PICK m, r : m = Removed(l, b) /\ r = [h EXCEPT ![b] = "free"]
  OBVIOUS
<1>2. PICK n \in Nat : \E q \in [1..n -> Block] : ChainOf(l, h, n, q)
  BY DEF Chained
<1>3. PICK q \in [1..n -> Block] : ChainOf(l, h, n, q)
  BY <1>2
<1>4. Chain(l, Block, NULL, ListHead, n, q)
  BY <1>3 DEF ChainOf
<1>5. PICK k \in 1..n : b = q[k]
  BY <1>3 DEF ChainOf, Among
<1>6. /\ \A i, j \in 1..n : q[i] = q[j] => i = j
      /\ NULL \notin Block /\ ListHead \notin Block /\ ListHead # NULL
      /\ l.next[b] = IF k = n THEN NULL ELSE q[k + 1]
      /\ l.prev[b] = IF k = 1 THEN ListHead ELSE q[k - 1]
  BY <1>4, <1>5, ObjectsAssumption DEF Chain
<1>7. l.prev[b] # NULL /\ (l.prev[b] = ListHead <=> k = 1)
  BY <1>6
<1>8. m.first = IF k = 1 THEN l.next[b] ELSE l.first
  BY <1>1, <1>7 DEF Removed
<1>9. ASSUME NEW i \in 1..n, i # k
      PROVE  /\ m.next[q[i]] = IF i = k - 1 THEN l.next[b] ELSE l.next[q[i]]
             /\ m.prev[q[i]] = IF i = k + 1 THEN l.prev[b] ELSE l.prev[q[i]]
  <2>1. PICK x \in Block : x = q[i]
    OBVIOUS
  <2>2. x = l.prev[b] <=> i = k - 1
    BY <1>6, <2>1
  <2>3. x = l.next[b] <=> i = k + 1
    BY <1>6, <2>1
  <2>4. m.next[x] = IF x = l.prev[b] THEN l.next[b] ELSE l.next[x]
    BY <1>1, <1>6 DEF Removed, ListOK, Pointer
  <2>5. m.prev[x] = IF x = l.next[b] THEN l.prev[b] ELSE l.prev[x]
    BY <1>1, <1>6 DEF Removed, ListOK, Pointer
  <2> QED
    BY <2>1, <2>2, <2>3, <2>4, <2>5
<1>10. PICK q2 : q2 = Without(k, n, q)
  OBVIOUS
<1>11. /\ Chain(m, Block, NULL, ListHead, n - 1, q2)
       /\ \A x : Among(x, n - 1, q2) <=> x # b /\ Among(x, n, q)
  <2>1. Unlinked(l, m, n, q, k)
    BY <1>5, <1>8, <1>9 DEF Unlinked
  <2>2. /\ Chain(m, Block, NULL, ListHead, n - 1, Without(k, n, q))
        /\ \A x : Among(x, n - 1, Without(k, n, q)) <=> x # q[k] /\ Among(x, n, q)
    BY <1>4, <2>1, ChainRemoved
  <2> QED
    BY <1>5, <1>10, <2>2
<1>12. \A x \in Block : Among(x, n - 1, q2) <=> r[x] = "object"
  <2>1. r[b] = "free" /\ \A x \in Block : x # b => r[x] = h[x]
    BY <1>1
  <2> QED
    BY <1>3, <1>11, <2>1 DEF ChainOf
<1>13. n - 1 \in Nat /\ q2 \in [1..(n - 1) -> Block] /\ ChainOf(m, r, n - 1, q2)
  BY <1>11, <1>12 DEF Chain, ChainOf
<1> QED
  BY <1>1, <1>7, <1>13 DEF Chained

\* In a list that is a chain, exactly the allocated objects are found.
LEMMA Lookup ==
    ASSUME NEW l, NEW h, Chained(l, h), NEW x \in Pointer
    PROVE  /\ Find(l, x) \in {"found", "absent"}
           /\ x = NULL => Find(l, x) = "absent"
           /\ x \in Block => (Find(l, x) = "found" <=> h[x] = "object")
<1>1. PICK n \in Nat : \E q \in [1..n -> Block] : ChainOf(l, h, n, q)
  BY DEF Chained
<1>2. PICK q \in [1..n -> Block] : ChainOf(l, h, n, q)
  BY <1>1
<1>3. Find(l, x) = IF Among(x, n, q) THEN "found" ELSE "absent"
  BY <1>2, Finds DEF ChainOf
<1>4. x = NULL => ~Among(x, n, q)
  BY ObjectsAssumption DEF Among
<1> QED
  BY <1>2, <1>3, <1>4 DEF ChainOf

\* Freeing the state of an operation ends, and unlinks and frees its key.
LEMMA StateChained ==
    ASSUME LinkedInv, NEW p \in states
    PROVE  /\ FreeingState(p) = "ends"
           /\ cryp_state_free(p) => Chained(list', heap')
<1>1. /\ ListOK(list) /\ heap \in [Block -> {"free", "object"}] /\ Chained(list, heap)
      /\ key[p] \in Pointer
      /\ key[p] # NULL => heap[key[p]] = "object"
  BY DEF LinkedInv, ObjectsInv, TypeOK, ListOK, KeysClaimed, Objects
<1>2. CASE key[p] = NULL
  <2>1. Find(list, key[p]) = "absent"
    BY <1>1, <1>2, Lookup
  <2> QED
    BY <1>1, <2>1 DEF FreeingState, cryp_state_free
<1>3. CASE key[p] # NULL
  <2>1. PICK b \in Block : b = key[p] /\ heap[b] = "object"
    BY <1>1, <1>3 DEF Pointer
  <2>2. Find(list, b) = "found"
    BY <1>1, <2>1, Lookup DEF Pointer
  <2>3. list.prev[b] # NULL /\ Chained(Removed(list, b), [heap EXCEPT ![b] = "free"])
    BY <1>1, <2>1, RemovedChained
  <2>4. Find(Removed(list, b), NULL) = "absent"
    BY <2>3, Lookup DEF Pointer
  <2> QED
    BY <2>1, <2>2, <2>3, <2>4 DEF FreeingState, cryp_state_free
<1> QED
  BY <1>2, <1>3

\* Every step keeps the list a chain, and none stops the secure world.
LEMMA LinkedSteps ==
    ASSUME ~FreesKeys, ~Shortage, LinkedInv, [Next]_vars
    PROVE  LinkedInv'
<1>0. ObjectsInv' /\ ListOK(list) /\ heap \in [Block -> {"free", "object"}]
      /\ Chained(list, heap) /\ NeverStops
  BY InvStep DEF LinkedInv, ObjectsInv, TypeOK, ListOK
<1> SUFFICES Chained(list', heap') /\ NeverStops'
  BY <1>0 DEF LinkedInv, Chained, ChainOf, Chain
<1>1. CASE UNCHANGED <<heap, list, phase>>
  BY <1>0, <1>1 DEF NeverStops
<1>2. ASSUME NEW b \in FreeBlocks, heap' = [heap EXCEPT ![b] = "object"],
             list' = Inserted(list, b), phase' = phase
      PROVE  Chained(list', heap') /\ NeverStops'
  <2>1. b \in Block /\ heap[b] = "free"
    BY DEF FreeBlocks
  <2> QED
    BY <1>0, <1>2, <2>1, InsertedChained DEF NeverStops
<1>3. ASSUME NEW b \in Block, UseObject(b) PROVE FALSE
  <2>1. b \in Pointer /\ heap[b] = "object"
    BY <1>3 DEF UseObject, LinkedInv, ObjectsInv, HeldAllocated, Objects, Pointer
  <2> QED
    BY <1>0, <1>3, <2>1, Lookup DEF UseObject
<1>4. ASSUME NEW p \in states, \/ TEE_FreeOperation(p)
                               \/ ClearState(p)
      PROVE  Chained(list', heap') /\ NeverStops'
  <2>1. FreeingState(p) = "ends" /\ (cryp_state_free(p) => Chained(list', heap'))
    BY StateChained
  <2> QED
    BY <1>0, <1>4, <2>1 DEF TEE_FreeOperation, ClearState, NeverStops
<1>5. ASSUME NEW p \in Op, AllocateFailsEarly(p) PROVE UNCHANGED <<heap, list, phase>>
  <2>1. Find(list, NULL) = "absent"
    BY <1>0, Lookup DEF Pointer
  <2> QED
    BY <1>5, <2>1 DEF AllocateFailsEarly
<1>6. CASE ClearObject
  <2>1. PICK b \in Block : b = list.first /\ heap[b] = "object"
    <3>1. PICK n \in Nat : \E q \in [1..n -> Block] : ChainOf(list, heap, n, q)
      BY <1>0 DEF Chained
    <3>2. PICK q \in [1..n -> Block] : ChainOf(list, heap, n, q)
      BY <3>1
    <3>3. n # 0 /\ list.first = q[1]
      BY <1>6, <3>2 DEF ClearObject, ChainOf, Chain
    <3>4. q[1] \in Block /\ Among(q[1], n, q)
      BY <3>3 DEF Among
    <3> QED
      BY <3>2, <3>3, <3>4 DEF ChainOf
  <2>2. list.prev[b] # NULL /\ Chained(Removed(list, b), [heap EXCEPT ![b] = "free"])
    BY <1>0, <2>1, RemovedChained
  <2> QED
    BY <1>0, <1>6, <2>1, <2>2 DEF ClearObject, NeverStops
<1>7. CASE CloseSession \/ ClearDone
  BY <1>0, <1>7 DEF CloseSession, ClearDone, NeverStops
<1>8. ASSUME NEW b \in Block, TEE_AllocateTransientObject(b) \/ \E p \in Op : AllocateKeyed(p, b)
      PROVE  Chained(list', heap') /\ NeverStops'
  BY <1>2, <1>8 DEF TEE_AllocateTransientObject, AllocateKeyed
<1>9. ASSUME NEW b \in Block, \/ AllocateObjectFails(b) \/ TEE_FreeTransientObject(b)
                              \/ \E p \in Op : AllocateFailsLate(p, b)
      PROVE  FALSE
  BY <1>9 DEF AllocateObjectFails, TEE_FreeTransientObject, AllocateFailsLate
<1>10. ASSUME NEW p \in Op, AllocateDigest(p) PROVE UNCHANGED <<heap, list, phase>>
  BY <1>10 DEF AllocateDigest
<1>11. CASE Halted \/ UNCHANGED vars
  BY <1>1, <1>11 DEF Halted, vars
<1>12. \A p \in Op : TEE_FreeOperation(p) \/ ClearState(p) => p \in states
  BY DEF TEE_FreeOperation, ClearState
<1> QED
  BY <1>1, <1>3, <1>4, <1>5, <1>6, <1>7, <1>8, <1>9, <1>10, <1>11, <1>12 DEF Next, Clear

\* The initial list is empty.
LEMMA LinkedStarts == Init => LinkedInv
<1> SUFFICES ASSUME Init PROVE LinkedInv
  OBVIOUS
<1>1. PICK q \in [1..0 -> Block] : TRUE
  <2>1. [i \in 1..0 |-> NULL] \in [1..0 -> Block]
    OBVIOUS
  <2> QED
    BY <2>1
<1>2. ChainOf(list, heap, 0, q)
  BY DEF Init, ChainOf, Chain, Among
<1>3. Chained(list, heap)
  BY <1>2 DEF Chained
<1> QED
  BY <1>3, InvInit DEF Init, LinkedInv, NeverStops

\* A TA that leaves its objects to the end of its session (bw_ta.c) has a list that
\* is a chain of its objects while no allocation fails halfway.
THEOREM LinkedAlways == ~FreesKeys /\ ~Shortage => (Spec => []LinkedInv)
<1> SUFFICES ASSUME ~FreesKeys, ~Shortage PROVE Spec => []LinkedInv
  OBVIOUS
<1>1. LinkedInv /\ [Next]_vars => LinkedInv'
  BY LinkedSteps
<1> QED
  BY <1>1, LinkedStarts, PTL DEF Spec

\* The list of such a TA holds exactly the allocated objects, each once, and its
\* links agree in both directions, for every number of objects and operations
\* (TAILQ_INSERT_HEAD and TAILQ_REMOVE in tee_obj.c).
THEOREM ListAlways == ~FreesKeys /\ ~Shortage => (Spec => []WellLinked)
<1> SUFFICES ASSUME ~FreesKeys, ~Shortage PROVE Spec => []WellLinked
  OBVIOUS
<1>1. ASSUME LinkedInv PROVE WellLinked
  <2>1. PICK n \in Nat : \E q \in [1..n -> Block] : ChainOf(list, heap, n, q)
    BY <1>1 DEF LinkedInv, Chained
  <2>2. PICK q \in [1..n -> Block] : ChainOf(list, heap, n, q)
    BY <2>1
  <2>3. Chain(list, Block, NULL, ListHead, n, q)
    BY <2>2 DEF ChainOf
  <2>4. /\ n <= Cardinality(Block) /\ Cardinality(Block) \in Nat
        /\ \A i \in Steps : Walk(list)[i] = IF i < n THEN q[i + 1] ELSE NULL
    BY <2>3, Walked
  <2>5. PICK w : w = Walk(list)
    OBVIOUS
  <2>6. PICK c \in Nat : c = Cardinality(Block) /\ n <= c /\ Steps = 0..c
    BY <2>4 DEF Steps
  <2>7. w[Cardinality(Block)] = NULL
    BY <2>4, <2>5, <2>6
  <2>8. {w[i] : i \in Steps} \ {NULL} = Objects
    <3>1. ASSUME NEW x \in Objects PROVE x \in {w[i] : i \in Steps} \ {NULL}
      <4>1. PICK i \in 1..n : q[i] = x
        BY <2>2 DEF ChainOf, Among, Objects
      <4>2. i - 1 \in Steps /\ w[i - 1] = x /\ x # NULL
        BY <2>4, <2>5, <2>6, <4>1, ObjectsAssumption DEF Objects
      <4> QED
        BY <4>2
    <3>2. ASSUME NEW i \in Steps, w[i] # NULL PROVE w[i] \in Objects
      <4>1. i + 1 \in 1..n /\ w[i] = q[i + 1]
        BY <2>4, <2>5, <2>6, <3>2
      <4>2. q[i + 1] \in Block /\ Among(q[i + 1], n, q)
        BY <4>1 DEF Among
      <4> QED
        BY <2>2, <4>1, <4>2 DEF ChainOf, Objects
    <3> QED
      BY <3>1, <3>2
  <2>9. list.first # NULL => list.prev[list.first] = ListHead
    BY <2>3 DEF Chain
  <2>10. ASSUME NEW b \in Objects, list.next[b] # NULL PROVE list.prev[list.next[b]] = b
    <3>1. PICK i \in 1..n : q[i] = b
      BY <2>2 DEF ChainOf, Among, Objects
    <3>2. i # n /\ list.next[b] = q[i + 1] /\ i + 1 \in 1..n
      BY <2>3, <2>10, <3>1 DEF Chain
    <3>3. list.prev[q[i + 1]] = q[(i + 1) - 1]
      BY <2>3, <3>2 DEF Chain
    <3> QED
      BY <3>1, <3>2, <3>3
  <2> QED
    BY <2>5, <2>7, <2>8, <2>9, <2>10 DEF WellLinked
<1> QED
  BY <1>1, LinkedAlways, PTL

\* Such a TA is never stopped by its object list: no lookup loops or fails, and no
\* object is unlinked through a null link (tee_obj_get, cryp_state_free,
\* tee_obj_close).
THEOREM StopsNever == ~FreesKeys /\ ~Shortage => (Spec => []NeverStops)
<1> SUFFICES ASSUME ~FreesKeys, ~Shortage PROVE Spec => []NeverStops
  OBVIOUS
<1>1. LinkedInv => NeverStops
  BY DEF LinkedInv
<1> QED
  BY <1>1, LinkedAlways, PTL
=============================================================================
