-------------------------------- MODULE Heap4 --------------------------------
(***************************************************************************)
(* The memory of the trusted applications: pvPortMalloc and vPortFree of   *)
(* src/common/heap_4.c below TEE_Malloc and TEE_Free.  A block starts with *)
(* a header (BlockLink_t); the free blocks are linked in the order of      *)
(* their addresses and merged when they touch.                             *)
(***************************************************************************)
EXTENDS Integers, Sequences, SequencesExt, FiniteSetsExt

CONSTANTS
  Base,        \* the address of ucHeap
  Total,       \* configTOTAL_HEAP_SIZE
  Align,       \* portBYTE_ALIGNMENT
  StructSize,  \* xHeapStructSize
  Word,        \* the number of values of a size_t
  Lengths,     \* the lengths TAs ask for
  Hints        \* the hints they pass

NULL == 0

RoundUp(x) == IF x % Align = 0 THEN x ELSE x + (Align - (x % Align))
RoundDown(x) == x - (x % Align)

\* Where prvHeapInit puts the first block and the end marker.
First == RoundUp(Base)
EndMarker == RoundDown(Base + Total - StructSize)

AllocatedBit == Word \div 2
MinimumBlockSize == 2 * StructSize

ASSUME HeapAssumption ==
  /\ Base \in Nat \ {0} /\ Total \in Nat /\ Word \in Nat
  /\ Align \in Nat \ {0}
  /\ StructSize \in Nat \ {0} /\ StructSize % Align = 0
  /\ Lengths \subseteq 0..(Word - 1)
  /\ First + MinimumBlockSize < EndMarker
  /\ Total < AllocatedBit /\ Base + Total <= Word

VARIABLES
  heap,      \* the heap's own data, see HeapData
  requested, \* history: by header, the length the TA asked for
  call,      \* history: the call of TEE_Malloc just made, if it was one
  result     \* the pointer it returned

vars == <<heap, requested, call, result>>

Addr == {x \in First..(EndMarker - 1) : x % Align = 0}
Calls == [len : Lengths, hint : Hints]
NoCall == [len |-> 0, hint |-> "none"]

HeapData ==
  [pxEnd : {NULL, EndMarker}, freeList : Seq(Addr),
   size : [Addr -> 0..(AllocatedBit - 1)], owned : SUBSET Addr,
   remaining : 0..(Word - 1), minimum : 0..(Word - 1)]

TypeOK ==
  /\ heap \in HeapData
  /\ requested \in [Addr -> Lengths \cup {0}]
  /\ call \in Calls \cup {NoCall}
  /\ result \in {NULL} \cup {a + StructSize : a \in Addr}

Init ==
  /\ heap = [pxEnd |-> NULL, freeList |-> <<>>, size |-> [a \in Addr |-> 0],
             owned |-> {}, remaining |-> 0, minimum |-> 0]
  /\ requested = [a \in Addr |-> 0]
  /\ call = NoCall
  /\ result = NULL

-----------------------------------------------------------------------------
\* The heap's functions take its data h and return it changed.  A header that
\* has become the inside of another block has size 0.

prvHeapInit(h) ==
  LET whole == EndMarker - First IN
  [h EXCEPT !.pxEnd = EndMarker, !.freeList = <<First>>, !.size[First] = whole,
            !.remaining = whole, !.minimum = whole]

\* The place of b in the list: in front of the first free block above it.
Place(list, b) ==
  CHOOSE k \in 1..(Len(list) + 1) :
    /\ k <= Len(list) => list[k] >= b
    /\ \A j \in 1..(k - 1) : list[j] < b

\* Mutant: the block behind is left where it is.
prvInsertBlockIntoFreeList_NotBehind(h, b) ==
  LET list == h.freeList
      i == Place(list, b)
      before == i > 1 /\ list[i - 1] + h.size[list[i - 1]] = b
  IN IF before
     THEN [h EXCEPT !.size = [@ EXCEPT ![list[i - 1]] = @ + h.size[b], ![b] = 0]]
     ELSE [h EXCEPT !.freeList = InsertAt(@, i, b)]

\* The block b goes to its place, and is merged with the one before and the one
\* behind where they touch.
prvInsertBlockIntoFreeList(h, b) ==
  LET list == h.freeList
      i == Place(list, b)
      before == i > 1 /\ list[i - 1] + h.size[list[i - 1]] = b
      from == IF before THEN list[i - 1] ELSE b
      joined == IF before THEN h.size[from] + h.size[b] ELSE h.size[b]
      behind == i <= Len(list) /\ from + joined = list[i]
      grown == IF behind THEN joined + h.size[list[i]] ELSE joined
      swallowed == (IF before THEN {b} ELSE {}) \cup (IF behind THEN {list[i]} ELSE {})
  IN [h EXCEPT
        !.freeList = SubSeq(list, 1, IF before THEN i - 2 ELSE i - 1) \o <<from>>
                       \o SubSeq(list, IF behind THEN i + 1 ELSE i, Len(list)),
        !.size = [a \in Addr |-> IF a = from THEN grown
                                 ELSE IF a \in swallowed THEN 0 ELSE h.size[a]]]

\* The length of the block for n bytes, 0 when a size_t cannot hold it.
WithHeader(n) == IF n > 0 /\ (n + StructSize) % Word > n THEN (n + StructSize) % Word ELSE 0
BlockLength(n) ==
  LET w == WithHeader(n) IN
  IF w % Align = 0 \/ (RoundUp(w) % Word) > w THEN RoundUp(w) % Word ELSE 0

\* The positions of the free blocks that are large enough: the first is taken.
Fitting(h, w) == {i \in DOMAIN h.freeList : h.size[h.freeList[i]] >= w}

Succeeds(h, n) ==
  LET w == BlockLength(n) IN
  n < AllocatedBit /\ w > 0 /\ w <= h.remaining /\ Fitting(h, w) # {}

Position(h, n) == Min(Fitting(h, BlockLength(n)))
Chosen(h, n) == h.freeList[Position(h, n)]

\* Mutant: the block that is split keeps its length.
Split_LengthKept(h, i, w) ==
  LET b == h.freeList[i]
      off == [h EXCEPT !.freeList = RemoveAt(@, i)]
      rest == h.size[b] - w
  IN IF rest > MinimumBlockSize
     THEN prvInsertBlockIntoFreeList([off EXCEPT !.size[b + w] = rest], b + w)
     ELSE off

\* The i-th free block is taken off the list and, if enough is left, split at w.
Split(h, i, w) ==
  LET b == h.freeList[i]
      off == [h EXCEPT !.freeList = RemoveAt(@, i)]
      rest == h.size[b] - w
  IN IF rest > MinimumBlockSize
     THEN prvInsertBlockIntoFreeList([off EXCEPT !.size[b] = w, !.size[b + w] = rest], b + w)
     ELSE off

\* Mutant: the bytes given away are not subtracted.
Allocated_NotCounted(h, n) ==
  [Split(h, Position(h, n), BlockLength(n)) EXCEPT !.owned = @ \cup {Chosen(h, n)}]

Allocated(h, n) ==
  LET b == Chosen(h, n)
      s == Split(h, Position(h, n), BlockLength(n))
      left == s.remaining - s.size[b]
  IN [s EXCEPT !.remaining = left,
               !.minimum = IF left < @ THEN left ELSE @,
               !.owned = @ \cup {b}]

\* Mutant: the length is read after the block was merged with its neighbours.
Freed_CountedLate(h, b) ==
  LET f == prvInsertBlockIntoFreeList([h EXCEPT !.owned = @ \ {b}], b) IN
  [f EXCEPT !.remaining = @ + f.size[b]]

Freed(h, b) ==
  prvInsertBlockIntoFreeList(
    [h EXCEPT !.owned = @ \ {b}, !.remaining = @ + h.size[b]], b)

-----------------------------------------------------------------------------
\* pvPortMalloc prepares the heap when it is first called.
Ready == IF heap.pxEnd = NULL THEN prvHeapInit(heap) ELSE heap

pvPortMalloc(n) ==
  IF Succeeds(Ready, n)
  THEN /\ heap' = Allocated(Ready, n)
       /\ result' = Chosen(Ready, n) + StructSize
       /\ requested' = [requested EXCEPT ![Chosen(Ready, n)] = n]
  ELSE /\ heap' = Ready
       /\ result' = NULL
       /\ UNCHANGED requested

TEE_Malloc(len, hint) ==
  /\ call' = [len |-> len, hint |-> hint]
  /\ IF hint = "invalid"
     THEN result' = NULL /\ UNCHANGED <<heap, requested>>
     ELSE pvPortMalloc(len)

\* vPortFree: the header's allocated bit is set in the blocks TAs own.
TEE_Free(b) ==
  /\ b \in heap.owned
  /\ heap' = Freed(heap, b)
  /\ requested' = [requested EXCEPT ![b] = 0]
  /\ call' = NoCall
  /\ result' = NULL

Next ==
  \/ \E n \in Lengths, hint \in Hints : TEE_Malloc(n, hint)
  \/ \E b \in Addr : TEE_Free(b)

Spec == Init /\ [][Next]_vars

-----------------------------------------------------------------------------
\* Every byte of the heap is in exactly one block, owned or free: no order of
\* splits and merges loses memory or hands a byte out twice (heap_4.c:236-255,
\* 432-492).
EachByteInOneBlock ==
  heap.pxEnd # NULL =>
    \A x \in First..(EndMarker - 1) :
      Cardinality({b \in heap.owned \cup Range(heap.freeList) :
                     b <= x /\ x < b + heap.size[b]}) = 1

\* The free blocks are in the order of their addresses and no two of them
\* touch, so that the heap is never more fragmented than the TAs' own blocks
\* make it (heap_4.c:437-492).
Coalesced ==
  \A i \in 1..(Len(heap.freeList) - 1) :
    heap.freeList[i] + heap.size[heap.freeList[i]] < heap.freeList[i + 1]

\* The bytes that lie in free blocks.
FreeBytes ==
  {x \in First..(EndMarker - 1) :
     \E i \in DOMAIN heap.freeList :
        heap.freeList[i] <= x /\ x < heap.freeList[i] + heap.size[heap.freeList[i]]}

\* xFreeBytesRemaining, which pvPortMalloc tests before it searches, counts the
\* bytes in free blocks, and xMinimumEverFreeBytesRemaining is a lower bound of it
\* (heap_4.c:213, 262-267, 345).
FreeBytesExact ==
  /\ heap.remaining = Cardinality(FreeBytes)
  /\ heap.minimum <= heap.remaining

\* The heap implements Allocator: regions lie in the heap and are disjoint, and
\* a request is refused only if every gap is smaller than it by the header of
\* the block behind the gap, its own, the remainder that was not split off from
\* the block before, and two roundings (heap_4.c:157-313).
Regions == {[from |-> b + StructSize, len |-> requested[b]] : b \in heap.owned}
Memory ==
  INSTANCE Allocator WITH
    Low <- First, High <- EndMarker,
    Slack <- 2 * StructSize + MinimumBlockSize + 2 * (Align - 1),
    Calls <- Calls, regions <- Regions, call <- call, answer <- result
ImplementsAllocator == Memory!AllocatorSpec
=============================================================================
