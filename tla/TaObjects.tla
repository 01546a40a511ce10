----------------------------- MODULE TaObjects ------------------------------
(***************************************************************************)
(* The objects and operations of a TA: tee_obj.c, the allocation and       *)
(* release of objects and operation states in tee_svc_cryp.c, their        *)
(* wrappers in tee_api_objects.c and tee_api_operations.c, and the         *)
(* clearing of a TA context in user_ta.c.                                  *)
(*                                                                         *)
(* A tee_obj is linked into the list of its TA context by the TAILQ macros *)
(* of sys/queue.h.  The links are in the object itself, so the list is     *)
(* modelled with its pointers: freeing a block leaves the links in it as   *)
(* they were (vPortFree writes to the block header only), and the next     *)
(* allocation of the block overwrites them.  Objects, operations, handle   *)
(* elements and states are taken to lie in memory of their own.            *)
(*                                                                         *)
(* A failure that leaves no trace (no memory for the first allocation of a *)
(* call, an algorithm the table of the call does not have) is a stuttering *)
(* step.                                                                   *)
(***************************************************************************)
EXTENDS Integers, FiniteSets

CONSTANTS
    Block,      \* the blocks that can hold a tee_obj
    Op,         \* the addresses an operation can have
    NULL,       \* the null pointer and TEE_HANDLE_NULL
    ListHead,   \* &utc->objects.tqh_first, where a tqe_prev may point
    FreesKeys,  \* whether the TA frees its transient objects (HOTP, AES) or
                \* leaves them to the end of its session (BW)
    Shortage,   \* whether an operation may fail once its key exists, and an
                \* object once it has its block
    MaxElems    \* bound: handle elements that hold one address

ASSUME ObjectsAssumption ==
    /\ IsFiniteSet(Block)
    /\ NULL \notin Block
    /\ ListHead \notin Block \union {NULL}
    /\ FreesKeys \in BOOLEAN
    /\ Shortage \in BOOLEAN
    /\ MaxElems \in Nat

VARIABLES
    heap,      \* whether each block is allocated
    list,      \* utc->objects: tqh_first, and tqe_next and tqe_prev by block
    key,       \* key1 of the state of each operation
    states,    \* utc->cryp_states: the operations with a state, in any order
    alive,     \* the addresses at which there is an operation
    hndls,     \* oprtn_hndl_head: how many elements hold each address
    heldObjs,  \* object handles the TA has
    phase      \* run: in the TA; clear: its context is being destroyed;
               \* hang, panic, fault: the secure world has stopped

vars == <<heap, list, key, states, alive, hndls, heldObjs, phase>>

Objects == {b \in Block : heap[b] = "object"}
FreeBlocks == {b \in Block : heap[b] = "free"}

Init ==
    /\ heap = [b \in Block |-> "free"]
    /\ list = [first |-> NULL, next |-> [b \in Block |-> NULL],
               prev |-> [b \in Block |-> NULL]]
    /\ key = [p \in Op |-> NULL]
    /\ states = {}
    /\ alive = {}
    /\ hndls = [p \in Op |-> 0]
    /\ heldObjs = {}
    /\ phase = "run"

\* What the call that stops has changed before that is not recorded.
Stops(how) ==
    /\ phase' = how
    /\ UNCHANGED <<heap, list, key, states, alive, hndls, heldObjs>>

(***************************************************************************)
(* The list macros and tee_obj_get.                                        *)
(***************************************************************************)

\* TEE_Malloc with TEE_MALLOC_FILL_ZERO: the links in the block are zeroed.
Zeroed(l, b) == [l EXCEPT !.next[b] = NULL, !.prev[b] = NULL]

\* Mutant: the new element does not know that it is the first one.
Inserted_NoPrev(l, b) ==
    [first |-> b,
     next |-> [l.next EXCEPT ![b] = l.first],
     prev |-> [x \in Block |-> IF x = l.first THEN b ELSE l.prev[x]]]

\* TAILQ_INSERT_HEAD, also of an element that is in the list already.
Inserted(l, b) ==
    [first |-> b,
     next |-> [l.next EXCEPT ![b] = l.first],
     prev |-> [x \in Block |-> IF x = b THEN ListHead
                               ELSE IF x = l.first THEN b ELSE l.prev[x]]]

\* Mutant: the links of the removed element are swapped.
Removed_Swapped(l, b) ==
    LET nx == l.next[b]
        pv == l.prev[b] IN
    [first |-> IF pv = ListHead THEN pv ELSE l.first,
     next |-> IF pv = ListHead THEN l.next ELSE [l.next EXCEPT ![pv] = pv],
     prev |-> IF nx = NULL THEN l.prev ELSE [l.prev EXCEPT ![nx] = nx]]

\* Mutant: the element behind the removed one keeps its link back.
Removed_NoPrev(l, b) ==
    LET nx == l.next[b]
        pv == l.prev[b] IN
    [l EXCEPT !.first = IF pv = ListHead THEN nx ELSE @,
              !.next = IF pv = ListHead THEN @ ELSE [@ EXCEPT ![pv] = nx]]

\* TAILQ_REMOVE, of an element whose tqe_prev is not null.
Removed(l, b) ==
    LET nx == l.next[b]
        pv == l.prev[b] IN
    [first |-> IF pv = ListHead THEN nx ELSE l.first,
     next |-> IF pv = ListHead THEN l.next ELSE [l.next EXCEPT ![pv] = nx],
     prev |-> IF nx = NULL THEN l.prev ELSE [l.prev EXCEPT ![nx] = pv]]

\* Where TAILQ_FOREACH is after n elements.
Steps == 0..Cardinality(Block)
Walk(l) ==
    LET w[n \in Steps] ==
          IF n = 0 THEN l.first
          ELSE IF w[n-1] \in Block THEN l.next[w[n-1]] ELSE NULL
    IN w

\* tee_obj_get: the search for object x finds it, ends, or never ends.
Find(l, x) ==
    CASE x # NULL /\ \E n \in Steps : Walk(l)[n] = x -> "found"
      [] x = NULL \/ \A n \in Steps : Walk(l)[n] # x ->
            IF Walk(l)[Cardinality(Block)] = NULL THEN "absent" ELSE "loop"

(***************************************************************************)
(* Transient objects.                                                      *)
(***************************************************************************)

\* utee_cryp_obj_alloc: tee_obj_set_type fails for its type, its size or the
\* memory of its attributes, and the object is freed before it is linked.
AllocateObjectFails(b) ==
    /\ phase = "run"
    /\ Shortage
    /\ b \in FreeBlocks
    /\ list' = Zeroed(list, b)
    /\ UNCHANGED <<heap, key, states, alive, hndls, heldObjs, phase>>

TEE_AllocateTransientObject(b) ==
    /\ phase = "run"
    /\ b \in FreeBlocks
    /\ heap' = [heap EXCEPT ![b] = "object"]
    /\ list' = Inserted(list, b)
    /\ heldObjs' = heldObjs \union {b}
    /\ UNCHANGED <<key, states, alive, hndls, phase>>

\* TEE_FreeTransientObject: utee_cryp_obj_get_info looks the object up, and
\* utee_cryp_obj_close frees it.  It stays in the list.
TEE_FreeTransientObject(b) ==
    /\ phase = "run"
    /\ FreesKeys
    /\ b \in heldObjs
    /\ \/ /\ Find(list, b) = "found"
          /\ heap' = [heap EXCEPT ![b] = "free"]
          /\ heldObjs' = heldObjs \ {b}
          /\ UNCHANGED <<list, key, states, alive, hndls, phase>>
       \/ /\ Find(list, b) = "absent"
          /\ Stops("panic")
       \/ /\ Find(list, b) = "loop"
          /\ Stops("hang")

\* TEE_PopulateTransientObject, TEE_ResetTransientObject, TEE_SetOperationKey:
\* the calls that look an object up and do not find it stop the TA.
UseObject(b) ==
    /\ phase = "run"
    /\ b \in heldObjs
    /\ \/ /\ Find(list, b) = "absent"
          /\ Stops("panic")
       \/ /\ Find(list, b) = "loop"
          /\ Stops("hang")

(***************************************************************************)
(* Operations.                                                             *)
(***************************************************************************)

\* TEE_AllocateOperation of a cipher or MAC, with a key object of its own in b.
\* (The second key of AES-XTS, which the build leaves out, is not modelled.)
\* utee_cryp_state_alloc finds the key at the head of the list.
AllocateKeyed(p, b) ==
    /\ phase = "run"
    /\ p \in Op \ alive
    /\ hndls[p] < MaxElems
    /\ b \in FreeBlocks
    /\ heap' = [heap EXCEPT ![b] = "object"]
    /\ list' = Inserted(list, b)
    /\ key' = [key EXCEPT ![p] = b]
    /\ states' = states \union {p}
    /\ alive' = alive \union {p}
    /\ hndls' = [hndls EXCEPT ![p] = @ + 1]
    /\ UNCHANGED <<heldObjs, phase>>

\* TEE_AllocateOperation of a digest.
AllocateDigest(p) ==
    /\ phase = "run"
    /\ p \in Op \ alive
    /\ hndls[p] < MaxElems
    /\ key' = [key EXCEPT ![p] = NULL]
    /\ states' = states \union {p}
    /\ alive' = alive \union {p}
    /\ hndls' = [hndls EXCEPT ![p] = @ + 1]
    /\ UNCHANGED <<heap, list, heldObjs, phase>>

\* TEE_AllocateOperation fails for its buffer or its key, or as a digest for its
\* state: the operation is freed, the element with its address is not.  If the
\* state got as far as the list, cryp_state_free looks for object 0.
AllocateFailsEarly(p) ==
    /\ phase = "run"
    /\ p \in Op \ alive
    /\ hndls[p] < MaxElems
    /\ hndls' = [hndls EXCEPT ![p] = @ + 1]
    /\ \/ /\ UNCHANGED <<list, phase>>
       \/ /\ Shortage
          /\ \E b \in FreeBlocks : list' = Zeroed(list, b)
          /\ UNCHANGED phase
       \/ /\ Find(list, NULL) = "loop"
          /\ phase' = "hang"
          /\ UNCHANGED list
    /\ UNCHANGED <<heap, key, states, alive, heldObjs>>

\* TEE_AllocateOperation fails for its state, or for the context of the state:
\* then cryp_state_free looks for object 0, which takes the whole list.  The key
\* is freed by TEE_FreeTransientObject and stays in the list.
AllocateFailsLate(p, b) ==
    /\ phase = "run"
    /\ Shortage
    /\ p \in Op \ alive
    /\ hndls[p] < MaxElems
    /\ b \in FreeBlocks
    /\ list' = Inserted(list, b)
    /\ hndls' = [hndls EXCEPT ![p] = @ + 1]
    /\ \/ UNCHANGED <<heap, phase>>
       \/ /\ Find(Inserted(list, b), NULL) = "loop"
          /\ heap' = [heap EXCEPT ![b] = "object"]
          /\ phase' = "hang"
    /\ UNCHANGED <<key, states, alive, heldObjs>>

\* Mutant: the key is freed, but not taken off the list.
cryp_state_free_NoUnlink(p) ==
    /\ heap' = IF key[p] = NULL THEN heap ELSE [heap EXCEPT ![key[p]] = "free"]
    /\ states' = states \ {p}
    /\ UNCHANGED list

\* Mutant: the state is left in the list of states.
cryp_state_free_Linked(p) ==
    /\ heap' = IF key[p] = NULL THEN heap ELSE [heap EXCEPT ![key[p]] = "free"]
    /\ list' = IF key[p] = NULL THEN list ELSE Removed(list, key[p])
    /\ UNCHANGED states

\* The state of an operation, when the lookups of its keys end: key1 is closed,
\* unlinked this time, if it is found.
cryp_state_free(p) ==
    LET k == key[p] IN
    /\ heap' = IF Find(list, k) = "found" THEN [heap EXCEPT ![k] = "free"]
                                          ELSE heap
    /\ list' = IF Find(list, k) = "found" THEN Removed(list, k) ELSE list
    /\ states' = states \ {p}

\* What cryp_state_free comes to: it looks for key1, and, in the list that is
\* left, for key2, which is 0.
FreeingState(p) ==
    LET k == key[p] IN
    CASE Find(list, k) = "loop" -> "hang"
      [] Find(list, k) = "absent" -> "ends"
      [] Find(list, k) = "found" ->
            IF list.prev[k] = NULL THEN "fault"
            ELSE IF Find(Removed(list, k), NULL) = "loop" THEN "hang"
            ELSE "ends"

\* TEE_FreeOperation.  An element with the address is freed with the operation.
TEE_FreeOperation(p) ==
    /\ phase = "run"
    /\ p \in states
    /\ \/ /\ FreeingState(p) = "ends"
          /\ cryp_state_free(p)
          /\ alive' = alive \ {p}
          /\ hndls' = [hndls EXCEPT ![p] = @ - 1]
          /\ UNCHANGED <<key, heldObjs, phase>>
       \/ /\ FreeingState(p) \in {"hang", "fault"}
          /\ Stops(FreeingState(p))

(***************************************************************************)
(* The end of the session: user_ta_ctx_destroy.                            *)
(***************************************************************************)

\* The TA returned from its close entry point.
CloseSession ==
    /\ phase = "run"
    /\ states # {} \/ list.first # NULL
    /\ phase' = "clear"
    /\ heldObjs' = {}
    /\ UNCHANGED <<heap, list, key, states, alive, hndls>>

\* tee_svc_cryp_free_states.  The operations themselves are not freed.
ClearState(p) ==
    /\ phase = "clear"
    /\ p \in states
    /\ \/ /\ FreeingState(p) = "ends"
          /\ cryp_state_free(p)
          /\ UNCHANGED <<key, alive, hndls, heldObjs, phase>>
       \/ /\ FreeingState(p) \in {"hang", "fault"}
          /\ Stops(FreeingState(p))

\* Mutant: objects and states are closed in the opposite order.
ClearObject_BeforeStates ==
    /\ phase = "clear"
    /\ list.first # NULL
    /\ heap' = [heap EXCEPT ![list.first] = "free"]
    /\ list' = Removed(list, list.first)
    /\ UNCHANGED <<key, states, alive, hndls, heldObjs, phase>>

\* tee_obj_close_all: tee_obj_close of the first object.  Freeing a block that
\* is free already changes nothing.
ClearObject ==
    /\ phase = "clear"
    /\ states = {}
    /\ list.first # NULL
    /\ \/ /\ list.prev[list.first] # NULL
          /\ heap' = [heap EXCEPT ![list.first] = "free"]
          /\ list' = Removed(list, list.first)
          /\ UNCHANGED <<key, states, alive, hndls, heldObjs, phase>>
       \/ /\ list.prev[list.first] = NULL
          /\ Stops("fault")

\* The context is freed; the next session starts with one of its own.
ClearDone ==
    /\ phase = "clear"
    /\ states = {}
    /\ list.first = NULL
    /\ phase' = "run"
    /\ UNCHANGED <<heap, list, key, states, alive, hndls, heldObjs>>

Clear == ClearObject \/ ClearDone \/ \E p \in Op : ClearState(p)

\* TEE_Panic, and the other ends, never return.
Halted ==
    /\ phase \in {"hang", "panic", "fault"}
    /\ UNCHANGED vars

Next ==
    \/ \E b \in Block :
          \/ TEE_AllocateTransientObject(b)
          \/ AllocateObjectFails(b)
          \/ TEE_FreeTransientObject(b)
          \/ UseObject(b)
    \/ \E p \in Op :
          \/ AllocateDigest(p)
          \/ AllocateFailsEarly(p)
          \/ TEE_FreeOperation(p)
          \/ \E b \in Block : AllocateKeyed(p, b) \/ AllocateFailsLate(p, b)
    \/ CloseSession
    \/ Clear
    \/ Halted

Spec == Init /\ [][Next]_vars

\* Closing a session is one call in the only thread of the secure world.
FairSpec == Spec /\ WF_vars(Clear)

(***************************************************************************)
(* Properties.                                                             *)
(***************************************************************************)

Pointer == Block \union {NULL}

\* Every variable has its type; in particular a link of the object list points
\* to a block, whatever has been freed while it was linked.
TypeOK ==
    /\ heap \in [Block -> {"free", "object"}]
    /\ list \in [first : Pointer, next : [Block -> Pointer],
                 prev : [Block -> Pointer \union {ListHead}]]
    /\ key \in [Op -> Pointer]
    /\ states \subseteq Op
    /\ alive \subseteq Op
    /\ hndls \in [Op -> Nat]
    /\ heldObjs \subseteq Block
    /\ phase \in {"run", "clear", "hang", "panic", "fault"}

\* The list of a TA context holds exactly the allocated objects, each once, and
\* its links back agree with its links forward (TAILQ_INSERT_HEAD and
\* TAILQ_REMOVE in tee_obj.c).  So nothing is left when a context is cleared.
WellLinked ==
    LET w == Walk(list) IN
    /\ w[Cardinality(Block)] = NULL
    /\ {w[n] : n \in Steps} \ {NULL} = Objects
    /\ list.first # NULL => list.prev[list.first] = ListHead
    /\ \A b \in Objects : list.next[b] # NULL => list.prev[list.next[b]] = b

\* An operation owns its key: the object is allocated for as long as the state
\* exists, no other operation uses it, and the TA has no handle of it
\* (utee_cryp_state_alloc, cryp_state_free).
KeysClaimed ==
    /\ \A p \in states : key[p] # NULL => key[p] \in Objects \ heldObjs
    /\ \A p, q \in states : p # q /\ key[p] # NULL => key[p] # key[q]

\* An object ends with its owner only: a TA's object when the TA frees it, a key
\* with its operation's state, and any object at the end of a session when no
\* state is left (the order of user_ta_ctx_destroy).
ObjectsEndWithOwner ==
    [][\A b \in Objects :
          heap'[b] = "free" =>
             \/ b \in heldObjs \ heldObjs'
             \/ \E p \in states \ states' : key[p] = b
             \/ phase = "clear" /\ states = {}]_vars

\* A TA that uses its handles correctly is never stopped by its object list.
NeverStops == phase \in {"run", "clear"}

\* Clearing the context of a closed session comes to an end: the loops of
\* tee_svc_cryp_free_states and tee_obj_close_all empty their lists.
ClearEnds == phase = "clear" ~> phase = "run"
=============================================================================
