# A verification development of mTower

mTower is a Trusted Execution Environment for small devices.  Client
applications (CAs) run as FreeRTOS tasks in the normal world and call Trusted
Applications (TAs) in the secure world through the GlobalPlatform client API.
This directory holds TLA+ models of that path, the TLC runs that check them on
small instances and the TLAPS proofs of what holds for every instance.

## The system

| part | source | state | operations |
| --- | --- | --- | --- |
| client tasks | `arch/cortex-r52/rzt2m/.../nonsecure/main_ns.c` | the interrupt mask, the tasks | the menu creates a task; a task masks interrupts, runs its application, unmasks, deletes itself |
| client applications | `apps/*/ca` | a `TEEC_Session` on the stack | open, a list of commands, close |
| client library | `tee_client/libteec/src/tee_client_api.c` | temporary buffers, the ioctl argument | `TEEC_OpenSession`, `TEEC_InvokeCommand`, `TEEC_CloseSession` |
| transport | `tee_transport_ioctl` in the same file | the shared memory window | copy in, hypercall, copy back |
| request loop | `.../secure/main.c` | none | one request at a time |
| ioctl entry | `tee/kernel/entry_std.c` | none | open, invoke, close, parameter copies |
| session manager | `tee/kernel/tee_ta_manager.c` | `tee_open_sessions`, `tee_ctxes`, `current_session` | init, open, invoke, close, find |
| TA glue | `tee/kernel/pseudo_ta.c`, `user_ta.c` | one context per session | lookup, entry trampolines, destruction |
| TAs | `apps/*/ta` | session data | open, commands, close |
| internal API | `tee/lib/libutee` | operation handles, TA memory blocks | objects, operations, arithmetic, memory, panic |
| secure services | `tee/tee` | per TA: objects, operation states; the list of persistent objects | object and operation system calls, storage |
| heap | `common/heap_4.c` | the free list | malloc, free |

How the parts interact.  A CA calls the library, the library builds an argument
and hands it to the transport.  The transport copies argument and buffers into
one window, at fixed addresses, and makes a hypercall; the secure world serves
the ioctl it finds there and returns; the transport copies everything back.
Inside the secure world `entry_std.c` calls the session manager, which calls
the TA through its context's function table.  The TA calls the internal API,
whose services find the TA they work for through the global `current_session`.

What is hard in it.

* The window has no lock.  Tasks are kept apart only by the interrupt mask.
* A session id is the address of a heap block, and the heap reuses addresses.
* `tee_ta_pop_current_session` restores nothing, so `current_session` is stale
  after each close.
* Sessions are linked before it is known whether they can be opened, and there
  are three later ways to fail.
* `TEE_Panic` loops for ever on the only thread of the secure world, while the
  caller waits with interrupts masked.
* A TA returns sizes larger than the buffer it was given, by design.
* Objects are linked through the memory they are in, and one way of freeing
  them does not unlink them.
* Persistent objects are unlinked twice, are stored under ids nobody compares,
  and may go when an open has no memory for its handle.
* The cipher calls check the room for their output with one formula and feed
  the data with another.
* Key and counter of the HOTP TA are global to all of its clients.
* Cleaning up after a failed call was partly commented out in the port.

What makes each part correct: sessions, contexts, session data and memory
agree at all times; an id a client holds stays valid until that client closes
it; services see the executing session; every caller gets the answer to its own
request; copies stay inside the window and inside the buffers; what a call
acquires it gives back; every task finishes; memory blocks never overlap and
merge again; a stored key is found until it is erased; the data of a stream
passes a cipher once and in order under one key; a client gets the codes of its
own key.  `PROJECT.json` lists the hazards
behind these at their lines.

## Modules

| module | what it is |
| --- | --- |
| `TeeService` | the abstract specification: what the three ioctls promise |
| `TaManager` | the secure world's session manager in detail; implements `TeeService` |
| `TaManagerProofs` | its theorems |
| `MCTaManager` | instances for TLC |
| `TeeClient` | tasks, client library and transport, on top of `TeeService` |
| `TeeClientProofs` | its theorems |
| `MCTeeClient` | instances for TLC |
| `TaObjects` | objects and operations of a TA, and the clearing of its context |
| `TaObjectsProofs` | its theorems |
| `MCTaObjects` | instances for TLC |
| `Allocator` | the abstract specification of memory: disjoint regions |
| `Heap4` | the heap below `TEE_Malloc`; implements `Allocator` |
| `Heap4Proofs` | its theorems |
| `MCHeap4` | instance for TLC |
| `KeyStore` | the abstract specification of the stored keys: a queue |
| `Wallet` | persistent storage and the commands of the wallet TA; implements `KeyStore` |
| `WalletProofs` | its theorems |
| `MCWallet` | instances for TLC |
| `Operation` | the calls of the operation API, as operators on an operation |
| `OperationCalls` | an operation in the hands of any TA, and of the AES TA |
| `OperationProofs` | its theorems |
| `MCOperationCalls` | instance for TLC |
| `Hotp` | the HOTP TA and its clients, on top of `Operation` |
| `HotpProofs` | its theorems |
| `MCHotp` | instance for TLC |
| `ProofLemmas` | lemmas the proofs share: division, streams of bytes, linked lists |

### TeeService

State: the set of open sessions, the last answer, and whether the secure world
still answers.  One action per answer.  `Stop` is the panic or fault after
which no request is answered any more.  `OpenRefused` allows a session nobody
has the id of to stay behind: the code does that when a TA rejects an open (see
the findings).

### TaManager

`heap` says what each block is allocated for: a `tee_ta_session`, a TA context
or TA session data.  `sess` and `ctx` are the contents of these blocks,
`open_sessions` and `tee_ctxes` the two global lists (as sets: order is not
observable, since lookups compare addresses).  `phase` and `run` say which TA
entry point executes, `held` is a history variable: the ids clients were given
and have not closed.

An ioctl that enters a TA is two steps, `OpenEnters` then `OpenAccepted` or
`OpenRejected`, and the like, split where control passes to the TA and back;
all the rest of a handler is one step, since the secure world is single
threaded.  `OpenFails` has the failures of `tee_ta_init_session`, which leave
everything as it was.  `InvokeFaults` and `CloseFaults` are the null pointers
the code would follow.  The TAs are the constants' four kinds: pseudo or user,
with or without session data allocated in the open entry point, with or without
an open entry point.

Abstracted: parameter values, the contents of session data, log output.  Not
here: what a TA's commands do, and the objects and operation states that
`user_ta_ctx_destroy` frees with the context (see `TaObjects`).

### TeeClient

Each task runs a `Program`: the parameters of its open, of each command, and
whether it stops at the first failed command (`apps/hotp`) or goes on
(`apps/hello_world`, `apps/aes`).  A call is

1. `PreProcess` or `PreProcessFails`: a temporary buffer per memory reference,
   filled from the application's buffer.  `UnsetContext` is an application that
   goes on after a failed open with a `TEEC_Session` nobody set: its fields are
   uninitialised, so every outcome is allowed;
2. `CopyArg`, then `CopyParam` once per parameter: the copy into the window,
   with its size checks.  These are separate steps because a preemption between
   them is what the interrupt mask has to exclude;
3. `Serve`, one step of `TeeService` with the effect of the TA on the output
   buffers and on the sizes, or `ServeStops`;
4. `CopyBack`: buffers, argument, pointers;
5. `Return`: post-processing, release of the temporary buffers, the result.

`arg` and `window.arg` are records of the ioctl argument's fields; a buffer is
a sequence of tags that say who wrote each cell.  `served` and `handed` are
history variables.  The hypercall returns 0 whenever the secure world answers:
the request loop discards what `ioctl` returns.

### TaObjects

The list `utc->objects` of one TA context with its links as they lie in memory:
`list.first`, and `list.next` and `list.prev` by block, so that the TAILQ macros
can be applied to an element that was freed or is in the list already.  `heap`
says which blocks are allocated, `heldObjs` are the object handles of the TA,
`states` the operation states of the context, `key` their keys, `alive` the
operations in memory and `hndls` the elements of the list by which the API
recognises an operation.

`TEE_FreeTransientObject` frees without unlinking, as the code does;
`cryp_state_free` and `tee_obj_close_all` unlink.  Each lookup (`Find`) finds
its object, ends, or never ends.  `AllocateFailsEarly` and `AllocateFailsLate`
are the error paths of `TEE_AllocateOperation`.  After `CloseSession` the
context is cleared step by step, states first; then the next session starts with
a new context, in the memory as it was left.

The constants say what the TA and the memory are like.  With `FreesKeys` the TA
frees its transient objects, as HOTP and AES do; without, it leaves them to the
end of its session, as BW does.  With `Shortage` an allocation inside a call may
fail after the object has its block.

Abstracted: attributes and key material; where other allocations lie, so that a
block an object has left holds an object next or nothing (a link overwritten by
other data would be worse than anything the model shows); the order of the
states.

### Allocator and Heap4

`Allocator` knows the regions handed out.  A request gets a region inside the
heap that touches no other, or is refused; it may be refused only when its
length is 0, its hint is invalid, or no gap between the regions is larger than
it by `Slack`.

`Heap4` is `heap_4.c` below `TEE_Malloc` and `TEE_Free`.  `heap.size` has the
length of each block by the address of its header, `heap.freeList` the addresses
of the free blocks in the order of the links, `heap.owned` the blocks with the
allocated bit; the two counters are as in the code.  `prvHeapInit` runs inside
the first allocation, `Split` and `prvInsertBlockIntoFreeList` inside the calls
that use them.  `Word` is the width of a `size_t`, so that the checks for
overflow are taken.  `Slack` is two headers, the largest remainder that is not
split off, and two roundings: `ImplementsAllocator` shows that nothing else is
wasted, which is false as soon as one merge is missed.

Abstracted: the contents of memory and the filling with zeros.  Left out:
`vPortGetHeapStats`, which nothing calls, and freeing what was not allocated,
which is outside the contract of the API.

### KeyStore and Wallet

`Wallet` has `global_pobj_list` with its links as they lie in memory, and the
objects' owners, keys and reference counts.  The services are operators on the
store; the commands of `bw_ta.c` are actions, one step each, since every handle
a command opens it closes or leaks before it answers.  `Others` are TAs that
store an object too: the repository has none, but the list is shared.

What the code does and the model keeps: creating never looks for an existing
object; opening returns the *last* object of the list, provided that no object
of another TA is in it; opening takes no reference, so that without memory for a
handle the release drops the stored object itself (`Lose` in `KeyStore`);
deleting unlinks the object and the release unlinks it again.  The second
unlinking writes through the links the object had, which is harmless as long as
nothing was linked in between.  `check_masterkey` tests a result nobody set
(`bw_ta.c:111-112`): its answer is a choice.  `TEE_CreatePersistentObject`
returns no handle and the caller closes an uninitialised one; two allocations of
the create are used unchecked: `phase = "undefined"` is where these may lead.
A key that is read through a handle that is NULL is a panic.

`KeyStore` is what that amounts to: a queue of objects, in which a new key goes
to the end and the one in front is used and erased, provided that all objects in
the queue are the wallet's.

### Operation and OperationCalls

An operation is a record: algorithm, `operationState`, the two handle flags, the
key, the buffer for incomplete blocks, the context of the service (the key it
was started with and the data it absorbed) and what the last call returned.
Bytes are numbered in the order a TA gives them.  Each API call is an operator
from operation to operation; a panic sets `stop`, after which nothing happens.
`tee_buffer_update` is translated with its roundings: filling the block that was
begun, feeding from the buffer, feeding from the source, keeping the rest.
`Supported` are the algorithms of the provider: as the repository is built
(`crypto/Makefile`) only AES-CTR, HMAC and SHA are; the code for the other modes
is the same file, so the run includes ECB, CTS and XTS.

`OperationCalls` is a state machine of these.  The TA is either any TA, which
may make any call at any time with any length and room, or the AES TA, whose
commands are sequences of calls (`alloc_resources`, `set_aes_key`,
`reset_aes_iv`, `cipher_buffer`).  Its client may send every command at any
time and with any sizes, because `aes_ns.c` goes on after a failed command
(`errx` only prints) and the TA checks little.  `sess` is what `struct
aes_cipher` adds to the operation: `key_size`, which a refused PREPARE may
change, and the `maxKeySize` of the operation.  Operation and key object are
both there or both null, so `op` stands for both.

Two history variables say what a client can know: `told`, the size of the last
PREPARE that succeeded (0 after one that ran out of resources) and whether an
initial vector was accepted since the last key, and `permitted`, whether the
last command was in accordance with it.  `AesClientServed` says that the TA
panics, by misuse or while feeding, only at a command that was not.  What such
commands are is listed below under the disagreements.  A panic for want of
memory, which `TEE_PopulateTransientObject` raises at any time, is a stop of its
own (`"memory"`) that no client can avoid; what freed key objects do to the
object list of the TA is not here but in `TaObjects`.

Two facts about the code that the operators keep: the check of the destination
in `TEE_CipherUpdate` takes two whole blocks off for CTS and XTS although fewer
bytes may stay in the buffer, so that two blocks and one byte with no room pass
the check and feeding panics; and an empty update on a full buffer asks for room
for a block that it does not write.

### Hotp

The TA's `K` and `counter` are global.  Tasks run the application of
`hotp_ns.c` (register a key, ask for `NCodes` codes, stop at the first error)
under the interrupt mask.  A code is made of the calls of `Operation`, whose
allocations may fail; the counter advances also then.  Each way out of
`hmac_sha1` frees the operation.  A command may fail before the TA sees it
(`CommandFails`), which ends the application as well.  A panic of
`TEE_PopulateTransientObject` for want of memory ends all steps, which a
behaviour of the model may do at any time; what freeing the key object does to
the object list is in `TaObjects`.  The counter has `Width`
bytes of `Base` values, no more than one call of the MAC takes (8 of 0x400 in
the code).  The truncation of the MAC is left out: a code is the
key and the counter it was made of.  A key longer than the TA's buffer is not
modelled.

## Runs

| run | shows |
| --- | --- |
| `ta_manager` | with clients that send ids they were given: the type invariant, `HeapAccounts`, `OneCtxPerSession`, `OwnSessionData`, `RunningIsCurrent`, `NoFault`, `EndsOnlyByClose`, `OpenAnswerIsFresh`, and the refinement `ImplementsService` |
| `ta_manager_wild` | with clients that send any id: the refinement holds all the same (the invariants are proved for these clients too) |
| `tee_client` | two tasks: `OwnAnswer`, `NoOverrun`, `AreasInWindow`, `Returned` (buffers and sessions), `OneApplication` and the liveness property `TaskFinishes` |
| `ta_objects` | a TA that frees nothing itself: `WellLinked` (the list is exactly the allocated objects), `NeverStops`, and the liveness property `ClearEnds` |
| `ta_objects_freed` | a TA that frees its objects, with short memory: `KeysClaimed` and `ObjectsEndWithOwner` |
| `heap` | any order of allocations and frees: `EachByteInOneBlock`, `Coalesced`, `FreeBytesExact`, and the refinement `ImplementsAllocator` |
| `wallet` | any order of commands, another TA, short memory: `ListIsStore`, and the refinement `ImplementsKeyStore` |
| `operation` | every algorithm, any TA and the AES TA: `StreamInOrder`, `OneKey`, `BufferHolds`, `FeedingSucceeds`; with any client of the AES TA: `AesClientServed` |
| `hotp` | three tasks, failing allocations, a counter that wraps: `CounterCounts`, `OwnCodes` |
| `tee_client_open` | violation: `TEEC_OpenSession` returns success without a session when the transport fails |
| `ta_objects_hang` | violation: an object allocated where a freed one is still linked makes the list a loop, and closing the session never ends |
| `wallet_erase` | violation: an erase reported as a success leaves the keys that were generated later |

Further disagreements between the code and its texts are in the models and have
no run of their own:

* A session whose open entry point returned an error stays in
  `tee_open_sessions` with its context (the close in `tee_ta_manager.c:615-616`
  is commented out), where `tee_ta_api.h:111-113` says that the connection is
  rejected.  `OpenRejected` leaves it, `OpenRefused` of `TeeService` allows it.
* `tee_ta_api.h` says that such an open is reported with the origin
  `TEE_ORIGIN_TRUSTED_APP`, but `user_ta_enter_open_session` ignores its origin
  argument (`OpenOrigin`).
* `tee_ioctl_invoke` does not store the origin (`entry_std.c:418`): an error of
  the secure world reaches the client with the origin 0, where
  `tee_client_api.h:490-491` promises the origin of every error.
* `TEEC_OpenSession` keeps the temporary buffers of its parameters
  (`tee_client_api.c:701` is commented out), which `tee_client_api.h:70-73` says
  last for the call only (`Released` in `TeeClient`).
* Applications go on after a failed open, since `errx` only prints, and invoke
  with a `TEEC_Session` nobody set (`UnsetContext`).
* A failed `TEE_AllocateOperation` leaves the address of the freed operation in
  the handle list (`AllocateFailsLate` in `TaObjects`), where
  `tee_api_operations.c:77` says that the list holds what was allocated.
* `aes_ta.h:66` says that the size of an initial vector "shall equal key
  length".  For a key of 256 bits that is two blocks, and `reset_aes_iv` passes
  it on (`aes_ta.c:325`) to a provider that takes one block only
  (`tee_ltc_provider.c:2205-2207`): the TA panics.  `ResetAesIv` has every
  length, and `AesClientServed` permits one block only.
* After a PREPARE that ran out of resources the session has null handles.
  `aes_ns.c:97-99` prints the error and goes on to SET_KEY, and
  `aes_ta.c:279-280` populates the null handle: the TA panics.  `aes_ta.c:107-110`
  says when a client may send which command only for the time after a PREPARE.
* A PREPARE with an unknown mode is refused, but has stored its key size
  (`aes_ta.c:137`): `set_aes_key` then asks for a key of that size, and if it is
  longer than the operation's, `TEE_SetOperationKey` panics.
* Clearing a context closes objects that the TA had freed before, from the same
  cause as `ta_objects_hang`.
* `tee_api_operations.c:1075-1079` says the room is checked before data is fed;
  for CTS and XTS the check lets too little pass (see Operation), so
  `FeedingSucceeds` excepts them.

### Bounds

* `Block`: 6 blocks (5 with wild ids).  A session with a stateful TA takes
  three, so two such sessions fit and a third open meets every shortage: no
  block, one block, two blocks.  Stateless sessions take two, so three of them
  fit.  Blocks are only compared, so they are symmetric.
* UUIDs: one TA of each kind the code tells apart and one UUID without a TA.
  UUIDs are not symmetric.
* `Task`: two.  Every property relates one task to one other.
* `Id`: two, one more than the tasks the mask lets run at once need, since a
  rejected open can leave one behind.
* `WindowSize` 10, `Align` 2, `HeaderLen` 1, `ArgLen` 3 (1 for a close): there
  are requests that fit, that fill the window exactly with the last size not a
  multiple of the alignment, and that miss by one.
* `ShmLimit` 2: the third buffer of a call fails.
* Objects: three blocks and two operations: a key in front of, between and
  behind the TA's objects, two keys at once, and a block that comes back while
  it is first, in the middle or last in the list.  `MaxElems` 2: an element left
  over by a failure besides that of the operation which gets the address next.
* Heap: 28 bytes from an address off the alignment, headers of 2, alignment 2.
  The lengths include 0, one whose size needs rounding, those that leave a
  remainder just above and just below what is split off, one that fills the
  heap, and one with the top bit of a 6-bit `size_t` set.  Up to five blocks are
  allocated at once, so that a block is freed between every combination of
  neighbours.
* Wallet: four blocks, three keys, one other TA: an object at either end and in
  the middle of the list.  Blocks and keys are only compared, so they are
  symmetric.
* Operation: blocks of 3 bytes, so that an offset in a block is neither 0 nor
  the last; calls of up to 9 bytes, which is three blocks and one more than
  `MaxChunk`; 15 bytes in all (`MaxData`), so that a buffer of two blocks is
  filled, fed from and filled again.  Keys of the AES TA are one or two blocks
  long, and a client sends keys and initial vectors of every length up to two.
* HOTP: a counter of two bits that wraps round within the five codes of one
  application; three tasks, one with a key that is too short.
* `MaxElems`, `MaxData` and the bound on `asked` are the only caps on counters;
  no state constraint is needed.

`Returned` is checked for applications that open without parameters; for the
others its part `ShmReturned` is false, for the reason given above.

### Fairness

`TaskNext` is weakly fair: a task inside its application has masked interrupts,
is not preempted, and the processor executes it.  `BeginCA` is strongly fair:
all client tasks have one priority and FreeRTOS takes the ready tasks of a
priority in turn, so a task that is ready each time interrupts are enabled is
eventually chosen.  Nothing is assumed of the menu: it may never create a task.
`TaskFinishes` excepts the secure world stopping, and an application that
crashes, because then nothing runs again (`Hung`).

`Clear` is weakly fair: destroying a context is one call on the only thread of
the secure world.  Nothing is assumed of the TA.

## Proofs

`TaManagerProofs`, from `TAAssumption` alone, for every set of blocks and TAs:

* `InvAlways`: the inductive invariant `Inv`.  None of the invariants is
  inductive alone.  `CloseReturns` frees the block of the context: that this
  keeps the accounts right needs that no other session has that context
  (`OneCtxPerSession`) or that session data (`OwnSessionData`); that the freed
  session is nobody's needs `RunningIsCurrent`; and that the session just
  accepted has no data of an earlier one needs `OpeningIsPrivate`.  The proof
  has one lemma per action.
* `TypeAlways`, `HeapAlways`, `OneCtxAlways`, `OwnDataAlways`,
  `RunningAlways`: its parts.
* `NoFaultAlways`: `NoFault`, when clients send only ids they were given.
* `EndsOnlyByCloseAlways`, `OpenAnswerAlways`: the two action properties.
* `ServiceRefined`: `Spec` implements `TeeService`.  The session being opened is
  hidden until its open is answered; entering a TA is a stutter; the answer is
  the abstract step.

`TeeClientProofs`, from `ClientAssumption` and `IdAssumption`, for every set of
tasks, programs, window size, alignment and supply of temporary buffers.  The
assumptions say that the window's size is a multiple of the alignment, that the
descriptor fits into it, that the argument of a close is not longer than that of
an open (it is a session id, the other has one among its fields), and that what
an uninitialised `TEEC_Session` holds is told apart from every id:

* `WindowSafe`: `AreasInWindow`, by `LayoutInv`: what has been placed lies below
  the cursor, the cursor is above the argument while parameters are placed, and
  rounding it up cannot leave a window whose size is a multiple of the
  alignment.  The lemmas on `align_up` and `Laid` carry the arithmetic.
* `OneApplicationAlways`: mutual exclusion by the interrupt mask.
* `ClientAlways`: the inductive invariant `ClientInv`.  `OwnAnswer` speaks of the
  end of a call only; why it holds is the history of the request, which `Running`
  records stage by stage for the task that masks interrupts: the argument has the
  parameters of the call (`Built`), the argument in the window refers to the
  areas the transport chose (`Placed`), the window holds the answer and the TA's
  bytes lie in those areas (`Answered`).  For any other task nothing is
  claimed, and nothing is needed, as it cannot run: this is where
  `OneApplication` enters, and `LayoutInv` is what makes the bytes the TA writes
  cells of the window.
* `OwnAnswers`, `ClientTypes`: `OwnAnswer` and `TypeOK`.
* `NoOverruns`: `NoOverrun`.  A size the secure world returns is arbitrary; the
  copy is cut to the capacity recorded when the buffer was placed, and `Placed`
  with `Passed` says that this is the size of the temporary buffer, which is the
  application's.
* `GivenBack`: `Returned`, provided that no application passes memory to
  `TEEC_OpenSession` (`PlainOpens`), which does not free what it allocates.
  Further invariants are needed: `ShmInv` counts the temporary buffers of the
  call that is on its way, `HoldsInv` says where the id of the one session handed
  out is at each stage.  That the close of that session cannot fail before it
  reaches the secure world is the point of the proof: it has no parameters, and
  its argument fits where that of the open did.
* `SessionsGivenBack`: the part about sessions, without the condition.

`TaObjectsProofs`, from `ObjectsAssumption`, for every set of blocks and
operations, and whether or not the TA frees its objects or memory is short:

* `ObjectsInvAlways`: the inductive invariant.  `KeysClaimed` alone is not
  inductive: a new key is not known to the TA only if every handle of the TA is
  an allocated object (`HeldAllocated`), and clearing frees every object, so
  that the handles have to be gone by then; that a freed operation has an
  element to take off the handle list needs `Tracked`.  The links have their
  types through every list operation, also on freed elements.
* `KeysAlways`: `KeysClaimed`.  It does not depend on the list being in order,
  which is why it survives what `ta_objects_hang` shows.  It does depend on a
  block that was freed while linked being used by an object next, or not at all:
  in the code's heap other data may take it, of which the theorem says nothing.
* `OwnerAlways`: the action property `ObjectsEndWithOwner`; `TypesAlways`: the
  type invariant.

The next three are about the object list itself, for a TA that leaves its
objects to the end of its session, as bw_ta.c does, while no allocation fails
halfway (`~FreesKeys /\ ~Shortage`).  The runs `ta_objects_hang` and
`ta_objects_freed` show that neither condition can be dropped.

* `LinkedAlways`: the inductive invariant `LinkedInv`.  `WellLinked` says where a
  walk of the list leads, which no single step can be checked against.  `Chained`
  says instead that some sequence lists every object once and that each link,
  forward and backward, is given by the neighbours in it: inserting at the head
  puts an element in front of the sequence, removing takes it out, and only
  links of neighbours change (`ChainInserted` and `ChainRemoved` of
  `ProofLemmas`).
* `ListAlways`: `WellLinked`, as a walk visits the sequence in its order and ends
  behind it; `StopsNever`: `NeverStops`, as a search in such a list finds every
  object.

`WalletProofs`, from `WalletAssumption`, for every set of blocks:

* `Wallets`: the inductive invariant, `Chained` as above for the list of
  persistent objects while the TA runs.  The difficult step is
  `utee_storage_obj_del`, which unlinks an object and then once more through its
  stale links (`ReleasedOK`): the second `TAILQ_REMOVE` writes what the first one
  has written, because the object's own links have not changed in between.
* `WalletTypes`, `WalletList`: `TypeOK` and `ListIsStore`.
* `KeyStoreRefined`: `Wallet` implements `KeyStore`.  The queue is the chain read
  backwards (`ObjectsSeen`); storing puts a block in front of the chain, which
  appends to the queue (`SeenGrows`), and the only block ever released is the
  last of the chain, as it is what `utee_storage_obj_open` finds, so that the
  queue loses its front (`SeenShrinks`).  An open that has no memory for its handle
  is the step `Lose`, or part of `Stop`.

`OperationProofs`, from the assumptions of `Operation` and `OperationCalls`, for
every block size and list of lengths:

* `Operations`: the inductive invariant `CallsInv`.  `StreamInOrder` alone does
  not survive a call: that `tee_buffer_update` may overwrite the buffer needs
  that all of it was fed, which depends on how much it held, so that the bounds
  of `BufferHolds`, the complete blocks in the context and the state of the
  operation (initialised or not, key set or not) belong to the invariant; and
  that the AES TA panics only at commands that were not permitted needs that what
  the answers told the client is so: `Agreed` (in `AesInv`) says that the client
  knows of an operation only if there is one, that this one has a key, if only
  the dummy, and the size it was told, and that it is active if the client was
  told so.  The lemmas on `Data` in `ProofLemmas` say what
  cutting and joining streams gives.
* `OperationTypes`, `Streams`, `Keyed`, `Buffers`, `Feeding`, `AesServed`: the
  invariants of the run `operation`.  For `Feeding` the length that
  `TEE_CipherUpdate` computes is compared with the length that the feeding loop
  produces: both are the same multiple of the block size.

`HotpProofs`, from `HotpAssumption` and the assumptions of `Operation`, for every
set of clients, width and base of the counter's digits:

* `Hotps`: the inductive invariant `HotpInv`.  `OwnCodes` needs to know whose key
  is registered and how many codes its owner has: `Holder` says that while a
  client is between its registration and its last code it masks interrupts, the
  key is its own, and the codes it asked for are those it got.
* `HotpCounts`: the increment by hand is an increment of the value.  Its loop
  clears the digits that are at their maximum and adds one to the next
  (`Leads`, `CarryByte`); the cleared digits are worth one less than the place of
  that next digit, and if all of them are cleared the value wraps round.
* `HotpOwnCodes`, `HotpTypes`: `OwnCodes` and `TypeOK`.

`Heap4Proofs`, from `HeapAssumption`, for every address and size of the heap,
alignment, header, width of a `size_t`, and list of lengths.  The assumption says
what holds on every board: the header is a multiple of the alignment, the heap
has room for more than one minimal block, it is smaller than the allocated bit,
and it does not run past the last address:

* `HeapAlways`: the inductive invariant `HeapInv`.  `EachByteInOneBlock` counts
  the blocks around a byte, which no single split or merge can be checked
  against.  `Tiles` says instead that the blocks cover the heap, each ends before
  the next begins, and each is aligned and not empty; `Sorted` that a block of
  the list ends strictly below every later one, not only the next.  One lemma per
  change of the blocks carries the argument: two that touch become one (`Merged`),
  one becomes two (`Halved`), and in both the free bytes are the same
  set.  `prvInsertBlockIntoFreeList` is up to two such merges, one after the other
  (`FirstJoin`, `SecondJoin`), and `Inserted` says what it leaves; allocating and
  freeing (`Allocates`, `Frees`) are a removal, a split and an insertion.  `Snug`
  bounds each owned block by what was asked for.
* `HeapTypes`, `BytesInOneBlock`, `FreeBlocksApart`, `FreeBytesCounted`: the
  invariants of the run `heap`.
* `AllocatorRefined`: `Heap4` implements `Allocator`.  That a region is disjoint
  from the others follows from `Tiles` and the lower bound of `Snug`.  That a
  request is refused only without a large gap is the harder half: by the upper
  bound of `Snug` the block before a gap reaches into it by less than a rounding
  and an unsplit remainder, so that what is behind, up to the header of the block
  after the gap, is free (`FreeInGap`); free bytes that follow each other are
  in one block, as two would touch (`OneBlock`); it is as large as the
  rounded request, and `xFreeBytesRemaining` counts at least its bytes, so that
  the test before the search does not refuse (`RoomFound`).

Only model-checked: `TaskFinishes` and `ClearEnds`, as liveness under fairness
is beyond the prover.  Every invariant and action property of the passing runs
and every refinement has its theorem.

## Not modelled

* The direct ioctl of the boards other than RZT2M: no window, no copies.
* Registered shared memory: no application uses it.
* The attributes of objects (populate, copy, generate): what they change is key
  material, which the models treat as one value; of populating, the panics on a
  null handle and for want of memory are kept (`Populated`).
* `TEE_CipherDoFinal` and `TEE_CopyOperation`: the services they call
  (`utee_cipher_final`, `utee_cryp_state_copy`) are commented out, so no TA that
  uses them can be linked.  Authenticated encryption, asymmetric operations and
  key derivation are commented out or belong to the libraries.
* Writing, renaming, seeking, truncating and enumerating persistent objects:
  the port has no services behind these calls.
* The derivation of keys and addresses in the wallet, the arithmetic API and the
  cryptographic libraries: mathematics on large values, mostly vendored.
* The commands of hello_world, which keep no state, and the test TA, a copy of
  the AES TA with additional calls that have to fail.
* FreeRTOS, drivers, start-up and the hypervisor: vendored, and by far the most
  of the repository's lines.  They are modelled by what the code relies on:
  masked interrupts exclude other tasks, a hypercall runs the request loop once.

## Plan

* The attributes of objects, and `TaObjects` composed with `TaManager`, whose
  `current_session` says whose list is used.
