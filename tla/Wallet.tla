------------------------------- MODULE Wallet --------------------------------
(***************************************************************************)
(* The persistent objects (tee_svc_storage.c, tee_pobj.c) and the commands *)
(* of the bitcoin wallet TA, the one that stores some.  The objects of all *)
(* TAs are in one global list, linked through the objects' own memory; an  *)
(* object outlives the sessions.  A command is one step: the secure world  *)
(* has one thread, and every handle a command opens it closes again.       *)
(***************************************************************************)
EXTENDS Integers, Sequences, FiniteSets

CONSTANTS
  Block,     \* memory for a tee_pobj
  NULL,
  ListHead,  \* the list head, as the predecessor of the first object
  Keys,      \* master keys
  NoKey,
  Others,    \* other TAs that store an object (none in the repository)
  Shortage   \* an allocation may fail although a block is free

Bw == "bw"

ASSUME WalletAssumption ==
  /\ NULL \notin Block /\ ListHead \notin Block /\ NULL # ListHead
  /\ NoKey \notin Keys /\ Bw \notin Others
  /\ IsFiniteSet(Block)
  /\ Shortage \in BOOLEAN

VARIABLES
  list,    \* global_pobj_list: first, and next and prev in the objects
  pobj,    \* by block: owner, key and reference count of the object, or Unused
  cmd,     \* the command just served
  answer,  \* what it told the client: "none", "found", "unset"
  used,    \* the key it used, or NoKey
  phase    \* "run", "stopped" by a panic, "undefined" after a wild pointer

vars == <<list, pobj, cmd, answer, used, phase>>

Unused == [owner |-> "none", key |-> NoKey, refcnt |-> 0]
Objects == [owner : Others \cup {Bw}, key : Keys \cup {NoKey}, refcnt : {1}]
Ptr == Block \cup {NULL}
Commands == {"none", "check", "generate", "import", "erase", "sign", "address", "other"}

TypeOK ==
  /\ list \in [first : Ptr, next : [Block -> Ptr], prev : [Block -> Ptr \cup {ListHead}]]
  /\ pobj \in [Block -> Objects \cup {Unused}]
  /\ cmd \in Commands
  /\ answer \in {"none", "found", "unset"}
  /\ used \in Keys \cup {NoKey}
  /\ phase \in {"run", "stopped", "undefined"}

Init ==
  /\ list = [first |-> NULL, next |-> [b \in Block |-> NULL], prev |-> [b \in Block |-> NULL]]
  /\ pobj = [b \in Block |-> Unused]
  /\ cmd = "none" /\ answer = "none" /\ used = NoKey
  /\ phase = "run"

-----------------------------------------------------------------------------
\* The list.

TAILQ_INSERT_HEAD(l, b) ==
  [first |-> b,
   next |-> [l.next EXCEPT ![b] = l.first],
   prev |-> [x \in Block |-> IF x = b THEN ListHead ELSE IF x = l.first THEN b ELSE l.prev[x]]]

TAILQ_REMOVE(l, b) ==
  LET nx == l.next[b]
      pv == l.prev[b] IN
  [first |-> IF pv = ListHead THEN nx ELSE l.first,
   next |-> [x \in Block |-> IF x = pv THEN nx ELSE l.next[x]],
   prev |-> [x \in Block |-> IF x = nx THEN pv ELSE l.prev[x]]]

\* The n-th object of the list, NULL behind its end.
Nth(l) ==
  LET nth[n \in 1..(Cardinality(Block) + 1)] ==
        IF n = 1 THEN l.first
        ELSE IF nth[n - 1] = NULL THEN NULL ELSE l.next[nth[n - 1]]
  IN nth
Linked(l) == {Nth(l)[n] : n \in 1..(Cardinality(Block) + 1)} \ {NULL}

-----------------------------------------------------------------------------
\* The services.  A store s is [list, pobj].

Store == [list |-> list, pobj |-> pobj]
FreeBlocks == {b \in Block : pobj[b] = Unused}

\* Mutant: the handle, which is never returned, counts as a reference.
Stored_HandleCounted(s, b, owner, k) ==
  [list |-> TAILQ_INSERT_HEAD(s.list, b),
   pobj |-> [s.pobj EXCEPT ![b] = [owner |-> owner, key |-> k, refcnt |-> 2]]]

Stored(s, b, owner, k) ==
  [list |-> TAILQ_INSERT_HEAD(s.list, b),
   pobj |-> [s.pobj EXCEPT ![b] = [owner |-> owner, key |-> k, refcnt |-> 1]]]

\* The memory of an object is zeroed when it is allocated again: what its links
\* hold until then is not distinguished.
Wiped(l, b) == [l EXCEPT !.next[b] = NULL, !.prev[b] = NULL]

\* Mutant: the object is freed on the assumption that it has been unlinked.
tee_pobj_release_Linked(s, b) ==
  IF s.pobj[b].refcnt = 1
  THEN [s EXCEPT !.pobj[b] = Unused]
  ELSE [s EXCEPT !.pobj[b].refcnt = @ - 1]

\* The reference goes, and with the last one the object: it is unlinked, through
\* its own links, from whatever list it is in, and its memory is freed.
tee_pobj_release(s, b) ==
  IF s.pobj[b].refcnt = 1
  THEN [list |-> Wiped(TAILQ_REMOVE(s.list, b), b),
        pobj |-> [s.pobj EXCEPT ![b] = Unused]]
  ELSE [s EXCEPT !.pobj[b].refcnt = @ - 1]

\* Mutant: the search ends at the first object of the owner.
Found_First(s, owner) ==
  IF s.list.first = NULL \/ \E b \in Linked(s.list) : s.pobj[b].owner # owner
  THEN NULL
  ELSE s.list.first

\* The object utee_storage_obj_open finds: the last one of the list, provided
\* that all of them are the owner's.
Found(s, owner) ==
  IF s.list.first = NULL \/ \E b \in Linked(s.list) : s.pobj[b].owner # owner
  THEN NULL
  ELSE CHOOSE b \in Linked(s.list) : s.list.next[b] = NULL

\* The outcomes of utee_storage_obj_open: the object, and the store.  Without
\* memory for the handle the object found is released.
utee_storage_obj_open(s, owner) ==
  LET b == Found(s, owner) IN
  {[obj |-> b, store |-> s]}
    \cup IF b # NULL /\ Shortage
         THEN {[obj |-> NULL, store |-> tee_pobj_release(s, b)]}
         ELSE {}

utee_storage_obj_del(s, b) ==
  tee_pobj_release([s EXCEPT !.list = TAILQ_REMOVE(@, b)], b)

-----------------------------------------------------------------------------
\* The commands.

Served(c, s, a, k) ==
  /\ cmd' = c /\ answer' = a /\ used' = k
  /\ list' = s.list /\ pobj' = s.pobj
  /\ phase' = "run"

\* TEE_Panic, or an access through a wild pointer: nothing is said of what follows.
Stops(c, s, how) ==
  /\ cmd' = c /\ answer' = "none" /\ used' = NoKey
  /\ list' = s.list /\ pobj' = s.pobj
  /\ phase' = how

\* A command with another pin than 1234.
WrongPin(c) ==
  /\ phase = "run"
  /\ Served(c, Store, "none", NoKey)

\* The result that is tested is not the one of the open: with an object the
\* answer may stay unset.
check_masterkey ==
  /\ phase = "run"
  /\ \E o \in utee_storage_obj_open(Store, Bw) :
       \E a \in IF o.obj = NULL THEN {"none"} ELSE {"found", "unset"} :
         Served("check", o.store, a, NoKey)

\* utee_storage_obj_create, for any owner: it does not look whether the object
\* exists.  It sets no handle, so TEE_CloseObject frees what was on the stack;
\* and two of its three allocations are used although they failed.
Creates(c, owner, k) ==
  \/ \E b \in FreeBlocks : Served(c, Stored(Store, b, owner, k), "none", NoKey)
  \/ Shortage /\ Served(c, Store, "none", NoKey)
  \/ Stops(c, Store, "undefined")

generate_new_masterkey(k) ==
  /\ phase = "run"
  /\ Creates("generate", Bw, k)

mnemonic_to_masterkey(k) ==
  /\ phase = "run"
  /\ Creates("import", Bw, k)

erase_masterkey ==
  /\ phase = "run"
  /\ \E o \in utee_storage_obj_open(Store, Bw) :
       IF o.obj = NULL
       THEN Served("erase", o.store, "none", NoKey)
       ELSE Served("erase", utee_storage_obj_del(o.store, o.obj), "found", NoKey)

\* get_child_privatekey and get_child_publickey each open and read the key.
\* Reading through a handle that is NULL panics, and so does signing without
\* memory for its objects.
UsesKey(c) ==
  \E o \in utee_storage_obj_open(Store, Bw) :
    IF o.obj = NULL
    THEN Stops(c, o.store, "stopped")
    ELSE \E p \in utee_storage_obj_open(o.store, Bw) :
           IF p.obj = NULL
           THEN Stops(c, p.store, "stopped")
           ELSE \/ Served(c, p.store, "none", p.store.pobj[p.obj].key)
                \/ Shortage /\ Stops(c, p.store, "stopped")

sign_transaction == phase = "run" /\ UsesKey("sign")
get_bitcoin_address == phase = "run" /\ UsesKey("address")

\* Another TA stores an object, through the same service.
OtherStores(t) ==
  /\ phase = "run"
  /\ \A b \in Block : pobj[b].owner # t
  /\ Creates("other", t, NoKey)

Halted == phase # "run" /\ UNCHANGED vars

Next ==
  \/ \E c \in Commands \ {"none", "other"} : WrongPin(c)
  \/ check_masterkey
  \/ \E k \in Keys : generate_new_masterkey(k) \/ mnemonic_to_masterkey(k)
  \/ erase_masterkey
  \/ sign_transaction
  \/ get_bitcoin_address
  \/ \E t \in Others : OtherStores(t)
  \/ Halted

Spec == Init /\ [][Next]_vars

-----------------------------------------------------------------------------
\* The list holds exactly the objects in memory, each once, and can be walked
\* both ways, although deleting unlinks an object twice and a failed open
\* unlinks the object it found (tee_svc_storage.c:239-244, 307-316,
\* tee_pobj.c:156-161).
ListIsStore ==
  phase = "run" =>
    /\ Linked(list) = {b \in Block : pobj[b] # Unused}
    /\ Nth(list)[Cardinality(Linked(list)) + 1] = NULL
    /\ list.first # NULL => list.prev[list.first] = ListHead
    /\ \A b \in Linked(list) :
         list.next[b] # NULL => list.prev[list.next[b]] = b

\* The objects p in the list l, the oldest first.
StoredObjects(l, p) ==
  LET n == Cardinality(Linked(l)) IN
  [i \in 1..n |-> [owner |-> p[Nth(l)[n + 1 - i]].owner, key |-> p[Nth(l)[n + 1 - i]].key]]

\* The storage, with the commands of the wallet, implements KeyStore: whatever
\* was generated, imported and erased before, the key a command uses or erases
\* is the oldest that is left, and the objects of other TAs are never touched
\* (tee_svc_storage.c:53-108, 155-284, 287-319, bw_ta.c:90-311).
Queue ==
  INSTANCE KeyStore WITH
    Owner <- Bw, objects <- StoredObjects(list, pobj),
    used <- used, erased <- cmd = "erase" /\ answer = "found",
    up <- phase = "run"
ImplementsKeyStore == Queue!KeyStoreSpec

\* An erase that the client reports as a success leaves no master key
\* (bitcoin_wallet_ns.c:239-240, "Master key exists, erase success", and :347).
EraseErases ==
  [][cmd' = "erase" /\ answer' = "found" /\ phase' = "run" =>
       \A b \in Block : pobj'[b].owner # Bw]_vars
=============================================================================
