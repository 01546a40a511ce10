------------------------------ MODULE KeyStore -------------------------------
(***************************************************************************)
(* What the stored objects amount to: a queue.  A new key goes to its end, *)
(* the one in front is used, and erasing takes the one in front.  While    *)
(* another TA stores an object no key can be found.                        *)
(***************************************************************************)
EXTENDS Sequences

CONSTANTS
  Owner,    \* the TA whose keys are stored
  Keys,
  NoKey,
  Others    \* other TAs that store an object

VARIABLES
  objects,  \* the stored objects, each [owner, key], the oldest first
  used,     \* the key the last command used, or NoKey
  erased,   \* the last command reported that it erased a key
  up        \* the secure world still answers

kvars == <<objects, used, erased, up>>

Visible ==
  objects # <<>> /\ \A i \in DOMAIN objects : objects[i].owner = Owner

KeyStoreInit ==
  objects = <<>> /\ used = NoKey /\ erased = FALSE /\ up = TRUE

Store(k) ==
  /\ objects' = Append(objects, [owner |-> Owner, key |-> k])
  /\ used' = NoKey /\ erased' = FALSE
  /\ UNCHANGED up

Use ==
  /\ Visible
  /\ used' = Head(objects).key /\ erased' = FALSE
  /\ UNCHANGED <<objects, up>>

Erase ==
  /\ Visible
  /\ objects' = Tail(objects)
  /\ erased' = TRUE /\ used' = NoKey
  /\ UNCHANGED up

\* A command that has no memory for a handle.
Lose ==
  /\ Visible
  /\ objects' = Tail(objects)
  /\ used' = NoKey /\ erased' = FALSE
  /\ UNCHANGED up

\* A command that finds nothing, only looks, or is refused.
Nothing ==
  /\ used' = NoKey /\ erased' = FALSE
  /\ UNCHANGED <<objects, up>>

StoreForeign(t) ==
  /\ objects' = Append(objects, [owner |-> t, key |-> NoKey])
  /\ used' = NoKey /\ erased' = FALSE
  /\ UNCHANGED up

\* A panic, perhaps of a command that has just lost a key.
Stop ==
  /\ objects' = objects \/ (Visible /\ objects' = Tail(objects))
  /\ used' = NoKey /\ erased' = FALSE
  /\ up' = FALSE

KeyStoreNext ==
  /\ up
  /\ \/ \E k \in Keys : Store(k)
     \/ Use \/ Erase \/ Lose \/ Nothing \/ Stop
     \/ \E t \in Others : StoreForeign(t)

KeyStoreSpec == KeyStoreInit /\ [][KeyStoreNext]_kvars
=============================================================================
