-------------------------------- MODULE Hotp ----------------------------------
(***************************************************************************)
(* The HOTP TA (apps/hotp/ta/hotp_ta.c) and its client application         *)
(* (apps/hotp/ca/hotp_ns.c), run by tasks of the normal world.  Key and    *)
(* counter are global variables of the TA: whoever registers a key takes   *)
(* the TA over, and only the interrupt mask that a task sets around its    *)
(* application keeps another task from doing so between two codes.  A      *)
(* command is one step; what it computes is composed of the API calls of   *)
(* module Operation.                                                       *)
(***************************************************************************)
EXTENDS Operation

CONSTANTS
  Tasks,    \* client tasks
  NoTask,
  KeyOf,    \* the key each of them registers
  Base,     \* values of a byte of the counter, 256
  Width,    \* bytes of the counter, 8
  NCodes    \* codes an application asks for, 10

ASSUME HotpAssumption ==
  /\ NoTask \notin Tasks
  /\ KeyOf \in [Tasks -> Keys \cup Unfit]
  /\ Base \in Nat /\ Base > 1
  /\ Width \in Nat /\ Width > 0 /\ Width <= MaxChunk
  /\ NCodes \in Nat

VARIABLES
  K,        \* the registered key, NoKey while K_len is 0
  counter,  \* its bytes, the most significant first
  mask,     \* the task that has disabled interrupts
  pc,       \* by task: "idle", "ready", "app"
  step,     \* by task: commands its application has sent
  got,      \* by task: codes its application has received
  asked     \* history: GET_HOTP commands since the last key was registered

vars == <<K, counter, mask, pc, step, got, asked>>

Bytes == 0..Base - 1
Counters == [1..Width -> Bytes]

\* What truncate_ makes of a MAC is as good as the MAC: the key and the data.
Codes == [key : Keys, data : Counters]

TypeOK ==
  /\ K \in Keys \cup Unfit \cup {NoKey}
  /\ counter \in Counters
  /\ mask \in Tasks \cup {NoTask}
  /\ pc \in [Tasks -> {"idle", "ready", "app"}]
  /\ step \in [Tasks -> 0..NCodes + 2]
  /\ \A t \in Tasks : Len(got[t]) <= NCodes /\ \A i \in 1..Len(got[t]) : got[t][i] \in Codes
  /\ asked \in 0..NCodes * 2

Zero == [i \in 1..Width |-> 0]

Init ==
  /\ K = NoKey
  /\ counter = Zero
  /\ mask = NoTask
  /\ pc = [t \in Tasks |-> "idle"]
  /\ step = [t \in Tasks |-> 0]
  /\ got = [t \in Tasks |-> <<>>]
  /\ asked = 0

-----------------------------------------------------------------------------
\* The TA.

\* hmac_sha1: each of the two allocations may fail.  The operation is freed on every
\* path, the MAC is left in the caller's buffer.  (A lack of memory while the key
\* is populated panics instead, and nothing happens after it; what freeing the key
\* object does to the TA's list of objects is modelled by TaObjects.)
hmac_sha1(k, in, opMemory, keyMemory) ==
  LET op == TEE_AllocateOperation("HMAC", opMemory)
      keyed == TEE_SetOperationKey(op, k, FALSE)
      done == TEE_MACComputeFinal(TEE_MACUpdate(TEE_MACInit(keyed), in), <<>>, "enough")
  IN  IF k \notin Keys THEN [NullHandle EXCEPT !.res = "BAD_PARAMETERS"]
      ELSE IF op.alg = "none" \/ ~keyMemory THEN [NullHandle EXCEPT !.res = "ERROR"]
      ELSE [TEE_FreeOperation(done) EXCEPT !.res = done.res, !.tag = done.tag]

\* Mutant: the loop ends at the last byte.
Incremented_NoCarry(c) == [c EXCEPT ![Width] = (@ + 1) % Base]

\* Mutant: a byte does not wrap round.
Incremented_NoWrap(c) == [c EXCEPT ![Width] = @ + 1]

\* From the last byte on each is incremented, until one does not become 0.
Incremented(c) ==
  [i \in 1..Width |->
     IF \A j \in i + 1..Width : c[j] = Base - 1 THEN (c[i] + 1) % Base ELSE c[i]]

register_shared_key(k) ==
  /\ K' = k
  /\ counter' = Zero
  /\ asked' = 0

\* The counter advances even if hmac_sha1 failed; the code is then made of an
\* uninitialised MAC, but goes with the error.
get_hotp ==
  /\ counter' = Incremented(counter)
  /\ asked' = asked + 1
  /\ UNCHANGED K

-----------------------------------------------------------------------------
\* The tasks and their application.

\* Another command of the menu task.
xTaskCreate(t) ==
  /\ mask = NoTask
  /\ pc[t] = "idle"
  /\ pc' = [pc EXCEPT ![t] = "ready"]
  /\ UNCHANGED <<K, counter, mask, step, got, asked>>

Starts(t) ==
  /\ pc[t] = "ready"
  /\ pc' = [pc EXCEPT ![t] = "app"]
  /\ step' = [step EXCEPT ![t] = 0]
  /\ got' = [got EXCEPT ![t] = <<>>]
  /\ UNCHANGED <<K, counter, asked>>

\* Mutant: the application runs with interrupts enabled.
BeginHotp_NoMask(t) == mask = NoTask /\ Starts(t) /\ UNCHANGED mask

BeginHotp(t) == mask = NoTask /\ Starts(t) /\ mask' = t

Running(t) == mask \in {NoTask, t} /\ pc[t] = "app"

Register(t) ==
  /\ Running(t)
  /\ step[t] = 0
  /\ register_shared_key(KeyOf[t])
  /\ step' = [step EXCEPT ![t] = 1]
  /\ UNCHANGED <<mask, pc, got>>

\* A command that fails before the TA has done anything, for lack of a buffer in the
\* normal world or because the TA refuses its parameters, ends the application.
CommandFails(t) ==
  /\ Running(t)
  /\ step[t] \in 0..NCodes
  /\ step' = [step EXCEPT ![t] = NCodes + 2]
  /\ UNCHANGED <<K, counter, mask, pc, got, asked>>

\* An error ends the application.  The bound on asked is reached only when tasks
\* interleave.
GetHotp(t) ==
  /\ Running(t)
  /\ step[t] \in 1..NCodes
  /\ asked < NCodes * 2
  /\ get_hotp
  /\ \E opMemory, keyMemory \in BOOLEAN :
       LET r == hmac_sha1(K, counter, opMemory, keyMemory)
       IN  IF r.res = "SUCCESS"
           THEN /\ got' = [got EXCEPT ![t] = Append(@, r.tag)]
                /\ step' = [step EXCEPT ![t] = @ + 1]
           ELSE /\ step' = [step EXCEPT ![t] = NCodes + 2]
                /\ UNCHANGED got
  /\ UNCHANGED <<mask, pc>>

EndHotp(t) ==
  /\ Running(t)
  /\ step[t] > NCodes
  /\ mask' = NoTask
  /\ pc' = [pc EXCEPT ![t] = "idle"]
  /\ UNCHANGED <<K, counter, step, got, asked>>

Next ==
  \E t \in Tasks :
    \/ xTaskCreate(t) \/ BeginHotp(t)
    \/ Register(t) \/ GetHotp(t) \/ CommandFails(t)
    \/ EndHotp(t)

Spec == Init /\ [][Next]_vars

-----------------------------------------------------------------------------
\* Properties.

\* Base to the power i.
Power[i \in 0..Width] == IF i = 0 THEN 1 ELSE Power[i - 1] * Base

\* The number that the first i bytes of a counter stand for, and all of them.
Leading(c) ==
  LET upTo[i \in 0..Width] == IF i = 0 THEN 0 ELSE upTo[i - 1] * Base + c[i]
  IN  upTo
Value(c) == Leading(c)[Width]

\* The counter is the number of codes asked for under the registered key, the
\* failed ones included, and wraps round at its width (get_hotp's loop over the
\* bytes, register_shared_key's memset).
CounterCounts == Value(counter) = asked % Power[Width]

\* Every application receives codes of its own key, for the counter values 0, 1,
\* 2, ... without a gap, as the table of RFC 4226 that hotp_ns.c compares with
\* requires, although the key and the counter are shared by all clients.
OwnCodes ==
  \A t \in Tasks : \A i \in 1..Len(got[t]) :
    got[t][i].key = KeyOf[t] /\ Value(got[t][i].data) = (i - 1) % Power[Width]
=============================================================================
