--------------------------- MODULE OperationCalls -----------------------------
(***************************************************************************)
(* An operation in the hands of a TA: either any TA, which may make every  *)
(* call of the API at any time, or the AES TA (apps/aes/ta/aes_ta.c),      *)
(* whose commands are fixed sequences of calls.  Its client may send every *)
(* command at any time and with any sizes: aes_ns.c goes on after a failed *)
(* command (errx of mtower/err.h only prints).                             *)
(***************************************************************************)
EXTENDS Operation

CONSTANTS
  MaxData,   \* bound: bytes given to an operation after it is initialised
  DummyKey   \* the key the AES TA loads so that the operation can be reset

ASSUME OperationCallsAssumption == MaxData \in Nat /\ DummyKey \in Keys

VARIABLES
  ta,         \* "any" TA or the "aes" TA
  op,         \* the operation of the handle the TA keeps
  given,      \* history: bytes given since the operation was last initialised
  sess,       \* of struct aes_cipher: the session is open, the size a key has to
              \* have, and the maxKeySize of the operation
  told,       \* history: what the answers tell the client, the key size of the
              \* operation it has (0: none) and whether that takes data
  permitted   \* history: the last command was one these answers permit

vars == <<ta, op, given, sess, told, permitted>>

\* The n bytes that follow those already given.
Chunk(n) == [i \in 1..n |-> given + i]
Bytes(n) == [i \in 1..n |-> i]

AnyKey == Keys \cup {NoKey}

\* AES128_KEY_BYTE_SIZE and AES256_KEY_BYTE_SIZE: one block and two.
AesKeySizes == {BlockSize, 2 * BlockSize}

TypeOK ==
  /\ ta \in {"any", "aes"}
  /\ op.alg \in Algorithms \cup {"none"} /\ op.state \in {"INITIAL", "ACTIVE"}
  /\ {op.keySet, op.initialized} \subseteq BOOLEAN
  /\ {op.key, op.ctx.key, op.tag.key} \subseteq AnyKey
  /\ \A s \in {op.buffer, op.ctx.data, op.tag.data} : Len(s) \in 0..MaxData
  /\ op.res \in {"SUCCESS", "SHORT_BUFFER", "MAC_INVALID", "BAD_PARAMETERS", "BAD_STATE", "ERROR"}
  /\ op.len \in 0..MaxData + MaxChunk
  /\ op.stop \in {"no", "misuse", "feeding", "memory"}
  /\ given \in 0..MaxData
  /\ sess \in [open : BOOLEAN, key_size : {0} \cup AesKeySizes, op_size : {0} \cup AesKeySizes]
  /\ told \in [size : {0} \cup AesKeySizes, ready : BOOLEAN]
  /\ permitted \in BOOLEAN

Init ==
  /\ ta \in {"any", "aes"}
  /\ op = NullHandle
  /\ given = 0
  /\ sess = [open |-> TRUE, key_size |-> 0, op_size |-> 0]
  /\ told = [size |-> 0, ready |-> FALSE]
  /\ permitted = TRUE

-----------------------------------------------------------------------------
\* Any TA.

AnyTa == ta = "any" /\ op.stop = "no" /\ UNCHANGED <<ta, sess, told, permitted>>

\* A call that may start the stream of bytes anew.
Starts(o) == op' = o /\ given' = IF o.stop = "no" THEN 0 ELSE given

\* A call that takes n more bytes unless it answers with an error.
Takes(n, o) ==
  /\ given + n <= MaxData
  /\ op' = o
  /\ given' = IF o.stop = "no" /\ o.res = "SUCCESS" THEN given + n ELSE given

Sizes == 0..MaxChunk + 1

Allocate ==
  /\ AnyTa
  /\ op.alg = "none"
  /\ \E a \in Algorithms, memory \in BOOLEAN : Starts(TEE_AllocateOperation(a, memory))

Free == AnyTa /\ Starts(TEE_FreeOperation(op))

Reset == AnyTa /\ Starts(TEE_ResetOperation(op))

SetKey ==
  /\ AnyTa
  /\ \E k \in AnyKey \cup Unfit, two \in BOOLEAN : op' = TEE_SetOperationKey(op, k, two)
  /\ UNCHANGED given

CipherInit == AnyTa /\ \E ivFits \in BOOLEAN : Starts(TEE_CipherInit(op, ivFits))

CipherUpdate ==
  /\ AnyTa
  /\ \E n \in Sizes, dlen \in Sizes : Takes(n, TEE_CipherUpdate(op, Chunk(n), dlen))

DigestUpdate == AnyTa /\ \E n \in Sizes : Takes(n, TEE_DigestUpdate(op, Chunk(n)))

DigestDoFinal ==
  /\ AnyTa
  /\ \E n \in 0..MaxData - given, fits \in BOOLEAN :
       LET done == TEE_DigestDoFinal(op, Chunk(n), fits)
       IN  IF fits THEN Starts(done) ELSE Takes(0, done)

MACInit == AnyTa /\ Starts(TEE_MACInit(op))

MACUpdate == AnyTa /\ \E n \in Sizes : Takes(n, TEE_MACUpdate(op, Chunk(n)))

MACComputeFinal ==
  /\ AnyTa
  /\ \E n \in Sizes, room \in {"short", "enough", "beyond"} :
       Takes(n, TEE_MACComputeFinal(op, Chunk(n), room))

MACCompareFinal ==
  /\ AnyTa
  /\ \E n \in Sizes, same \in BOOLEAN : Takes(n, TEE_MACCompareFinal(op, Chunk(n), same))

-----------------------------------------------------------------------------
\* The AES TA.

AesTa == ta = "aes" /\ op.stop = "no" /\ sess.open /\ UNCHANGED ta

\* A command answered without any call of the API.
Refused(res) ==
  /\ op' = [op EXCEPT !.res = res]
  /\ permitted' = TRUE
  /\ UNCHANGED <<given, told>>

\* TEE_PopulateTransientObject on the session's key object, which exists as long as
\* the operation does: TEE_HANDLE_NULL and a lack of memory make it panic.
Populated(o, memory) ==
  IF o.alg = "none" THEN TEE_Panic(o, "misuse")
  ELSE IF ~memory THEN TEE_Panic(o, "memory")
  ELSE o

\* Mutant: no key is loaded in advance.
Allocated_NoKey(a, opMemory, keyMemory, attrMemory) ==
  LET freed == IF op.alg = "none" THEN op ELSE TEE_FreeOperation(op)
      allocated == Call(freed, TEE_AllocateOperation(a, opMemory))
  IN  IF allocated.alg = "none" \/ ~keyMemory THEN [NullHandle EXCEPT !.res = "ERROR"]
      ELSE Populated(allocated, attrMemory)

\* The resources of alloc_resources: the operation, the key object and its dummy
\* key, and the copy of the attributes.  An error frees what there is.
Allocated(a, opMemory, keyMemory, attrMemory) ==
  LET freed == IF op.alg = "none" THEN op ELSE TEE_FreeOperation(op)
      allocated == Call(freed, TEE_AllocateOperation(a, opMemory))
  IN  IF allocated.alg = "none" \/ ~keyMemory THEN [NullHandle EXCEPT !.res = "ERROR"]
      ELSE TEE_SetOperationKey(Populated(allocated, attrMemory), DummyKey, FALSE)

\* alloc_resources.  The size is stored before the mode is looked at, so that a
\* command that is refused may leave a size the operation does not have.
Prepare ==
  /\ AesTa
  /\ \/ /\ Refused("BAD_PARAMETERS")
        /\ \E s \in AesKeySizes \cup {sess.key_size} : sess' = [sess EXCEPT !.key_size = s]
     \/ \E a \in {"ECB", "CBC", "CTR"}, s \in AesKeySizes, opMemory, keyMemory, attrMemory \in BOOLEAN :
          LET o == Allocated(a, opMemory, keyMemory, attrMemory)
          IN  /\ Starts(o)
              /\ sess' = [sess EXCEPT !.key_size = s, !.op_size = IF o.alg = "none" THEN 0 ELSE s]
              /\ told' = [size |-> IF o.res = "SUCCESS" THEN s ELSE 0, ready |-> FALSE]
              /\ permitted' = TRUE

\* set_aes_key.  A key longer than maxKeySize makes TEE_SetOperationKey panic.
SetAesKey ==
  /\ AesTa
  /\ UNCHANGED sess
  /\ \E n \in 0..2 * BlockSize, attrMemory \in BOOLEAN :
       \/ n # sess.key_size /\ Refused("BAD_PARAMETERS")
       \/ /\ n = sess.key_size
          /\ \E k \in IF n > sess.op_size THEN Unfit ELSE Keys :
               Starts(TEE_SetOperationKey(TEE_ResetOperation(Populated(op, attrMemory)), k, FALSE))
          /\ told' = [told EXCEPT !.ready = FALSE]
          /\ permitted' = (told.size > 0 /\ n <= told.size)

\* reset_aes_iv.  The initial vector is passed on whatever its length.
ResetAesIv ==
  /\ AesTa
  /\ UNCHANGED sess
  /\ \/ Refused("BAD_PARAMETERS")
     \/ \E n \in 0..2 * BlockSize :
          /\ Starts(TEE_CipherInit(op, n = BlockSize))
          /\ told' = [told EXCEPT !.ready = TRUE]
          /\ permitted' = (told.size > 0 /\ n = BlockSize)

\* cipher_buffer: the output has to be as large as the input.
CipherBuffer ==
  /\ AesTa
  /\ UNCHANGED sess
  /\ \E n, dlen \in Sizes :
       \/ dlen < n /\ Refused("BAD_PARAMETERS")
       \/ dlen >= n /\ op.alg = "none" /\ Refused("BAD_STATE")
       \/ /\ dlen >= n /\ op.alg # "none"
          /\ Takes(n, TEE_CipherUpdate(op, Chunk(n), dlen))
          /\ permitted' = (told.ready /\ dlen <= MaxChunk)
          /\ UNCHANGED told

\* AES_TA_CloseSessionEntryPoint
CloseAes ==
  /\ AesTa
  /\ Starts(IF op.alg = "none" THEN op ELSE TEE_FreeOperation(op))
  /\ sess' = [open |-> FALSE, key_size |-> 0, op_size |-> 0]
  /\ told' = [size |-> 0, ready |-> FALSE]
  /\ permitted' = TRUE

\* TEE_Panic loops for ever.
Stopped == op.stop # "no" /\ UNCHANGED vars

Closed == ~sess.open /\ UNCHANGED vars

Next ==
  \/ Allocate \/ Free \/ Reset \/ SetKey \/ CipherInit \/ CipherUpdate
  \/ DigestUpdate \/ DigestDoFinal
  \/ MACInit \/ MACUpdate \/ MACComputeFinal \/ MACCompareFinal
  \/ Prepare \/ SetAesKey \/ ResetAesIv \/ CipherBuffer \/ CloseAes
  \/ Stopped \/ Closed

Spec == Init /\ [][Next]_vars

-----------------------------------------------------------------------------
\* Properties.

\* The operation takes data: it is initialised and active, or a digest.
InUse == op.stop = "no" /\ op.initialized /\ (op.state = "ACTIVE" \/ Digest(op))

\* However the data of a stream is cut into calls, whatever calls fail with a
\* short buffer and are made again, and however often the operation is
\* initialised anew: what the context has absorbed followed by what waits in the
\* buffer is all of the data since the last initialisation, each byte once and in
\* order (TEE_CipherInit, tee_buffer_update, TEE_CipherUpdate, TEE_DigestDoFinal).
StreamInOrder == InUse => op.ctx.data \o op.buffer = Bytes(given)

\* An operation in use works with the key that is set: a new key cannot be set
\* under a context that still runs with the old one (TEE_SetOperationKey's check
\* of operationState, TEE_ResetOperation, set_aes_key).
OneKey == InUse => op.ctx.key = op.key

\* The buffer of an operation never holds more than was allocated for it, the
\* context has been fed complete blocks only, and CTS and XTS, which need a
\* complete block at the end to finish with (tee_cryp_utl.c:195-200), keep one
\* back once that much was given (tee_buffer_update).
BufferHolds ==
  InUse /\ op.alg \in BlockCiphers =>
    /\ Len(op.buffer) <= BufferSize(op)
    /\ Len(op.ctx.data) % BlockSize = 0
    /\ op.alg \in TwoBlocks /\ given >= BlockSize => Len(op.buffer) >= BlockSize

\* A call of TEE_CipherUpdate that the check of the destination lets pass is not
\* stopped by the service while it feeds: "Errors during feeding of data are
\* fatal" (tee_api_operations.c:1075-1079).  CTS and XTS are excepted: two
\* blocks are taken off the length computed for them although fewer bytes stay.
FeedingSucceeds == op.alg \notin TwoBlocks => op.stop # "feeding"

\* A client of the AES TA that goes by the answers it gets never makes the TA
\* panic by misuse or while feeding: once a PREPARE succeeded and until another
\* one fails for lack of resources, it may send keys no longer than it prepared,
\* initial vectors of one block, further PREPAREs that are refused, and, after an
\* initial vector, data up to CONFIG_MAX_CRYPTO_CHUNK_SIZE, in any order
\* (alloc_resources' dummy key and its error path, set_aes_key's reset).  Whoever
\* sends a key or an initial vector without an operation, as aes_ns.c does after a
\* failed PREPARE, an initial vector of 32 bytes, as aes_ta.h:66 asks for with a
\* key of 32 bytes, or data before an initial vector, does make it panic.
AesClientServed == ta = "aes" /\ op.stop \in {"misuse", "feeding"} => ~permitted
=============================================================================
