----------------------------- MODULE Operation -------------------------------
(***************************************************************************)
(* Cryptographic operations as libutee offers them to the TAs              *)
(* (tee_api_operations.c over the services of tee_svc_cryp.c): symmetric   *)
(* ciphers, MACs and digests.  Each API function is an operator that takes *)
(* the operation a handle stands for and gives what the call leaves: one   *)
(* call is one step of the only thread the secure world has, and TAs are   *)
(* modelled as compositions of these operators.                            *)
(*                                                                         *)
(* A byte is whatever the caller put there.  What a cipher makes of a byte *)
(* is one byte, so the data the context has absorbed is also the output.   *)
(***************************************************************************)
EXTENDS Integers, Sequences

CONSTANTS
  Keys,        \* keys an operation accepts
  Unfit,       \* keys whose size or usage the operation refuses
  NoKey,
  Supported,   \* algorithms compiled into the provider
  BlockSize,   \* bytes in an AES block
  MaxChunk     \* CONFIG_MAX_CRYPTO_CHUNK_SIZE

NOPAD == {"ECB", "CBC"}
TwoBlocks == {"CTS", "XTS"}
BlockCiphers == NOPAD \cup TwoBlocks
Ciphers == BlockCiphers \cup {"CTR"}
Algorithms == Ciphers \cup {"HMAC", "SHA"}

ASSUME OperationAssumption ==
  /\ NoKey \notin Keys \cup Unfit
  /\ Keys \cap Unfit = {}
  /\ Supported \subseteq Algorithms
  /\ BlockSize \in Nat /\ BlockSize > 1
  /\ MaxChunk \in Nat

\* What a handle stands for.  stop says that TEE_Panic was called, which never
\* returns: "misuse" of the API, "feeding" when a service refused data that the
\* API had accepted, "memory" when one had none left.  res and len are what the last call returned.
NullHandle ==
  [alg |-> "none", state |-> "INITIAL", keySet |-> FALSE, initialized |-> FALSE,
   key |-> NoKey, buffer |-> <<>>, ctx |-> [key |-> NoKey, data |-> <<>>],
   tag |-> [key |-> NoKey, data |-> <<>>], res |-> "SUCCESS", len |-> 0, stop |-> "no"]

TEE_Panic(o, why) == [o EXCEPT !.stop = why]

\* A call made after a panic never happens.
Call(o, r) == IF o.stop = "no" THEN r ELSE o

Digest(o) == o.alg = "SHA"
Mac(o) == o.alg = "HMAC"
Cipher(o) == o.alg \in Ciphers

-----------------------------------------------------------------------------
\* Allocation, keys and reset.

TEE_AllocateOperation(a, memory) ==
  IF a \in Supported /\ memory
  THEN [NullHandle EXCEPT !.alg = a, !.keySet = (a = "SHA"), !.initialized = (a = "SHA")]
  ELSE [NullHandle EXCEPT !.res = "ERROR"]

TEE_FreeOperation(o) ==
  Call(o, IF o.alg = "none" THEN TEE_Panic(o, "misuse") ELSE NullHandle)

\* utee_hash_init, utee_cipher_init: the context starts afresh with the key the
\* operation has now.
Fresh(o) == [key |-> o.key, data |-> <<>>]

TEE_ResetOperation(o) ==
  Call(o,
    IF o.alg = "none" \/ ~o.keySet THEN TEE_Panic(o, "misuse")
    ELSE [o EXCEPT !.state = "INITIAL", !.initialized = Digest(o),
                   !.ctx = IF Digest(o) THEN Fresh(o) ELSE @, !.res = "SUCCESS"])

\* Mutant: the size of the key is not checked.
TEE_SetOperationKey_AnySize(o, k, two) ==
  Call(o,
    IF o.alg = "none" \/ o.state # "INITIAL" \/ Digest(o) \/ two # (o.alg = "XTS")
    THEN TEE_Panic(o, "misuse")
    ELSE [o EXCEPT !.key = k, !.keySet = TRUE, !.res = "SUCCESS"])

\* Mutant: the key may be changed while the operation is active.
TEE_SetOperationKey_Active(o, k, two) ==
  Call(o,
    IF o.alg = "none" \/ Digest(o) \/ two # (o.alg = "XTS") \/ k \notin Keys
    THEN TEE_Panic(o, "misuse")
    ELSE [o EXCEPT !.key = k, !.keySet = TRUE, !.res = "SUCCESS"])

\* two tells TEE_SetOperationKey2 (AES-XTS; k is then a pair of keys of equal
\* size) from TEE_SetOperationKey.
TEE_SetOperationKey(o, k, two) ==
  Call(o,
    IF \/ o.alg = "none"
       \/ o.state # "INITIAL"
       \/ Digest(o)
       \/ two # (o.alg = "XTS")
       \/ k \notin Keys
    THEN TEE_Panic(o, "misuse")
    ELSE [o EXCEPT !.key = k, !.keySet = TRUE, !.res = "SUCCESS"])

-----------------------------------------------------------------------------
\* Ciphers.

\* The provider refuses an initial vector of a wrong length; ECB has none.
crypto_cipher_init(o, ivFits) == ivFits \/ o.alg = "ECB"

\* Mutant: what the last stream left in the buffer stays there.
TEE_CipherInit_OldBuffer(o, ivFits) ==
  Call(o,
    IF ~Cipher(o) \/ ~o.keySet \/ ~crypto_cipher_init(o, ivFits) THEN TEE_Panic(o, "misuse")
    ELSE [o EXCEPT !.state = "ACTIVE", !.ctx = Fresh(o), !.initialized = TRUE,
                   !.res = "SUCCESS"])

TEE_CipherInit(o, ivFits) ==
  Call(o,
    IF ~Cipher(o) \/ ~o.keySet \/ ~crypto_cipher_init(o, ivFits) THEN TEE_Panic(o, "misuse")
    ELSE [o EXCEPT !.state = "ACTIVE", !.ctx = Fresh(o), !.buffer = <<>>,
                   !.initialized = TRUE, !.res = "SUCCESS"])

MIN(a, b) == IF a < b THEN a ELSE b
ROUNDUP(n) == ((n + BlockSize - 1) \div BlockSize) * BlockSize

Take(s, n) == SubSeq(s, 1, n)
Drop(s, n) == SubSeq(s, n + 1, Len(s))

\* tee_do_cipher_update refuses an incomplete block.
WholeBlocks(o, chunk) == o.alg = "CTR" \/ Len(chunk) % BlockSize = 0

\* utee_cipher_update with dlen bytes of room at dst, of which o.len are used:
\* the context absorbs the chunk and as many bytes are written.
utee_cipher_update(o, chunk, dlen) ==
  Call(o,
    IF dlen - o.len < Len(chunk) \/ ~WholeBlocks(o, chunk) THEN TEE_Panic(o, "feeding")
    ELSE [o EXCEPT !.ctx.data = @ \o chunk, !.len = @ + Len(chunk)])

BufferSize(o) == IF o.alg \in TwoBlocks THEN 2 * BlockSize ELSE BlockSize
BufferLeft(o) == IF o.alg \in TwoBlocks THEN 1 ELSE 0

\* How much of src completes the block the buffer has begun.
FillLen(o, src) ==
  LET offs == Len(o.buffer)
  IN  IF offs = 0 THEN 0
      ELSE MIN(Len(src), (IF offs < BlockSize THEN BlockSize ELSE BufferSize(o)) - offs)

\* With slen bytes to come the buffer may give some of its own away.
CanFeed(o, slen) == Len(o.buffer) + slen >= BufferSize(o) + BufferLeft(o)

FeedFromBufferLen(o, slen) == MIN(Len(o.buffer), ROUNDUP(Len(o.buffer) + slen - BufferSize(o)))

\* Mutant: all complete blocks, as for the ciphers that keep one block.
FeedFromSourceLen_OneBlock(o, slen) == ROUNDUP(slen - BlockSize + 1)

FeedFromSourceLen(o, slen) ==
  IF o.alg = "CTS" THEN ROUNDUP(slen - BufferSize(o)) ELSE ROUNDUP(slen - BufferSize(o) + 1)

Append2Buffer(o, src) == [o EXCEPT !.buffer = @ \o src]

\* The tail of tee_buffer_update: the buffer is empty or what comes fits into it.
FeedFromSource(o, src, dlen) ==
  IF Len(src) >= BufferSize(o) + BufferLeft(o)
  THEN LET l == FeedFromSourceLen(o, Len(src))
       IN  Append2Buffer(utee_cipher_update(o, Take(src, l), dlen), Drop(src, l))
  ELSE Append2Buffer(o, src)

FeedFromBuffer(o, src, dlen) ==
  LET l == FeedFromBufferLen(o, Len(src))
      fed == [utee_cipher_update(o, Take(o.buffer, l), dlen) EXCEPT !.buffer = Drop(@, l)]
  IN  IF fed.buffer # <<>> THEN Append2Buffer(fed, src) ELSE FeedFromSource(fed, src, dlen)

tee_buffer_update(o, src, dlen) ==
  LET fill == FillLen(o, src)
      filled == Append2Buffer(o, Take(src, fill))
      rest == Drop(src, fill)
      held == Len(filled.buffer)
  IN  IF o.buffer # <<>> /\ held % BlockSize # 0 THEN filled
      ELSE IF held > 0 /\ CanFeed(filled, Len(rest)) THEN FeedFromBuffer(filled, rest, dlen)
      ELSE FeedFromSource(filled, rest, dlen)

\* Mutant: what waits in the buffer is not counted.
req_dlen_SourceOnly(o, slen) ==
  IF o.alg = "CTR" THEN slen ELSE (slen \div BlockSize) * BlockSize

\* The room TEE_CipherUpdate asks for before it starts to feed data.
req_dlen(o, slen) ==
  IF o.alg = "CTR" THEN slen
  ELSE LET whole == ((Len(o.buffer) + slen) \div BlockSize) * BlockSize
       IN  IF o.alg \notin TwoBlocks THEN whole
           ELSE IF whole > 2 * BlockSize THEN whole - 2 * BlockSize
           ELSE 0

TEE_CipherUpdate(o, src, dlen) ==
  Call(o,
    IF \/ ~Cipher(o) \/ ~o.initialized \/ o.state # "ACTIVE"
       \/ Len(src) > MaxChunk \/ dlen > MaxChunk
    THEN TEE_Panic(o, "misuse")
    ELSE IF dlen < req_dlen(o, Len(src))
    THEN [o EXCEPT !.res = "SHORT_BUFFER", !.len = req_dlen(o, Len(src))]
    ELSE LET start == [o EXCEPT !.res = "SUCCESS", !.len = 0]
         IN  IF o.alg = "CTR" THEN utee_cipher_update(start, src, dlen)
             ELSE tee_buffer_update(start, src, dlen))

-----------------------------------------------------------------------------
\* Digests and MACs.

TEE_DigestUpdate(o, chunk) ==
  Call(o, IF ~Digest(o) THEN TEE_Panic(o, "misuse")
          ELSE [o EXCEPT !.state = "ACTIVE", !.ctx.data = @ \o chunk, !.res = "SUCCESS"])

\* utee_hash_final when the caller's buffer is large enough.
utee_hash_final(o, chunk) ==
  [o EXCEPT !.tag = [key |-> o.ctx.key, data |-> o.ctx.data \o chunk],
            !.ctx.data = @ \o chunk, !.res = "SUCCESS"]

TEE_DigestDoFinal(o, chunk, fits) ==
  Call(o, IF ~Digest(o) THEN TEE_Panic(o, "misuse")
          ELSE IF ~fits THEN [o EXCEPT !.res = "SHORT_BUFFER"]
          ELSE [utee_hash_final(o, chunk) EXCEPT !.ctx = Fresh(o), !.state = "INITIAL"])

TEE_MACInit(o) ==
  Call(o, IF ~Mac(o) \/ ~o.keySet THEN TEE_Panic(o, "misuse")
          ELSE [o EXCEPT !.state = "ACTIVE", !.ctx = Fresh(o), !.initialized = TRUE,
                         !.res = "SUCCESS"])

MacReady(o) == Mac(o) /\ o.initialized /\ o.state = "ACTIVE"

TEE_MACUpdate(o, chunk) ==
  Call(o, IF ~MacReady(o) \/ Len(chunk) > MaxChunk THEN TEE_Panic(o, "misuse")
          ELSE [o EXCEPT !.ctx.data = @ \o chunk, !.res = "SUCCESS"])

\* room tells whether macLen is too "short" for the MAC, "enough", or "beyond" the
\* chunk limit.
TEE_MACComputeFinal(o, chunk, room) ==
  Call(o, IF ~MacReady(o) \/ room = "beyond" THEN TEE_Panic(o, "misuse")
          ELSE IF room = "short" THEN [o EXCEPT !.res = "SHORT_BUFFER"]
          ELSE [utee_hash_final(o, chunk) EXCEPT !.initialized = FALSE, !.state = "INITIAL"])

\* Whether the MAC given is the one computed decides the answer alone.
TEE_MACCompareFinal(o, chunk, same) ==
  LET done == TEE_MACComputeFinal(o, chunk, "enough")
  IN  IF done.stop = "no" /\ ~same THEN [done EXCEPT !.res = "MAC_INVALID"] ELSE done
=============================================================================
