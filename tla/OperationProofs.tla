--------------------------- MODULE OperationProofs ----------------------------
(***************************************************************************)
(* Proofs about OperationCalls, for every block size, chunk limit and      *)
(* amount of data: the data of a stream passes buffer and context once and *)
(* in order under one key, and the AES TA panics only on commands that its *)
(* own answers do not permit.                                              *)
(***************************************************************************)
EXTENDS OperationCalls, ProofLemmas

(***************************************************************************)
(* The inductive invariant.                                                *)
(***************************************************************************)

\* A name of its own keeps the provers from unfolding sequences.
Size(s) == Len(s)

KeyedData == [key : AnyKey, data : Data]

OpRecord ==
  [alg : Algorithms \cup {"none"}, state : {"INITIAL", "ACTIVE"},
   keySet : BOOLEAN, initialized : BOOLEAN, key : AnyKey, buffer : Data,
   ctx : KeyedData, tag : KeyedData,
   res : {"SUCCESS", "SHORT_BUFFER", "MAC_INVALID", "BAD_PARAMETERS", "BAD_STATE", "ERROR"},
   len : Nat, stop : {"no", "misuse", "feeding", "memory"}]

\* o takes data, of which g bytes were given so far.
Live(o) == o.stop = "no" /\ o.initialized /\ (o.state = "ACTIVE" \/ Digest(o))

\* The context has been fed complete blocks; CTS and XTS feed nothing before they
\* have a block to keep back.
Blocks(o) ==
  /\ Size(o.buffer) <= BufferSize(o)
  /\ Size(o.ctx.data) % BlockSize = 0
  /\ o.alg \in TwoBlocks => Size(o.ctx.data) = 0 \/ Size(o.buffer) >= BlockSize

Stream(o, g) ==
  /\ o.ctx.data \o o.buffer = Bytes(g)
  /\ o.ctx.key = o.key
  /\ o.alg \in BlockCiphers => Blocks(o)

Bounded(o) ==
  /\ Size(o.buffer) <= MaxData
  /\ Size(o.ctx.data) <= MaxData
  /\ Size(o.tag.data) <= MaxData
  /\ o.len <= MaxData + MaxChunk

Sound(o) ==
  /\ o \in OpRecord
  /\ Bounded(o)
  /\ o.alg \notin BlockCiphers => o.buffer = <<>>
  /\ o.alg = "SHA" => o.initialized
  /\ o.alg = "none" => ~o.initialized
  /\ o.stop = "feeding" => o.alg \in TwoBlocks

OpInv(o, g) == Sound(o) /\ (Live(o) => Stream(o, g))

\* The history records what is so: the client was told of an operation exactly if
\* the session has one, that one has a key, if only the dummy, and is of the size
\* the client was told, and it takes data if the client was told so.
Agreed(o, s, t) ==
  /\ o.alg \in NOPAD \cup {"CTR", "none"}
  /\ t.size > 0 => o.alg # "none"
  /\ o.alg # "none" => o.keySet /\ s.op_size = t.size
  /\ t.ready => o.alg # "none" /\ o.state = "ACTIVE" /\ o.initialized

AesInv ==
  ta = "aes" =>
    /\ op.stop \in {"misuse", "feeding"} => ~permitted
    /\ op.stop = "no" => Agreed(op, sess, told)

SizeOrNone == {0} \cup AesKeySizes
Sessions == [open : BOOLEAN, key_size : SizeOrNone, op_size : SizeOrNone]
Answered == [size : SizeOrNone, ready : BOOLEAN]

CallsInv ==
  /\ ta \in {"any", "aes"}
  /\ sess \in Sessions /\ told \in Answered /\ permitted \in BOOLEAN
  /\ given \in 0..MaxData
  /\ OpInv(op, given)
  /\ AesInv

(***************************************************************************)
(* Numbers and sequences.                                                  *)
(***************************************************************************)

\* What the assumptions on the constants say of numbers and keys.
LEMMA Constants ==
  /\ BlockSize \in Nat \ {0} /\ BlockSize > 1
  /\ MaxChunk \in Nat /\ MaxData \in Nat
  /\ NoKey \in AnyKey /\ Keys \subseteq AnyKey
  BY OperationAssumption, OperationCallsAssumption DEF AnyKey

\* ROUNDUP gives the multiple of the block size that is not below n and less than
\* a block above it.
LEMMA RoundUp ==
  ASSUME NEW n \in Nat
  PROVE  /\ ROUNDUP(n) \in Nat
         /\ n <= ROUNDUP(n) /\ ROUNDUP(n) < n + BlockSize
         /\ ROUNDUP(n) % BlockSize = 0
<1> DEFINE b == BlockSize
           q == (n + b - 1) \div b
           r == (n + b - 1) % b
<1>0. b \in Nat \ {0} /\ n + b - 1 \in Int /\ n + b - 1 >= 0
  BY Constants
<1>1. q \in Nat /\ r \in 0..(b - 1) /\ n + b - 1 = q * b + r
  BY <1>0, DivMod
<1>2. ROUNDUP(n) = q * b
  BY DEF ROUNDUP
<1> HIDE DEF q, r
<1>3. q * b \in Nat
  BY <1>0, <1>1
<1>4. n <= q * b /\ q * b < n + b
  BY <1>0, <1>1, <1>3
<1>5. q * b = q * b + 0 /\ 0 \in 0..(b - 1) /\ q \in Int /\ q * b \in Int
  BY <1>0, <1>1, <1>3
<1>6. (q * b) % b = 0
  BY <1>0, <1>5, DivModUnique
<1> QED
  BY <1>2, <1>3, <1>4, <1>6

\* The bytes given so far, followed by a chunk, are the bytes given afterwards.
LEMMA BytesGrow ==
  ASSUME NEW g \in Nat, NEW n \in Nat
  PROVE  /\ Bytes(g) \in Data /\ Len(Bytes(g)) = g
         /\ [i \in 1..n |-> g + i] \in Data /\ Len([i \in 1..n |-> g + i]) = n
         /\ Bytes(g) \o [i \in 1..n |-> g + i] = Bytes(g + n)
         /\ Bytes(0) = <<>>
<1> DEFINE c == [i \in 1..n |-> g + i]
<1>1. Bytes(g) \in Data /\ Len(Bytes(g)) = g
  BY DEF Bytes, Data
<1>2. c \in Data /\ Len(c) = n
  BY DEF Data
<1>3. Bytes(g + n) \in Data /\ Len(Bytes(g + n)) = g + n
  BY DEF Bytes, Data
<1>4. \A i \in 1..g : Bytes(g)[i] = i
  BY DEF Bytes
<1>5. \A i \in 1..g + n : Bytes(g + n)[i] = i
  BY DEF Bytes
<1>6. \A i \in 1..n : c[i] = g + i
  OBVIOUS
<1> HIDE DEF c
<1>7. /\ Bytes(g) \o c \in Data
      /\ Len(Bytes(g) \o c) = g + n
      /\ \A i \in 1..g + n : (Bytes(g) \o c)[i] = IF i <= g THEN Bytes(g)[i] ELSE c[i - g]
  <2>1. Bytes(g) \o c \in Data /\ Len(Bytes(g) \o c) = Len(Bytes(g)) + Len(c)
    BY <1>1, <1>2, DataJoin
  <2>2. \A i \in 1..Len(Bytes(g)) + Len(c) :
          (Bytes(g) \o c)[i] = IF i <= Len(Bytes(g)) THEN Bytes(g)[i] ELSE c[i - Len(Bytes(g))]
    BY <1>1, <1>2, DataBytes
  <2> QED
    BY <1>1, <1>2, <2>1, <2>2
<1>8. \A i \in 1..g + n : (Bytes(g) \o c)[i] = i
  BY <1>4, <1>6, <1>7
<1>9. Bytes(g) \o c = Bytes(g + n)
  <2>1. Len(Bytes(g) \o c) = Len(Bytes(g + n))
    BY <1>3, <1>7
  <2>2. \A i \in 1..Len(Bytes(g) \o c) : (Bytes(g) \o c)[i] = Bytes(g + n)[i]
    BY <1>5, <1>7, <1>8
  <2> QED
    BY <2>1, <2>2, <1>3, <1>7, DataEqual
<1>10. Bytes(0) = <<>>
  BY DEF Bytes, Data
<1> QED
  BY <1>1, <1>2, <1>9, <1>10 DEF c

\* Sizes of data.
LEMMA DataSize ==
  /\ <<>> \in Data /\ Size(<<>>) = 0
  /\ \A s \in Data : Size(s) \in Nat /\ (Size(s) = 0 <=> s = <<>>)
  /\ \A s, t \in Data : s \o t \in Data /\ Size(s \o t) = Size(s) + Size(t)
  BY DataLen, DataJoin DEF Size

\* Data is its first n bytes followed by the others.
LEMMA CutData ==
  ASSUME NEW s \in Data, NEW n \in 0..Size(s)
  PROVE  /\ Take(s, n) \in Data /\ Size(Take(s, n)) = n
         /\ Drop(s, n) \in Data /\ Size(Drop(s, n)) = Size(s) - n
         /\ Take(s, n) \o Drop(s, n) = s
         /\ n = Size(s) => Take(s, n) = s
<1>1. /\ Take(s, n) \in Data /\ Size(Take(s, n)) = n
      /\ Drop(s, n) \in Data /\ Size(Drop(s, n)) = Size(s) - n
      /\ Take(s, n) \o Drop(s, n) = s
  BY DataCut DEF Take, Drop, Size
<1>2. ASSUME n = Size(s) PROVE Take(s, n) = s
  <2>1. Size(Drop(s, n)) = 0
    BY <1>1, <1>2, DataSize
  <2>2. Drop(s, n) = <<>>
    BY <1>1, <2>1, DataSize
  <2>3. Take(s, n) \o <<>> = s
    BY <1>1, <2>2, Zenon
  <2> QED
    BY <1>1, <2>3, DataJoin
<1> QED
  BY <1>1, <1>2

\* Moving the border between two sequences changes nothing of the whole.
LEMMA Shift ==
  ASSUME NEW d \in Data, NEW b \in Data, NEW s \in Data, NEW n \in 0..Size(s)
  PROVE  /\ (d \o (b \o Take(s, n))) \o Drop(s, n) = (d \o b) \o s
         /\ (d \o Take(s, n)) \o Drop(s, n) = d \o s
<1>1. /\ Take(s, n) \in Data /\ Drop(s, n) \in Data
      /\ Take(s, n) \o Drop(s, n) = s
  BY CutData
<1>2. (d \o Take(s, n)) \o Drop(s, n) = d \o s
  <2>1. (d \o Take(s, n)) \o Drop(s, n) = d \o (Take(s, n) \o Drop(s, n))
    BY <1>1, DataAssoc, Zenon
  <2> QED BY <2>1, <1>1, Zenon
<1>3. PICK e \in Data : e = d \o b
  BY DataJoin
<1>4. d \o (b \o Take(s, n)) = e \o Take(s, n)
  <2>1. d \o (b \o Take(s, n)) = (d \o b) \o Take(s, n)
    BY <1>1, DataAssoc, Zenon
  <2> QED BY <2>1, <1>3
<1>5. (e \o Take(s, n)) \o Drop(s, n) = e \o (Take(s, n) \o Drop(s, n))
  <2>1. e \in Data
    BY <1>3
  <2> QED BY <1>1, <2>1, DataAssoc, Zenon
<1> QED
  BY <1>1, <1>2, <1>3, <1>4, <1>5

(***************************************************************************)
(* Feeding.                                                                *)
(***************************************************************************)

\* What feeding data leaves alone.
Same(o, r) ==
  /\ r \in OpRecord
  /\ r.alg = o.alg /\ r.state = o.state /\ r.keySet = o.keySet
  /\ r.initialized = o.initialized /\ r.key = o.key /\ r.ctx.key = o.ctx.key
  /\ r.tag = o.tag /\ r.res = o.res

Total(o) == Size(o.ctx.data) + Size(o.buffer)

\* Every number of complete blocks among n bytes fits into the destination.
Room(o, n, dlen) == \A m \in 0..n : m % BlockSize = 0 => o.len + m <= dlen

\* r is o after src was given to it: nothing is lost, doubled or reordered, and
\* the service refuses nothing when there is room.
Fed(o, r, src, dlen) ==
  /\ Same(o, r)
  /\ r.stop \in {"no", "feeding"}
  /\ r.len <= dlen
  /\ Total(r) <= Total(o) + Size(src)
  /\ Room(o, Size(o.buffer) + Size(src), dlen) => r.stop = "no"
  /\ r.stop = "no" => /\ r.ctx.data \o r.buffer = (o.ctx.data \o o.buffer) \o src
                      /\ Blocks(r)

\* The service absorbs the chunk or panics.
LEMMA ServiceFeeds ==
  ASSUME NEW o \in OpRecord, NEW chunk \in Data, NEW dlen \in Nat, o.len <= dlen
  PROVE  LET r == utee_cipher_update(o, chunk, dlen) IN
         /\ Same(o, r) /\ r.buffer = o.buffer /\ r.len <= dlen
         /\ o.stop # "no" => r = o
         /\ o.stop = "no" => r.stop \in {"no", "feeding"}
         /\ o.stop = "no" /\ o.len + Size(chunk) <= dlen /\ WholeBlocks(o, chunk) => r.stop = "no"
         /\ r.stop = "no" => /\ o.stop = "no" /\ WholeBlocks(o, chunk)
                             /\ r.ctx.data = o.ctx.data \o chunk
                             /\ r.len = o.len + Size(chunk)
         /\ r.stop # "no" => r.ctx = o.ctx
<1>1. /\ o.ctx.data \in Data /\ Size(chunk) \in Nat /\ o.len \in Nat
      /\ o.ctx.data \o chunk \in Data
  BY DataSize DEF OpRecord, KeyedData
<1> DEFINE fits == ~(dlen - o.len < Size(chunk) \/ ~WholeBlocks(o, chunk))
<1>2. CASE o.stop = "no" /\ fits
  <2> DEFINE r == [o EXCEPT !.ctx.data = @ \o chunk, !.len = @ + Size(chunk)]
  <2>1. utee_cipher_update(o, chunk, dlen) = r
    BY <1>2 DEF utee_cipher_update, Call, Size
  <2>2. PICK d \in Data : d = o.ctx.data \o chunk
    BY <1>1
  <2>3. PICK n \in Nat : n = o.len + Size(chunk)
    BY <1>1
  <2>4. r = [o EXCEPT !.ctx.data = d, !.len = n]
    BY <2>2, <2>3
  <2> HIDE DEF r
  <2>5. /\ Same(o, r) /\ r.buffer = o.buffer /\ r.stop = "no"
        /\ r.ctx.data = d /\ r.len = n
    BY <1>2, <2>4 DEF Same, OpRecord, KeyedData
  <2> QED
    BY <1>1, <1>2, <2>1, <2>2, <2>3, <2>5
<1>3. CASE o.stop = "no" /\ ~fits
  <2> DEFINE r == [o EXCEPT !.stop = "feeding"]
  <2>1. utee_cipher_update(o, chunk, dlen) = r
    BY <1>3 DEF utee_cipher_update, Call, TEE_Panic, Size
  <2>2. Same(o, r) /\ r.buffer = o.buffer /\ r.stop = "feeding" /\ r.ctx = o.ctx /\ r.len = o.len
    BY <1>1, <1>3 DEF Same, OpRecord, KeyedData
  <2> QED
    BY <1>1, <1>3, <2>1, <2>2
<1>4. CASE o.stop # "no"
  <2>1. utee_cipher_update(o, chunk, dlen) = o
    BY <1>4 DEF utee_cipher_update, Call
  <2>2. Same(o, o)
    BY DEF Same
  <2> QED
    BY <1>1, <1>4, <2>1, <2>2
<1> QED
  BY <1>2, <1>3, <1>4

\* Appending to the buffer changes nothing else.
LEMMA BufferGrows ==
  ASSUME NEW o \in OpRecord, NEW src \in Data
  PROVE  LET r == Append2Buffer(o, src) IN
         /\ Same(o, r) /\ r.buffer = o.buffer \o src
         /\ r.ctx = o.ctx /\ r.len = o.len /\ r.stop = o.stop
         /\ Total(r) = Total(o) + Size(src)
<1>1. o.buffer \in Data /\ o.ctx.data \in Data /\ o.buffer \o src \in Data
      /\ Size(o.buffer \o src) = Size(o.buffer) + Size(src)
  BY DataSize DEF OpRecord, KeyedData
<1>2. Size(o.buffer) \in Nat /\ Size(o.ctx.data) \in Nat /\ Size(src) \in Nat
  BY <1>1, DataSize
<1>3. PICK b \in Data : b = o.buffer \o src
  BY <1>1
<1>4. PICK r : r = [o EXCEPT !.buffer = b]
  OBVIOUS
<1>5. Append2Buffer(o, src) = r
  BY <1>3, <1>4 DEF Append2Buffer
<1>6. Same(o, r) /\ r.buffer = b /\ r.ctx = o.ctx /\ r.len = o.len /\ r.stop = o.stop
  BY <1>4 DEF Same, OpRecord
<1>7. Total(r) = Total(o) + Size(src)
  <2>1. Size(b) = Size(o.buffer) + Size(src)
    BY <1>1, <1>3
  <2>2. Size(r.buffer) = Size(b) /\ Size(r.ctx.data) = Size(o.ctx.data)
    BY <1>6
  <2> QED
    BY <1>2, <2>1, <2>2 DEF Total
<1>8. r.buffer = o.buffer \o src
  BY <1>3, <1>6
<1> QED
  BY <1>5, <1>6, <1>7, <1>8

(***************************************************************************)
(* How much is fed.                                                        *)
(***************************************************************************)

\* The sizes of the buffer.
LEMMA Capacity ==
  ASSUME NEW o
  PROVE  /\ o.alg \in TwoBlocks => BufferSize(o) = 2 * BlockSize /\ BufferLeft(o) = 1
         /\ o.alg \notin TwoBlocks => BufferSize(o) = BlockSize /\ BufferLeft(o) = 0
         /\ BufferSize(o) \in Nat /\ BufferLeft(o) \in Nat
  BY Constants DEF BufferSize, BufferLeft

\* What is fed directly from the source are complete blocks; the rest fits into
\* the buffer, and for CTS and XTS a block is kept back.
LEMMA SourceLen ==
  ASSUME NEW o, NEW n \in Nat, n >= BufferSize(o) + BufferLeft(o)
  PROVE  LET l == FeedFromSourceLen(o, n) IN
         /\ l \in 0..n /\ l % BlockSize = 0
         /\ n - l <= BufferSize(o)
         /\ o.alg \in TwoBlocks => n - l >= BlockSize
<1>1. CASE o.alg = "CTS"
  <2>1. FeedFromSourceLen(o, n) = ROUNDUP(n - BufferSize(o)) /\ BufferSize(o) = 2 * BlockSize
    BY <1>1, Capacity DEF FeedFromSourceLen, TwoBlocks
  <2>2. n - BufferSize(o) \in Nat
    BY Capacity
  <2> QED
    BY <2>1, <2>2, RoundUp, Constants
<1>2. CASE o.alg # "CTS"
  <2>1. FeedFromSourceLen(o, n) = ROUNDUP(n - BufferSize(o) + 1)
    BY <1>2 DEF FeedFromSourceLen
  <2>2. n - BufferSize(o) + 1 \in Nat /\ BufferSize(o) \in Nat
    BY Capacity
  <2>3. o.alg \in TwoBlocks => BufferSize(o) = 2 * BlockSize
    BY Capacity
  <2>4. o.alg \notin TwoBlocks => BufferSize(o) = BlockSize
    BY Capacity
  <2> DEFINE l == ROUNDUP(n - BufferSize(o) + 1)
  <2>5. /\ l \in Nat /\ l % BlockSize = 0 /\ n - BufferSize(o) + 1 <= l
        /\ l < n - BufferSize(o) + 1 + BlockSize
    BY <2>2, RoundUp
  <2> HIDE DEF l
  <2>6. l <= n /\ n - l <= BufferSize(o) /\ (o.alg \in TwoBlocks => n - l >= BlockSize)
    BY <2>2, <2>3, <2>4, <2>5, Constants
  <2> QED
    BY <2>1, <2>5, <2>6 DEF l
<1> QED
  BY <1>1, <1>2

\* What is fed from a buffer of complete blocks are complete blocks.  What stays
\* fits into the buffer together with the n bytes to come, and for CTS and XTS a
\* block is kept back.
LEMMA BufferLen ==
  ASSUME NEW o \in OpRecord, NEW n \in Nat, CanFeed(o, n), Size(o.buffer) % BlockSize = 0
  PROVE  LET l == FeedFromBufferLen(o, n)
             h == Size(o.buffer) IN
         /\ l \in 0..h /\ l % BlockSize = 0
         /\ l < h => h - l + n <= BufferSize(o) /\ (o.alg \in TwoBlocks => h - l + n >= BlockSize)
         /\ l = h /\ o.alg \in TwoBlocks => n >= BlockSize
<1>1. PICK h \in Nat : h = Size(o.buffer)
  BY DataSize DEF OpRecord
<1>2. h + n >= BufferSize(o) + BufferLeft(o)
  BY <1>1 DEF CanFeed, Size
<1>3. h + n - BufferSize(o) \in Nat
  BY <1>2, Capacity
<1>4. PICK u \in Nat : u = ROUNDUP(h + n - BufferSize(o))
  BY <1>3, RoundUp
<1>5. h + n - BufferSize(o) <= u /\ u < h + n - BufferSize(o) + BlockSize /\ u % BlockSize = 0
  BY <1>3, <1>4, RoundUp
<1>6. FeedFromBufferLen(o, n) = IF h < u THEN h ELSE u
  BY <1>1, <1>4 DEF FeedFromBufferLen, MIN, Size
<1>7. BufferSize(o) \in Nat /\ (o.alg \in TwoBlocks => BufferSize(o) = 2 * BlockSize)
  BY Capacity
<1>8. h % BlockSize = 0
  BY <1>1
<1>9. PICK l \in 0..h : l = FeedFromBufferLen(o, n) /\ l % BlockSize = 0 /\ l = (IF h < u THEN h ELSE u)
  BY <1>5, <1>6, <1>8
<1>10. /\ l < h => h - l + n <= BufferSize(o) /\ (o.alg \in TwoBlocks => h - l + n >= BlockSize)
       /\ l = h /\ o.alg \in TwoBlocks => n >= BlockSize
  BY <1>5, <1>7, <1>9, Constants
<1> QED
  BY <1>1, <1>9, <1>10

(***************************************************************************)
(* The steps of tee_buffer_update.                                         *)
(***************************************************************************)

\* The parts of an operation that feeding works on.
LEMMA Parts ==
  ASSUME NEW o \in OpRecord
  PROVE  /\ o.buffer \in Data /\ o.ctx.data \in Data /\ o.len \in Nat
         /\ Size(o.buffer) \in Nat /\ Size(o.ctx.data) \in Nat
<1>1. o.buffer \in Data /\ o.ctx.data \in Data /\ o.len \in Nat
  BY DEF OpRecord, KeyedData
<1> QED
  BY <1>1, DataSize

\* After a panic nothing is fed, and no byte is counted twice.
LEMMA SourceStopped ==
  ASSUME NEW o \in OpRecord, NEW src \in Data, NEW dlen \in Nat, o.len <= dlen, o.stop # "no"
  PROVE  LET r == FeedFromSource(o, src, dlen) IN
         /\ Same(o, r) /\ r.stop = o.stop /\ r.len <= dlen
         /\ Total(r) <= Total(o) + Size(src)
<1> DEFINE n == Size(src)
           l == FeedFromSourceLen(o, n)
<1>1. n \in Nat /\ Total(o) \in Nat
  BY DataSize, Parts DEF Total
<1>2. CASE n >= BufferSize(o) + BufferLeft(o)
  <2>1. FeedFromSource(o, src, dlen)
          = Append2Buffer(utee_cipher_update(o, Take(src, l), dlen), Drop(src, l))
    BY <1>2 DEF FeedFromSource, Size
  <2>2. l \in 0..n
    BY <1>1, <1>2, SourceLen
  <2>3. Take(src, l) \in Data /\ Drop(src, l) \in Data /\ Size(Drop(src, l)) <= n
    <3> HIDE DEF l
    <3>1. Size(Drop(src, l)) = n - l
      BY <2>2, CutData
    <3> QED
      BY <1>1, <2>2, <3>1, CutData
  <2>4. utee_cipher_update(o, Take(src, l), dlen) = o
    BY <2>3, ServiceFeeds
  <2>5. FeedFromSource(o, src, dlen) = Append2Buffer(o, Drop(src, l))
    BY <2>1, <2>4
  <2> HIDE DEF n, l
  <2>6. Size(Drop(src, l)) \in Nat
    BY <2>3, DataSize
  <2> QED
    BY <1>1, <2>3, <2>5, <2>6, BufferGrows DEF n
<1>3. CASE ~(n >= BufferSize(o) + BufferLeft(o))
  <2>1. FeedFromSource(o, src, dlen) = Append2Buffer(o, src)
    BY <1>3 DEF FeedFromSource, Size
  <2> QED
    BY <1>1, <2>1, BufferGrows
<1> QED
  BY <1>2, <1>3

\* From the source: the buffer is empty, or the source fits into it.
LEMMA SourceFeeds ==
  ASSUME NEW o \in OpRecord, NEW src \in Data, NEW dlen \in Nat, o.len <= dlen, o.stop = "no",
         o.alg \in BlockCiphers, Size(o.ctx.data) % BlockSize = 0,
         \/ /\ o.buffer = <<>>
            /\ o.alg \in TwoBlocks => Size(o.ctx.data) = 0 \/ Size(src) >= BlockSize
         \/ /\ Size(o.buffer) + Size(src) <= BufferSize(o)
            /\ Size(src) < BufferSize(o) + BufferLeft(o)
            /\ o.alg \in TwoBlocks => Size(o.ctx.data) = 0 \/ Size(o.buffer) >= BlockSize
  PROVE  Fed(o, FeedFromSource(o, src, dlen), src, dlen)
<1> DEFINE n == Size(src)
           l == FeedFromSourceLen(o, n)
           c == FeedFromSource(o, src, dlen)
<1> SUFFICES Fed(o, c, src, dlen)
  OBVIOUS
<1>1. /\ n \in Nat /\ Total(o) \in Nat /\ BlockSize \in Nat \ {0}
      /\ BufferSize(o) \in Nat /\ BufferLeft(o) \in Nat
  BY DataSize, Parts, Capacity, Constants DEF Total
<1>2. PICK d \in Data, b \in Data : d = o.ctx.data /\ b = o.buffer
  BY Parts
<1>3. CASE n >= BufferSize(o) + BufferLeft(o)
  <2>0. b = <<>> /\ Size(b) = 0
    BY <1>1, <1>2, <1>3, DataSize
  <2>1. PICK t \in Data, u \in Data : t = Take(src, l) /\ u = Drop(src, l)
          /\ l \in 0..n /\ l % BlockSize = 0 /\ Size(t) = l /\ Size(u) = n - l
          /\ n - l <= BufferSize(o) /\ (o.alg \in TwoBlocks => n - l >= BlockSize)
          /\ (d \o t) \o u = d \o src
    <3>1. /\ l \in 0..n /\ l % BlockSize = 0
          /\ n - l <= BufferSize(o) /\ (o.alg \in TwoBlocks => n - l >= BlockSize)
      BY <1>1, <1>3, SourceLen
    <3> HIDE DEF l
    <3>2. /\ Take(src, l) \in Data /\ Size(Take(src, l)) = l
          /\ Drop(src, l) \in Data /\ Size(Drop(src, l)) = n - l
      BY <3>1, CutData
    <3>3. (d \o Take(src, l)) \o Drop(src, l) = d \o src
      BY <3>1, Shift
    <3> QED
      BY <3>1, <3>2, <3>3, Zenon
  <2>2. PICK f : f = utee_cipher_update(o, t, dlen)
    OBVIOUS
  <2>3. /\ Same(o, f) /\ f \in OpRecord /\ f.buffer = b /\ f.len <= dlen
        /\ f.stop \in {"no", "feeding"}
        /\ o.len + l <= dlen => f.stop = "no"
        /\ f.stop = "no" => f.ctx.data = d \o t
        /\ f.stop # "no" => f.ctx = o.ctx
    <3>1. WholeBlocks(o, t)
      BY <2>1 DEF WholeBlocks, Size
    <3> HIDE DEF l, n
    <3>2. /\ Same(o, f) /\ f.buffer = o.buffer /\ f.len <= dlen
          /\ f.stop \in {"no", "feeding"}
          /\ o.len + Size(t) <= dlen /\ WholeBlocks(o, t) => f.stop = "no"
          /\ f.stop = "no" => f.ctx.data = o.ctx.data \o t
          /\ f.stop # "no" => f.ctx = o.ctx
      BY <2>2, ServiceFeeds
    <3>3. f \in OpRecord
      BY <3>2 DEF Same
    <3>4. o.len + l <= dlen => f.stop = "no"
      BY <2>1, <3>1, <3>2
    <3> QED
      BY <1>2, <3>2, <3>3, <3>4
  <2>4. c = Append2Buffer(f, u)
    BY <1>3, <2>1, <2>2 DEF FeedFromSource, Size
  <2> HIDE DEF n, l, c
  <2>5. /\ Same(f, c) /\ c.ctx = f.ctx /\ c.len = f.len /\ c.stop = f.stop
        /\ c.buffer = b \o u
    BY <2>1, <2>3, <2>4, BufferGrows
  <2>6. c.buffer = u
    BY <2>0, <2>1, <2>5, DataJoin
  <2>7. Same(o, c)
    BY <2>3, <2>5 DEF Same
  <2>8. Size(d) \in Nat /\ Total(o) = Size(d) /\ Total(c) = Size(c.ctx.data) + (n - l)
    BY <1>1, <1>2, <2>0, <2>1, <2>6, DataSize DEF Total
  <2>9. CASE f.stop = "no"
    <3>1. PICK e \in Data : e = d \o t /\ Size(e) = Size(d) + l
      <4>1. d \o t \in Data /\ Size(d \o t) = Size(d) + Size(t)
        BY DataSize
      <4> QED
        BY <2>1, <4>1
    <3>2. c.ctx.data = e /\ c.stop = "no"
      BY <2>3, <2>5, <2>9, <3>1
    <3>3. Total(c) <= Total(o) + n
      BY <1>1, <2>1, <2>8, <3>1, <3>2
    <3>4. e \o u = d \o src
      BY <2>1, <3>1
    <3>5. c.ctx.data \o c.buffer = (o.ctx.data \o o.buffer) \o src
      <4>1. o.ctx.data \o o.buffer = d
        BY <1>2, <2>0, DataJoin
      <4> QED
        BY <2>6, <3>2, <3>4, <4>1
    <3>6. Blocks(c)
      <4>1. Size(e) % BlockSize = 0
        <5>1. Size(d) % BlockSize = 0 /\ l % BlockSize = 0 /\ Size(d) \in Int /\ l \in Int
          BY <1>2, <2>1, <2>8
        <5> QED
          BY <1>1, <3>1, <5>1, Multiples
      <4>2. c.alg = o.alg /\ BufferSize(c) = BufferSize(o)
        BY <2>7 DEF Same, BufferSize
      <4> QED
        BY <2>1, <2>6, <3>2, <4>1, <4>2 DEF Blocks
    <3>7. c.len <= dlen
      BY <2>3, <2>5
    <3> QED
      BY <2>7, <3>2, <3>3, <3>5, <3>6, <3>7 DEF Fed, n
  <2>10. CASE f.stop # "no"
    <3>1. Total(c) <= Total(o) + n
      BY <1>1, <1>2, <2>1, <2>3, <2>5, <2>8, <2>10
    <3>2. ~Room(o, Size(o.buffer) + Size(src), dlen)
      <4>1. Size(o.buffer) + Size(src) = n
        BY <1>1, <1>2, <2>0 DEF n
      <4> QED
        BY <2>1, <2>3, <2>10, <4>1 DEF Room
    <3>3. c.len <= dlen /\ c.stop = "feeding"
      BY <2>3, <2>5, <2>10
    <3> QED
      BY <2>7, <3>1, <3>2, <3>3 DEF Fed, n
  <2> QED
    BY <2>9, <2>10
<1>4. CASE ~(n >= BufferSize(o) + BufferLeft(o))
  <2>1. c = Append2Buffer(o, src)
    BY <1>4 DEF FeedFromSource, Size
  <2> HIDE DEF n, c
  <2>2. /\ Same(o, c) /\ c.ctx = o.ctx /\ c.len = o.len /\ c.stop = "no"
        /\ c.buffer = b \o src /\ Total(c) = Total(o) + Size(src)
    BY <1>2, <2>1, BufferGrows
  <2>3. c.ctx.data \o c.buffer = (o.ctx.data \o o.buffer) \o src
    <3>1. d \o (b \o src) = (d \o b) \o src
      BY DataAssoc
    <3> QED
      BY <1>2, <2>2, <3>1
  <2>4. Size(c.buffer) = Size(b) + n /\ Size(b) \in Nat
    BY <2>2, DataSize DEF n
  <2>5. Blocks(c)
    <3>1. c.alg = o.alg /\ BufferSize(c) = BufferSize(o)
      BY <2>2 DEF Same, BufferSize
    <3>2. Size(b) + n <= BufferSize(o)
      <4>1. n < BufferSize(o) + BufferLeft(o)
        BY <1>1, <1>4
      <4>2. BufferLeft(o) <= 1
        BY Capacity DEF BufferLeft
      <4>3. CASE o.buffer = <<>>
        BY <1>1, <1>2, <4>1, <4>2, <4>3, DataSize
      <4> QED
        BY <1>2, <4>3 DEF n
    <3>3. o.alg \in TwoBlocks => Size(d) = 0 \/ Size(b) + n >= BlockSize
      BY <1>1, <1>2, <2>4 DEF n
    <3> QED
      BY <1>2, <2>2, <2>4, <3>1, <3>2, <3>3 DEF Blocks
  <2> QED
    BY <1>1, <2>2, <2>3, <2>5 DEF Fed, n
<1> QED
  BY <1>3, <1>4

\* From a buffer of complete blocks.
LEMMA BufferFeeds ==
  ASSUME NEW o \in OpRecord, NEW src \in Data, NEW dlen \in Nat, o.len <= dlen, o.stop = "no",
         o.alg \in BlockCiphers, Size(o.ctx.data) % BlockSize = 0,
         Size(o.buffer) % BlockSize = 0, CanFeed(o, Size(src))
  PROVE  Fed(o, FeedFromBuffer(o, src, dlen), src, dlen)
<1> DEFINE n == Size(src)
           l == FeedFromBufferLen(o, n)
           c == FeedFromBuffer(o, src, dlen)
<1> SUFFICES Fed(o, c, src, dlen)
  OBVIOUS
<1>1. PICK d \in Data, b \in Data : d = o.ctx.data /\ b = o.buffer
  BY Parts
<1>2. /\ n \in Nat /\ Size(b) \in Nat /\ Size(d) \in Nat /\ Total(o) = Size(d) + Size(b)
      /\ BlockSize \in Nat \ {0} /\ BufferSize(o) \in Nat /\ o.len \in Nat
  BY <1>1, DataSize, Parts, Capacity, Constants DEF Total
<1>3. PICK t \in Data, u \in Data : t = Take(b, l) /\ u = Drop(b, l)
         /\ l \in 0..Size(b) /\ l % BlockSize = 0 /\ Size(t) = l /\ Size(u) = Size(b) - l
         /\ (l < Size(b) => Size(b) - l + n <= BufferSize(o)
                            /\ (o.alg \in TwoBlocks => Size(b) - l + n >= BlockSize))
         /\ (l = Size(b) /\ o.alg \in TwoBlocks => n >= BlockSize)
         /\ (d \o t) \o u = d \o b
  <2>1. /\ l \in 0..Size(b) /\ l % BlockSize = 0
        /\ (l < Size(b) => Size(b) - l + n <= BufferSize(o)
                           /\ (o.alg \in TwoBlocks => Size(b) - l + n >= BlockSize))
        /\ (l = Size(b) /\ o.alg \in TwoBlocks => n >= BlockSize)
    BY <1>1, <1>2, BufferLen
  <2> HIDE DEF l
  <2>2. /\ Take(b, l) \in Data /\ Size(Take(b, l)) = l
        /\ Drop(b, l) \in Data /\ Size(Drop(b, l)) = Size(b) - l
    BY <2>1, CutData
  <2>3. (d \o Take(b, l)) \o Drop(b, l) = d \o b
    BY <2>1, Shift
  <2> QED
    BY <2>1, <2>2, <2>3, Zenon
<1>4. PICK f : f = utee_cipher_update(o, t, dlen)
  OBVIOUS
<1>5. /\ Same(o, f) /\ f \in OpRecord /\ f.buffer = b /\ f.len <= dlen
      /\ f.stop \in {"no", "feeding"}
      /\ o.len + l <= dlen => f.stop = "no"
      /\ f.stop = "no" => f.ctx.data = d \o t /\ f.len = o.len + l
      /\ f.stop # "no" => f.ctx = o.ctx
  <2>1. WholeBlocks(o, t)
    BY <1>3 DEF WholeBlocks, Size
  <2> HIDE DEF l, n
  <2>2. /\ Same(o, f) /\ f.buffer = o.buffer /\ f.len <= dlen
        /\ f.stop \in {"no", "feeding"}
        /\ o.len + Size(t) <= dlen /\ WholeBlocks(o, t) => f.stop = "no"
        /\ f.stop = "no" => f.ctx.data = o.ctx.data \o t /\ f.len = o.len + Size(t)
        /\ f.stop # "no" => f.ctx = o.ctx
    BY <1>4, ServiceFeeds
  <2>3. f \in OpRecord
    BY <2>2 DEF Same
  <2>4. o.len + l <= dlen => f.stop = "no"
    BY <1>3, <2>1, <2>2
  <2>5. f.stop = "no" => f.len = o.len + l
    BY <1>3, <2>2
  <2> QED
    BY <1>1, <2>2, <2>3, <2>4, <2>5
<1>6. PICK g : g = [f EXCEPT !.buffer = u]
  OBVIOUS
<1>7. /\ Same(f, g) /\ g \in OpRecord /\ g.buffer = u
      /\ g.ctx = f.ctx /\ g.len = f.len /\ g.stop = f.stop
  BY <1>5, <1>6 DEF Same, OpRecord
<1>8. Same(o, g)
  BY <1>5, <1>7 DEF Same
<1>9. c = IF g.buffer # <<>> THEN Append2Buffer(g, src) ELSE FeedFromSource(g, src, dlen)
  <2>1. g = [utee_cipher_update(o, Take(o.buffer, l), dlen) EXCEPT !.buffer = Drop(@, l)]
    BY <1>1, <1>3, <1>4, <1>5, <1>6
  <2> QED
    BY <2>1 DEF FeedFromBuffer, Size
<1> HIDE DEF n, l, c
<1>10. u # <<>> <=> l < Size(b)
  BY <1>2, <1>3, DataSize
<1>11. g.alg = o.alg /\ BufferSize(g) = BufferSize(o)
  BY <1>8 DEF Same, BufferSize
<1>12. ASSUME Same(g, c) PROVE Same(o, c)
  BY <1>8, <1>12 DEF Same
<1>13. CASE f.stop = "no"
  <2>1. PICK e \in Data : e = d \o t /\ Size(e) = Size(d) + l
    <3>1. d \o t \in Data /\ Size(d \o t) = Size(d) + Size(t)
      BY DataSize
    <3> QED
      BY <1>3, <3>1
  <2>2. g.ctx.data = e /\ g.len = o.len + l /\ g.stop = "no" /\ e \o u = d \o b
    BY <1>3, <1>5, <1>7, <1>13, <2>1
  <2>3. Size(e) % BlockSize = 0
    <3>1. Size(d) % BlockSize = 0 /\ l % BlockSize = 0 /\ Size(d) \in Int /\ l \in Int
      BY <1>1, <1>2, <1>3
    <3> QED
      BY <1>2, <2>1, <3>1, Multiples
  <2>4. CASE u # <<>>
    <3>1. c = Append2Buffer(g, src)
      BY <1>7, <1>9, <2>4
    <3>2. /\ Same(g, c) /\ c.ctx = g.ctx /\ c.len = g.len /\ c.stop = "no"
          /\ c.buffer = u \o src
      BY <1>7, <2>2, <3>1, BufferGrows
    <3>3. Size(c.buffer) = Size(u) + n
      BY <3>2, DataSize DEF n
    <3>4. c.ctx.data \o c.buffer = (o.ctx.data \o o.buffer) \o src
      <4>1. e \o (u \o src) = (e \o u) \o src
        BY DataAssoc
      <4> QED
        BY <1>1, <2>2, <3>2, <4>1
    <3>5. Total(c) <= Total(o) + n
      <4>1. Total(c) = Size(e) + (Size(u) + n)
        BY <2>2, <3>2, <3>3 DEF Total
      <4>2. l \in Nat /\ Size(e) = Size(d) + l /\ Size(u) = Size(b) - l
        BY <1>2, <1>3, <2>1
      <4> QED
        BY <1>2, <4>1, <4>2
    <3>6. Blocks(c)
      <4>1. c.alg = o.alg /\ BufferSize(c) = BufferSize(o)
        BY <1>12, <3>2 DEF Same, BufferSize
      <4>2. Size(u) + n <= BufferSize(o) /\ (o.alg \in TwoBlocks => Size(u) + n >= BlockSize)
        BY <1>3, <1>10, <2>4
      <4> QED
        BY <2>2, <2>3, <3>2, <3>3, <4>1, <4>2 DEF Blocks
    <3>7. c.len <= dlen /\ Same(o, c)
      BY <1>5, <1>7, <1>12, <3>2
    <3> QED
      BY <3>2, <3>4, <3>5, <3>6, <3>7 DEF Fed, n
  <2>5. CASE u = <<>>
    <3>1. c = FeedFromSource(g, src, dlen) /\ l = Size(b) /\ Size(u) = 0
      BY <1>3, <1>7, <1>9, <1>10, <2>5, DataSize
    <3>2. g.len <= dlen
      BY <1>5, <1>7
    <3>3. o.alg \in TwoBlocks => n >= BlockSize
      BY <1>3, <3>1
    <3>4. Fed(g, c, src, dlen)
      BY <1>7, <1>11, <2>2, <2>3, <2>5, <3>1, <3>2, <3>3, SourceFeeds DEF n
    <3>5. Total(g) = Total(o)
      BY <1>2, <1>7, <2>1, <2>2, <3>1 DEF Total
    <3>6. ASSUME Room(o, Size(b) + n, dlen) PROVE Room(g, Size(u) + n, dlen)
      <4>1. ASSUME NEW m \in 0..n, m % BlockSize = 0 PROVE g.len + m <= dlen
        <5>1. (l + m) % BlockSize = 0
          <6>1. l \in Int /\ m \in Int /\ l % BlockSize = 0
            BY <1>2, <1>3
          <6> QED
            BY <1>2, <4>1, <6>1, Multiples
        <5>2. l + m \in 0..Size(b) + n
          BY <1>2, <3>1
        <5>3. o.len + (l + m) <= dlen
          BY <3>6, <5>1, <5>2 DEF Room
        <5> QED
          BY <1>2, <1>3, <2>2, <5>3
      <4> QED
        BY <1>2, <3>1, <4>1 DEF Room
    <3>7. g.ctx.data \o g.buffer = o.ctx.data \o o.buffer
      BY <1>1, <1>7, <2>2
    <3>8. Same(o, c)
      BY <1>12, <3>4 DEF Fed
    <3> QED
      BY <1>1, <1>7, <3>4, <3>5, <3>6, <3>7, <3>8 DEF Fed, n
  <2> QED
    BY <2>4, <2>5
<1>14. CASE f.stop # "no"
  <2>1. g.stop = "feeding" /\ g.ctx = o.ctx /\ g.len <= dlen
    BY <1>5, <1>7, <1>14
  <2>2. Total(g) <= Total(o) /\ Total(g) \in Nat
    BY <1>1, <1>2, <1>3, <1>7, <2>1 DEF Total
  <2>3. /\ Same(g, c) /\ c.stop = "feeding" /\ c.len <= dlen
        /\ Total(c) <= Total(g) + n
    <3>1. CASE u # <<>>
      <4>1. c = Append2Buffer(g, src)
        BY <1>7, <1>9, <3>1
      <4>2. /\ Same(g, c) /\ c.len = g.len /\ c.stop = g.stop
            /\ Total(c) = Total(g) + Size(src)
        BY <1>7, <4>1, BufferGrows
      <4> QED
        BY <1>2, <2>1, <2>2, <4>2 DEF n
    <3>2. CASE u = <<>>
      <4>1. c = FeedFromSource(g, src, dlen)
        BY <1>7, <1>9, <3>2
      <4> QED
        BY <1>7, <2>1, <4>1, SourceStopped DEF n
    <3> QED
      BY <3>1, <3>2
  <2>4. ~Room(o, Size(b) + n, dlen)
    <3>1. l \in 0..Size(b) + n
      BY <1>2, <1>3
    <3> QED
      BY <1>3, <1>5, <1>14, <3>1 DEF Room
  <2>5. Total(c) <= Total(o) + n /\ Same(o, c)
    <3>1. Total(c) \in Nat /\ Same(o, c)
      BY <1>12, <2>3, Parts DEF Same, Total
    <3> QED
      BY <1>2, <2>2, <2>3, <3>1
  <2> QED
    BY <1>1, <2>3, <2>4, <2>5 DEF Fed, n
<1> QED
  BY <1>5, <1>13, <1>14

\* What completes the block that the buffer has begun: no more than there is and
\* than the buffer holds, and all of it if the block is still not complete.
LEMMA Fill ==
  ASSUME NEW o \in OpRecord, NEW src \in Data, Size(o.buffer) <= BufferSize(o)
  PROVE  LET fill == FillLen(o, src)
             h == Size(o.buffer) IN
         /\ fill \in 0..Size(src)
         /\ h = 0 => fill = 0
         /\ h + fill <= BufferSize(o)
         /\ (h + fill) % BlockSize # 0 => h = 0 \/ fill = Size(src)
<1>1. PICK h \in Nat, n \in Nat : h = Size(o.buffer) /\ n = Size(src)
  BY Parts, DataSize
<1>2. PICK e : e = IF h < BlockSize THEN BlockSize ELSE BufferSize(o)
  OBVIOUS
<1>3. e \in Nat /\ e % BlockSize = 0 /\ h <= e /\ e <= BufferSize(o) /\ BufferSize(o) \in Nat
  BY <1>1, <1>2, Capacity, Constants, SmallMultiples
<1>4. FillLen(o, src) = IF h = 0 THEN 0 ELSE IF n < e - h THEN n ELSE e - h
  BY <1>1, <1>2 DEF FillLen, MIN, Size
<1>5. PICK fill : fill = FillLen(o, src)
  OBVIOUS
<1>6. /\ fill \in 0..n
      /\ h = 0 => fill = 0
      /\ h + fill <= BufferSize(o)
      /\ h = 0 \/ fill = n \/ h + fill = e
  BY <1>1, <1>3, <1>4, <1>5
<1>7. (h + fill) % BlockSize # 0 => h = 0 \/ fill = n
  BY <1>3, <1>6
<1> QED
  BY <1>1, <1>5, <1>6, <1>7

\* The whole of tee_buffer_update.
LEMMA UpdateFeeds ==
  ASSUME NEW o \in OpRecord, NEW src \in Data, NEW dlen \in Nat, o.len <= dlen, o.stop = "no",
         o.alg \in BlockCiphers, Blocks(o)
  PROVE  Fed(o, tee_buffer_update(o, src, dlen), src, dlen)
<1>1. PICK d \in Data, b \in Data : d = o.ctx.data /\ b = o.buffer
  BY Parts
<1>2. PICK n \in Nat, fill \in Nat :
         n = Size(src) /\ fill = FillLen(o, src) /\ fill \in 0..n
         /\ (Size(b) = 0 => fill = 0)
         /\ Size(b) + fill <= BufferSize(o)
         /\ ((Size(b) + fill) % BlockSize # 0 => Size(b) = 0 \/ fill = n)
  BY <1>1, DataSize, Fill DEF Blocks
<1>3. PICK t \in Data, rest \in Data : t = Take(src, fill) /\ rest = Drop(src, fill)
        /\ Size(t) = fill /\ Size(rest) = n - fill
        /\ (d \o (b \o t)) \o rest = (d \o b) \o src
        /\ (fill = n => t = src)
  <2>1. /\ Take(src, fill) \in Data /\ Size(Take(src, fill)) = fill
        /\ Drop(src, fill) \in Data /\ Size(Drop(src, fill)) = n - fill
        /\ (fill = n => Take(src, fill) = src)
    BY <1>2, CutData
  <2>2. (d \o (b \o Take(src, fill))) \o Drop(src, fill) = (d \o b) \o src
    BY <1>2, Shift
  <2> QED
    BY <2>1, <2>2, Zenon
<1>4. PICK p : p = Append2Buffer(o, t)
  OBVIOUS
<1>5. /\ Same(o, p) /\ p.ctx = o.ctx /\ p.len = o.len /\ p.stop = "no"
      /\ p.buffer = b \o t /\ Total(p) = Total(o) + fill
  BY <1>1, <1>3, <1>4, BufferGrows
<1>6. p \in OpRecord /\ p.alg = o.alg /\ BufferSize(p) = BufferSize(o) /\ BufferLeft(p) = BufferLeft(o)
  BY <1>5 DEF Same, BufferSize, BufferLeft
<1>7. /\ Size(p.buffer) = Size(b) + fill /\ Size(b) \in Nat /\ Size(d) \in Nat
      /\ BufferSize(o) \in Nat /\ BufferLeft(o) \in Nat /\ BlockSize \in Nat
      /\ Total(o) = Size(d) + Size(b)
  BY <1>1, <1>3, <1>5, DataSize, Capacity, Constants DEF Total
<1>8. /\ Size(d) % BlockSize = 0 /\ Size(b) <= BufferSize(o)
      /\ o.alg \in TwoBlocks => Size(d) = 0 \/ Size(b) >= BlockSize
  BY <1>1 DEF Blocks
<1> DEFINE c == tee_buffer_update(o, src, dlen)
<1>9. c = IF b # <<>> /\ Size(p.buffer) % BlockSize # 0 THEN p
          ELSE IF Size(p.buffer) > 0 /\ CanFeed(p, Size(rest)) THEN FeedFromBuffer(p, rest, dlen)
          ELSE FeedFromSource(p, rest, dlen)
  BY <1>1, <1>2, <1>3, <1>4 DEF tee_buffer_update, Size
<1> SUFFICES Fed(o, c, src, dlen)
  OBVIOUS
<1> HIDE DEF c
<1>10. ASSUME Fed(p, c, rest, dlen) PROVE Fed(o, c, src, dlen)
  <2>1. Same(o, c)
    BY <1>5, <1>10 DEF Same, Fed
  <2>2. Total(c) <= Total(o) + Size(src)
    <3>1. Total(c) <= (Total(o) + fill) + (n - fill)
      BY <1>3, <1>5, <1>10 DEF Fed
    <3>2. Total(c) \in Nat
      BY <1>10, Parts DEF Fed, Same, Total
    <3> QED
      BY <1>2, <1>7, <3>1, <3>2
  <2>3. Room(o, Size(o.buffer) + Size(src), dlen) => Room(p, Size(p.buffer) + Size(rest), dlen)
    <3>1. Size(o.buffer) + Size(src) = Size(p.buffer) + Size(rest)
      BY <1>1, <1>2, <1>3, <1>7
    <3> QED
      BY <1>5, <3>1 DEF Room
  <2>4. c.stop = "no" => c.ctx.data \o c.buffer = (o.ctx.data \o o.buffer) \o src
    BY <1>1, <1>3, <1>5, <1>10 DEF Fed
  <2> QED
    BY <1>10, <2>1, <2>2, <2>3, <2>4 DEF Fed
<1>11. CASE b # <<>> /\ Size(p.buffer) % BlockSize # 0
  <2>1. c = p /\ fill = n /\ t = src
    BY <1>2, <1>3, <1>7, <1>9, <1>11, DataSize
  <2>2. Blocks(p)
    BY <1>1, <1>2, <1>5, <1>6, <1>7, <1>8 DEF Blocks
  <2>3. p.ctx.data \o p.buffer = (o.ctx.data \o o.buffer) \o src
    <3>1. d \o (b \o src) = (d \o b) \o src
      BY DataAssoc
    <3> QED
      BY <1>1, <1>5, <2>1, <3>1
  <2> QED
    <3>1. p.len <= dlen /\ Total(p) <= Total(o) + Size(src)
      BY <1>2, <1>5, <1>7, <2>1
    <3> QED
      BY <1>5, <2>1, <2>2, <2>3, <3>1 DEF Fed
<1>12. CASE ~(b # <<>> /\ Size(p.buffer) % BlockSize # 0)
            /\ Size(p.buffer) > 0 /\ CanFeed(p, Size(rest))
  <2>1. Size(p.buffer) % BlockSize = 0
    BY <1>2, <1>7, <1>12, DataSize
  <2>2. c = FeedFromBuffer(p, rest, dlen)
    BY <1>9, <1>12
  <2>3. p.len <= dlen /\ p.stop = "no" /\ p.alg \in BlockCiphers /\ Size(p.ctx.data) % BlockSize = 0
    BY <1>1, <1>5, <1>6, <1>8
  <2> QED
    BY <1>6, <1>10, <1>12, <2>1, <2>2, <2>3, BufferFeeds
<1>13. CASE ~(b # <<>> /\ Size(p.buffer) % BlockSize # 0)
            /\ ~(Size(p.buffer) > 0 /\ CanFeed(p, Size(rest)))
  <2>1. c = FeedFromSource(p, rest, dlen)
    BY <1>9, <1>13
  <2>2. p.len <= dlen /\ p.stop = "no" /\ p.alg \in BlockCiphers /\ Size(p.ctx.data) % BlockSize = 0
    BY <1>1, <1>5, <1>6, <1>8
  <2>3. \/ /\ p.buffer = <<>>
           /\ p.alg \in TwoBlocks => Size(p.ctx.data) = 0 \/ Size(rest) >= BlockSize
        \/ /\ Size(p.buffer) + Size(rest) <= BufferSize(p)
           /\ Size(rest) < BufferSize(p) + BufferLeft(p)
           /\ p.alg \in TwoBlocks => Size(p.ctx.data) = 0 \/ Size(p.buffer) >= BlockSize
    <3>0. p.buffer \in Data /\ Size(p.buffer) \in Nat /\ Size(rest) \in Nat /\ Size(p.ctx.data) = Size(d)
      BY <1>1, <1>5, <1>6, Parts, DataSize
    <3>1. CASE Size(p.buffer) = 0
      <4>1. p.buffer = <<>>
        BY <3>0, <3>1, DataSize
      <4>2. Size(b) = 0
        BY <1>2, <1>7, <3>1
      <4>3. o.alg \in TwoBlocks => Size(d) = 0
        BY <1>8, <4>2, Constants
      <4> QED
        BY <1>6, <3>0, <4>1, <4>3
    <3>2. CASE Size(p.buffer) > 0
      <4>1. ~(Size(p.buffer) + Size(rest) >= BufferSize(p) + BufferLeft(p))
        BY <1>13, <3>2 DEF CanFeed, Size
      <4>2. BufferLeft(p) <= 1
        BY DEF BufferLeft
      <4>3. Size(p.buffer) + Size(rest) <= BufferSize(p) /\ Size(rest) < BufferSize(p) + BufferLeft(p)
        BY <1>6, <1>7, <3>0, <4>1, <4>2
      <4>4. p.alg \in TwoBlocks => Size(p.ctx.data) = 0 \/ Size(p.buffer) >= BlockSize
        BY <1>2, <1>6, <1>7, <1>8, <3>0
      <4> QED
        BY <4>3, <4>4
    <3> QED
      BY <3>0, <3>1, <3>2
  <2> QED
    BY <1>6, <1>10, <2>1, <2>2, <2>3, SourceFeeds
<1> QED
  BY <1>11, <1>12, <1>13

(***************************************************************************)
(* TEE_CipherUpdate.                                                       *)
(***************************************************************************)

\* The complete blocks among a bytes: no multiple of the block size up to a is
\* larger.
LEMMA Whole ==
  ASSUME NEW a \in Nat
  PROVE  LET w == (a \div BlockSize) * BlockSize IN
         /\ w \in Nat /\ w <= a
         /\ \A m \in 0..a : m % BlockSize = 0 => m <= w
<1> DEFINE b == BlockSize
           q == a \div b
<1>1. b \in Nat \ {0} /\ a \in Int /\ a >= 0
  BY Constants
<1>2. q \in Nat /\ (a % b) \in 0..(b - 1) /\ a = q * b + (a % b)
  BY <1>1, DivMod
<1>3. q * b \in Nat /\ q * b <= a /\ a < q * b + b
  <2> HIDE DEF q, b
  <2>1. q * b \in Nat
    BY <1>1, <1>2
  <2>2. PICK r \in 0..(b - 1) : a = q * b + r
    BY <1>2
  <2> QED
    BY <1>1, <2>1, <2>2
<1>4. ASSUME NEW m \in 0..a, m % b = 0 PROVE m <= q * b
  <2> DEFINE k == m \div b
  <2>1. k \in Nat /\ m = k * b
    BY <1>1, <1>4, DivMod
  <2> HIDE DEF q, b, k
  <2>2. ~(q < k)
    <3> SUFFICES ASSUME q < k PROVE FALSE
      OBVIOUS
    <3>1. q * b + b <= k * b
      BY <1>1, <1>2, <2>1, MultMono
    <3> QED
      BY <1>1, <1>2, <1>3, <2>1, <3>1
  <2>3. k <= q
    BY <1>2, <2>1, <2>2
  <2>4. k * b <= q * b
    BY <1>1, <1>2, <2>1, <2>3, MultMono
  <2> QED
    BY <2>1, <2>4
<1> QED
  BY <1>3, <1>4

\* The room that is asked for is never more than what is in the buffer and comes,
\* and enough for all complete blocks unless two blocks are taken off.
LEMMA Asked ==
  ASSUME NEW o \in OpRecord, NEW n \in Nat
  PROVE  /\ req_dlen(o, n) \in Nat
         /\ req_dlen(o, n) <= Size(o.buffer) + n
         /\ o.alg = "CTR" => req_dlen(o, n) = n
         /\ o.alg \in NOPAD => \A m \in 0..Size(o.buffer) + n :
                                 m % BlockSize = 0 => m <= req_dlen(o, n)
<1>1. PICK h \in Nat : h = Size(o.buffer)
  BY Parts
<1>2. PICK w \in Nat : w = ((h + n) \div BlockSize) * BlockSize
        /\ w <= h + n /\ (\A m \in 0..h + n : m % BlockSize = 0 => m <= w)
  BY Whole
<1>3. req_dlen(o, n) = IF o.alg = "CTR" THEN n
                       ELSE IF o.alg \notin TwoBlocks THEN w
                       ELSE IF w > 2 * BlockSize THEN w - 2 * BlockSize ELSE 0
  BY <1>1, <1>2 DEF req_dlen, Size
<1>4. o.alg \in NOPAD => o.alg \notin TwoBlocks /\ o.alg # "CTR"
  BY DEF NOPAD, TwoBlocks
<1> QED
  BY <1>1, <1>2, <1>3, <1>4, Constants

\* An operation in which a call was misused is sound.
LEMMA Misused ==
  ASSUME NEW o, Sound(o)
  PROVE  Sound(TEE_Panic(o, "misuse")) /\ ~Live(TEE_Panic(o, "misuse"))
<1>1. PICK r : r = [o EXCEPT !.stop = "misuse"]
  OBVIOUS
<1>2. /\ r \in OpRecord /\ r.stop = "misuse"
      /\ r.alg = o.alg /\ r.initialized = o.initialized /\ r.buffer = o.buffer /\ r.ctx = o.ctx
      /\ r.tag = o.tag /\ r.len = o.len
  BY <1>1 DEF Sound, OpRecord
<1>3. Sound(r) /\ ~Live(r)
  BY <1>2 DEF Sound, Bounded, Live
<1> QED
  BY <1>1, <1>3 DEF TEE_Panic

\* The operation after TEE_CipherUpdate, and that the AES TA's use of it succeeds.
LEMMA CipherUpdates ==
  ASSUME NEW o, NEW g \in Nat, OpInv(o, g), o.stop = "no",
         NEW n \in Nat, g + n <= MaxData, NEW dlen \in Nat
  PROVE  LET c == TEE_CipherUpdate(o, [i \in 1..n |-> g + i], dlen) IN
         /\ OpInv(c, IF c.stop = "no" /\ c.res = "SUCCESS" THEN g + n ELSE g)
         /\ c.alg = o.alg /\ c.state = o.state /\ c.keySet = o.keySet /\ c.initialized = o.initialized
         /\ o.alg \in NOPAD \cup {"CTR"} /\ o.initialized /\ o.state = "ACTIVE"
            /\ n <= MaxChunk /\ dlen <= MaxChunk => c.stop = "no"
<1> DEFINE src == [i \in 1..n |-> g + i]
           c == TEE_CipherUpdate(o, src, dlen)
           misused == \/ ~Cipher(o) \/ ~o.initialized \/ o.state # "ACTIVE"
                      \/ n > MaxChunk \/ dlen > MaxChunk
           after == IF c.stop = "no" /\ c.res = "SUCCESS" THEN g + n ELSE g
<1> SUFFICES /\ OpInv(c, after)
             /\ c.alg = o.alg /\ c.state = o.state /\ c.keySet = o.keySet /\ c.initialized = o.initialized
             /\ o.alg \in NOPAD \cup {"CTR"} /\ o.initialized /\ o.state = "ACTIVE"
                /\ n <= MaxChunk /\ dlen <= MaxChunk => c.stop = "no"
  OBVIOUS
<1>1. src \in Data /\ Size(src) = n /\ Bytes(g) \o src = Bytes(g + n)
      /\ Bytes(g) \in Data /\ Size(Bytes(g)) = g
  BY BytesGrow DEF Size
<1>2. Sound(o) /\ o \in OpRecord /\ Bounded(o)
  BY DEF OpInv, Sound
<1>3. c = IF misused THEN TEE_Panic(o, "misuse")
          ELSE IF dlen < req_dlen(o, n)
          THEN [o EXCEPT !.res = "SHORT_BUFFER", !.len = req_dlen(o, n)]
          ELSE IF o.alg = "CTR" THEN utee_cipher_update([o EXCEPT !.res = "SUCCESS", !.len = 0], src, dlen)
          ELSE tee_buffer_update([o EXCEPT !.res = "SUCCESS", !.len = 0], src, dlen)
  BY <1>1 DEF TEE_CipherUpdate, Call, Size
<1> HIDE DEF src, c
<1>4. CASE misused
  <2>1. c = TEE_Panic(o, "misuse")
    BY <1>3, <1>4
  <2>2. Sound(c) /\ ~Live(c)
    BY <1>2, <2>1, Misused
  <2>3. c.alg = o.alg /\ c.state = o.state /\ c.keySet = o.keySet /\ c.initialized = o.initialized
    BY <1>2, <2>1 DEF TEE_Panic, OpRecord
  <2>4. ~(o.alg \in NOPAD \cup {"CTR"} /\ o.initialized /\ o.state = "ACTIVE"
          /\ n <= MaxChunk /\ dlen <= MaxChunk)
    BY <1>4, Constants DEF Cipher, Ciphers, BlockCiphers
  <2> QED
    BY <2>2, <2>3, <2>4 DEF OpInv
<1> SUFFICES ASSUME ~misused PROVE
             /\ OpInv(c, after)
             /\ c.alg = o.alg /\ c.state = o.state /\ c.keySet = o.keySet /\ c.initialized = o.initialized
             /\ o.alg \in NOPAD \cup {"CTR"} => c.stop = "no"
  BY <1>4
<1>5. PICK d \in Data, b \in Data : d = o.ctx.data /\ b = o.buffer
  BY <1>2, Parts
<1>6. Live(o) /\ Stream(o, g)
  BY DEF OpInv, Live
<1>7. d \o b = Bytes(g) /\ Size(d) \in Nat /\ Size(b) \in Nat /\ Size(d) + Size(b) = g
      /\ Total(o) = g
  <2>1. d \o b = Bytes(g)
    BY <1>5, <1>6 DEF Stream
  <2>2. Size(d \o b) = Size(d) + Size(b) /\ Size(d) \in Nat /\ Size(b) \in Nat
    BY DataSize
  <2>3. Size(d) + Size(b) = g
    BY <1>1, <2>1, <2>2
  <2> QED
    BY <1>5, <2>1, <2>2, <2>3 DEF Total
<1>8. PICK req \in Nat : req = req_dlen(o, n) /\ req <= Size(b) + n
        /\ (o.alg = "CTR" => req = n)
        /\ (o.alg \in NOPAD => \A m \in 0..Size(b) + n : m % BlockSize = 0 => m <= req)
  BY <1>2, <1>5, Asked
<1>9. CASE dlen < req
  <2>1. c = [o EXCEPT !.res = "SHORT_BUFFER", !.len = req]
    BY <1>3, <1>8, <1>9
  <2>2. /\ c \in OpRecord /\ c.alg = o.alg /\ c.state = o.state /\ c.keySet = o.keySet
        /\ c.initialized = o.initialized /\ c.key = o.key /\ c.buffer = o.buffer /\ c.ctx = o.ctx
        /\ c.tag = o.tag /\ c.stop = "no" /\ c.res = "SHORT_BUFFER" /\ c.len = req
    BY <1>2, <2>1 DEF OpRecord
  <2>3. req <= MaxData + MaxChunk
    BY <1>7, <1>8, Constants
  <2>4. Sound(c)
    BY <1>2, <2>2, <2>3 DEF Sound, Bounded
  <2>5. Stream(c, g)
    BY <1>6, <2>2 DEF Stream, Blocks, BufferSize
  <2> QED
    BY <2>2, <2>4, <2>5 DEF OpInv
<1>10. CASE ~(dlen < req)
  <2>1. PICK start : start = [o EXCEPT !.res = "SUCCESS", !.len = 0]
    OBVIOUS
  <2>2. /\ start \in OpRecord /\ start.alg = o.alg /\ start.state = o.state
        /\ start.keySet = o.keySet
        /\ start.initialized = o.initialized /\ start.key = o.key /\ start.buffer = b
        /\ start.ctx = o.ctx
        /\ start.tag = o.tag /\ start.stop = "no" /\ start.res = "SUCCESS" /\ start.len = 0
    BY <1>2, <1>5, <2>1 DEF OpRecord
  <2>3. Total(start) = g /\ (Blocks(o) => Blocks(start))
    BY <1>5, <1>7, <2>2 DEF Total, Blocks, BufferSize
  <2>4. ASSUME Same(start, c), c.stop \in {"no", "feeding"}, c.len <= dlen,
               Total(c) <= g + n, o.alg \notin TwoBlocks => c.stop = "no",
               o.alg \notin BlockCiphers => c.buffer = <<>>,
               c.stop = "no" => /\ c.ctx.data \o c.buffer = Bytes(g + n)
                                /\ o.alg \in BlockCiphers => Blocks(c)
        PROVE  /\ OpInv(c, after)
               /\ c.alg = o.alg /\ c.state = o.state /\ c.keySet = o.keySet
               /\ c.initialized = o.initialized
               /\ o.alg \in NOPAD \cup {"CTR"} => c.stop = "no"
    <3>1. /\ c \in OpRecord /\ c.alg = o.alg /\ c.state = o.state /\ c.keySet = o.keySet
          /\ c.initialized = o.initialized /\ c.key = o.key /\ c.ctx.key = o.ctx.key
          /\ c.tag = o.tag /\ c.res = "SUCCESS"
      BY <2>2, <2>4 DEF Same
    <3>2. Bounded(c)
      <4>1. Size(c.ctx.data) \in Nat /\ Size(c.buffer) \in Nat
        BY <3>1, Parts
      <4>2. Size(c.ctx.data) <= MaxData /\ Size(c.buffer) <= MaxData
        BY <2>4, <4>1, Constants DEF Total
      <4>3. c.len <= MaxData + MaxChunk
        <5>1. c.len \in Nat
          BY <3>1, Parts
        <5> QED
          BY <2>4, <5>1, Constants
      <4> QED
        BY <1>2, <3>1, <4>2, <4>3 DEF Bounded
    <3>3. Sound(c)
      BY <1>2, <2>4, <3>1, <3>2 DEF Sound
    <3>4. ASSUME Live(c) PROVE Stream(c, after)
      <4>1. after = g + n /\ c.stop = "no"
        BY <3>1, <3>4 DEF Live
      <4>2. o.ctx.key = o.key
        BY <1>6 DEF Stream
      <4> QED
        BY <2>4, <3>1, <4>1, <4>2 DEF Stream
    <3>5. o.alg \in NOPAD \cup {"CTR"} => c.stop = "no"
      BY <2>4 DEF NOPAD, TwoBlocks
    <3> QED
      BY <3>1, <3>3, <3>4, <3>5 DEF OpInv
  <2>5. CASE o.alg = "CTR"
    <3>1. c = utee_cipher_update(start, src, dlen)
      BY <1>3, <1>8, <1>10, <2>1, <2>5
    <3>2. WholeBlocks(start, src) /\ start.len + Size(src) <= dlen /\ start.len <= dlen
      BY <1>1, <1>8, <1>10, <2>2, <2>5 DEF WholeBlocks
    <3>3. /\ Same(start, c) /\ c.buffer = start.buffer /\ c.len <= dlen
          /\ c.stop = "no" /\ c.ctx.data = start.ctx.data \o src
      <4>1. start \in OpRecord /\ start.len <= dlen /\ src \in Data /\ start.stop = "no"
        BY <1>1, <2>2, <3>2
      <4>2. c.stop = "no"
        BY <3>1, <3>2, <4>1, ServiceFeeds
      <4>3. Same(start, c) /\ c.buffer = start.buffer /\ c.len <= dlen
        BY <3>1, <4>1, ServiceFeeds
      <4>4. c.ctx.data = start.ctx.data \o src
        BY <3>1, <4>1, <4>2, ServiceFeeds
      <4> QED
        BY <4>2, <4>3, <4>4
    <3>4. o.alg \notin BlockCiphers /\ b = <<>>
      <4>1. o.alg \notin BlockCiphers
        BY <2>5 DEF BlockCiphers, NOPAD, TwoBlocks
      <4> QED
        BY <1>2, <1>5, <4>1 DEF Sound
    <3>5. c.buffer = <<>> /\ c.ctx.data = d \o src
      BY <1>5, <2>2, <3>3, <3>4
    <3>6. d = Bytes(g) /\ Size(d) = g
      <4>1. d \o <<>> = Bytes(g)
        BY <1>7, <3>4
      <4> QED
        BY <1>1, <4>1, DataJoin
    <3>7. c.ctx.data = Bytes(g + n) /\ Bytes(g + n) \in Data /\ Size(Bytes(g + n)) = g + n
      <4>1. c.ctx.data = Bytes(g + n)
        BY <1>1, <3>5, <3>6
      <4>2. g + n \in Nat
        OBVIOUS
      <4>3. Bytes(g + n) \in Data /\ Len(Bytes(g + n)) = g + n
        BY <4>2, BytesGrow
      <4> QED
        BY <4>1, <4>3 DEF Size
    <3>8. c.ctx.data \o c.buffer = Bytes(g + n)
      BY <3>5, <3>7, DataJoin
    <3>9. Total(c) <= g + n
      <4>1. Total(c) = g + n + 0
        BY <3>5, <3>7, DataSize DEF Total
      <4> QED
        BY <4>1
    <3> QED
      BY <2>4, <3>3, <3>4, <3>5, <3>8, <3>9
  <2>6. CASE o.alg # "CTR"
    <3>1. c = tee_buffer_update(start, src, dlen)
      BY <1>3, <1>8, <1>10, <2>1, <2>6
    <3>2. o.alg \in BlockCiphers
      BY <2>6 DEF Cipher, Ciphers
    <3>3. Blocks(start)
      BY <1>6, <2>3, <3>2 DEF Stream
    <3>4. start.len <= dlen
      BY <2>2
    <3>5. Fed(start, c, src, dlen)
      BY <1>1, <2>2, <3>1, <3>2, <3>3, <3>4, UpdateFeeds
    <3>6. o.alg \notin TwoBlocks => c.stop = "no"
      <4> SUFFICES ASSUME o.alg \notin TwoBlocks PROVE c.stop = "no"
        OBVIOUS
      <4>1. o.alg \in NOPAD
        BY <3>2 DEF BlockCiphers
      <4>2. Room(start, Size(start.buffer) + Size(src), dlen)
        BY <1>1, <1>8, <1>10, <2>2, <4>1 DEF Room
      <4> QED
        BY <3>5, <4>2 DEF Fed
    <3>7. c.stop = "no" => c.ctx.data \o c.buffer = Bytes(g + n) /\ Blocks(c)
      <4>1. start.ctx.data \o start.buffer = Bytes(g)
        BY <1>5, <1>7, <2>2
      <4> QED
        BY <1>1, <3>5, <4>1 DEF Fed
    <3>8. Total(c) <= g + n
      BY <1>1, <2>3, <3>5 DEF Fed
    <3>9. Same(start, c) /\ c.stop \in {"no", "feeding"} /\ c.len <= dlen
      BY <3>5 DEF Fed
    <3> QED
      BY <2>4, <3>2, <3>6, <3>7, <3>8, <3>9
  <2> QED
    BY <2>5, <2>6
<1> QED
  BY <1>8, <1>9, <1>10

(***************************************************************************)
(* The other calls.                                                        *)
(***************************************************************************)

\* A stream that starts anew is in order.
LEMMA Restarts ==
  ASSUME NEW c \in OpRecord, c.stop = "no", c.buffer = <<>>, c.ctx.data = <<>>,
         c.ctx.key = c.key, Size(c.tag.data) <= MaxData, c.len <= MaxData + MaxChunk,
         c.alg = "SHA" => c.initialized, c.alg = "none" => ~c.initialized
  PROVE  OpInv(c, 0)
<1>1. Size(<<>>) = 0 /\ <<>> \in Data
  BY DataSize
<1>2. <<>> \o <<>> = Bytes(0)
  <2>1. <<>> \o <<>> = <<>>
    BY <1>1, DataJoin
  <2> QED
    BY <2>1, BytesGrow
<1>3. Blocks(c)
  <2>1. 0 % BlockSize = 0 /\ 0 <= BufferSize(c)
    BY Constants, SmallMultiples, Capacity
  <2> QED
    BY <1>1, <2>1 DEF Blocks
<1>4. Stream(c, 0)
  BY <1>2, <1>3 DEF Stream
<1>5. Sound(c)
  BY <1>1, Constants DEF Sound, Bounded
<1> QED
  BY <1>4, <1>5 DEF OpInv

\* A digest or a MAC absorbs what it is given.
LEMMA Absorbs ==
  ASSUME NEW o, NEW g \in Nat, OpInv(o, g), Live(o), o.alg \notin BlockCiphers,
         NEW n \in Nat, g + n <= MaxData
  PROVE  /\ o.ctx.data \o [i \in 1..n |-> g + i] = Bytes(g + n)
         /\ Bytes(g + n) \in Data /\ Size(Bytes(g + n)) = g + n
         /\ o.buffer = <<>> /\ o.ctx.data = Bytes(g) /\ Bytes(g + n) \o <<>> = Bytes(g + n)
<1>1. o \in OpRecord /\ o.buffer = <<>> /\ o.ctx.data \o o.buffer = Bytes(g)
  BY DEF OpInv, Sound, Stream
<1>2. o.ctx.data \in Data
  BY <1>1, Parts
<1>3. o.ctx.data = Bytes(g)
  BY <1>1, <1>2, DataJoin
<1>4. g + n \in Nat
  OBVIOUS
<1>5. Bytes(g + n) \in Data /\ Size(Bytes(g + n)) = g + n
  BY <1>4, BytesGrow DEF Size
<1>6. Bytes(g) \o [i \in 1..n |-> g + i] = Bytes(g + n)
  BY BytesGrow
<1>7. Bytes(g + n) \o <<>> = Bytes(g + n)
  BY <1>5, DataJoin
<1> QED
  BY <1>1, <1>3, <1>5, <1>6, <1>7

\* An operation allocated is fresh, whether it is an operation or not.
LEMMA Allocates ==
  ASSUME NEW a \in Algorithms, NEW memory \in BOOLEAN
  PROVE  LET c == TEE_AllocateOperation(a, memory) IN
         OpInv(c, 0) /\ c.stop = "no" /\ (c.alg # "none" => c.alg = a /\ c.state = "INITIAL")
<1>1. PICK c : c = TEE_AllocateOperation(a, memory)
  OBVIOUS
<1>2. /\ c \in OpRecord /\ c.stop = "no" /\ c.buffer = <<>> /\ c.ctx.data = <<>>
      /\ c.ctx.key = c.key /\ c.tag.data = <<>> /\ c.len = 0
      /\ (c.alg = "SHA" => c.initialized) /\ (c.alg = "none" => ~c.initialized)
      /\ (c.alg # "none" => c.alg = a /\ c.state = "INITIAL")
  BY <1>1, DataSize, Constants DEF TEE_AllocateOperation, NullHandle, OpRecord, KeyedData
<1>3. OpInv(c, 0)
  BY <1>2, Restarts, DataSize, Constants
<1> QED
  BY <1>1, <1>2, <1>3

\* The null handle, also after an error.
LEMMA NullSound ==
  ASSUME NEW c, c = NullHandle \/ c = [NullHandle EXCEPT !.res = "ERROR"]
  PROVE  OpInv(c, 0) /\ c.stop = "no" /\ c.alg = "none" /\ c \in OpRecord
<1>1. /\ c \in OpRecord /\ c.stop = "no" /\ c.buffer = <<>> /\ c.ctx.data = <<>>
      /\ c.ctx.key = c.key /\ c.tag.data = <<>> /\ c.len = 0 /\ c.alg = "none" /\ ~c.initialized
  <2>1. NoKey \in AnyKey /\ <<>> \in Data
    BY Constants, DataSize
  <2>2. CASE c = NullHandle
    BY <2>1, <2>2 DEF NullHandle, OpRecord, KeyedData
  <2>3. CASE c = [NullHandle EXCEPT !.res = "ERROR"]
    BY <2>1, <2>3 DEF NullHandle, OpRecord, KeyedData
  <2> QED
    BY <2>2, <2>3
<1>2. OpInv(c, 0)
  BY <1>1, Restarts, DataSize, Constants
<1> QED
  BY <1>1, <1>2

\* The operation after the calls that start a stream anew: given is 0 unless they
\* panic.
StartsWell(o, g, c) == OpInv(c, IF c.stop = "no" THEN 0 ELSE g)

\* A panic keeps what there was.
LEMMA Panics ==
  ASSUME NEW o, NEW g, OpInv(o, g), NEW h
  PROVE  OpInv(TEE_Panic(o, "misuse"), h) /\ TEE_Panic(o, "misuse").stop # "no"
<1>1. Sound(TEE_Panic(o, "misuse")) /\ ~Live(TEE_Panic(o, "misuse"))
  BY Misused DEF OpInv
<1>2. TEE_Panic(o, "misuse").stop = "misuse"
  BY DEF TEE_Panic, OpInv, Sound, OpRecord
<1> QED
  BY <1>1, <1>2 DEF OpInv

\* The same for want of memory.
LEMMA Starves ==
  ASSUME NEW o, NEW g, OpInv(o, g), NEW h
  PROVE  OpInv(TEE_Panic(o, "memory"), h) /\ TEE_Panic(o, "memory").stop = "memory"
<1>1. PICK r : r = [o EXCEPT !.stop = "memory"]
  OBVIOUS
<1>2. Sound(o) /\ o \in OpRecord
  BY DEF OpInv, Sound
<1>3. /\ r \in OpRecord /\ r.stop = "memory"
      /\ r.alg = o.alg /\ r.initialized = o.initialized /\ r.buffer = o.buffer /\ r.ctx = o.ctx
      /\ r.tag = o.tag /\ r.len = o.len
  BY <1>1, <1>2 DEF OpRecord
<1>4. Sound(r) /\ ~Live(r)
  BY <1>2, <1>3 DEF Sound, Bounded, Live
<1> QED
  BY <1>1, <1>3, <1>4 DEF TEE_Panic, OpInv

\* TEE_FreeOperation
LEMMA Frees ==
  ASSUME NEW o, NEW g \in Nat, OpInv(o, g), o.stop = "no"
  PROVE  LET c == TEE_FreeOperation(o) IN
         StartsWell(o, g, c) /\ (o.alg # "none" => c = NullHandle)
<1>1. CASE o.alg = "none"
  <2>1. TEE_FreeOperation(o) = TEE_Panic(o, "misuse")
    BY <1>1 DEF TEE_FreeOperation, Call
  <2> QED
    BY <1>1, <2>1, Panics DEF StartsWell
<1>2. CASE o.alg # "none"
  <2>1. TEE_FreeOperation(o) = NullHandle
    BY <1>2 DEF TEE_FreeOperation, Call
  <2> QED
    BY <2>1, NullSound DEF StartsWell
<1> QED
  BY <1>1, <1>2

\* TEE_ResetOperation
LEMMA Resets ==
  ASSUME NEW o, NEW g \in Nat, OpInv(o, g), o.stop = "no"
  PROVE  LET c == TEE_ResetOperation(o) IN
         /\ StartsWell(o, g, c)
         /\ o.alg # "none" /\ o.keySet =>
              c.stop = "no" /\ c.alg = o.alg /\ c.keySet = o.keySet /\ c.state = "INITIAL"
<1>1. CASE o.alg = "none" \/ ~o.keySet
  <2>1. TEE_ResetOperation(o) = TEE_Panic(o, "misuse")
    BY <1>1 DEF TEE_ResetOperation, Call
  <2> QED
    BY <1>1, <2>1, Panics DEF StartsWell
<1>2. CASE ~(o.alg = "none" \/ ~o.keySet)
  <2>1. PICK c : c = TEE_ResetOperation(o)
    OBVIOUS
  <2>2. c = [o EXCEPT !.state = "INITIAL", !.initialized = Digest(o),
                      !.ctx = IF Digest(o) THEN Fresh(o) ELSE @, !.res = "SUCCESS"]
    BY <1>2, <2>1 DEF TEE_ResetOperation, Call
  <2>3. Sound(o) /\ o \in OpRecord
    BY DEF OpInv, Sound
  <2>4. /\ c \in OpRecord /\ c.alg = o.alg /\ c.state = "INITIAL" /\ c.keySet = o.keySet
        /\ c.initialized = (o.alg = "SHA") /\ c.key = o.key /\ c.buffer = o.buffer
        /\ c.tag = o.tag /\ c.len = o.len /\ c.stop = "no"
        /\ c.ctx = IF o.alg = "SHA" THEN [key |-> o.key, data |-> <<>>] ELSE o.ctx
    BY <2>2, <2>3, DataSize DEF OpRecord, KeyedData, Digest, Fresh
  <2>5. OpInv(c, 0)
    <3>1. CASE o.alg = "SHA"
      <4>1. c.buffer = <<>> /\ Size(c.tag.data) <= MaxData /\ c.len <= MaxData + MaxChunk
        BY <2>3, <2>4, <3>1 DEF Sound, Bounded, BlockCiphers, NOPAD, TwoBlocks
      <4>2. c.ctx.data = <<>> /\ c.ctx.key = c.key
        BY <2>4, <3>1
      <4> QED
        BY <2>4, <3>1, <4>1, <4>2, Restarts
    <3>2. CASE o.alg # "SHA"
      BY <2>3, <2>4, <3>2 DEF OpInv, Sound, Bounded, Live
    <3> QED
      BY <3>1, <3>2
  <2> QED
    BY <2>1, <2>4, <2>5 DEF StartsWell
<1> QED
  BY <1>1, <1>2

\* TEE_SetOperationKey and TEE_SetOperationKey2.
LEMMA KeySets ==
  ASSUME NEW o, NEW g \in Nat, OpInv(o, g), o.stop = "no", NEW k, NEW two \in BOOLEAN
  PROVE  LET c == TEE_SetOperationKey(o, k, two) IN
         /\ OpInv(c, g)
         /\ o.alg \in NOPAD \cup {"CTR"} /\ o.state = "INITIAL" /\ k \in Keys /\ ~two =>
              c.stop = "no"
         /\ c.stop = "no" => ~Live(c) /\ c.alg = o.alg /\ c.keySet /\ c.res = "SUCCESS"
<1> DEFINE bad == \/ o.alg = "none" \/ o.state # "INITIAL" \/ Digest(o)
                  \/ two # (o.alg = "XTS") \/ k \notin Keys
<1>0. Sound(o) /\ o \in OpRecord
  BY DEF OpInv, Sound
<1>1. CASE bad
  <2>1. TEE_SetOperationKey(o, k, two) = TEE_Panic(o, "misuse")
    BY <1>1 DEF TEE_SetOperationKey, Call
  <2>2. ~(o.alg \in NOPAD \cup {"CTR"} /\ o.state = "INITIAL" /\ k \in Keys /\ ~two)
    BY <1>1 DEF NOPAD, Digest
  <2> QED
    BY <2>1, <2>2, Panics
<1>2. CASE ~bad
  <2>1. PICK c : c = TEE_SetOperationKey(o, k, two)
    OBVIOUS
  <2>2. c = [o EXCEPT !.key = k, !.keySet = TRUE, !.res = "SUCCESS"]
    BY <1>2, <2>1 DEF TEE_SetOperationKey, Call
  <2>3. /\ c \in OpRecord /\ c.alg = o.alg /\ c.state = "INITIAL" /\ c.keySet
        /\ c.initialized = o.initialized /\ c.buffer = o.buffer /\ c.ctx = o.ctx
        /\ c.tag = o.tag /\ c.len = o.len /\ c.stop = "no" /\ c.alg # "SHA"
        /\ c.res = "SUCCESS"
    BY <1>0, <1>2, <2>2, Constants DEF OpRecord, Digest
  <2>4. Sound(c) /\ ~Live(c)
    BY <1>0, <2>3 DEF Sound, Bounded, Live, Digest
  <2> QED
    BY <2>1, <2>3, <2>4 DEF OpInv
<1> QED
  BY <1>1, <1>2

\* TEE_CipherInit
LEMMA CipherInits ==
  ASSUME NEW o, NEW g \in Nat, OpInv(o, g), o.stop = "no", NEW ivFits \in BOOLEAN
  PROVE  LET c == TEE_CipherInit(o, ivFits) IN
         /\ StartsWell(o, g, c)
         /\ o.alg \in NOPAD \cup {"CTR"} /\ o.keySet /\ ivFits => c.stop = "no"
         /\ c.stop = "no" => /\ c.alg = o.alg /\ c.alg # "none"
                             /\ c.keySet /\ c.state = "ACTIVE" /\ c.initialized
<1> DEFINE bad == ~Cipher(o) \/ ~o.keySet \/ ~crypto_cipher_init(o, ivFits)
<1>0. Sound(o) /\ o \in OpRecord
  BY DEF OpInv, Sound
<1>1. CASE bad
  <2>1. TEE_CipherInit(o, ivFits) = TEE_Panic(o, "misuse")
    BY <1>1 DEF TEE_CipherInit, Call
  <2>2. ~(o.alg \in NOPAD \cup {"CTR"} /\ o.keySet /\ ivFits)
    BY <1>1 DEF Cipher, Ciphers, BlockCiphers, crypto_cipher_init
  <2> QED
    BY <2>1, <2>2, Panics DEF StartsWell
<1>2. CASE ~bad
  <2>1. PICK c : c = TEE_CipherInit(o, ivFits)
    OBVIOUS
  <2>2. c = [o EXCEPT !.state = "ACTIVE", !.ctx = Fresh(o), !.buffer = <<>>,
                      !.initialized = TRUE, !.res = "SUCCESS"]
    BY <1>2, <2>1 DEF TEE_CipherInit, Call
  <2>3. /\ c \in OpRecord /\ c.alg = o.alg /\ c.state = "ACTIVE" /\ c.keySet = o.keySet
        /\ c.initialized /\ c.key = o.key /\ c.buffer = <<>> /\ c.ctx.data = <<>> /\ c.ctx.key = o.key
        /\ c.tag = o.tag /\ c.len = o.len /\ c.stop = "no"
    BY <1>0, <2>2, DataSize DEF OpRecord, KeyedData, Fresh
  <2>4. Size(c.tag.data) <= MaxData /\ c.len <= MaxData + MaxChunk /\ c.alg # "none"
    BY <1>0, <1>2, <2>3 DEF Sound, Bounded, Cipher, Ciphers, BlockCiphers, NOPAD, TwoBlocks
  <2>5. OpInv(c, 0)
    BY <2>3, <2>4, Restarts
  <2> QED
    BY <1>2, <2>1, <2>3, <2>4, <2>5 DEF StartsWell
<1> QED
  BY <1>1, <1>2

\* The operation after the calls that take n more bytes: they count only when the
\* call succeeds.
TakesWell(o, g, n, c) == OpInv(c, IF c.stop = "no" /\ c.res = "SUCCESS" THEN g + n ELSE g)

\* An operation of which only the answer changes.
LEMMA Answers ==
  ASSUME NEW o, NEW g, OpInv(o, g),
         NEW x \in {"SUCCESS", "SHORT_BUFFER", "MAC_INVALID", "BAD_PARAMETERS", "BAD_STATE", "ERROR"}
  PROVE  LET c == [o EXCEPT !.res = x] IN
         /\ OpInv(c, g) /\ c.stop = o.stop /\ c.res = x /\ (Live(c) <=> Live(o))
         /\ c.alg = o.alg /\ c.state = o.state /\ c.keySet = o.keySet /\ c.initialized = o.initialized
<1>1. PICK c : c = [o EXCEPT !.res = x]
  OBVIOUS
<1>2. Sound(o) /\ o \in OpRecord
  BY DEF OpInv, Sound
<1>3. /\ c \in OpRecord /\ c.alg = o.alg /\ c.state = o.state /\ c.keySet = o.keySet
      /\ c.initialized = o.initialized /\ c.key = o.key /\ c.buffer = o.buffer /\ c.ctx = o.ctx
      /\ c.tag = o.tag /\ c.len = o.len /\ c.stop = o.stop /\ c.res = x
  BY <1>1, <1>2 DEF OpRecord
<1>4. Sound(c) /\ (Live(c) <=> Live(o))
  BY <1>2, <1>3 DEF Sound, Bounded, Live, Digest
<1>5. Live(o) => Stream(c, g)
  BY <1>3 DEF OpInv, Stream, Blocks, BufferSize
<1> QED
  BY <1>1, <1>3, <1>4, <1>5 DEF OpInv

\* TEE_DigestUpdate and TEE_MACUpdate: the stream grows.
LEMMA Grows ==
  ASSUME NEW o, NEW g \in Nat, OpInv(o, g), Live(o), o.alg \in {"SHA", "HMAC"},
         NEW n \in Nat, g + n <= MaxData, NEW c \in OpRecord,
         c.alg = o.alg, c.initialized = o.initialized, c.key = o.key, c.buffer = o.buffer,
         c.ctx = [o.ctx EXCEPT !.data = Bytes(g + n)], c.tag = o.tag, c.len = o.len, c.stop = "no"
  PROVE  OpInv(c, g + n)
<1>1. o.alg \notin BlockCiphers
  BY DEF BlockCiphers, NOPAD, TwoBlocks
<1>2. /\ Bytes(g + n) \in Data /\ Size(Bytes(g + n)) = g + n
      /\ c.buffer = <<>> /\ Bytes(g + n) \o <<>> = Bytes(g + n)
  BY <1>1, Absorbs
<1>3. o \in OpRecord /\ o.ctx \in KeyedData
  BY DEF OpInv, Sound, OpRecord
<1>4. c.ctx.data = Bytes(g + n) /\ c.ctx.key = o.ctx.key
  BY <1>3 DEF KeyedData
<1>5. Sound(c)
  BY <1>1, <1>2, <1>4, DataSize, Constants DEF OpInv, Sound, Bounded
<1>6. Stream(c, g + n)
  <2>1. o.ctx.key = o.key
    BY DEF OpInv, Stream
  <2> QED
    BY <1>1, <1>2, <1>4, <2>1 DEF Stream
<1> QED
  BY <1>5, <1>6 DEF OpInv

\* TEE_DigestUpdate
LEMMA DigestUpdates ==
  ASSUME NEW o, NEW g \in Nat, OpInv(o, g), o.stop = "no", NEW n \in Nat, g + n <= MaxData
  PROVE  TakesWell(o, g, n, TEE_DigestUpdate(o, [i \in 1..n |-> g + i]))
<1> DEFINE chunk == [i \in 1..n |-> g + i]
<1>0. Sound(o) /\ o \in OpRecord
  BY DEF OpInv, Sound
<1>1. CASE ~Digest(o)
  <2>1. TEE_DigestUpdate(o, chunk) = TEE_Panic(o, "misuse")
    BY <1>1 DEF TEE_DigestUpdate, Call
  <2> HIDE DEF chunk
  <2> QED
    BY <2>1, Panics DEF TakesWell, chunk
<1>2. CASE Digest(o)
  <2>1. o.alg = "SHA" /\ Live(o) /\ o.alg \notin BlockCiphers
    BY <1>0, <1>2 DEF Digest, Live, Sound, BlockCiphers, NOPAD, TwoBlocks
  <2>2. o.ctx.data \o chunk = Bytes(g + n) /\ Bytes(g + n) \in Data
    BY <2>1, Absorbs
  <2>3. PICK c : c = TEE_DigestUpdate(o, chunk)
    OBVIOUS
  <2>4. c = [o EXCEPT !.state = "ACTIVE", !.ctx.data = @ \o chunk, !.res = "SUCCESS"]
    BY <1>2, <2>3 DEF TEE_DigestUpdate, Call
  <2> HIDE DEF chunk
  <2>5. c = [o EXCEPT !.state = "ACTIVE", !.ctx.data = Bytes(g + n), !.res = "SUCCESS"]
    BY <2>2, <2>4
  <2>6. /\ c \in OpRecord /\ c.alg = o.alg /\ c.initialized = o.initialized /\ c.key = o.key
        /\ c.buffer = o.buffer
        /\ c.ctx = [o.ctx EXCEPT !.data = Bytes(g + n)] /\ c.tag = o.tag /\ c.len = o.len
        /\ c.stop = "no" /\ c.res = "SUCCESS"
    BY <1>0, <2>2, <2>5 DEF OpRecord, KeyedData
  <2>7. OpInv(c, g + n)
    BY <2>1, <2>6, Grows
  <2> QED
    BY <2>3, <2>6, <2>7 DEF TakesWell, chunk
<1> QED
  BY <1>1, <1>2

\* TEE_MACUpdate
LEMMA MACUpdates ==
  ASSUME NEW o, NEW g \in Nat, OpInv(o, g), o.stop = "no", NEW n \in Nat, g + n <= MaxData
  PROVE  TakesWell(o, g, n, TEE_MACUpdate(o, [i \in 1..n |-> g + i]))
<1> DEFINE chunk == [i \in 1..n |-> g + i]
<1>0. Sound(o) /\ o \in OpRecord
  BY DEF OpInv, Sound
<1>1. CASE ~MacReady(o) \/ Len(chunk) > MaxChunk
  <2>1. TEE_MACUpdate(o, chunk) = TEE_Panic(o, "misuse")
    BY <1>1 DEF TEE_MACUpdate, Call
  <2> HIDE DEF chunk
  <2> QED
    BY <2>1, Panics DEF TakesWell, chunk
<1>2. CASE ~(~MacReady(o) \/ Len(chunk) > MaxChunk)
  <2>1. o.alg = "HMAC" /\ Live(o) /\ o.alg \notin BlockCiphers
    BY <1>0, <1>2 DEF MacReady, Mac, Live, BlockCiphers, NOPAD, TwoBlocks
  <2>2. o.ctx.data \o chunk = Bytes(g + n) /\ Bytes(g + n) \in Data
    BY <2>1, Absorbs
  <2>3. PICK c : c = TEE_MACUpdate(o, chunk)
    OBVIOUS
  <2>4. c = [o EXCEPT !.ctx.data = @ \o chunk, !.res = "SUCCESS"]
    BY <1>2, <2>3 DEF TEE_MACUpdate, Call
  <2> HIDE DEF chunk
  <2>5. c = [o EXCEPT !.ctx.data = Bytes(g + n), !.res = "SUCCESS"]
    BY <2>2, <2>4
  <2>6. /\ c \in OpRecord /\ c.alg = o.alg /\ c.initialized = o.initialized /\ c.key = o.key
        /\ c.buffer = o.buffer
        /\ c.ctx = [o.ctx EXCEPT !.data = Bytes(g + n)] /\ c.tag = o.tag /\ c.len = o.len
        /\ c.stop = "no" /\ c.res = "SUCCESS"
    BY <1>0, <2>2, <2>5 DEF OpRecord, KeyedData
  <2>7. OpInv(c, g + n)
    BY <2>1, <2>6, Grows
  <2> QED
    BY <2>3, <2>6, <2>7 DEF TakesWell, chunk
<1> QED
  BY <1>1, <1>2

\* TEE_MACInit
LEMMA MACInits ==
  ASSUME NEW o, NEW g \in Nat, OpInv(o, g), o.stop = "no"
  PROVE  StartsWell(o, g, TEE_MACInit(o))
<1>0. Sound(o) /\ o \in OpRecord
  BY DEF OpInv, Sound
<1>1. CASE ~Mac(o) \/ ~o.keySet
  <2>1. TEE_MACInit(o) = TEE_Panic(o, "misuse")
    BY <1>1 DEF TEE_MACInit, Call
  <2> QED
    BY <2>1, Panics DEF StartsWell
<1>2. CASE ~(~Mac(o) \/ ~o.keySet)
  <2>1. PICK c : c = TEE_MACInit(o)
    OBVIOUS
  <2>2. c = [o EXCEPT !.state = "ACTIVE", !.ctx = Fresh(o), !.initialized = TRUE, !.res = "SUCCESS"]
    BY <1>2, <2>1 DEF TEE_MACInit, Call
  <2>3. /\ c \in OpRecord /\ c.alg = o.alg
        /\ c.initialized /\ c.key = o.key /\ c.buffer = o.buffer /\ c.ctx.data = <<>>
        /\ c.ctx.key = o.key /\ c.tag = o.tag /\ c.len = o.len /\ c.stop = "no"
    BY <1>0, <2>2, DataSize DEF OpRecord, KeyedData, Fresh
  <2>4. /\ c.buffer = <<>> /\ Size(c.tag.data) <= MaxData /\ c.len <= MaxData + MaxChunk
        /\ c.alg = "HMAC"
    BY <1>0, <1>2, <2>3 DEF Sound, Bounded, Mac, BlockCiphers, NOPAD, TwoBlocks
  <2>5. OpInv(c, 0)
    BY <2>3, <2>4, Restarts
  <2> QED
    BY <2>1, <2>3, <2>5 DEF StartsWell
<1> QED
  BY <1>1, <1>2

\* TEE_DigestDoFinal
LEMMA DigestFinals ==
  ASSUME NEW o, NEW g \in Nat, OpInv(o, g), o.stop = "no", NEW n \in Nat, g + n <= MaxData,
         NEW fits \in BOOLEAN
  PROVE  LET c == TEE_DigestDoFinal(o, [i \in 1..n |-> g + i], fits) IN
         /\ fits => StartsWell(o, g, c)
         /\ ~fits => TakesWell(o, g, 0, c)
<1> DEFINE chunk == [i \in 1..n |-> g + i]
           c == TEE_DigestDoFinal(o, chunk, fits)
<1> SUFFICES (fits => StartsWell(o, g, c)) /\ (~fits => TakesWell(o, g, 0, c))
  OBVIOUS
<1>0. Sound(o) /\ o \in OpRecord
  BY DEF OpInv, Sound
<1>1. CASE ~Digest(o)
  <2>1. c = TEE_Panic(o, "misuse")
    BY <1>1 DEF TEE_DigestDoFinal, Call
  <2> HIDE DEF c
  <2> QED
    BY <2>1, Panics DEF StartsWell, TakesWell
<1>2. CASE Digest(o) /\ ~fits
  <2>1. c = [o EXCEPT !.res = "SHORT_BUFFER"]
    BY <1>2 DEF TEE_DigestDoFinal, Call
  <2> HIDE DEF c
  <2>2. OpInv(c, g) /\ c.res = "SHORT_BUFFER"
    BY <2>1, Answers
  <2> QED
    BY <1>2, <2>2 DEF TakesWell
<1>3. CASE Digest(o) /\ fits
  <2>1. o.alg = "SHA" /\ Live(o) /\ o.alg \notin BlockCiphers
    BY <1>0, <1>3 DEF Digest, Live, Sound, BlockCiphers, NOPAD, TwoBlocks
  <2>2. /\ o.ctx.data \o chunk = Bytes(g + n) /\ Bytes(g + n) \in Data
        /\ Size(Bytes(g + n)) = g + n /\ o.buffer = <<>>
    BY <2>1, Absorbs
  <2>3. c = [utee_hash_final(o, chunk) EXCEPT !.ctx = Fresh(o), !.state = "INITIAL"]
    BY <1>3 DEF TEE_DigestDoFinal, Call
  <2> HIDE DEF c, chunk
  <2>4. c = [[o EXCEPT !.tag = [key |-> o.ctx.key, data |-> Bytes(g + n)],
                       !.ctx.data = Bytes(g + n), !.res = "SUCCESS"]
               EXCEPT !.ctx = Fresh(o), !.state = "INITIAL"]
    BY <2>2, <2>3 DEF utee_hash_final
  <2>5. /\ c \in OpRecord /\ c.alg = o.alg /\ c.initialized = o.initialized /\ c.key = o.key
        /\ c.buffer = o.buffer /\ c.ctx.data = <<>> /\ c.ctx.key = o.key
        /\ c.tag.data = Bytes(g + n) /\ c.len = o.len /\ c.stop = "no"
    BY <1>0, <2>2, <2>4, DataSize DEF OpRecord, KeyedData, Fresh
  <2>6. c.len <= MaxData + MaxChunk /\ c.initialized
    BY <1>0, <2>1, <2>5 DEF Sound, Bounded
  <2>7. OpInv(c, 0)
    BY <2>1, <2>2, <2>5, <2>6, Restarts
  <2> QED
    BY <1>3, <2>5, <2>7 DEF StartsWell
<1> QED
  BY <1>1, <1>2, <1>3

\* TEE_MACComputeFinal
LEMMA MACFinals ==
  ASSUME NEW o, NEW g \in Nat, OpInv(o, g), o.stop = "no", NEW n \in Nat, g + n <= MaxData,
         NEW room \in {"short", "enough", "beyond"}
  PROVE  LET c == TEE_MACComputeFinal(o, [i \in 1..n |-> g + i], room) IN
         /\ TakesWell(o, g, n, c)
         /\ room = "enough" => ~Live(c)
<1> DEFINE chunk == [i \in 1..n |-> g + i]
           c == TEE_MACComputeFinal(o, chunk, room)
<1> SUFFICES TakesWell(o, g, n, c) /\ (room = "enough" => ~Live(c))
  OBVIOUS
<1>0. Sound(o) /\ o \in OpRecord
  BY DEF OpInv, Sound
<1>1. CASE ~MacReady(o) \/ room = "beyond"
  <2>1. c = TEE_Panic(o, "misuse")
    BY <1>1 DEF TEE_MACComputeFinal, Call
  <2> HIDE DEF c
  <2> QED
    BY <2>1, Panics DEF TakesWell, Live
<1>2. CASE MacReady(o) /\ room = "short"
  <2>1. c = [o EXCEPT !.res = "SHORT_BUFFER"]
    BY <1>2 DEF TEE_MACComputeFinal, Call
  <2> HIDE DEF c
  <2>2. OpInv(c, g) /\ c.res = "SHORT_BUFFER"
    BY <2>1, Answers
  <2> QED
    BY <1>2, <2>2 DEF TakesWell
<1>3. CASE MacReady(o) /\ room = "enough"
  <2>1. o.alg = "HMAC" /\ Live(o) /\ o.alg \notin BlockCiphers
    BY <1>0, <1>3 DEF MacReady, Mac, Live, BlockCiphers, NOPAD, TwoBlocks
  <2>2. /\ o.ctx.data \o chunk = Bytes(g + n) /\ Bytes(g + n) \in Data
        /\ Size(Bytes(g + n)) = g + n /\ o.buffer = <<>>
    BY <2>1, Absorbs
  <2>3. c = [utee_hash_final(o, chunk) EXCEPT !.initialized = FALSE, !.state = "INITIAL"]
    BY <1>3 DEF TEE_MACComputeFinal, Call
  <2> HIDE DEF c, chunk
  <2>4. c = [[o EXCEPT !.tag = [key |-> o.ctx.key, data |-> Bytes(g + n)],
                       !.ctx.data = Bytes(g + n), !.res = "SUCCESS"]
               EXCEPT !.initialized = FALSE, !.state = "INITIAL"]
    BY <2>2, <2>3 DEF utee_hash_final
  <2>5. /\ c \in OpRecord /\ c.alg = o.alg /\ c.initialized = FALSE
        /\ c.buffer = o.buffer /\ c.ctx.data = Bytes(g + n)
        /\ c.tag.data = Bytes(g + n) /\ c.len = o.len /\ c.stop = "no"
    BY <1>0, <2>2, <2>4 DEF OpRecord, KeyedData
  <2>6. Sound(c) /\ ~Live(c)
    BY <1>0, <2>1, <2>2, <2>5 DEF Sound, Bounded, Live
  <2> QED
    BY <2>6 DEF TakesWell, OpInv
<1> QED
  BY <1>1, <1>2, <1>3

\* TEE_MACCompareFinal
LEMMA MACCompares ==
  ASSUME NEW o, NEW g \in Nat, OpInv(o, g), o.stop = "no", NEW n \in Nat, g + n <= MaxData,
         NEW same \in BOOLEAN
  PROVE  TakesWell(o, g, n, TEE_MACCompareFinal(o, [i \in 1..n |-> g + i], same))
<1> DEFINE chunk == [i \in 1..n |-> g + i]
<1>1. PICK done : done = TEE_MACComputeFinal(o, chunk, "enough")
  OBVIOUS
<1>2. TakesWell(o, g, n, done) /\ ~Live(done)
  BY <1>1, MACFinals
<1>3. TEE_MACCompareFinal(o, chunk, same)
        = IF done.stop = "no" /\ ~same THEN [done EXCEPT !.res = "MAC_INVALID"] ELSE done
  BY <1>1 DEF TEE_MACCompareFinal
<1> HIDE DEF chunk
<1>4. \A h : OpInv(done, h)
  BY <1>2 DEF TakesWell, OpInv
<1>5. OpInv([done EXCEPT !.res = "MAC_INVALID"], g) /\ [done EXCEPT !.res = "MAC_INVALID"].res = "MAC_INVALID"
  BY <1>4, Answers
<1> QED
  BY <1>2, <1>3, <1>5 DEF TakesWell, chunk

(***************************************************************************)
(* The invariant is inductive.                                             *)
(***************************************************************************)

\* It holds at first.
LEMMA CallsInit == Init => CallsInv
<1> SUFFICES ASSUME Init PROVE CallsInv
  OBVIOUS
<1>1. OpInv(op, given) /\ op.stop = "no"
  BY NullSound DEF Init
<1>2. given \in 0..MaxData
  BY Constants DEF Init
<1>3. AesInv
  BY <1>1, NullSound DEF Init, AesInv, Agreed
<1>4. sess \in Sessions /\ told \in Answered
  BY DEF Init, Sessions, Answered, SizeOrNone
<1> QED
  BY <1>1, <1>2, <1>3, <1>4 DEF Init, CallsInv

\* A call that starts a stream anew.
LEMMA StartsKeeps ==
  ASSUME CallsInv, NEW c, StartsWell(op, given, c), Starts(c)
  PROVE  OpInv(op, given)' /\ given' \in 0..MaxData
  BY Constants DEF CallsInv, StartsWell, Starts

\* A call that takes n more bytes.
LEMMA TakesKeeps ==
  ASSUME CallsInv, NEW n \in Nat, NEW c, TakesWell(op, given, n, c), Takes(n, c)
  PROVE  OpInv(op, given)' /\ given' \in 0..MaxData
  BY Constants DEF CallsInv, TakesWell, Takes

\* The calls of any TA.
LEMMA AnySteps ==
  ASSUME CallsInv,
         \/ Allocate \/ Free \/ Reset \/ SetKey \/ CipherInit \/ CipherUpdate
         \/ DigestUpdate \/ DigestDoFinal
         \/ MACInit \/ MACUpdate \/ MACComputeFinal \/ MACCompareFinal
  PROVE  CallsInv'
<1>1. /\ ta = "any" /\ op.stop = "no" /\ ta' = ta
      /\ sess' = sess /\ told' = told /\ permitted' = permitted
  BY DEF AnyTa, Allocate, Free, Reset, SetKey, CipherInit, CipherUpdate,
         DigestUpdate, DigestDoFinal, MACInit, MACUpdate, MACComputeFinal, MACCompareFinal
<1>2. given \in Nat /\ OpInv(op, given)
  BY Constants DEF CallsInv
<1> SUFFICES OpInv(op, given)' /\ given' \in 0..MaxData
  BY <1>1 DEF CallsInv, AesInv
<1>3. \A n \in Sizes : n \in Nat
  BY Constants DEF Sizes
<1>4. \A n \in Nat : \A c : Takes(n, c) => given + n <= MaxData
  BY DEF Takes
<1>5. CASE Allocate
  <2>1. PICK a \in Algorithms, memory \in BOOLEAN : Starts(TEE_AllocateOperation(a, memory))
    BY <1>5 DEF Allocate
  <2>2. StartsWell(op, given, TEE_AllocateOperation(a, memory))
    BY Allocates DEF StartsWell
  <2> QED
    BY <2>1, <2>2, StartsKeeps
<1>6. CASE Free
  <2>1. StartsWell(op, given, TEE_FreeOperation(op))
    BY <1>1, <1>2, Frees
  <2> QED
    BY <1>6, <2>1, StartsKeeps DEF Free
<1>7. CASE Reset
  <2>1. StartsWell(op, given, TEE_ResetOperation(op))
    BY <1>1, <1>2, Resets
  <2> QED
    BY <1>7, <2>1, StartsKeeps DEF Reset
<1>8. CASE SetKey
  <2>1. PICK k \in AnyKey \cup Unfit, two \in BOOLEAN : op' = TEE_SetOperationKey(op, k, two)
    BY <1>8 DEF SetKey
  <2>2. OpInv(TEE_SetOperationKey(op, k, two), given)
    BY <1>1, <1>2, KeySets
  <2>3. given' = given
    BY <1>8 DEF SetKey
  <2> QED
    BY <2>1, <2>2, <2>3 DEF CallsInv
<1>9. CASE CipherInit
  <2>1. PICK ivFits \in BOOLEAN : Starts(TEE_CipherInit(op, ivFits))
    BY <1>9 DEF CipherInit
  <2>2. StartsWell(op, given, TEE_CipherInit(op, ivFits))
    BY <1>1, <1>2, CipherInits
  <2> QED
    BY <2>1, <2>2, StartsKeeps
<1>10. CASE CipherUpdate
  <2>1. PICK n \in Sizes, dlen \in Sizes : Takes(n, TEE_CipherUpdate(op, Chunk(n), dlen))
    BY <1>10 DEF CipherUpdate
  <2>2. n \in Nat /\ dlen \in Nat /\ given + n <= MaxData
    BY <1>3, <1>4, <2>1
  <2>3. TakesWell(op, given, n, TEE_CipherUpdate(op, Chunk(n), dlen))
    BY <1>1, <1>2, <2>2, CipherUpdates DEF Chunk, TakesWell
  <2> QED
    BY <2>1, <2>2, <2>3, TakesKeeps
<1>11. CASE DigestUpdate
  <2>1. PICK n \in Sizes : Takes(n, TEE_DigestUpdate(op, Chunk(n)))
    BY <1>11 DEF DigestUpdate
  <2>2. n \in Nat /\ given + n <= MaxData
    BY <1>3, <1>4, <2>1
  <2>3. TakesWell(op, given, n, TEE_DigestUpdate(op, Chunk(n)))
    BY <1>1, <1>2, <2>2, DigestUpdates DEF Chunk
  <2> QED
    BY <2>1, <2>2, <2>3, TakesKeeps
<1>12. CASE DigestDoFinal
  <2>1. PICK n \in 0..MaxData - given, fits \in BOOLEAN :
          IF fits THEN Starts(TEE_DigestDoFinal(op, Chunk(n), fits))
          ELSE Takes(0, TEE_DigestDoFinal(op, Chunk(n), fits))
    BY <1>12 DEF DigestDoFinal
  <2>2. n \in Nat /\ given + n <= MaxData
    BY <1>2, Constants
  <2>3. /\ fits => StartsWell(op, given, TEE_DigestDoFinal(op, Chunk(n), fits))
        /\ ~fits => TakesWell(op, given, 0, TEE_DigestDoFinal(op, Chunk(n), fits))
    BY <1>1, <1>2, <2>2, DigestFinals DEF Chunk
  <2> QED
    BY <2>1, <2>3, StartsKeeps, TakesKeeps
<1>13. CASE MACInit
  <2>1. StartsWell(op, given, TEE_MACInit(op))
    BY <1>1, <1>2, MACInits
  <2> QED
    BY <1>13, <2>1, StartsKeeps DEF MACInit
<1>14. CASE MACUpdate
  <2>1. PICK n \in Sizes : Takes(n, TEE_MACUpdate(op, Chunk(n)))
    BY <1>14 DEF MACUpdate
  <2>2. n \in Nat /\ given + n <= MaxData
    BY <1>3, <1>4, <2>1
  <2>3. TakesWell(op, given, n, TEE_MACUpdate(op, Chunk(n)))
    BY <1>1, <1>2, <2>2, MACUpdates DEF Chunk
  <2> QED
    BY <2>1, <2>2, <2>3, TakesKeeps
<1>15. CASE MACComputeFinal
  <2>1. PICK n \in Sizes, room \in {"short", "enough", "beyond"} :
          Takes(n, TEE_MACComputeFinal(op, Chunk(n), room))
    BY <1>15 DEF MACComputeFinal
  <2>2. n \in Nat /\ given + n <= MaxData
    BY <1>3, <1>4, <2>1
  <2>3. TakesWell(op, given, n, TEE_MACComputeFinal(op, Chunk(n), room))
    BY <1>1, <1>2, <2>2, MACFinals DEF Chunk
  <2> QED
    BY <2>1, <2>2, <2>3, TakesKeeps
<1>16. CASE MACCompareFinal
  <2>1. PICK n \in Sizes, same \in BOOLEAN : Takes(n, TEE_MACCompareFinal(op, Chunk(n), same))
    BY <1>16 DEF MACCompareFinal
  <2>2. n \in Nat /\ given + n <= MaxData
    BY <1>3, <1>4, <2>1
  <2>3. TakesWell(op, given, n, TEE_MACCompareFinal(op, Chunk(n), same))
    BY <1>1, <1>2, <2>2, MACCompares DEF Chunk
  <2> QED
    BY <2>1, <2>2, <2>3, TakesKeeps
<1> QED
  BY <1>5, <1>6, <1>7, <1>8, <1>9, <1>10, <1>11, <1>12, <1>13, <1>14, <1>15, <1>16

\* TEE_PopulateTransientObject leaves the operation alone unless it panics.
LEMMA Populates ==
  ASSUME NEW o, NEW g \in Nat, OpInv(o, g), o.stop = "no", NEW memory \in BOOLEAN
  PROVE  LET c == Populated(o, memory) IN
         /\ OpInv(c, g)
         /\ c.stop = "no" => c = o /\ o.alg # "none"
         /\ o.alg # "none" => c.stop \in {"no", "memory"}
<1>1. CASE o.alg = "none"
  <2>1. Populated(o, memory) = TEE_Panic(o, "misuse")
    BY <1>1 DEF Populated
  <2> QED
    BY <1>1, <2>1, Panics
<1>2. CASE o.alg # "none" /\ ~memory
  <2>1. Populated(o, memory) = TEE_Panic(o, "memory")
    BY <1>2 DEF Populated
  <2> QED
    BY <1>2, <2>1, Starves
<1>3. CASE o.alg # "none" /\ memory
  BY <1>3 DEF Populated
<1> QED
  BY <1>1, <1>2, <1>3

\* set_aes_key with a key of the right size.
LEMMA Rekeys ==
  ASSUME NEW o, NEW g \in Nat, OpInv(o, g), o.stop = "no", NEW memory \in BOOLEAN, NEW k,
         o.alg \in NOPAD \cup {"CTR", "none"}, o.alg # "none" => o.keySet
  PROVE  LET c == TEE_SetOperationKey(TEE_ResetOperation(Populated(o, memory)), k, FALSE) IN
         /\ StartsWell(o, g, c)
         /\ c.stop = "no" => o.alg # "none" /\ c.alg = o.alg /\ c.keySet
         /\ o.alg # "none" /\ k \in Keys => c.stop \in {"no", "memory"}
<1>1. PICK p : p = Populated(o, memory)
  OBVIOUS
<1>2. /\ OpInv(p, g) /\ (p.stop = "no" => p = o /\ o.alg # "none")
      /\ o.alg # "none" => p.stop \in {"no", "memory"}
  BY <1>1, Populates
<1>3. PICK r : r = TEE_ResetOperation(p)
  OBVIOUS
<1>4. PICK c : c = TEE_SetOperationKey(r, k, FALSE)
  OBVIOUS
<1> SUFFICES /\ StartsWell(o, g, c)
             /\ c.stop = "no" => o.alg # "none" /\ c.alg = o.alg /\ c.keySet
             /\ o.alg # "none" /\ k \in Keys => c.stop \in {"no", "memory"}
  BY <1>1, <1>3, <1>4
<1>5. CASE p.stop # "no"
  <2>1. r = p
    BY <1>3, <1>5 DEF TEE_ResetOperation, Call
  <2>2. c = p
    BY <1>4, <1>5, <2>1 DEF TEE_SetOperationKey, Call
  <2> QED
    BY <1>2, <1>5, <2>2 DEF StartsWell
<1>6. CASE p.stop = "no"
  <2>1. p = o /\ o.alg # "none" /\ o.keySet /\ o.alg \in NOPAD \cup {"CTR"}
    BY <1>2, <1>6
  <2>2. StartsWell(o, g, r) /\ r.stop = "no" /\ r.alg = o.alg /\ r.state = "INITIAL"
    BY <1>3, <2>1, Resets
  <2>3. OpInv(r, 0)
    BY <2>2 DEF StartsWell
  <2>4. /\ OpInv(c, 0)
        /\ c.stop = "no" => ~Live(c) /\ c.alg = r.alg /\ c.keySet
        /\ k \in Keys => c.stop = "no"
    BY <1>4, <2>1, <2>2, <2>3, KeySets
  <2>5. OpInv(c, g)
    <3>1. c.stop # "no" => ~Live(c)
      BY DEF Live
    <3> QED
      BY <2>4, <3>1 DEF OpInv
  <2> QED
    BY <2>1, <2>2, <2>4, <2>5 DEF StartsWell
<1> QED
  BY <1>5, <1>6

\* The allocations of alloc_resources: an operation with the dummy key, or none, or
\* a panic for want of memory.
LEMMA AllocatedWell ==
  ASSUME CallsInv, op.stop = "no", NEW a \in {"ECB", "CBC", "CTR"},
         NEW opMemory \in BOOLEAN, NEW keyMemory \in BOOLEAN, NEW attrMemory \in BOOLEAN
  PROVE  LET c == Allocated(a, opMemory, keyMemory, attrMemory) IN
         /\ StartsWell(op, given, c)
         /\ c.stop \in {"no", "memory"}
         /\ c.stop = "no" => \/ c.alg = "none" /\ c.res # "SUCCESS"
                             \/ c.alg \in NOPAD \cup {"CTR"} /\ c.keySet /\ c.res = "SUCCESS"
<1>1. given \in Nat /\ OpInv(op, given)
  BY Constants DEF CallsInv
<1>2. PICK freed : freed = IF op.alg = "none" THEN op ELSE TEE_FreeOperation(op)
  OBVIOUS
<1>3. freed.stop = "no"
  <2>1. op.alg # "none" => freed = NullHandle
    BY <1>1, <1>2, Frees
  <2> QED
    BY <1>2, <2>1, NullSound
<1>4. PICK b : b = TEE_AllocateOperation(a, opMemory)
  OBVIOUS
<1>5. a \in Algorithms /\ a \in NOPAD \cup {"CTR"}
  BY DEF Algorithms, Ciphers, BlockCiphers, NOPAD
<1>6. OpInv(b, 0) /\ b.stop = "no" /\ (b.alg # "none" => b.alg = a /\ b.state = "INITIAL")
  BY <1>4, <1>5, Allocates
<1>7. PICK p : p = Populated(b, attrMemory)
  OBVIOUS
<1>8. /\ OpInv(p, 0) /\ (p.stop = "no" => p = b)
      /\ b.alg # "none" => p.stop \in {"no", "memory"}
  BY <1>6, <1>7, Populates
<1>9. PICK c : c = Allocated(a, opMemory, keyMemory, attrMemory)
  OBVIOUS
<1>10. c = IF b.alg = "none" \/ ~keyMemory THEN [NullHandle EXCEPT !.res = "ERROR"]
           ELSE TEE_SetOperationKey(p, DummyKey, FALSE)
  BY <1>2, <1>3, <1>4, <1>7, <1>9 DEF Allocated, Call
<1> SUFFICES /\ StartsWell(op, given, c)
             /\ c.stop \in {"no", "memory"}
             /\ c.stop = "no" => \/ c.alg = "none" /\ c.res # "SUCCESS"
                                 \/ c.alg \in NOPAD \cup {"CTR"} /\ c.keySet /\ c.res = "SUCCESS"
  BY <1>9
<1>11. CASE b.alg = "none" \/ ~keyMemory
  <2>1. c = [NullHandle EXCEPT !.res = "ERROR"]
    BY <1>10, <1>11
  <2>2. OpInv(c, 0) /\ c.stop = "no" /\ c.alg = "none"
    BY <2>1, NullSound
  <2>3. c.res = "ERROR"
    BY <2>1 DEF NullHandle
  <2> QED
    BY <2>2, <2>3 DEF StartsWell
<1>12. CASE ~(b.alg = "none" \/ ~keyMemory)
  <2>1. c = TEE_SetOperationKey(p, DummyKey, FALSE) /\ b.alg = a /\ b.state = "INITIAL"
    BY <1>6, <1>10, <1>12
  <2>2. CASE p.stop # "no"
    <3>1. c = p
      BY <2>1, <2>2 DEF TEE_SetOperationKey, Call
    <3>2. p.stop = "memory" /\ Sound(p) /\ ~Live(p)
      BY <1>8, <1>12, <2>2 DEF OpInv, Live
    <3> QED
      BY <2>2, <3>1, <3>2 DEF StartsWell, OpInv
  <2>3. CASE p.stop = "no"
    <3>1. p = b
      BY <1>8, <2>3
    <3>2. OpInv(c, 0) /\ c.stop = "no" /\ c.alg = a /\ c.keySet /\ c.res = "SUCCESS"
      BY <1>5, <1>6, <2>1, <2>3, <3>1, KeySets, OperationCallsAssumption
    <3> QED
      BY <1>5, <3>2 DEF StartsWell
  <2> QED
    BY <2>2, <2>3
<1> QED
  BY <1>11, <1>12

\* A command that is answered without a call of the API.
LEMMA RefusedKeeps ==
  ASSUME CallsInv, ta = "aes", op.stop = "no", ta' = ta,
         NEW x \in {"BAD_PARAMETERS", "BAD_STATE"}, Refused(x),
         sess' \in Sessions, sess'.op_size = sess.op_size
  PROVE  CallsInv'
<1>1. PICK c : c = [op EXCEPT !.res = x]
  OBVIOUS
<1>2. OpInv(op, given)
  BY DEF CallsInv
<1>3. /\ OpInv(c, given) /\ c.stop = "no" /\ c.alg = op.alg /\ c.state = op.state
      /\ c.keySet = op.keySet /\ c.initialized = op.initialized
  <2>1. op \in OpRecord
    BY <1>2 DEF OpInv, Sound
  <2>2. /\ c.stop = "no" /\ c.alg = op.alg /\ c.state = op.state
        /\ c.keySet = op.keySet /\ c.initialized = op.initialized
    BY <1>1, <2>1 DEF OpRecord
  <2>3. OpInv(c, given)
    <3>1. CASE x = "BAD_PARAMETERS"
      <4>1. c = [op EXCEPT !.res = "BAD_PARAMETERS"]
        BY <1>1, <3>1
      <4> QED
        BY <1>2, <4>1, Answers
    <3>2. CASE x = "BAD_STATE"
      <4>1. c = [op EXCEPT !.res = "BAD_STATE"]
        BY <1>1, <3>2
      <4> QED
        BY <1>2, <4>1, Answers
    <3> QED
      BY <3>1, <3>2
  <2> QED
    BY <2>2, <2>3
<1>4. op' = c /\ given' = given /\ told' = told /\ permitted' = TRUE
  BY <1>1 DEF Refused
<1>5. Agreed(op, sess, told)
  BY DEF CallsInv, AesInv
<1>6. Agreed(op', sess', told')
  BY <1>3, <1>4, <1>5 DEF Agreed
<1> QED
  BY <1>3, <1>4, <1>6 DEF CallsInv, AesInv

\* The commands of the AES TA.
LEMMA AesSteps ==
  ASSUME CallsInv, Prepare \/ SetAesKey \/ ResetAesIv \/ CipherBuffer \/ CloseAes
  PROVE  CallsInv'
<1>1. ta = "aes" /\ op.stop = "no" /\ ta' = ta
  BY DEF AesTa, Prepare, SetAesKey, ResetAesIv, CipherBuffer, CloseAes
<1>2. given \in Nat /\ OpInv(op, given) /\ given \in 0..MaxData
  BY Constants DEF CallsInv
<1>3. Agreed(op, sess, told) /\ sess \in Sessions /\ told \in Answered
  BY <1>1 DEF CallsInv, AesInv
<1>4. \A s \in SizeOrNone : s \in Nat
  BY Constants DEF SizeOrNone, AesKeySizes
<1>5. ASSUME OpInv(op, given)', given' \in 0..MaxData, sess' \in Sessions, told' \in Answered,
             permitted' \in BOOLEAN,
             op'.stop \in {"misuse", "feeding"} => permitted' = FALSE,
             op'.stop = "no" => Agreed(op', sess', told')
      PROVE  CallsInv'
  BY <1>1, <1>5 DEF CallsInv, AesInv
<1>6. CASE Prepare
  <2>1. CASE /\ Refused("BAD_PARAMETERS")
             /\ \E s \in AesKeySizes \cup {sess.key_size} : sess' = [sess EXCEPT !.key_size = s]
    <3>1. sess' \in Sessions /\ sess'.op_size = sess.op_size
      BY <1>3, <2>1 DEF Sessions, SizeOrNone
    <3> QED
      BY <1>1, <2>1, <3>1, RefusedKeeps
  <2>2. CASE \E a \in {"ECB", "CBC", "CTR"}, s \in AesKeySizes, opMemory, keyMemory, attrMemory \in BOOLEAN :
               LET o == Allocated(a, opMemory, keyMemory, attrMemory)
               IN  /\ Starts(o)
                   /\ sess' = [sess EXCEPT !.key_size = s, !.op_size = IF o.alg = "none" THEN 0 ELSE s]
                   /\ told' = [size |-> IF o.res = "SUCCESS" THEN s ELSE 0, ready |-> FALSE]
                   /\ permitted' = TRUE
    <3>1. PICK a \in {"ECB", "CBC", "CTR"}, s \in AesKeySizes,
               opMemory \in BOOLEAN, keyMemory \in BOOLEAN, attrMemory \in BOOLEAN :
               LET o == Allocated(a, opMemory, keyMemory, attrMemory)
               IN  /\ Starts(o)
                   /\ sess' = [sess EXCEPT !.key_size = s, !.op_size = IF o.alg = "none" THEN 0 ELSE s]
                   /\ told' = [size |-> IF o.res = "SUCCESS" THEN s ELSE 0, ready |-> FALSE]
                   /\ permitted' = TRUE
      BY <2>2
    <3>2. PICK c : c = Allocated(a, opMemory, keyMemory, attrMemory)
      OBVIOUS
    <3>3. /\ StartsWell(op, given, c)
          /\ c.stop \in {"no", "memory"}
          /\ c.stop = "no" => \/ c.alg = "none" /\ c.res # "SUCCESS"
                              \/ c.alg \in NOPAD \cup {"CTR"} /\ c.keySet /\ c.res = "SUCCESS"
      BY <1>1, <3>2, AllocatedWell
    <3>4. /\ Starts(c) /\ permitted' = TRUE
          /\ sess' = [sess EXCEPT !.key_size = s, !.op_size = IF c.alg = "none" THEN 0 ELSE s]
          /\ told' = [size |-> IF c.res = "SUCCESS" THEN s ELSE 0, ready |-> FALSE]
      BY <3>1, <3>2
    <3>5. op' = c /\ OpInv(op, given)' /\ given' \in 0..MaxData
      BY <3>3, <3>4, StartsKeeps DEF Starts
    <3>6. /\ sess' \in Sessions /\ sess'.op_size = IF c.alg = "none" THEN 0 ELSE s
          /\ told' \in Answered /\ told'.size = (IF c.res = "SUCCESS" THEN s ELSE 0)
          /\ told'.ready = FALSE
      BY <1>3, <3>4 DEF Sessions, Answered, SizeOrNone
    <3>7. c.stop = "no" => Agreed(c, sess', told')
      BY <3>3, <3>6 DEF Agreed, NOPAD
    <3> QED
      BY <1>5, <3>3, <3>4, <3>5, <3>6, <3>7
  <2> QED
    BY <1>6, <2>1, <2>2 DEF Prepare
<1>7. CASE SetAesKey
  <2>1. PICK n \in 0..2 * BlockSize, attrMemory \in BOOLEAN :
          \/ n # sess.key_size /\ Refused("BAD_PARAMETERS")
          \/ /\ n = sess.key_size
             /\ \E k \in IF n > sess.op_size THEN Unfit ELSE Keys :
                  Starts(TEE_SetOperationKey(TEE_ResetOperation(Populated(op, attrMemory)), k, FALSE))
             /\ told' = [told EXCEPT !.ready = FALSE]
             /\ permitted' = (told.size > 0 /\ n <= told.size)
    BY <1>7 DEF SetAesKey
  <2>2. sess' = sess
    BY <1>7 DEF SetAesKey
  <2>3. CASE Refused("BAD_PARAMETERS")
    BY <1>1, <1>3, <2>2, <2>3, RefusedKeeps
  <2>4. CASE ~Refused("BAD_PARAMETERS")
    <3>1. PICK k \in IF n > sess.op_size THEN Unfit ELSE Keys :
            Starts(TEE_SetOperationKey(TEE_ResetOperation(Populated(op, attrMemory)), k, FALSE))
      BY <2>1, <2>4
    <3>2. PICK c : c = TEE_SetOperationKey(TEE_ResetOperation(Populated(op, attrMemory)), k, FALSE)
      OBVIOUS
    <3>3. /\ StartsWell(op, given, c)
          /\ c.stop = "no" => op.alg # "none" /\ c.alg = op.alg /\ c.keySet
          /\ op.alg # "none" /\ k \in Keys => c.stop \in {"no", "memory"}
      BY <1>1, <1>2, <1>3, <3>2, Rekeys DEF Agreed
    <3>4. op' = c /\ OpInv(op, given)' /\ given' \in 0..MaxData
      BY <3>1, <3>2, <3>3, StartsKeeps DEF Starts
    <3>5. told' = [told EXCEPT !.ready = FALSE] /\ permitted' = (told.size > 0 /\ n <= told.size)
      BY <2>1, <2>4
    <3>6. told' \in Answered /\ told'.size = told.size /\ told'.ready = FALSE /\ permitted' \in BOOLEAN
      BY <1>3, <3>5 DEF Answered
    <3>7. c.stop = "no" => Agreed(c, sess', told')
      BY <1>3, <2>2, <3>3, <3>6 DEF Agreed
    <3>8. c.stop \in {"misuse", "feeding"} => permitted' = FALSE
      <4> SUFFICES ASSUME told.size > 0, n <= told.size PROVE c.stop \in {"no", "memory"}
        BY <3>5
      <4>1. op.alg # "none" /\ sess.op_size = told.size
        BY <1>3 DEF Agreed
      <4>2. ~(n > sess.op_size)
        <5>1. told.size \in Nat
          BY <1>3, <1>4 DEF Answered
        <5> QED
          BY <4>1, <5>1, Constants
      <4>3. k \in Keys
        BY <4>2
      <4> QED
        BY <3>3, <4>1, <4>3
    <3> QED
      BY <1>3, <1>5, <2>2, <3>4, <3>6, <3>7, <3>8
  <2> QED
    BY <2>3, <2>4
<1>8. CASE ResetAesIv
  <2>1. sess' = sess
    BY <1>8 DEF ResetAesIv
  <2>2. CASE Refused("BAD_PARAMETERS")
    BY <1>1, <1>3, <2>1, <2>2, RefusedKeeps
  <2>3. CASE ~Refused("BAD_PARAMETERS")
    <3>1. PICK n \in 0..2 * BlockSize :
            /\ Starts(TEE_CipherInit(op, n = BlockSize))
            /\ told' = [told EXCEPT !.ready = TRUE]
            /\ permitted' = (told.size > 0 /\ n = BlockSize)
      BY <1>8, <2>3 DEF ResetAesIv
    <3>2. PICK ivFits \in BOOLEAN : ivFits = (n = BlockSize)
      OBVIOUS
    <3>3. PICK c : c = TEE_CipherInit(op, ivFits)
      OBVIOUS
    <3>4. /\ StartsWell(op, given, c)
          /\ op.alg \in NOPAD \cup {"CTR"} /\ op.keySet /\ ivFits => c.stop = "no"
          /\ c.stop = "no" => /\ c.alg = op.alg /\ c.alg # "none"
                              /\ c.keySet /\ c.state = "ACTIVE" /\ c.initialized
      BY <1>1, <1>2, <3>3, CipherInits
    <3>5. Starts(c)
      BY <3>1, <3>2, <3>3
    <3>6. op' = c /\ OpInv(op, given)' /\ given' \in 0..MaxData
      BY <3>4, <3>5, StartsKeeps DEF Starts
    <3>7. told' \in Answered /\ told'.size = told.size /\ permitted' \in BOOLEAN
      BY <1>3, <3>1 DEF Answered
    <3>8. c.stop = "no" => Agreed(c, sess', told')
      BY <1>3, <2>1, <3>4, <3>7 DEF Agreed
    <3>9. c.stop \in {"misuse", "feeding"} => permitted' = FALSE
      <4> SUFFICES ASSUME told.size > 0, n = BlockSize PROVE c.stop = "no"
        BY <3>1
      <4>1. op.alg # "none" /\ op.keySet /\ op.alg \in NOPAD \cup {"CTR"}
        BY <1>3 DEF Agreed
      <4> QED
        BY <3>2, <3>4, <4>1
    <3> QED
      BY <1>3, <1>5, <2>1, <3>6, <3>7, <3>8, <3>9
  <2> QED
    BY <2>2, <2>3
<1>9. CASE CipherBuffer
  <2>1. PICK n \in Sizes, dlen \in Sizes :
          \/ dlen < n /\ Refused("BAD_PARAMETERS")
          \/ dlen >= n /\ op.alg = "none" /\ Refused("BAD_STATE")
          \/ /\ dlen >= n /\ op.alg # "none"
             /\ Takes(n, TEE_CipherUpdate(op, Chunk(n), dlen))
             /\ permitted' = (told.ready /\ dlen <= MaxChunk)
             /\ UNCHANGED told
    BY <1>9 DEF CipherBuffer
  <2>2. sess' = sess
    BY <1>9 DEF CipherBuffer
  <2>3. CASE Refused("BAD_PARAMETERS") \/ Refused("BAD_STATE")
    BY <1>1, <1>3, <2>2, <2>3, RefusedKeeps
  <2>4. CASE ~(Refused("BAD_PARAMETERS") \/ Refused("BAD_STATE"))
    <3>1. PICK c : c = TEE_CipherUpdate(op, Chunk(n), dlen)
      OBVIOUS
    <3>2. /\ dlen >= n /\ op.alg # "none" /\ Takes(n, c) /\ told' = told
          /\ permitted' = (told.ready /\ dlen <= MaxChunk)
      BY <2>1, <2>4, <3>1
    <3>3. n \in Nat /\ dlen \in Nat /\ given + n <= MaxData
      BY <3>2, Constants DEF Takes, Sizes
    <3>4. /\ TakesWell(op, given, n, c)
          /\ c.alg = op.alg /\ c.state = op.state /\ c.keySet = op.keySet
          /\ c.initialized = op.initialized
      BY <1>1, <1>2, <3>1, <3>3, CipherUpdates DEF Chunk, TakesWell
    <3>5. op' = c
      BY <3>2 DEF Takes
    <3>6. OpInv(op, given)' /\ given' \in 0..MaxData
      BY <3>2, <3>3, <3>4, TakesKeeps
    <3>7. Agreed(c, sess', told')
      BY <1>3, <2>2, <3>2, <3>4 DEF Agreed
    <3>8. c.stop \in {"misuse", "feeding"} => permitted' = FALSE
      <4> SUFFICES ASSUME told.ready, dlen <= MaxChunk PROVE c.stop = "no"
        BY <3>2
      <4>1. op.alg \in NOPAD \cup {"CTR"} /\ op.state = "ACTIVE" /\ op.initialized
        BY <1>3 DEF Agreed
      <4>2. n <= MaxChunk
        BY <3>2, <3>3, Constants
      <4> QED
        BY <1>1, <1>2, <3>1, <3>3, <4>1, <4>2, CipherUpdates DEF Chunk
    <3>9. permitted' \in BOOLEAN
      BY <3>2
    <3> QED
      BY <1>3, <1>5, <2>2, <3>2, <3>5, <3>6, <3>7, <3>8, <3>9
  <2> QED
    BY <2>3, <2>4
<1>10. CASE CloseAes
  <2>1. PICK c : c = IF op.alg = "none" THEN op ELSE TEE_FreeOperation(op)
    OBVIOUS
  <2>2. OpInv(c, 0) /\ c.stop = "no" /\ c.alg = "none"
    <3>1. CASE op.alg = "none"
      BY <1>1, <1>2, <2>1, <3>1 DEF OpInv, Sound, Live
    <3>2. CASE op.alg # "none"
      <4>1. c = NullHandle
        BY <1>1, <1>2, <2>1, <3>2, Frees
      <4> QED
        BY <4>1, NullSound
    <3> QED
      BY <3>1, <3>2
  <2>3. /\ op' = c /\ given' = 0
        /\ sess' = [open |-> FALSE, key_size |-> 0, op_size |-> 0]
        /\ told' = [size |-> 0, ready |-> FALSE] /\ permitted' = TRUE
    BY <1>10, <2>1, <2>2 DEF CloseAes, Starts
  <2>4. sess' \in Sessions /\ told' \in Answered
    BY <2>3 DEF Sessions, Answered, SizeOrNone
  <2>5. Agreed(c, sess', told')
    BY <2>2, <2>3 DEF Agreed
  <2>6. OpInv(op, given)' /\ given' \in 0..MaxData
    BY <2>2, <2>3, Constants
  <2> QED
    BY <1>5, <2>2, <2>3, <2>4, <2>5, <2>6
<1> QED
  BY <1>6, <1>7, <1>8, <1>9, <1>10

\* Every step keeps the invariant.
LEMMA CallsNext == CallsInv /\ [Next]_vars => CallsInv'
<1> SUFFICES ASSUME CallsInv, [Next]_vars PROVE CallsInv'
  OBVIOUS
<1>1. CASE UNCHANGED vars
  BY <1>1 DEF vars, CallsInv, AesInv, OpInv
<1>2. CASE Stopped \/ Closed
  BY <1>1, <1>2 DEF Stopped, Closed
<1>3. CASE Next /\ ~(Stopped \/ Closed)
  BY <1>3, AnySteps, AesSteps DEF Next
<1> QED
  BY <1>1, <1>2, <1>3

(***************************************************************************)
(* What follows from the invariant.                                        *)
(***************************************************************************)

\* The invariant holds always.
THEOREM Operations == Spec => []CallsInv
<1> QED
  BY CallsInit, CallsNext, PTL DEF Spec

\* The fields of an operation keep their types, and no stream, tag or length
\* returned exceeds the bounds on the data and on a call.
THEOREM OperationTypes == Spec => []TypeOK
<1>1. CallsInv => TypeOK
  <2> SUFFICES ASSUME CallsInv PROVE TypeOK
    OBVIOUS
  <2>1. op \in OpRecord /\ Bounded(op)
    BY DEF CallsInv, OpInv, Sound
  <2>2. op.ctx \in KeyedData /\ op.tag \in KeyedData
    BY <2>1 DEF OpRecord
  <2>3. op.ctx.data \in Data /\ op.tag.data \in Data /\ op.buffer \in Data
        /\ op.ctx.key \in AnyKey /\ op.tag.key \in AnyKey
    BY <2>1, <2>2 DEF OpRecord, KeyedData
  <2>4. \A s \in {op.buffer, op.ctx.data, op.tag.data} : Len(s) \in 0..MaxData
    <3>1. Size(op.buffer) \in 0..MaxData /\ Size(op.ctx.data) \in 0..MaxData
          /\ Size(op.tag.data) \in 0..MaxData
      BY <2>1, <2>3, DataSize, Constants DEF Bounded
    <3> QED
      BY <3>1 DEF Size
  <2>5. op.len \in 0..MaxData + MaxChunk
    BY <2>1, Constants DEF OpRecord, Bounded
  <2> QED
    BY <2>1, <2>3, <2>4, <2>5 DEF TypeOK, CallsInv, OpRecord, Sessions, Answered, SizeOrNone
<1> QED
  BY <1>1, Operations, PTL

\* However the data of a stream is cut into calls and whatever calls fail with a
\* short buffer, the context and the buffer hold all of it once and in order
\* (tee_buffer_update, TEE_CipherUpdate), for every block size and chunk limit.
THEOREM Streams == Spec => []StreamInOrder
<1>1. CallsInv => StreamInOrder
  BY DEF CallsInv, OpInv, StreamInOrder, InUse, Live, Stream
<1> QED
  BY <1>1, Operations, PTL

\* No call sets a key under a context that runs with another one
\* (TEE_SetOperationKey's check of operationState).
THEOREM Keyed == Spec => []OneKey
<1>1. CallsInv => OneKey
  BY DEF CallsInv, OpInv, OneKey, InUse, Live, Stream
<1> QED
  BY <1>1, Operations, PTL

\* The buffer never overflows, the context is fed complete blocks, and CTS and XTS
\* keep a block back for the end (tee_buffer_update).
THEOREM Buffers == Spec => []BufferHolds
<1>1. CallsInv => BufferHolds
  <2> SUFFICES ASSUME CallsInv, InUse, op.alg \in BlockCiphers
               PROVE  /\ Len(op.buffer) <= BufferSize(op)
                      /\ Len(op.ctx.data) % BlockSize = 0
                      /\ op.alg \in TwoBlocks /\ given >= BlockSize => Len(op.buffer) >= BlockSize
    BY DEF BufferHolds
  <2>1. op \in OpRecord /\ Stream(op, given) /\ Blocks(op) /\ given \in Nat
    <3>1. Sound(op) /\ given \in Nat /\ (Live(op) => Stream(op, given))
      BY Constants DEF CallsInv, OpInv
    <3>2. Live(op)
      BY DEF InUse, Live
    <3> QED
      BY <3>1, <3>2 DEF Sound, Stream
  <2>2. PICK d \in Data, b \in Data : d = op.ctx.data /\ b = op.buffer
    BY <2>1, Parts
  <2>3. Size(d) + Size(b) = given /\ Size(b) \in Nat
    <3>1. d \o b = Bytes(given)
      BY <2>1, <2>2 DEF Stream
    <3>2. Size(d \o b) = Size(d) + Size(b) /\ Size(b) \in Nat
      BY DataSize
    <3>3. Size(Bytes(given)) = given
      BY <2>1, BytesGrow DEF Size
    <3> QED
      BY <3>1, <3>2, <3>3
  <2>4. /\ Size(b) <= BufferSize(op) /\ Size(d) % BlockSize = 0
        /\ op.alg \in TwoBlocks => Size(d) = 0 \/ Size(b) >= BlockSize
    BY <2>1, <2>2 DEF Blocks
  <2>5. op.alg \in TwoBlocks /\ given >= BlockSize => Size(b) >= BlockSize
    BY <2>3, <2>4
  <2> QED
    BY <2>2, <2>4, <2>5 DEF Size
<1> QED
  BY <1>1, Operations, PTL

\* What TEE_CipherUpdate's check of the destination lets pass is not refused by
\* the service for ECB, CBC and CTR: the room asked for covers every complete
\* block that is fed ("Errors during feeding of data are fatal").
THEOREM Feeding == Spec => []FeedingSucceeds
<1>1. CallsInv => FeedingSucceeds
  BY DEF CallsInv, OpInv, Sound, FeedingSucceeds
<1> QED
  BY <1>1, Operations, PTL

\* The AES TA panics by misuse or while feeding only on a command that its answers
\* to the client do not permit, for every size of the data, of the output and of
\* the keys (alloc_resources, set_aes_key, reset_aes_iv, cipher_buffer).
THEOREM AesServed == Spec => []AesClientServed
<1>1. CallsInv => AesClientServed
  BY DEF CallsInv, AesInv, AesClientServed
<1> QED
  BY <1>1, Operations, PTL
=============================================================================
