----------------------------- MODULE HotpProofs -------------------------------
(***************************************************************************)
(* Proofs about Hotp, for every width and base of the counter, every       *)
(* number of tasks and of codes: the carry of the counter computes the     *)
(* successor, and an application gets the codes of its own key in order.   *)
(***************************************************************************)
EXTENDS Hotp, ProofLemmas

(***************************************************************************)
(* The counter as a number.                                                *)
(***************************************************************************)

\* What the assumptions say of numbers.
LEMMA Numbers ==
  /\ Base \in Nat \ {0} /\ Base > 1
  /\ Width \in Nat /\ Width > 0 /\ Width <= MaxChunk /\ MaxChunk \in Nat
  /\ NCodes \in Nat
  BY HotpAssumption, OperationAssumption

\* The powers of the base.
LEMMA Powers ==
  /\ Power \in [0..Width -> Nat \ {0}]
  /\ Power[0] = 1
  /\ \A i \in 1..Width : Power[i] = Power[i - 1] * Base
<1> DEFINE S == Nat \ {0}
           D == [i \in Nat |-> [v \in Nat |-> v * Base]]
<1>1. 1 \in Nat /\ D \in [Nat -> [Nat -> Nat]] /\ Width \in Nat
  BY Numbers
<1>2. PICK g \in [0..Width -> Nat] : g[0] = 1 /\ \A i \in 1..Width : g[i] = D[i][g[i - 1]]
  <2> HIDE DEF D
  <2> QED
    BY <1>1, Recursion
<1>3. \A i \in 1..Width : g[i] = g[i - 1] * Base
  <2> SUFFICES ASSUME NEW i \in 1..Width PROVE g[i] = g[i - 1] * Base
    OBVIOUS
  <2>1. i \in Nat /\ i - 1 \in 0..Width /\ g[i - 1] \in Nat
    BY <1>1
  <2> QED
    BY <1>2, <2>1
<1>4. g = [i \in 0..Width |-> IF i = 0 THEN 1 ELSE g[i - 1] * Base]
  BY <1>2, <1>3, Numbers
<1>5. Power = [i \in 0..Width |-> IF i = 0 THEN 1 ELSE Power[i - 1] * Base]
  BY <1>4 DEF Power
<1>6. Power[0] = 1 /\ \A i \in 1..Width : Power[i] = Power[i - 1] * Base
  BY <1>5, Numbers
<1>7. \A i \in 0..Width : Power[i] \in S
  <2> DEFINE T == {i \in 0..Width : Power[i] \in S}
  <2>1. 0 \in T
    BY <1>6, Numbers
  <2>2. \A i \in Nat : i < Width /\ i \in T => i + 1 \in T
    <3> SUFFICES ASSUME NEW i \in Nat, i < Width, Power[i] \in S PROVE i + 1 \in T
      OBVIOUS
    <3>1. i + 1 \in 1..Width /\ (i + 1) - 1 = i
      BY Numbers
    <3>2. Power[i + 1] = Power[i] * Base
      BY <1>6, <3>1
    <3>3. Power[i] * Base \in S
      BY Numbers
    <3> QED
      BY <3>1, <3>2, <3>3
  <2> HIDE DEF T
  <2>3. \A i \in 0..Width : i \in T
    BY <1>1, <2>1, <2>2, UpTo
  <2> QED
    BY <2>3 DEF T
<1> QED
  BY <1>5, <1>6, <1>7

\* The numbers that the leading bytes stand for.
LEMMA Leads ==
  ASSUME NEW c \in Counters
  PROVE  /\ Leading(c)[0] = 0
         /\ \A i \in 1..Width : Leading(c)[i] = Leading(c)[i - 1] * Base + c[i]
         /\ \A i \in 0..Width : Leading(c)[i] \in 0..(Power[i] - 1)
<1> DEFINE D == [i \in Nat |-> [v \in Nat |-> IF i \in 1..Width THEN v * Base + c[i] ELSE 0]]
<1>1. D \in [Nat -> [Nat -> Nat]] /\ Width \in Nat /\ \A i \in 1..Width : c[i] \in Nat /\ c[i] < Base
  BY Numbers DEF Counters, Bytes
<1>2. PICK g \in [0..Width -> Nat] : g[0] = 0 /\ \A i \in 1..Width : g[i] = D[i][g[i - 1]]
  <2> HIDE DEF D
  <2> QED
    BY <1>1, Recursion
<1>3. \A i \in 1..Width : g[i] = g[i - 1] * Base + c[i]
  <2> SUFFICES ASSUME NEW i \in 1..Width PROVE g[i] = g[i - 1] * Base + c[i]
    OBVIOUS
  <2>1. i \in Nat /\ i - 1 \in 0..Width /\ g[i - 1] \in Nat
    BY <1>1
  <2> QED
    BY <1>2, <2>1
<1>4. g = [i \in 0..Width |-> IF i = 0 THEN 0 ELSE g[i - 1] * Base + c[i]]
  BY <1>2, <1>3, Numbers
<1> DEFINE v == Leading(c)
<1>5. v = [i \in 0..Width |-> IF i = 0 THEN 0 ELSE v[i - 1] * Base + c[i]]
  BY <1>4 DEF Leading
<1> HIDE DEF v
<1>6. v[0] = 0 /\ \A i \in 1..Width : v[i] = v[i - 1] * Base + c[i]
  BY <1>5, Numbers
<1>7. \A i \in 0..Width : v[i] \in 0..(Power[i] - 1)
  <2> DEFINE T == {i \in 0..Width : v[i] \in 0..(Power[i] - 1)}
  <2>1. 0 \in T
    BY <1>6, Numbers, Powers
  <2>2. \A i \in Nat : i < Width /\ i \in T => i + 1 \in T
    <3> SUFFICES ASSUME NEW i \in Nat, i < Width, v[i] \in 0..(Power[i] - 1) PROVE i + 1 \in T
      OBVIOUS
    <3>1. i + 1 \in 1..Width /\ (i + 1) - 1 = i
      BY Numbers
    <3>2. v[i + 1] = v[i] * Base + c[i + 1] /\ Power[i + 1] = Power[i] * Base
      BY <1>6, <3>1, Powers
    <3>3. PICK x \in Nat, p \in Nat, b \in Nat : x = v[i] /\ p = Power[i] /\ b = c[i + 1]
      <4>1. i \in 0..Width
        BY Numbers
      <4>2. Power[i] \in Nat
        BY <4>1, Powers
      <4>3. v[i] \in Nat
        BY <4>2
      <4>4. c[i + 1] \in Nat
        BY <1>1, <3>1
      <4> QED
        BY <4>2, <4>3, <4>4
    <3>0. x < p /\ b < Base /\ b >= 0
      <4>1. b < Base
        BY <1>1, <3>1, <3>3
      <4> QED
        BY <3>3, <4>1
    <3>4. x * Base + Base <= p * Base /\ x * Base \in Int /\ p * Base \in Int
      <4>1. x \in Int /\ p \in Int /\ Base \in Nat \ {0}
        BY Numbers
      <4> QED
        BY <3>0, <4>1, MultMono
    <3>5. x * Base >= 0
      BY Numbers
    <3>6. x * Base + b \in 0..(p * Base - 1)
      <4>1. PICK y \in Int, z \in Int : y = x * Base /\ z = p * Base
        BY <3>4
      <4>2. y + Base <= z /\ y >= 0
        BY <3>4, <3>5, <4>1
      <4>3. y + b \in 0..(z - 1)
        BY <3>0, <4>2, Numbers
      <4> QED
        BY <4>1, <4>3
    <3> QED
      BY <3>1, <3>2, <3>3, <3>6
  <2> HIDE DEF T
  <2>3. \A i \in 0..Width : i \in T
    BY <1>1, <2>1, <2>2, UpTo
  <2> QED
    BY <2>3 DEF T
<1> QED
  BY <1>6, <1>7 DEF v

\* The next value of a counter with p values.
Succ(v, p) == IF v + 1 = p THEN 0 ELSE v + 1

\* A counter whose bytes are all 0 stands for 0.
LEMMA ZeroValue == Zero \in Counters /\ Value(Zero) = 0
<1>1. Zero \in Counters
  BY Numbers DEF Zero, Counters, Bytes
<1>2. PICK v : v = Leading(Zero)
  OBVIOUS
<1>3. v[0] = 0 /\ \A i \in 1..Width : v[i] = v[i - 1] * Base + Zero[i]
  BY <1>1, <1>2, Leads
<1> DEFINE T == {i \in 0..Width : v[i] = 0}
<1>4. 0 \in T
  BY <1>3, Numbers
<1>5. \A i \in Nat : i < Width /\ i \in T => i + 1 \in T
  <2> SUFFICES ASSUME NEW i \in Nat, i < Width, v[i] = 0 PROVE i + 1 \in T
    OBVIOUS
  <2>1. i + 1 \in 1..Width /\ (i + 1) - 1 = i /\ Zero[i + 1] = 0
    BY Numbers DEF Zero
  <2>2. v[i + 1] = 0 * Base + 0
    BY <1>3, <2>1
  <2> QED
    BY <2>1, <2>2, Numbers
<1> HIDE DEF T
<1>6. \A i \in 0..Width : i \in T
  BY <1>4, <1>5, UpTo, Numbers
<1>7. Width \in T
  BY <1>6, Numbers
<1> QED
  BY <1>1, <1>2, <1>7 DEF T, Value

\* get_hotp's loop keeps every byte a byte.
LEMMA IncrementedType ==
  ASSUME NEW c \in Counters
  PROVE  Incremented(c) \in Counters
<1> SUFFICES ASSUME NEW i \in 1..Width PROVE Incremented(c)[i] \in Bytes
  BY DEF Incremented, Counters
<1>1. c[i] \in Bytes
  BY DEF Counters
<1>2. PICK b \in Int : b = c[i] + 1
  BY <1>1 DEF Bytes
<1>3. b % Base \in 0..Base - 1
  BY Numbers, DivMod
<1> QED
  BY <1>1, <1>2, <1>3 DEF Incremented, Bytes

\* One byte of the loop.  x and y are what the bytes before it stand for, before
\* and after the loop, p the number of values these bytes have; b and e are the
\* byte before and after.
LEMMA CarryByte ==
  ASSUME NEW x \in Nat, NEW y \in Nat, NEW p \in Nat \ {0}, NEW b \in Nat, NEW e \in Nat,
         x < p, b < Base
  PROVE  /\ b + 1 = Base /\ e = 0 /\ y = Succ(x, p)
              => y * Base + e = Succ(x * Base + b, p * Base)
         /\ b + 1 < Base /\ e = b + 1 /\ y = x
              => y * Base + e = Succ(x * Base + b, p * Base)
<1>0. PICK s \in Nat \ {0} : s = Base
  BY Numbers
<1>1. x \in Int /\ p \in Int /\ x + 1 \in Int
  OBVIOUS
<1>2. PICK u \in Int, w \in Int : u = x * s /\ w = p * s
  OBVIOUS
<1>3. u + s <= w
  BY <1>1, <1>2, MultMono
<1>4. u >= 0 /\ w >= 0
  BY <1>2
<1>5. (x + 1) * s = u + s
  BY <1>2
<1>6. x + 1 # p => u + s # w
  <2> SUFFICES ASSUME x + 1 # p PROVE u + s # w
    OBVIOUS
  <2>1. x + 1 < p
    OBVIOUS
  <2>2. (x + 1) * s + s <= p * s
    BY <1>1, <2>1, MultMono
  <2> QED
    BY <1>2, <1>5, <2>2
<1>7. x + 1 = p => u + s = w
  BY <1>2, <1>5
<1>8. ASSUME b + 1 = s, e = 0, y = Succ(x, p) PROVE y * s + e = Succ(u + b, w)
  <2>1. CASE x + 1 = p
    <3>1. y = 0 /\ u + b + 1 = w
      BY <1>7, <1>8, <2>1 DEF Succ
    <3>2. y * s = 0
      BY <3>1
    <3> QED
      BY <1>8, <3>1, <3>2 DEF Succ
  <2>2. CASE x + 1 # p
    <3>1. y = x + 1 /\ u + b + 1 # w
      BY <1>6, <1>8, <2>2 DEF Succ
    <3>2. y * s = u + s
      BY <1>5, <3>1
    <3> QED
      BY <1>8, <3>1, <3>2 DEF Succ
  <2> QED
    BY <2>1, <2>2
<1>9. ASSUME b + 1 < s, e = b + 1, y = x PROVE y * s + e = Succ(u + b, w)
  <2>1. y * s = u /\ u + b + 1 # w
    BY <1>2, <1>3, <1>9
  <2> QED
    BY <1>9, <2>1 DEF Succ
<1> QED
  BY <1>0, <1>2, <1>8, <1>9

\* get_hotp's loop computes the successor, and 0 after the last value: the carry
\* reaches the byte i exactly if all bytes after it were at their largest value.
LEMMA IncrementedValue ==
  ASSUME NEW c \in Counters
  PROVE  Value(Incremented(c)) = Succ(Value(c), Power[Width])
<1>1. PICK d \in Counters : d = Incremented(c)
  BY IncrementedType
<1>2. PICK v : v = Leading(c)
  OBVIOUS
<1>3. PICK w : w = Leading(d)
  OBVIOUS
<1>4. /\ v[0] = 0
      /\ \A i \in 1..Width : v[i] = v[i - 1] * Base + c[i]
      /\ \A i \in 0..Width : v[i] \in 0..(Power[i] - 1)
  BY <1>2, Leads
<1>5. /\ w[0] = 0
      /\ \A i \in 1..Width : w[i] = w[i - 1] * Base + d[i]
      /\ \A i \in 0..Width : w[i] \in 0..(Power[i] - 1)
  BY <1>3, Leads
<1> DEFINE Carries(i) == \A j \in i + 1..Width : c[j] = Base - 1
           T == {i \in 0..Width : w[i] = IF Carries(i) THEN Succ(v[i], Power[i]) ELSE v[i]}
<1>6. 0 \in T
  <2>1. v[0] = 0 /\ w[0] = 0 /\ Power[0] = 1 /\ 0 \in 0..Width
    BY <1>4, <1>5, Powers, Numbers
  <2>2. Succ(v[0], Power[0]) = 0
    BY <2>1 DEF Succ
  <2> QED
    BY <2>1, <2>2
<1>7. ASSUME NEW i \in Nat, i < Width, i \in T PROVE i + 1 \in T
  <2>1. i \in 0..Width /\ i + 1 \in 1..Width /\ i + 1 \in 0..Width /\ (i + 1) - 1 = i
    BY <1>7, Numbers
  <2>2. PICK x \in Nat, y \in Nat, p \in Nat \ {0} : x = v[i] /\ y = w[i] /\ p = Power[i] /\ x < p
    <3>1. Power[i] \in Nat \ {0}
      BY <2>1, Powers
    <3>2. v[i] \in Nat /\ v[i] < Power[i]
      BY <1>4, <2>1, <3>1
    <3>3. w[i] \in Nat
      BY <1>5, <2>1, <3>1
    <3> QED
      BY <3>1, <3>2, <3>3
  <2>3. PICK b \in Nat, e \in Nat : b = c[i + 1] /\ e = d[i + 1]
    BY <2>1 DEF Counters, Bytes
  <2>4. b < Base
    BY <2>1, <2>3, Numbers DEF Counters, Bytes
  <2>5. v[i + 1] = x * Base + b /\ w[i + 1] = y * Base + e /\ Power[i + 1] = p * Base
    BY <1>4, <1>5, <2>1, <2>2, <2>3, Powers
  <2>6. e = IF Carries(i + 1) THEN (b + 1) % Base ELSE b
    BY <1>1, <2>1, <2>3 DEF Incremented
  <2>7. Carries(i) <=> Carries(i + 1) /\ b = Base - 1
    BY <2>1, <2>3, Numbers
  <2>8. y = IF Carries(i) THEN Succ(x, p) ELSE x
    BY <1>7, <2>2
  <2>9. /\ b + 1 = Base /\ e = 0 /\ y = Succ(x, p)
              => y * Base + e = Succ(x * Base + b, p * Base)
        /\ b + 1 < Base /\ e = b + 1 /\ y = x
              => y * Base + e = Succ(x * Base + b, p * Base)
    <3>1. x < p
      BY <2>2
    <3> QED
      BY <2>4, <3>1, CarryByte
  <2> HIDE DEF Carries
  <2>10. CASE ~Carries(i + 1)
    <3>1. e = b /\ y = x
      BY <2>6, <2>7, <2>8, <2>10
    <3> QED
      BY <2>1, <2>5, <2>10, <3>1
  <2>11. CASE Carries(i + 1) /\ b = Base - 1
    <3>1. b + 1 = Base
      BY <2>11, Numbers
    <3>2. e = 0
      <4>1. Base % Base = 0
        BY SmallMultiples, Numbers
      <4> QED
        BY <2>6, <2>11, <3>1, <4>1
    <3>3. y = Succ(x, p)
      BY <2>7, <2>8, <2>11
    <3>4. y * Base + e = Succ(x * Base + b, p * Base)
      BY <2>9, <3>1, <3>2, <3>3
    <3> QED
      BY <2>1, <2>5, <2>11, <3>4
  <2>12. CASE Carries(i + 1) /\ b # Base - 1
    <3>1. b + 1 < Base
      BY <2>4, <2>12, Numbers
    <3>2. e = b + 1
      <4>1. PICK a \in Nat : a = b + 1
        OBVIOUS
      <4>2. a = 0 * Base + a /\ a \in 0..(Base - 1) /\ 0 \in Int
        BY <3>1, <4>1, Numbers
      <4>3. a % Base = a
        BY <4>2, Numbers, DivModUnique
      <4> QED
        BY <2>6, <2>12, <4>1, <4>3
    <3>3. y = x
      BY <2>7, <2>8, <2>12
    <3>4. y * Base + e = Succ(x * Base + b, p * Base)
      BY <2>9, <3>1, <3>2, <3>3
    <3> QED
      BY <2>1, <2>5, <2>12, <3>4
  <2> QED
    BY <2>10, <2>11, <2>12
<1>8. Carries(Width)
  BY Numbers
<1> HIDE DEF T, Carries
<1>9. \A i \in 0..Width : i \in T
  BY <1>6, <1>7, UpTo, Numbers
<1>10. Width \in T
  BY <1>9, Numbers
<1>11. w[Width] = Succ(v[Width], Power[Width])
  BY <1>8, <1>10 DEF T
<1> QED
  BY <1>1, <1>2, <1>3, <1>11 DEF Value

\* Counting on, modulo p.
LEMMA SuccMod ==
  ASSUME NEW n \in Nat, NEW p \in Nat \ {0}
  PROVE  (n + 1) % p = Succ(n % p, p)
<1>1. PICK q \in Int, r \in 0..(p - 1) : n = q * p + r /\ r = n % p
  <2>1. n \div p \in Int /\ n % p \in 0..(p - 1) /\ n = (n \div p) * p + (n % p)
    BY DivMod
  <2> QED
    BY <2>1
<1>2. n + 1 \in Int /\ q + 1 \in Int
  OBVIOUS
<1>3. PICK u \in Int : u = q * p
  OBVIOUS
<1>4. (q + 1) * p = u + p
  BY <1>3
<1>5. CASE r + 1 = p
  <2>1. n + 1 = (q + 1) * p + 0 /\ 0 \in 0..(p - 1)
    BY <1>1, <1>3, <1>4, <1>5
  <2>2. (n + 1) % p = 0
    BY <1>2, <2>1, DivModUnique
  <2> QED
    BY <1>1, <1>5, <2>2 DEF Succ
<1>6. CASE r + 1 # p
  <2>1. n + 1 = q * p + (r + 1) /\ r + 1 \in 0..(p - 1)
    BY <1>1, <1>3, <1>6
  <2>2. (n + 1) % p = r + 1
    BY <1>2, <2>1, DivModUnique
  <2> QED
    BY <1>1, <1>6, <2>2 DEF Succ
<1> QED
  BY <1>5, <1>6

(***************************************************************************)
(* The code.                                                               *)
(***************************************************************************)

\* A counter is data of Width bytes.
LEMMA CounterData ==
  ASSUME NEW c \in Counters
  PROVE  c \in Data /\ Len(c) = Width
<1>1. c \in [1..Width -> Nat] /\ Width \in Nat
  BY Numbers DEF Counters, Bytes
<1> QED
  BY <1>1, DataOfBytes

\* hmac_sha1 succeeds only with a key that fits, and then computes the MAC of that
\* key over exactly the counter.
LEMMA Hmac ==
  ASSUME NEW k, NEW c \in Counters, NEW opMemory \in BOOLEAN, NEW keyMemory \in BOOLEAN,
         hmac_sha1(k, c, opMemory, keyMemory).res = "SUCCESS"
  PROVE  /\ k \in Keys
         /\ hmac_sha1(k, c, opMemory, keyMemory).tag = [key |-> k, data |-> c]
<1>1. PICK op : op = TEE_AllocateOperation("HMAC", opMemory)
  OBVIOUS
<1>2. PICK keyed : keyed = TEE_SetOperationKey(op, k, FALSE)
  OBVIOUS
<1>3. PICK m : m = TEE_MACInit(keyed)
  OBVIOUS
<1>4. PICK u : u = TEE_MACUpdate(m, c)
  OBVIOUS
<1>5. PICK r : r = TEE_MACComputeFinal(u, <<>>, "enough")
  OBVIOUS
<1>6. /\ k \in Keys /\ op.alg # "none"
      /\ hmac_sha1(k, c, opMemory, keyMemory)
           = [TEE_FreeOperation(r) EXCEPT !.res = r.res, !.tag = r.tag]
  BY <1>1, <1>2, <1>3, <1>4, <1>5 DEF hmac_sha1, NullHandle
<1>7. op = [NullHandle EXCEPT !.alg = "HMAC", !.keySet = FALSE, !.initialized = FALSE]
  BY <1>1, <1>6 DEF TEE_AllocateOperation, NullHandle
<1>8. keyed = [op EXCEPT !.key = k, !.keySet = TRUE, !.res = "SUCCESS"]
  BY <1>2, <1>6, <1>7 DEF TEE_SetOperationKey, Call, Digest, NullHandle
<1>9. keyed.alg = "HMAC" /\ keyed.keySet = TRUE /\ keyed.stop = "no" /\ keyed.key = k
  BY <1>7, <1>8 DEF NullHandle
<1>10. m = [keyed EXCEPT !.state = "ACTIVE", !.ctx = [key |-> k, data |-> <<>>],
                         !.initialized = TRUE, !.res = "SUCCESS"]
  BY <1>3, <1>9 DEF TEE_MACInit, Call, Mac, Fresh
<1>11. /\ m.alg = "HMAC" /\ m.state = "ACTIVE" /\ m.initialized = TRUE /\ m.stop = "no"
       /\ m.ctx = [key |-> k, data |-> <<>>]
  BY <1>7, <1>8, <1>10 DEF NullHandle
<1>12. u = [m EXCEPT !.ctx.data = @ \o c, !.res = "SUCCESS"]
  <2>1. ~(Len(c) > MaxChunk)
    BY CounterData, Numbers
  <2> QED
    BY <1>4, <1>11, <2>1 DEF TEE_MACUpdate, Call, MacReady, Mac
<1>13. /\ u.alg = "HMAC" /\ u.state = "ACTIVE" /\ u.initialized = TRUE /\ u.stop = "no"
       /\ u.ctx.key = k /\ u.ctx.data = <<>> \o c
  BY <1>7, <1>8, <1>10, <1>12 DEF NullHandle
<1>14. r = [utee_hash_final(u, <<>>) EXCEPT !.initialized = FALSE, !.state = "INITIAL"]
  BY <1>5, <1>13 DEF TEE_MACComputeFinal, Call, MacReady, Mac
<1>15. /\ r.tag = [key |-> u.ctx.key, data |-> u.ctx.data \o <<>>]
       /\ r.alg = "HMAC" /\ r.stop = "no"
  BY <1>7, <1>8, <1>10, <1>12, <1>14 DEF utee_hash_final, NullHandle
<1>16. TEE_FreeOperation(r) = NullHandle
  BY <1>15 DEF TEE_FreeOperation, Call
<1>17. hmac_sha1(k, c, opMemory, keyMemory).tag = r.tag
  BY <1>6, <1>16 DEF NullHandle
<1>18. (<<>> \o c) \o <<>> = c
  BY CounterData, DataJoin
<1> QED
  BY <1>6, <1>13, <1>15, <1>17, <1>18

(***************************************************************************)
(* The inductive invariant.                                                *)
(***************************************************************************)

\* The application of a task runs with interrupts disabled, so no other one does;
\* from its first command to its last the TA holds the task's key and has been
\* asked for as many codes as the application has received.
Holder ==
  \A t \in Tasks :
    /\ pc[t] = "app" <=> mask = t
    /\ pc[t] = "app" /\ step[t] = 0 => got[t] = <<>>
    /\ pc[t] = "app" /\ step[t] \in 1..NCodes + 1
         => K = KeyOf[t] /\ asked = step[t] - 1 /\ Len(got[t]) = step[t] - 1

HotpInv ==
  /\ TypeOK
  /\ got \in [Tasks -> Seq(Codes)]
  /\ CounterCounts
  /\ OwnCodes
  /\ Holder

\* What an application has received so far, one code more included.
LEMMA CodeAppended ==
  ASSUME NEW s \in Seq(Codes), NEW e \in Codes
  PROVE  /\ Append(s, e) \in Seq(Codes)
         /\ Len(s) \in Nat
         /\ Len(Append(s, e)) = Len(s) + 1
         /\ \A i \in 1..Len(s) : Append(s, e)[i] = s[i]
         /\ Append(s, e)[Len(s) + 1] = e
<1> HIDE DEF Codes
<1> QED
  BY AppendProperties, LenProperties

\* The initial states.
LEMMA HotpStarts == Init => HotpInv
<1> SUFFICES ASSUME Init PROVE HotpInv
  OBVIOUS
<1> USE DEF Init
<1>1. <<>> \in Seq(Codes) /\ Len(<<>>) = 0
  BY EmptySeq, Zenon
<1>2. got \in [Tasks -> Seq(Codes)] /\ \A t \in Tasks : Len(got[t]) = 0
  BY <1>1
<1>3. TypeOK
  BY <1>2, Numbers, ZeroValue DEF TypeOK
<1>4. CounterCounts
  <2>1. 0 % Power[Width] = 0
    BY SmallMultiples, Powers, Numbers
  <2> QED
    BY <2>1, ZeroValue DEF CounterCounts
<1>5. OwnCodes
  BY <1>2 DEF OwnCodes
<1>6. Holder
  BY HotpAssumption DEF Holder
<1> QED
  BY <1>2, <1>3, <1>4, <1>5, <1>6 DEF HotpInv

\* Another command of the menu task.
LEMMA CreateKeeps ==
  ASSUME HotpInv, NEW t \in Tasks, xTaskCreate(t)
  PROVE  HotpInv'
<1> USE DEF xTaskCreate, HotpInv
<1>1. TypeOK'
  BY DEF TypeOK
<1>2. CounterCounts' /\ OwnCodes' /\ (got \in [Tasks -> Seq(Codes)])'
  BY DEF CounterCounts, OwnCodes
<1>3. Holder'
  BY DEF Holder, TypeOK
<1> QED
  BY <1>1, <1>2, <1>3

\* The task disables interrupts and starts its application.
LEMMA BeginKeeps ==
  ASSUME HotpInv, NEW t \in Tasks, BeginHotp(t)
  PROVE  HotpInv'
<1> USE DEF BeginHotp, Starts, HotpInv
<1>1. <<>> \in Seq(Codes) /\ Len(<<>>) = 0
  BY EmptySeq, Zenon
<1>2. /\ got' \in [Tasks -> Seq(Codes)]
      /\ got'[t] = <<>>
      /\ \A u \in Tasks : u # t => got'[u] = got[u]
  BY <1>1
<1>3. TypeOK'
  BY <1>1, <1>2, Numbers DEF TypeOK
<1>4. CounterCounts'
  BY DEF CounterCounts
<1>5. OwnCodes'
  BY <1>1, <1>2 DEF OwnCodes
<1>6. Holder'
  <2>1. \A u \in Tasks : pc[u] # "app"
    BY HotpAssumption DEF Holder
  <2> QED
    BY <1>2, <2>1, Numbers DEF Holder, TypeOK
<1> QED
  BY <1>2, <1>3, <1>4, <1>5, <1>6

\* The first command of the application.
LEMMA RegisterKeeps ==
  ASSUME HotpInv, NEW t \in Tasks, Register(t)
  PROVE  HotpInv'
<1> USE DEF Register, register_shared_key, Running, HotpInv
<1>1. TypeOK'
  <2>1. K' \in Keys \cup Unfit \cup {NoKey}
    BY HotpAssumption
  <2>2. counter' \in Counters /\ asked' \in 0..NCodes * 2 /\ step' \in [Tasks -> 0..NCodes + 2]
    BY Numbers, ZeroValue DEF TypeOK
  <2> QED
    BY <2>1, <2>2 DEF TypeOK
<1>2. CounterCounts'
  <2>1. 0 % Power[Width] = 0
    BY SmallMultiples, Powers, Numbers
  <2> QED
    BY <2>1, ZeroValue DEF CounterCounts
<1>3. OwnCodes' /\ (got \in [Tasks -> Seq(Codes)])'
  BY DEF OwnCodes
<1>4. Holder'
  <2>1. got[t] = <<>> /\ Len(<<>>) = 0 /\ \A u \in Tasks : u # t => pc[u] # "app"
    BY HotpAssumption DEF Holder
  <2> QED
    BY <2>1, Numbers DEF Holder, TypeOK
<1> QED
  BY <1>1, <1>2, <1>3, <1>4

\* A command that fails on its way: the application ends, nothing else changes.
LEMMA FailsKeeps ==
  ASSUME HotpInv, NEW t \in Tasks, CommandFails(t)
  PROVE  HotpInv'
<1> USE DEF CommandFails, Running, HotpInv
<1>1. TypeOK'
  BY Numbers DEF TypeOK
<1>2. CounterCounts' /\ OwnCodes' /\ (got \in [Tasks -> Seq(Codes)])'
  BY DEF CounterCounts, OwnCodes
<1>3. Holder'
  BY HotpAssumption, Numbers DEF Holder, TypeOK
<1> QED
  BY <1>1, <1>2, <1>3

\* The end of the application: interrupts are enabled again.
LEMMA EndKeeps ==
  ASSUME HotpInv, NEW t \in Tasks, EndHotp(t)
  PROVE  HotpInv'
<1> USE DEF EndHotp, Running, HotpInv
<1>1. TypeOK'
  BY DEF TypeOK
<1>2. CounterCounts' /\ OwnCodes' /\ (got \in [Tasks -> Seq(Codes)])'
  BY DEF CounterCounts, OwnCodes
<1>3. Holder'
  BY HotpAssumption DEF Holder, TypeOK
<1> QED
  BY <1>1, <1>2, <1>3

\* A code is asked for.  Nobody else has used the TA since the last one.
LEMMA GetKeeps ==
  ASSUME HotpInv, NEW t \in Tasks, GetHotp(t)
  PROVE  HotpInv'
<1> USE DEF HotpInv
<1>1. /\ mask' = mask /\ pc' = pc /\ K' = K
      /\ counter' = Incremented(counter) /\ asked' = asked + 1
      /\ asked < NCodes * 2 /\ pc[t] = "app" /\ step[t] \in 1..NCodes
  BY DEF GetHotp, get_hotp, Running
<1>2. /\ mask = t /\ K = KeyOf[t] /\ asked = step[t] - 1 /\ Len(got[t]) = step[t] - 1
      /\ \A u \in Tasks : u # t => pc[u] # "app"
  BY <1>1, HotpAssumption, Numbers DEF Holder
<1>3. counter \in Counters /\ counter' \in Counters /\ asked \in Nat /\ asked' \in 0..NCodes * 2
  BY <1>1, IncrementedType, Numbers DEF TypeOK
<1>4. CounterCounts'
  <2>1. Value(counter') = Succ(asked % Power[Width], Power[Width])
    BY <1>1, <1>3, IncrementedValue DEF CounterCounts
  <2>2. (asked + 1) % Power[Width] = Succ(asked % Power[Width], Power[Width])
    <3>1. Power[Width] \in Nat \ {0}
      BY Powers, Numbers
    <3> QED
      BY <1>3, <3>1, SuccMod
  <2> QED
    BY <1>1, <2>1, <2>2 DEF CounterCounts
<1>5. PICK opMemory \in BOOLEAN, keyMemory \in BOOLEAN :
        LET r == hmac_sha1(K, counter, opMemory, keyMemory)
        IN  IF r.res = "SUCCESS"
            THEN /\ got' = [got EXCEPT ![t] = Append(@, r.tag)]
                 /\ step' = [step EXCEPT ![t] = @ + 1]
            ELSE /\ step' = [step EXCEPT ![t] = NCodes + 2]
                 /\ UNCHANGED got
  BY DEF GetHotp
<1>6. PICK r : r = hmac_sha1(K, counter, opMemory, keyMemory)
  OBVIOUS
<1>7. CASE r.res # "SUCCESS"
  <2>1. step' = [step EXCEPT ![t] = NCodes + 2] /\ got' = got
    BY <1>5, <1>6, <1>7
  <2>2. TypeOK'
    BY <1>1, <1>3, <2>1, Numbers DEF TypeOK
  <2>3. OwnCodes' /\ (got \in [Tasks -> Seq(Codes)])'
    BY <2>1 DEF OwnCodes
  <2>4. Holder'
    BY <1>1, <1>2, <2>1, Numbers DEF Holder, TypeOK
  <2> QED
    BY <1>4, <2>2, <2>3, <2>4
<1>8. CASE r.res = "SUCCESS"
  <2>1. step' = [step EXCEPT ![t] = @ + 1] /\ got' = [got EXCEPT ![t] = Append(@, r.tag)]
    BY <1>5, <1>6, <1>8
  <2>2. K \in Keys /\ r.tag = [key |-> K, data |-> counter]
    BY <1>3, <1>6, <1>8, Hmac
  <2>3. r.tag \in Codes /\ r.tag.key = KeyOf[t] /\ r.tag.data = counter
    BY <1>2, <1>3, <2>2 DEF Codes
  <2>4. PICK s \in Seq(Codes), e \in Codes : s = got[t] /\ e = r.tag
    BY <2>3
  <2>5. PICK a : a = Append(s, e)
    OBVIOUS
  <2>6. /\ a \in Seq(Codes) /\ Len(s) \in Nat /\ Len(a) = Len(s) + 1
        /\ \A i \in 1..Len(s) : a[i] = s[i]
        /\ a[Len(s) + 1] = e
    BY <2>5, CodeAppended
  <2>7. got' = [got EXCEPT ![t] = a]
    BY <2>1, <2>4, <2>5
  <2>8. /\ got' \in [Tasks -> Seq(Codes)]
        /\ got'[t] = a
        /\ \A u \in Tasks : u # t => got'[u] = got[u]
    BY <2>6, <2>7
  <2>9. Len(a) = step[t] /\ \A i \in 1..Len(a) : a[i] \in Codes
    <3>1. Len(a) = step[t]
      BY <1>1, <1>2, <2>4, <2>6
    <3>2. \A i \in 1..Len(a) : a[i] \in Codes
      BY <2>6, ElementOfSeq
    <3> QED
      BY <3>1, <3>2
  <2>10. TypeOK'
    <3>1. step' \in [Tasks -> 0..NCodes + 2]
      BY <1>1, <2>1, Numbers DEF TypeOK
    <3>2. ASSUME NEW u \in Tasks
          PROVE  Len(got'[u]) <= NCodes /\ \A i \in 1..Len(got'[u]) : got'[u][i] \in Codes
      <4>1. CASE u = t
        <5>1. Len(a) <= NCodes
          BY <1>1, <2>9
        <5> QED
          BY <2>8, <2>9, <4>1, <5>1
      <4>2. CASE u # t
        BY <2>8, <4>2 DEF TypeOK
      <4> QED
        BY <4>1, <4>2
    <3> QED
      BY <1>1, <1>3, <3>1, <3>2 DEF TypeOK
  <2>11. OwnCodes'
    <3>1. Value(e.data) = (Len(a) - 1) % Power[Width] /\ e.key = KeyOf[t]
      <4>1. Value(counter) = asked % Power[Width] /\ asked = Len(a) - 1
        BY <1>2, <2>9 DEF CounterCounts
      <4>2. e.data = counter /\ e.key = KeyOf[t]
        BY <2>3, <2>4
      <4> QED
        BY <4>1, <4>2
    <3>2. ASSUME NEW i \in 1..Len(a)
          PROVE  a[i].key = KeyOf[t] /\ Value(a[i].data) = (i - 1) % Power[Width]
      <4>1. CASE i = Len(a)
        BY <2>6, <3>1, <4>1
      <4>2. CASE i # Len(a)
        <5>1. i \in 1..Len(s) /\ a[i] = s[i]
          BY <2>6, <4>2
        <5> QED
          BY <2>4, <5>1 DEF OwnCodes
      <4> QED
        BY <4>1, <4>2
    <3> QED
      BY <2>8, <3>2 DEF OwnCodes
  <2>12. Holder'
    <3>1. \A u \in Tasks : u # t => pc'[u] # "app"
      BY <1>1, <1>2
    <3>2. pc'[t] = "app" /\ mask' = t /\ step'[t] = step[t] + 1 /\ step'[t] # 0
      BY <1>1, <1>2, <2>1 DEF TypeOK
    <3>3. K' = KeyOf[t] /\ asked' = step'[t] - 1 /\ Len(got'[t]) = step'[t] - 1
      BY <1>1, <1>2, <2>8, <2>9, <3>2
    <3> QED
      BY <3>1, <3>2, <3>3 DEF Holder
  <2> QED
    BY <1>4, <2>8, <2>10, <2>11, <2>12
<1> QED
  BY <1>7, <1>8

\* Every step keeps the invariant.
LEMMA HotpSteps == HotpInv /\ [Next]_vars => HotpInv'
<1> SUFFICES ASSUME HotpInv, [Next]_vars PROVE HotpInv'
  OBVIOUS
<1>1. CASE UNCHANGED vars
  BY <1>1 DEF vars, HotpInv, TypeOK, CounterCounts, OwnCodes, Holder
<1>2. CASE Next
  BY <1>2, CreateKeeps, BeginKeeps, RegisterKeeps, GetKeeps, FailsKeeps, EndKeeps DEF Next
<1> QED
  BY <1>1, <1>2

\* The invariant holds in every state of the TA and its client applications
\* (hotp_ta.c, hotp_ns.c).
THEOREM Hotps == Spec => []HotpInv
  BY HotpStarts, HotpSteps, PTL DEF Spec

\* Key, counter and codes are what their types say, whatever the number of tasks,
\* of codes and of bytes of the counter (hotp_ta.c).
THEOREM HotpTypes == Spec => []TypeOK
<1>1. HotpInv => TypeOK
  BY DEF HotpInv
<1> QED
  BY <1>1, Hotps, PTL

\* The counter is the number of codes asked for under the registered key, modulo
\* its range: get_hotp's carry from byte to byte computes the successor for every
\* width, and register_shared_key starts it afresh.
THEOREM HotpCounts == Spec => []CounterCounts
<1>1. HotpInv => CounterCounts
  BY DEF HotpInv
<1> QED
  BY <1>1, Hotps, PTL

\* However many tasks share the TA's one key and counter, each application gets the
\* codes of its own key for the counter values 0, 1, 2, ... in order (hotp_ns.c).
THEOREM HotpOwnCodes == Spec => []OwnCodes
<1>1. HotpInv => OwnCodes
  BY DEF HotpInv
<1> QED
  BY <1>1, Hotps, PTL
=============================================================================
