----------------------------- MODULE WireProofs -----------------------------
(***************************************************************************)
(* The message format, for every size of a byte, every message and every   *)
(* string of bytes: what is written is read back, and what is read from    *)
(* any bytes is a message, with all its fields there, or nothing.          *)
(***************************************************************************)
EXTENDS Wire, SequenceTheorems, WellFoundedInduction, TLAPS

-----------------------------------------------------------------------------
(* Integers in two halves.  M is the number of values of a half.           *)

(* A value in two halves is the value again when they are put together.    *)
LEMMA Halves ==
  ASSUME NEW M \in Nat \ {0}, NEW v \in 0 .. M * M - 1
  PROVE  /\ v \div M \in 0 .. M - 1
         /\ v % M \in 0 .. M - 1
         /\ (v \div M) * M + (v % M) = v
<1>1. v \in Nat /\ M \in Nat /\ M > 0 /\ v < M * M
  OBVIOUS
<1>2. v \div M \in Nat /\ v % M \in 0 .. M - 1 /\ v = M * (v \div M) + (v % M)
  BY <1>1
<1>3. (v \div M) * M + (v % M) = v
  BY <1>2
<1>4. v \div M < M
  BY <1>1, <1>2
<1>5. QED
  BY <1>1, <1>2, <1>3, <1>4

(* Two halves fit together.                                                *)
LEMMA Whole ==
  ASSUME NEW M \in Nat \ {0}, NEW high \in 0 .. M - 1, NEW low \in 0 .. M - 1
  PROVE  high * M + low \in 0 .. M * M - 1
<1>1. high * M <= (M - 1) * M
  OBVIOUS
<1>2. high * M \in Nat /\ (M - 1) * M = M * M - M
  OBVIOUS
<1>3. QED
  BY <1>1, <1>2

(* What was put together from two halves has these halves.                 *)
LEMMA HalvesOfWhole ==
  ASSUME NEW M \in Nat \ {0}, NEW high \in 0 .. M - 1, NEW low \in 0 .. M - 1
  PROVE  /\ (high * M + low) \div M = high
         /\ (high * M + low) % M = low
<1> DEFINE v == high * M + low
           q == v \div M
           r == v % M
<1>1. v \in 0 .. M * M - 1 /\ v = high * M + low
  BY Whole
<1>2. q \in 0 .. M - 1 /\ r \in 0 .. M - 1 /\ q * M + r = v
  <2> HIDE DEF v
  <2>1. QED
    BY <1>1, Halves
<1> HIDE DEF v, q, r
<1>3. high \in Nat /\ low \in Nat /\ q \in Nat /\ r \in Nat /\ M \in Nat
  BY <1>2
<1>4. ~ (q > high)
  <2>1. SUFFICES ASSUME q > high PROVE FALSE
    OBVIOUS
  <2>2. q * M >= (high + 1) * M /\ (high + 1) * M = high * M + M
    BY <1>3, <2>1
  <2>3. high * M \in Nat /\ q * M \in Nat
    BY <1>3
  <2>4. QED
    BY <1>1, <1>2, <1>3, <2>2, <2>3
<1>5. ~ (high > q)
  <2>1. SUFFICES ASSUME high > q PROVE FALSE
    OBVIOUS
  <2>2. high * M >= (q + 1) * M /\ (q + 1) * M = q * M + M
    BY <1>3, <2>1
  <2>3. high * M \in Nat /\ q * M \in Nat
    BY <1>3
  <2>4. QED
    BY <1>1, <1>2, <1>3, <2>2, <2>3
<1>6. q = high
  BY <1>3, <1>4, <1>5
<1>7. r = low
  <2>1. high * M \in Nat
    BY <1>3
  <2>2. QED
    BY <1>1, <1>2, <1>3, <1>6, <2>1
<1>8. QED
  BY <1>6, <1>7 DEF v, q, r

(* The numbers of values are numbers, and the sizes of messages, at most   *)
(* 34, are below that of four bytes.                                       *)
LEMMA Bases ==
  /\ Base \in Nat \ {0} /\ Base2 \in Nat \ {0}
  /\ Base4 \in Nat \ {0} /\ Base8 \in Nat \ {0}
  /\ Base >= 3 /\ Base4 > 34
<1>1. Base \in Nat /\ Base >= 3
  BY CodecAssumption
<1>2. Base2 \in Nat /\ Base2 >= 9
  BY <1>1 DEF Base2
<1>3. Base4 \in Nat /\ Base4 >= 81
  BY <1>2 DEF Base4
<1>4. Base8 \in Nat /\ Base8 > 0
  BY <1>3 DEF Base8
<1>5. QED
  BY <1>1, <1>2, <1>3, <1>4

-----------------------------------------------------------------------------
(* Bytes in a datagram.                                                    *)

(* Strings of n bytes.                                                     *)
Bytes(n) == {s \in Seq(Byte) : Len(s) = n}

(* The bytes from an offset on are those of part.                          *)
Holds(data, offset, part) ==
  /\ offset + Len(part) <= Len(data)
  /\ \A i \in 1 .. Len(part) : data[offset + i] = part[i]

(* Two parts in a row are bytes again.                                     *)
LEMMA BytesInARow ==
  ASSUME NEW j \in Nat, NEW k \in Nat, NEW s \in Bytes(j), NEW t \in Bytes(k)
  PROVE  s \o t \in Bytes(j + k)
<1>1. s \in Seq(Byte) /\ Len(s) = j /\ t \in Seq(Byte) /\ Len(t) = k
  BY DEF Bytes
<1>2. s \o t \in Seq(Byte) /\ Len(s \o t) = j + k
  BY <1>1, ConcatProperties
<1>3. QED
  BY <1>2 DEF Bytes

(* What holds two parts in a row holds each of them.                       *)
LEMMA HoldsBoth ==
  ASSUME NEW data \in Seq(Byte), NEW offset \in Nat,
         NEW j \in Nat, NEW k \in Nat, NEW s \in Bytes(j), NEW t \in Bytes(k),
         Holds(data, offset, s \o t)
  PROVE  Holds(data, offset, s) /\ Holds(data, offset + j, t)
<1>1. /\ s \in Seq(Byte) /\ Len(s) = j
      /\ t \in Seq(Byte) /\ Len(t) = k
  BY DEF Bytes
<1>2. /\ Len(s \o t) = j + k
      /\ \A i \in 1 .. j + k :
           (s \o t)[i] = IF i <= j THEN s[i] ELSE t[i - j]
  BY <1>1, ConcatProperties
<1>3. Len(data) \in Nat
  BY LenProperties
<1>4. Holds(data, offset, s)
  BY <1>1, <1>2, <1>3 DEF Holds
<1>5. Holds(data, offset + j, t)
  <2>1. (offset + j) + k <= Len(data)
    BY <1>2, <1>3 DEF Holds
  <2>2. ASSUME NEW i \in 1 .. k
        PROVE  data[(offset + j) + i] = t[i]
    <3>1. /\ j + i \in 1 .. Len(s \o t)
          /\ (s \o t)[j + i] = t[i]
          /\ (offset + j) + i = offset + (j + i)
      BY <1>2
    <3>2. QED
      BY <3>1 DEF Holds
  <2>3. QED
    BY <1>1, <2>1, <2>2 DEF Holds
<1>6. QED
  BY <1>4, <1>5

(* What holds two parts, one after the other, holds them as one.           *)
LEMMA HoldsInARow ==
  ASSUME NEW data \in Seq(Byte), NEW offset \in Nat,
         NEW j \in Nat, NEW k \in Nat, NEW s \in Bytes(j), NEW t \in Bytes(k),
         Holds(data, offset, s), Holds(data, offset + j, t)
  PROVE  Holds(data, offset, s \o t)
<1>1. /\ s \in Seq(Byte) /\ Len(s) = j
      /\ t \in Seq(Byte) /\ Len(t) = k
  BY DEF Bytes
<1>2. /\ Len(s \o t) = j + k
      /\ \A i \in 1 .. j + k :
           (s \o t)[i] = IF i <= j THEN s[i] ELSE t[i - j]
  BY <1>1, ConcatProperties
<1>3. offset + Len(s \o t) <= Len(data)
  BY <1>1, <1>2, LenProperties DEF Holds
<1>4. ASSUME NEW i \in 1 .. Len(s \o t)
      PROVE  data[offset + i] = (s \o t)[i]
  <2>1. CASE i <= j
    <3>1. i \in 1 .. Len(s) /\ (s \o t)[i] = s[i]
      BY <1>1, <1>2, <2>1
    <3>2. QED
      BY <3>1 DEF Holds
  <2>2. CASE ~ (i <= j)
    <3>1. /\ i - j \in 1 .. Len(t) /\ (s \o t)[i] = t[i - j]
          /\ (offset + j) + (i - j) = offset + i
      BY <1>1, <1>2, <2>2
    <3>2. data[(offset + j) + (i - j)] = t[i - j]
      BY <3>1 DEF Holds
    <3>3. QED
      BY <3>1, <3>2
  <2>3. QED
    BY <2>1, <2>2
<1>5. QED
  BY <1>3, <1>4 DEF Holds

(* A byte that is read is a byte, whether it is there or not.              *)
LEMMA ReadIsByte ==
  ASSUME NEW data \in Seq(Byte), NEW offset \in Nat
  PROVE  Read(data, offset) \in Byte
<1>1. 0 \in Byte
  BY Bases DEF Byte
<1>2. CASE offset + 1 <= Len(data)
  <2>1. offset + 1 \in 1 .. Len(data)
    BY <1>2, LenProperties
  <2>2. QED
    BY <1>2, <2>1, ElementOfSeq DEF Read
<1>3. QED
  BY <1>1, <1>2 DEF Read

(* What is read has the type that the reader returns.                      *)
LEMMA Read16IsUInt16 ==
  ASSUME NEW data \in Seq(Byte), NEW offset \in Nat
  PROVE  Read16_BE(data, offset) \in UInt16
<1>1. 0 \in UInt16
  BY Bases DEF UInt16
<1>2. Read(data, offset) \in Byte /\ Read(data, offset + 1) \in Byte
  BY ReadIsByte
<1>3. Read(data, offset) * Base + Read(data, offset + 1) \in UInt16
  BY <1>2, Bases, Whole DEF Byte, UInt16, Base2
<1>4. QED
  BY <1>1, <1>3 DEF Read16_BE

(* The same for four bytes.                                                *)
LEMMA Read32IsUInt32 ==
  ASSUME NEW data \in Seq(Byte), NEW offset \in Nat
  PROVE  Read32_BE(data, offset) \in UInt32
<1>1. 0 \in UInt32
  BY Bases DEF UInt32
<1>2. /\ Read16_BE(data, offset) \in UInt16
      /\ Read16_BE(data, offset + 2) \in UInt16
  BY Read16IsUInt16
<1>3. Read16_BE(data, offset) * Base2 + Read16_BE(data, offset + 2) \in UInt32
  BY <1>2, Bases, Whole DEF UInt16, UInt32, Base4
<1>4. QED
  BY <1>1, <1>3 DEF Read32_BE

(* The same for eight bytes.                                               *)
LEMMA Read64IsUInt64 ==
  ASSUME NEW data \in Seq(Byte), NEW offset \in Nat
  PROVE  Read64_BE(data, offset) \in UInt64
<1>1. 0 \in UInt64
  BY Bases DEF UInt64
<1>2. /\ Read32_BE(data, offset) \in UInt32
      /\ Read32_BE(data, offset + 4) \in UInt32
  BY Read32IsUInt32
<1>3. Read32_BE(data, offset) * Base4 + Read32_BE(data, offset + 4) \in UInt64
  BY <1>2, Bases, Whole DEF UInt32, UInt64, Base8
<1>4. QED
  BY <1>1, <1>3 DEF Read64_BE

-----------------------------------------------------------------------------
(* What the writer puts there.  The halves of a value are put one after    *)
(* the other, so the lemmas of each size follow from those of half of it.  *)
LEMMA Put16IsTwoBytes ==
  ASSUME NEW value \in UInt16
  PROVE  /\ Put16_BE(value) \in Bytes(2)
         /\ Put16_BE(value)[1] = value \div Base
         /\ Put16_BE(value)[2] = value % Base
<1>1. value \div Base \in Byte /\ value % Base \in Byte
  BY Bases, Halves DEF UInt16, Base2, Byte
<1>2. (value \div Base) % Base = value \div Base
  BY <1>1, Bases DEF Byte
<1>3. Put16_BE(value) = <<value \div Base, value % Base>>
  BY <1>2 DEF Put16_BE
<1>4. QED
  BY <1>1, <1>3 DEF Bytes

(* What the writer puts there, the reader finds there.                     *)
LEMMA Read16OfPut16 ==
  ASSUME NEW data \in Seq(Byte), NEW offset \in Nat, NEW value \in UInt16,
         Holds(data, offset, Put16_BE(value))
  PROVE  Read16_BE(data, offset) = value
<1>1. /\ Len(Put16_BE(value)) = 2
      /\ Put16_BE(value)[1] = value \div Base
      /\ Put16_BE(value)[2] = value % Base
  BY Put16IsTwoBytes DEF Bytes
<1>2. /\ offset + 2 <= Len(data)
      /\ data[offset + 1] = value \div Base
      /\ data[offset + 2] = value % Base
  BY <1>1 DEF Holds
<1>3. /\ Read(data, offset) = value \div Base
      /\ Read(data, offset + 1) = value % Base
  BY <1>2, LenProperties DEF Read
<1>4. (value \div Base) * Base + (value % Base) = value
  BY Bases, Halves DEF UInt16, Base2
<1>5. QED
  BY <1>2, <1>3, <1>4 DEF Read16_BE

(* The same for four bytes, which are twice two.                          *)
LEMMA Put32IsFourBytes ==
  ASSUME NEW value \in UInt32
  PROVE  Put32_BE(value) \in Bytes(4)
<1> DEFINE high == value \div Base2
           low == value % Base2
<1>1. high \in UInt16 /\ low \in UInt16
  BY Bases, Halves DEF UInt32, Base4, UInt16
<1>2. Put32_BE(value) = Put16_BE(high) \o Put16_BE(low)
  BY DEF Put32_BE
<1> HIDE DEF high, low
<1>3. Put16_BE(high) \in Bytes(2) /\ Put16_BE(low) \in Bytes(2)
  BY <1>1, Put16IsTwoBytes
<1>4. Put16_BE(high) \o Put16_BE(low) \in Bytes(2 + 2)
  BY <1>3, BytesInARow
<1>5. QED
  BY <1>2, <1>4

(* They are found again, by twice two.                                     *)
LEMMA Read32OfPut32 ==
  ASSUME NEW data \in Seq(Byte), NEW offset \in Nat, NEW value \in UInt32,
         Holds(data, offset, Put32_BE(value))
  PROVE  Read32_BE(data, offset) = value
<1> DEFINE high == value \div Base2
           low == value % Base2
<1>1. high \in UInt16 /\ low \in UInt16 /\ high * Base2 + low = value
  BY Bases, Halves DEF UInt32, Base4, UInt16
<1>2. offset + 4 <= Len(data)
  BY Put32IsFourBytes DEF Holds, Bytes
<1>3. Holds(data, offset, Put16_BE(high) \o Put16_BE(low))
  BY DEF Put32_BE
<1> HIDE DEF high, low
<1>4. Put16_BE(high) \in Bytes(2) /\ Put16_BE(low) \in Bytes(2)
  BY <1>1, Put16IsTwoBytes
<1>5. /\ Holds(data, offset, Put16_BE(high))
      /\ Holds(data, offset + 2, Put16_BE(low))
  BY <1>3, <1>4, HoldsBoth
<1>6. Read16_BE(data, offset) = high /\ Read16_BE(data, offset + 2) = low
  BY <1>1, <1>5, Read16OfPut16
<1>7. QED
  BY <1>1, <1>2, <1>6 DEF Read32_BE

(* The same for eight bytes, which are twice four.                        *)
LEMMA Put64IsEightBytes ==
  ASSUME NEW value \in UInt64
  PROVE  Put64_BE(value) \in Bytes(8)
<1> DEFINE high == value \div Base4
           low == value % Base4
<1>1. high \in UInt32 /\ low \in UInt32
  BY Bases, Halves DEF UInt64, Base8, UInt32
<1>2. Put64_BE(value) = Put32_BE(high) \o Put32_BE(low)
  BY DEF Put64_BE
<1> HIDE DEF high, low
<1>3. Put32_BE(high) \in Bytes(4) /\ Put32_BE(low) \in Bytes(4)
  BY <1>1, Put32IsFourBytes
<1>4. Put32_BE(high) \o Put32_BE(low) \in Bytes(4 + 4)
  BY <1>3, BytesInARow
<1>5. QED
  BY <1>2, <1>4

(* They are found again, by twice four.                                    *)
LEMMA Read64OfPut64 ==
  ASSUME NEW data \in Seq(Byte), NEW offset \in Nat, NEW value \in UInt64,
         Holds(data, offset, Put64_BE(value))
  PROVE  Read64_BE(data, offset) = value
<1> DEFINE high == value \div Base4
           low == value % Base4
<1>1. high \in UInt32 /\ low \in UInt32 /\ high * Base4 + low = value
  BY Bases, Halves DEF UInt64, Base8, UInt32
<1>2. offset + 8 <= Len(data)
  BY Put64IsEightBytes DEF Holds, Bytes
<1>3. Holds(data, offset, Put32_BE(high) \o Put32_BE(low))
  BY DEF Put64_BE
<1> HIDE DEF high, low
<1>4. Put32_BE(high) \in Bytes(4) /\ Put32_BE(low) \in Bytes(4)
  BY <1>1, Put32IsFourBytes
<1>5. /\ Holds(data, offset, Put32_BE(high))
      /\ Holds(data, offset + 4, Put32_BE(low))
  BY <1>3, <1>4, HoldsBoth
<1>6. Read32_BE(data, offset) = high /\ Read32_BE(data, offset + 4) = low
  BY <1>1, <1>5, Read32OfPut32
<1>7. QED
  BY <1>1, <1>2, <1>6 DEF Read64_BE

(* What is read, because all of it is there, the writer puts there.        *)
LEMMA Put16OfRead16 ==
  ASSUME NEW data \in Seq(Byte), NEW offset \in Nat, offset + 2 <= Len(data)
  PROVE  Holds(data, offset, Put16_BE(Read16_BE(data, offset)))
<1> DEFINE value == Read16_BE(data, offset)
<1>1. /\ Read(data, offset) = data[offset + 1]
      /\ Read(data, offset + 1) = data[offset + 2]
  BY LenProperties DEF Read
<1>2. data[offset + 1] \in 0 .. Base - 1 /\ data[offset + 2] \in 0 .. Base - 1
  <2>1. Read(data, offset) \in Byte /\ Read(data, offset + 1) \in Byte
    BY ReadIsByte
  <2>2. QED
    BY <1>1, <2>1 DEF Byte
<1>3. value = data[offset + 1] * Base + data[offset + 2]
  BY <1>1 DEF Read16_BE
<1>4. value \in UInt16
  BY Read16IsUInt16
<1> HIDE DEF value
<1>5. value \div Base = data[offset + 1] /\ value % Base = data[offset + 2]
  BY <1>2, <1>3, Bases, HalvesOfWhole
<1>6. /\ Len(Put16_BE(value)) = 2
      /\ Put16_BE(value)[1] = data[offset + 1]
      /\ Put16_BE(value)[2] = data[offset + 2]
  BY <1>4, <1>5, Put16IsTwoBytes DEF Bytes
<1>7. QED
  BY <1>6 DEF Holds, value

(* The same for four bytes.                                                 *)
LEMMA Put32OfRead32 ==
  ASSUME NEW data \in Seq(Byte), NEW offset \in Nat, offset + 4 <= Len(data)
  PROVE  Holds(data, offset, Put32_BE(Read32_BE(data, offset)))
<1> DEFINE high == Read16_BE(data, offset)
           low == Read16_BE(data, offset + 2)
           value == Read32_BE(data, offset)
<1>1. high \in UInt16 /\ low \in UInt16
  BY Read16IsUInt16
<1>2. value = high * Base2 + low
  BY DEF Read32_BE
<1>3. /\ Holds(data, offset, Put16_BE(high))
      /\ Holds(data, offset + 2, Put16_BE(low))
  BY LenProperties, Put16OfRead16
<1> HIDE DEF high, low, value
<1>4. value \div Base2 = high /\ value % Base2 = low
  BY <1>1, <1>2, Bases, HalvesOfWhole DEF UInt16
<1>5. Put32_BE(value) = Put16_BE(high) \o Put16_BE(low)
  BY <1>4 DEF Put32_BE
<1>6. Put16_BE(high) \in Bytes(2) /\ Put16_BE(low) \in Bytes(2)
  BY <1>1, Put16IsTwoBytes
<1>7. QED
  BY <1>3, <1>5, <1>6, HoldsInARow DEF value

(* The same for eight bytes.                                                *)
LEMMA Put64OfRead64 ==
  ASSUME NEW data \in Seq(Byte), NEW offset \in Nat, offset + 8 <= Len(data)
  PROVE  Holds(data, offset, Put64_BE(Read64_BE(data, offset)))
<1> DEFINE high == Read32_BE(data, offset)
           low == Read32_BE(data, offset + 4)
           value == Read64_BE(data, offset)
<1>1. high \in UInt32 /\ low \in UInt32
  BY Read32IsUInt32
<1>2. value = high * Base4 + low
  BY DEF Read64_BE
<1>3. /\ Holds(data, offset, Put32_BE(high))
      /\ Holds(data, offset + 4, Put32_BE(low))
  BY LenProperties, Put32OfRead32
<1> HIDE DEF high, low, value
<1>4. value \div Base4 = high /\ value % Base4 = low
  BY <1>1, <1>2, Bases, HalvesOfWhole DEF UInt32
<1>5. Put64_BE(value) = Put32_BE(high) \o Put32_BE(low)
  BY <1>4 DEF Put64_BE
<1>6. Put32_BE(high) \in Bytes(4) /\ Put32_BE(low) \in Bytes(4)
  BY <1>1, Put32IsFourBytes
<1>7. QED
  BY <1>3, <1>5, <1>6, HoldsInARow DEF value

-----------------------------------------------------------------------------
(* The hash is a uint64_t.  FNV1A is a recursive function on the prefixes  *)
(* of the bytes: that there is one, and that its values are in range, is   *)
(* shown by the least length for which it would not be so.                 *)

(* Every non-empty set of naturals has a least element.                    *)
LEMMA LeastNatural ==
  ASSUME NEW T, T \subseteq Nat, T # {}
  PROVE  \E n \in T : \A k \in T : ~ (k < n)
<1> DEFINE R == {ss \in Nat \X Nat : ss[1] < ss[2]}
<1>1. IsWellFoundedOn(R, Nat)
  BY NatLessThanWellFounded DEF OpToRel
<1>2. \E n \in T : \A k \in T : ~ (<<k, n>> \in R)
  <2> HIDE DEF R
  <2>1. QED
    BY <1>1, WFMin
<1>3. QED
  BY <1>2

(* One step of the hash stays in range.                                    *)
LEMMA HashStep ==
  ASSUME NEW seed \in UInt64, NEW byte \in Byte
  PROVE  (XorByte(seed, byte) * kFnv1aPrime) % Base8 \in UInt64
<1>1. seed \div Base \in Nat /\ seed % Base \in Byte
  BY Bases DEF UInt64, Byte
<1>2. ByteXor[<<seed % Base, byte>>] \in Byte
  BY <1>1, CodecAssumption
<1>3. XorByte(seed, byte) \in Nat
  BY <1>1, <1>2, Bases DEF XorByte, Byte
<1>4. XorByte(seed, byte) * kFnv1aPrime \in Nat
  BY <1>3, CodecAssumption
<1>5. QED
  BY <1>4, Bases DEF UInt64

(* seed is the hash of the first n bytes, for n up to size.                *)
HashesPrefixes(seed, data, size) ==
  seed = [n \in 0 .. size |->
            IF n = 0
            THEN kFnv1aSeed
            ELSE (XorByte(seed[n - 1], data[n]) * kFnv1aPrime) % Base8]

(* There is such a function, and its values are in range.                  *)
LEMMA PrefixesHaveHashes ==
  ASSUME NEW data \in Seq(Byte), NEW size \in 0 .. Len(data)
  PROVE  \E seed \in [0 .. size -> UInt64] : HashesPrefixes(seed, data, size)
<1> DEFINE Missing ==
      {n \in 0 .. Len(data) :
         ~ \E seed \in [0 .. n -> UInt64] : HashesPrefixes(seed, data, n)}
<1> SUFFICES ASSUME Missing # {} PROVE FALSE
  OBVIOUS
<1>1. Len(data) \in Nat
  BY LenProperties
<1>2. PICK n \in Missing : \A k \in Missing : ~ (k < n)
  <2>1. Missing \subseteq Nat
    BY <1>1
  <2> HIDE DEF Missing
  <2>2. QED
    BY <2>1, LeastNatural
<1>3. n \in 0 .. Len(data)
  BY <1>2
<1>4. CASE n = 0
  <2> DEFINE seed == [k \in 0 .. 0 |-> kFnv1aSeed]
  <2>1. seed \in [0 .. 0 -> UInt64]
    BY CodecAssumption
  <2>2. HashesPrefixes(seed, data, 0)
    BY DEF HashesPrefixes
  <2>3. QED
    BY <1>2, <1>4, <2>1, <2>2
<1>5. CASE n # 0
  <2>1. n \in Nat /\ n - 1 \in 0 .. Len(data) /\ n - 1 < n
    BY <1>1, <1>3, <1>5
  <2>2. n - 1 \notin Missing
    BY <1>2, <2>1
  <2>3. PICK seed \in [0 .. n - 1 -> UInt64] : HashesPrefixes(seed, data, n - 1)
    BY <2>1, <2>2
  <2> DEFINE next == (XorByte(seed[n - 1], data[n]) * kFnv1aPrime) % Base8
             longer == [k \in 0 .. n |-> IF k = n THEN next ELSE seed[k]]
  <2>4. next \in UInt64
    <3>1. seed[n - 1] \in UInt64
      BY <2>1, <2>3
    <3>2. data[n] \in Byte
      BY <1>1, <1>3, <1>5, ElementOfSeq
    <3>3. QED
      BY <3>1, <3>2, HashStep
  <2>5. longer \in [0 .. n -> UInt64]
    <3> HIDE DEF next
    <3>1. QED
      BY <2>1, <2>3, <2>4
  <2>6. HashesPrefixes(longer, data, n)
    <3> DEFINE Rule(f, k) ==
          IF k = 0
          THEN kFnv1aSeed
          ELSE (XorByte(f[k - 1], data[k]) * kFnv1aPrime) % Base8
    <3>1. ASSUME NEW k \in 0 .. n
          PROVE  longer[k] = Rule(longer, k)
      <4>1. CASE k = n
        BY <2>1, <1>5, <4>1
      <4>2. CASE k # n
        <5>1. k \in 0 .. n - 1 /\ (k # 0 => k - 1 \in 0 .. n - 1)
          BY <2>1, <4>2
        <5>2. seed[k] = Rule(seed, k)
          BY <2>3, <5>1 DEF HashesPrefixes
        <5>3. longer[k] = seed[k]
          BY <4>2
        <5>4. k # 0 => longer[k - 1] = seed[k - 1]
          BY <2>1, <5>1
        <5>5. Rule(longer, k) = Rule(seed, k)
          BY <5>4
        <5>6. QED
          BY <5>2, <5>3, <5>5
      <4>3. QED
        BY <4>1, <4>2
    <3>2. longer = [k \in 0 .. n |-> longer[k]]
      OBVIOUS
    <3>3. QED
      <4> HIDE DEF longer
      <4>1. QED
        BY <3>1, <3>2 DEF HashesPrefixes
  <2>7. QED
    <3> HIDE DEF longer
    <3>1. QED
      BY <1>2, <2>5, <2>6
<1>6. QED
  BY <1>4, <1>5

(* Any function that hashes prefixes has values in range.                  *)
LEMMA HashesAreUInt64 ==
  ASSUME NEW data \in Seq(Byte), NEW seed,
         HashesPrefixes(seed, data, Len(data))
  PROVE  \A n \in 0 .. Len(data) : seed[n] \in UInt64
<1> DEFINE Outside == {n \in 0 .. Len(data) : seed[n] \notin UInt64}
<1> SUFFICES ASSUME Outside # {} PROVE FALSE
  OBVIOUS
<1>1. Len(data) \in Nat
  BY LenProperties
<1>2. PICK n \in Outside : \A k \in Outside : ~ (k < n)
  <2>1. Outside \subseteq Nat
    BY <1>1
  <2> HIDE DEF Outside
  <2>2. QED
    BY <2>1, LeastNatural
<1>3. n \in 0 .. Len(data) /\ seed[n] \notin UInt64
  BY <1>2
<1>4. n # 0
  BY <1>3, CodecAssumption DEF HashesPrefixes
<1>5. n - 1 \in 0 .. Len(data) /\ n - 1 < n /\ n \in 1 .. Len(data)
  BY <1>1, <1>3, <1>4
<1>6. seed[n - 1] \in UInt64
  BY <1>2, <1>5
<1>7. data[n] \in Byte
  BY <1>5, ElementOfSeq
<1>8. seed[n] = (XorByte(seed[n - 1], data[n]) * kFnv1aPrime) % Base8
  BY <1>3, <1>4 DEF HashesPrefixes
<1>9. QED
  BY <1>3, <1>6, <1>7, <1>8, HashStep

(* The hash of any bytes is a uint64_t.                                    *)
LEMMA FNV1AIsUInt64 ==
  ASSUME NEW data \in Seq(Byte)
  PROVE  FNV1A(data) \in UInt64
<1> DEFINE chosen == CHOOSE seed : HashesPrefixes(seed, data, Len(data))
<1>1. Len(data) \in 0 .. Len(data)
  BY LenProperties
<1>2. \E seed : HashesPrefixes(seed, data, Len(data))
  BY <1>1, PrefixesHaveHashes
<1>3. HashesPrefixes(chosen, data, Len(data))
  BY <1>2
<1>4. FNV1A(data) = chosen[Len(data)]
  BY DEF FNV1A, HashesPrefixes
<1> HIDE DEF chosen
<1>5. QED
  BY <1>1, <1>3, <1>4, HashesAreUInt64

-----------------------------------------------------------------------------
(* Messages as bytes.                                                      *)

(* How many bytes an action's own fields are, and its code.                *)
LEMMA Widths ==
  /\ PayloadSize["Login"] = 10 /\ PayloadSize["Ping"] = 12
  /\ PayloadSize["Acknowledge"] = 8
  /\ Action["Login"] = 2 /\ Action["Ping"] = 3 /\ Action["Acknowledge"] = 1
  /\ kMessageHeaderSize = 14 /\ kMessageSize = 22
BY DEF PayloadSize, Action, kMessageHeaderSize, kMessageSize

(* A number that fits in a size, or the code of an action.                 *)
LEMMA SmallIsUInt32 == \A n \in 0 .. 34 : n \in UInt32
BY Bases DEF UInt32

(* A function on 1 .. n is a string of n bytes.                            *)
LEMMA TupleIsBytes ==
  ASSUME NEW n \in Nat, NEW f \in [1 .. n -> Byte]
  PROVE  f \in Bytes(n)
<1>1. f \in Seq(Byte)
  BY SeqDef
<1>2. DOMAIN f = 1 .. n /\ DOMAIN f = 1 .. Len(f) /\ Len(f) \in Nat
  BY <1>1, LenProperties
<1>3. Len(f) = n
  BY <1>2
<1>4. QED
  BY <1>1, <1>3 DEF Bytes

(* The fields of a message of each kind are as many bytes as they should.  *)
LEMMA LoginPayloadIsBytes ==
  ASSUME NEW m \in LoginMessage
  PROVE  /\ Put32_BE(m.session) \in Bytes(4) /\ m.address \in Bytes(4)
         /\ Put32_BE(m.session) \o m.address \in Bytes(4 + 4)
         /\ Put16_BE(m.port) \in Bytes(2)
         /\ LoginPayload(m) \in Bytes(10)
<1>1. /\ m.session \in UInt32 /\ m.port \in UInt16
      /\ m.address \in [1 .. 4 -> Byte]
  BY DEF LoginMessage
<1>2. /\ Put32_BE(m.session) \in Bytes(4) /\ m.address \in Bytes(4)
      /\ Put16_BE(m.port) \in Bytes(2)
  BY <1>1, Put32IsFourBytes, Put16IsTwoBytes, TupleIsBytes
<1>3. Put32_BE(m.session) \o m.address \in Bytes(4 + 4)
  BY <1>2, BytesInARow
<1>4. (Put32_BE(m.session) \o m.address) \o Put16_BE(m.port)
        \in Bytes((4 + 4) + 2)
  BY <1>2, <1>3, BytesInARow
<1>5. QED
  BY <1>2, <1>3, <1>4 DEF LoginPayload

(* The player id and the last acknowledgement of a ping.                   *)
LEMMA PingPayloadIsBytes ==
  ASSUME NEW m \in PingMessage
  PROVE  /\ Put32_BE(m.playerId) \in Bytes(4)
         /\ Put64_BE(m.lastAck) \in Bytes(8)
         /\ PingPayload(m) \in Bytes(12)
<1>1. m.playerId \in UInt32 /\ m.lastAck \in UInt64
  BY DEF PingMessage
<1>2. Put32_BE(m.playerId) \in Bytes(4) /\ Put64_BE(m.lastAck) \in Bytes(8)
  BY <1>1, Put32IsFourBytes, Put64IsEightBytes
<1>3. Put32_BE(m.playerId) \o Put64_BE(m.lastAck) \in Bytes(4 + 8)
  BY <1>2, BytesInARow
<1>4. QED
  BY <1>2, <1>3 DEF PingPayload

(* The number that is acknowledged.                                        *)
LEMMA AcknowledgePayloadIsBytes ==
  ASSUME NEW m \in AcknowledgeMessage
  PROVE  AcknowledgePayload(m) \in Bytes(8)
<1>1. m.acked \in UInt64
  BY DEF AcknowledgeMessage
<1>2. QED
  BY <1>1, Put64IsEightBytes DEF AcknowledgePayload

(* A message is of one of three kinds, and its action says of which.       *)
LEMMA Kinds ==
  ASSUME NEW m \in Message
  PROVE  /\ m.messageId \in UInt32
         /\ \/ m \in LoginMessage /\ m.action = "Login"
            \/ m \in PingMessage /\ m.action = "Ping"
            \/ m \in AcknowledgeMessage /\ m.action = "Acknowledge"
<1>1. CASE m \in LoginMessage
  BY <1>1 DEF LoginMessage
<1>2. CASE m \in PingMessage
  BY <1>2 DEF PingMessage
<1>3. CASE m \in AcknowledgeMessage
  BY <1>3 DEF AcknowledgeMessage
<1>4. QED
  BY <1>1, <1>2, <1>3 DEF Message

(* The fields of any message, as many bytes as its action says.            *)
LEMMA PayloadIsBytes ==
  ASSUME NEW m \in Message
  PROVE  /\ Payload(m) \in Bytes(PayloadSize[m.action])
         /\ PayloadSize[m.action] \in 8 .. 12
<1>1. CASE m \in LoginMessage /\ m.action = "Login"
  <2>1. Payload(m) = LoginPayload(m)
    BY <1>1 DEF Payload
  <2>2. QED
    BY <1>1, <2>1, LoginPayloadIsBytes, Widths
<1>2. CASE m \in PingMessage /\ m.action = "Ping"
  <2>1. Payload(m) = PingPayload(m)
    BY <1>2 DEF Payload
  <2>2. QED
    BY <1>2, <2>1, PingPayloadIsBytes, Widths
<1>3. CASE m \in AcknowledgeMessage /\ m.action = "Acknowledge"
  <2>1. Payload(m) = AcknowledgePayload(m)
    BY <1>3 DEF Payload
  <2>2. QED
    BY <1>3, <2>1, AcknowledgePayloadIsBytes, Widths
<1>4. QED
  BY <1>1, <1>2, <1>3, Kinds

(* The code of an action is a uint32_t.                                    *)
LEMMA ActionIsUInt32 == \A m \in Message : Action[m.action] \in UInt32
<1>1. \A m \in Message : Action[m.action] \in 0 .. 34
  BY Kinds, Widths
<1>2. QED
  BY <1>1, SmallIsUInt32

(* The start of a body, and the body, are bytes.                           *)
LEMMA BodyIsBytes ==
  ASSUME NEW m \in Message
  PROVE  /\ Put32_BE(Action[m.action]) \in Bytes(4)
         /\ Put32_BE(m.messageId) \in Bytes(4)
         /\ Put32_BE(Action[m.action]) \o Put32_BE(m.messageId) \in Bytes(4 + 4)
         /\ Body(m) \in Bytes(8 + PayloadSize[m.action])
<1>1. Put32_BE(Action[m.action]) \in Bytes(4)
  BY ActionIsUInt32, Put32IsFourBytes
<1>2. Put32_BE(m.messageId) \in Bytes(4)
  BY Kinds, Put32IsFourBytes
<1>3. Put32_BE(Action[m.action]) \o Put32_BE(m.messageId) \in Bytes(4 + 4)
  BY <1>1, <1>2, BytesInARow
<1>4. /\ PayloadSize[m.action] \in Nat
      /\ Payload(m) \in Bytes(PayloadSize[m.action])
  BY PayloadIsBytes
<1>5. (Put32_BE(Action[m.action]) \o Put32_BE(m.messageId)) \o Payload(m)
        \in Bytes((4 + 4) + PayloadSize[m.action])
  BY <1>3, <1>4, BytesInARow
<1>6. (4 + 4) + PayloadSize[m.action] = 8 + PayloadSize[m.action]
  BY <1>4
<1>7. QED
  BY <1>1, <1>2, <1>3, <1>5, <1>6 DEF Body

(* The span that is hashed is a header longer than the body, and its hash  *)
(* is a uint64_t.                                                          *)
LEMMA SpanIsHashed ==
  ASSUME NEW m \in Message
  PROVE  /\ HashOf(m) \in UInt64
         /\ Len(HashedSpan(m)) = 22 + PayloadSize[m.action]
         /\ Len(HashedSpan(m)) \in UInt32
<1> DEFINE zeros == [i \in 1 .. kMessageHeaderSize |-> 0]
           size == PayloadSize[m.action]
<1>1. HashedSpan(m) = Body(m) \o zeros
  BY DEF HashedSpan
<1>2. zeros \in [1 .. 14 -> Byte]
  BY Widths, Bases DEF Byte
<1>3. size \in Nat /\ Body(m) \in Bytes(8 + size)
  BY PayloadIsBytes, BodyIsBytes
<1> HIDE DEF zeros, size
<1>4. zeros \in Bytes(14)
  BY <1>2, TupleIsBytes
<1>5. Body(m) \o zeros \in Bytes((8 + size) + 14)
  BY <1>3, <1>4, BytesInARow
<1>6. HashedSpan(m) \in Seq(Byte) /\ Len(HashedSpan(m)) = 22 + size
  BY <1>1, <1>3, <1>5 DEF Bytes
<1>7. Len(HashedSpan(m)) \in UInt32
  <2>1. size \in 8 .. 12
    BY PayloadIsBytes DEF size
  <2>2. Len(HashedSpan(m)) \in 0 .. 34
    BY <1>6, <2>1
  <2>3. QED
    BY <2>2, SmallIsUInt32
<1>8. QED
  BY <1>6, <1>7, FNV1AIsUInt64 DEF HashOf, size

(* A header is fourteen bytes: two, eight and four.                        *)
LEMMA HeaderIsBytes ==
  ASSUME NEW hash \in UInt64, NEW size \in UInt32
  PROVE  /\ kMagicBytes \in Bytes(2) /\ Put64_BE(hash) \in Bytes(8)
         /\ kMagicBytes \o Put64_BE(hash) \in Bytes(2 + 8)
         /\ Put32_BE(size) \in Bytes(4)
         /\ Header(hash, size) \in Bytes(14)
<1>1. kMagicBytes \in Bytes(2)
  <2>1. 190 % Base \in Byte /\ 239 % Base \in Byte
    BY Bases DEF Byte
  <2>2. QED
    BY <2>1 DEF kMagicBytes, Bytes
<1>2. Put64_BE(hash) \in Bytes(8) /\ Put32_BE(size) \in Bytes(4)
  BY Put64IsEightBytes, Put32IsFourBytes
<1>3. kMagicBytes \o Put64_BE(hash) \in Bytes(2 + 8)
  BY <1>1, <1>2, BytesInARow
<1>4. (kMagicBytes \o Put64_BE(hash)) \o Put32_BE(size) \in Bytes((2 + 8) + 4)
  BY <1>2, <1>3, BytesInARow
<1>5. QED
  BY <1>1, <1>2, <1>3, <1>4 DEF Header

(* A serialised message is bytes, and each part is at its offset.          *)
LEMMA Layout ==
  ASSUME NEW m \in Message
  PROVE  /\ Serialize(m) \in Bytes(22 + PayloadSize[m.action])
         /\ Holds(Serialize(m), 0, kMagicBytes)
         /\ Holds(Serialize(m), 2, Put64_BE(HashOf(m)))
         /\ Holds(Serialize(m), 10, Put32_BE(Len(HashedSpan(m))))
         /\ Holds(Serialize(m), 14, Put32_BE(Action[m.action]))
         /\ Holds(Serialize(m), 18, Put32_BE(m.messageId))
         /\ Holds(Serialize(m), 22, Payload(m))
<1> DEFINE data == Serialize(m)
           hash == HashOf(m)
           size == Len(HashedSpan(m))
           own == PayloadSize[m.action]
           start == kMagicBytes \o Put64_BE(hash)
           ids == Put32_BE(Action[m.action]) \o Put32_BE(m.messageId)
<1>1. own \in 8 .. 12 /\ hash \in UInt64 /\ size \in UInt32
  BY PayloadIsBytes, SpanIsHashed
<1>2. data = Header(hash, size) \o Body(m)
  BY DEF Serialize
<1>3. /\ Header(hash, size) = start \o Put32_BE(size)
      /\ Body(m) = ids \o Payload(m)
  BY DEF Header, Body
<1>4. /\ kMagicBytes \in Bytes(2) /\ Put64_BE(hash) \in Bytes(8)
      /\ start \in Bytes(10) /\ Put32_BE(size) \in Bytes(4)
      /\ Header(hash, size) \in Bytes(14)
  BY <1>1, HeaderIsBytes
<1>5. /\ Put32_BE(Action[m.action]) \in Bytes(4)
      /\ Put32_BE(m.messageId) \in Bytes(4)
      /\ ids \in Bytes(8) /\ Payload(m) \in Bytes(own)
      /\ Body(m) \in Bytes(8 + own)
  BY BodyIsBytes, PayloadIsBytes
<1> HIDE DEF data, hash, size, own
<1>6. own \in Nat /\ 8 + own \in Nat
  BY <1>1
<1>7. Header(hash, size) \o Body(m) \in Bytes(14 + (8 + own))
  BY <1>4, <1>5, <1>6, BytesInARow
<1>8. data \in Bytes(22 + own)
  BY <1>2, <1>6, <1>7
<1>9. data \in Seq(Byte) /\ Holds(data, 0, data)
  BY <1>8, LenProperties DEF Bytes, Holds
<1>10. Holds(data, 0, Header(hash, size)) /\ Holds(data, 0 + 14, Body(m))
  <2>1. Holds(data, 0, Header(hash, size) \o Body(m))
    BY <1>2, <1>9
  <2>2. QED
    BY <1>4, <1>5, <1>6, <1>9, <2>1, HoldsBoth
<1>11. Holds(data, 0, start) /\ Holds(data, 0 + 10, Put32_BE(size))
  <2> HIDE DEF start
  <2>1. QED
    BY <1>3, <1>4, <1>9, <1>10, HoldsBoth
<1>12. Holds(data, 0, kMagicBytes) /\ Holds(data, 0 + 2, Put64_BE(hash))
  BY <1>4, <1>9, <1>11, HoldsBoth
<1>13. Holds(data, 14, ids) /\ Holds(data, 14 + 8, Payload(m))
  <2> HIDE DEF ids
  <2>1. Holds(data, 14, ids \o Payload(m))
    BY <1>3, <1>10
  <2>2. QED
    BY <1>5, <1>6, <1>9, <2>1, HoldsBoth
<1>14. /\ Holds(data, 14, Put32_BE(Action[m.action]))
       /\ Holds(data, 14 + 4, Put32_BE(m.messageId))
  BY <1>5, <1>9, <1>13, HoldsBoth
<1>15. QED
  BY <1>8, <1>11, <1>12, <1>13, <1>14 DEF data, hash, size, own

-----------------------------------------------------------------------------
(* What Deserialize makes of any bytes.                                    *)

(* From any bytes, the fields that are read are those of a message.        *)
LEMMA FieldsHaveTheirTypes ==
  ASSUME NEW data \in Seq(Byte)
  PROVE  /\ LoginOf(data) \in LoginMessage
         /\ PingOf(data) \in PingMessage
         /\ AcknowledgeOf(data) \in AcknowledgeMessage
<1>1. MessageId(data) \in UInt32
  BY Read32IsUInt32, Widths DEF MessageId
<1>2. /\ Read32_BE(data, 22) \in UInt32 /\ Read16_BE(data, 22 + 8) \in UInt16
      /\ Read64_BE(data, 22 + 4) \in UInt64 /\ Read64_BE(data, 22) \in UInt64
  BY Read16IsUInt16, Read32IsUInt32, Read64IsUInt64
<1>3. [i \in 1 .. 4 |-> Read(data, 22 + 3 + i)] \in [1 .. 4 -> Byte]
  BY ReadIsByte
<1>4. LoginOf(data) \in LoginMessage
  BY <1>1, <1>2, <1>3, Widths DEF LoginOf, LoginMessage
<1>5. PingOf(data) \in PingMessage
  BY <1>1, <1>2, Widths DEF PingOf, PingMessage
<1>6. AcknowledgeOf(data) \in AcknowledgeMessage
  BY <1>1, <1>2, Widths DEF AcknowledgeOf, AcknowledgeMessage
<1>7. QED
  BY <1>4, <1>5, <1>6

(* Bytes are one message at most: their action is one number.              *)
LEMMA OneActionAtMost ==
  ASSUME NEW data, NEW a \in {"Login", "Ping", "Acknowledge"},
         NEW b \in {"Login", "Ping", "Acknowledge"}, IsA(data, a), IsA(data, b)
  PROVE  a = b
<1>1. Action[a] = Action[b]
  BY DEF IsA
<1>2. QED
  BY <1>1, Widths

(* The result is what the Deserialize of the action makes of the bytes.    *)
LEMMA Results ==
  ASSUME NEW data
  PROVE  /\ IsA(data, "Login") => Deserialize(data) = LoginOf(data)
         /\ IsA(data, "Ping") => Deserialize(data) = PingOf(data)
         /\ IsA(data, "Acknowledge") => Deserialize(data) = AcknowledgeOf(data)
         /\ \/ IsA(data, "Login") \/ IsA(data, "Ping")
            \/ IsA(data, "Acknowledge") \/ Deserialize(data) = NoMessage
<1>1. /\ ~ (IsA(data, "Login") /\ IsA(data, "Ping"))
      /\ ~ (IsA(data, "Login") /\ IsA(data, "Acknowledge"))
      /\ ~ (IsA(data, "Ping") /\ IsA(data, "Acknowledge"))
  BY OneActionAtMost
<1>2. QED
  BY <1>1 DEF Deserialize

(* Any bytes are a message, whose fields are all there, or nothing.        *)
LEMMA DeserializeIsSafe ==
  ASSUME NEW data \in Seq(Byte)
  PROVE  \/ Deserialize(data) = NoMessage
         \/ /\ Deserialize(data) \in Message
            /\ Len(data) >= 22 + PayloadSize[Deserialize(data).action]
<1>1. Len(data) \in Nat
  BY LenProperties
<1>2. CASE IsA(data, "Login")
  <2>1. Deserialize(data) = LoginOf(data)
    BY <1>2, Results
  <2>2. Deserialize(data) \in Message /\ Deserialize(data).action = "Login"
    BY <2>1, FieldsHaveTheirTypes DEF Message, LoginMessage
  <2>3. Len(data) >= 22 + PayloadSize["Login"]
    BY <1>1, <1>2, Widths DEF IsA
  <2>4. QED
    BY <2>2, <2>3
<1>3. CASE IsA(data, "Ping")
  <2>1. Deserialize(data) = PingOf(data)
    BY <1>3, Results
  <2>2. Deserialize(data) \in Message /\ Deserialize(data).action = "Ping"
    BY <2>1, FieldsHaveTheirTypes DEF Message, PingMessage
  <2>3. Len(data) >= 22 + PayloadSize["Ping"]
    BY <1>1, <1>3, Widths DEF IsA
  <2>4. QED
    BY <2>2, <2>3
<1>4. CASE IsA(data, "Acknowledge")
  <2>1. Deserialize(data) = AcknowledgeOf(data)
    BY <1>4, Results
  <2>2. /\ Deserialize(data) \in Message
        /\ Deserialize(data).action = "Acknowledge"
    BY <2>1, FieldsHaveTheirTypes DEF Message, AcknowledgeMessage
  <2>3. Len(data) >= 22 + PayloadSize["Acknowledge"]
    BY <1>1, <1>4, Widths DEF IsA
  <2>4. QED
    BY <2>2, <2>3
<1>5. QED
  BY <1>2, <1>3, <1>4, Results

(* A message that is read from bytes in which there is room for it has its *)
(* body there, at the offset where Serialize puts it.                      *)
HasBody(data, m) == Holds(data, kMessageHeaderSize, Body(m))

(* The parts of a body in a row are the body.                              *)
LEMMA PartsAreBody ==
  ASSUME NEW data \in Seq(Byte), NEW m \in Message,
         Holds(data, 14, Put32_BE(Action[m.action])),
         Holds(data, 18, Put32_BE(m.messageId)),
         Holds(data, 22, Payload(m))
  PROVE  HasBody(data, m)
<1> DEFINE action == Put32_BE(Action[m.action])
           id == Put32_BE(m.messageId)
           own == PayloadSize[m.action]
<1>1. /\ action \in Bytes(4) /\ id \in Bytes(4) /\ action \o id \in Bytes(8)
      /\ own \in Nat /\ Payload(m) \in Bytes(own)
  BY BodyIsBytes, PayloadIsBytes
<1>2. Body(m) = (action \o id) \o Payload(m)
  BY DEF Body
<1>3. /\ Holds(data, 14, action) /\ Holds(data, 14 + 4, id)
      /\ Holds(data, 14 + 8, Payload(m))
  OBVIOUS
<1> HIDE DEF action, id, own
<1>4. Holds(data, 14, action \o id)
  BY <1>1, <1>3, HoldsInARow
<1>5. Holds(data, 14, (action \o id) \o Payload(m))
  BY <1>1, <1>3, <1>4, HoldsInARow
<1>6. QED
  BY <1>2, <1>5, Widths DEF HasBody

(* What IsA looks at of a datagram: its size and its action.               *)
LEMMA RoomForFields ==
  ASSUME NEW data \in Seq(Byte),
         NEW action \in {"Login", "Ping", "Acknowledge"}, IsA(data, action)
  PROVE  /\ 22 + PayloadSize[action] <= Len(data)
         /\ Holds(data, 14, Put32_BE(Action[action]))
         /\ Holds(data, 18, Put32_BE(MessageId(data)))
<1>1. Len(data) \in Nat /\ PayloadSize[action] \in 8 .. 12
  BY LenProperties, Widths
<1>2. 22 + PayloadSize[action] <= Len(data)
  BY <1>1, Widths DEF IsA
<1>3. Read32_BE(data, 14) = Action[action]
  BY Widths DEF IsA
<1>4. 14 + 4 <= Len(data) /\ 18 + 4 <= Len(data)
  BY <1>1, <1>2
<1>5. Holds(data, 14, Put32_BE(Read32_BE(data, 14)))
  BY <1>4, Put32OfRead32
<1>6. Holds(data, 18, Put32_BE(Read32_BE(data, 18)))
  BY <1>4, Put32OfRead32
<1>7. MessageId(data) = Read32_BE(data, 18)
  BY Widths DEF MessageId
<1>8. QED
  BY <1>2, <1>3, <1>5, <1>6, <1>7

(* The fields of a login are where Serialize puts them.                    *)
LEMMA LoginIsThere ==
  ASSUME NEW data \in Seq(Byte), IsA(data, "Login")
  PROVE  HasBody(data, LoginOf(data))
<1> DEFINE m == LoginOf(data)
<1>1. m \in LoginMessage /\ m \in Message /\ m.action = "Login"
  BY FieldsHaveTheirTypes DEF Message, LoginMessage
<1>2. /\ m.messageId = MessageId(data)
      /\ m.session = Read32_BE(data, 22) /\ m.port = Read16_BE(data, 30)
      /\ m.address = [i \in 1 .. 4 |-> Read(data, 25 + i)]
  BY Widths DEF LoginOf
<1> HIDE DEF m
<1>3. 32 <= Len(data)
  BY RoomForFields, Widths
<1>4. /\ Holds(data, 14, Put32_BE(Action[m.action]))
      /\ Holds(data, 18, Put32_BE(m.messageId))
  BY <1>1, <1>2, RoomForFields
<1>5. 22 + 4 <= Len(data) /\ 30 + 2 <= Len(data)
  BY <1>3, LenProperties
<1>6. /\ Holds(data, 22, Put32_BE(m.session))
      /\ Holds(data, 22 + 8, Put16_BE(m.port))
  BY <1>2, <1>5, Put32OfRead32, Put16OfRead16
<1>7. Holds(data, 22 + 4, m.address)
  <2>1. m.address \in [1 .. 4 -> Byte] /\ Len(m.address) = 4
    BY <1>1, LoginPayloadIsBytes DEF LoginMessage, Bytes
  <2>2. ASSUME NEW i \in 1 .. 4
        PROVE  data[26 + i] = m.address[i]
    <3>1. m.address[i] = Read(data, 25 + i)
      BY <1>2
    <3>2. QED
      BY <1>3, <3>1, LenProperties DEF Read
  <2>3. QED
    BY <1>3, <2>1, <2>2, LenProperties DEF Holds
<1>8. Holds(data, 22, Put32_BE(m.session) \o m.address)
  BY <1>1, <1>6, <1>7, LoginPayloadIsBytes, HoldsInARow
<1>9. Holds(data, 22, LoginPayload(m))
  <2>1. /\ Put32_BE(m.session) \o m.address \in Bytes(8)
        /\ Put16_BE(m.port) \in Bytes(2)
    BY <1>1, LoginPayloadIsBytes
  <2>2. QED
    BY <1>6, <1>8, <2>1, HoldsInARow DEF LoginPayload
<1>10. QED
  BY <1>1, <1>4, <1>9, PartsAreBody DEF Payload, m

(* The same for a ping.                                                    *)
LEMMA PingIsThere ==
  ASSUME NEW data \in Seq(Byte), IsA(data, "Ping")
  PROVE  HasBody(data, PingOf(data))
<1> DEFINE m == PingOf(data)
<1>1. m \in PingMessage /\ m \in Message /\ m.action = "Ping"
  BY FieldsHaveTheirTypes DEF Message, PingMessage
<1>2. /\ m.messageId = MessageId(data)
      /\ m.playerId = Read32_BE(data, 22) /\ m.lastAck = Read64_BE(data, 26)
  BY Widths DEF PingOf
<1> HIDE DEF m
<1>3. 34 <= Len(data)
  BY RoomForFields, Widths
<1>4. /\ Holds(data, 14, Put32_BE(Action[m.action]))
      /\ Holds(data, 18, Put32_BE(m.messageId))
  BY <1>1, <1>2, RoomForFields
<1>5. 22 + 4 <= Len(data) /\ 26 + 8 <= Len(data)
  BY <1>3, LenProperties
<1>6. /\ Holds(data, 22, Put32_BE(m.playerId))
      /\ Holds(data, 22 + 4, Put64_BE(m.lastAck))
  BY <1>2, <1>5, Put32OfRead32, Put64OfRead64
<1>7. Holds(data, 22, PingPayload(m))
  BY <1>1, <1>6, PingPayloadIsBytes, HoldsInARow DEF PingPayload
<1>8. QED
  BY <1>1, <1>4, <1>7, PartsAreBody DEF Payload, m

(* The same for an acknowledgement.                                        *)
LEMMA AcknowledgeIsThere ==
  ASSUME NEW data \in Seq(Byte), IsA(data, "Acknowledge")
  PROVE  HasBody(data, AcknowledgeOf(data))
<1> DEFINE m == AcknowledgeOf(data)
<1>1. /\ m \in AcknowledgeMessage /\ m \in Message
      /\ m.action = "Acknowledge"
  BY FieldsHaveTheirTypes DEF Message, AcknowledgeMessage
<1>2. m.messageId = MessageId(data) /\ m.acked = Read64_BE(data, 22)
  BY Widths DEF AcknowledgeOf
<1> HIDE DEF m
<1>3. 22 + 8 <= Len(data)
  BY RoomForFields, Widths
<1>4. /\ Holds(data, 14, Put32_BE(Action[m.action]))
      /\ Holds(data, 18, Put32_BE(m.messageId))
  BY <1>1, <1>2, RoomForFields
<1>5. Holds(data, 22, AcknowledgePayload(m))
  BY <1>2, <1>3, Put64OfRead64 DEF AcknowledgePayload
<1>6. QED
  BY <1>1, <1>4, <1>5, PartsAreBody DEF Payload, m

(* Whatever bytes are accepted have the message at its offsets.            *)
LEMMA AcceptedIsThere ==
  ASSUME NEW data \in Seq(Byte), Deserialize(data) # NoMessage
  PROVE  HasBody(data, Deserialize(data))
BY Results, LoginIsThere, PingIsThere, AcknowledgeIsThere

(* What was serialised has the header and the action of its message.       *)
LEMMA SerializedIsA ==
  ASSUME NEW m \in Message, HashOf(m) # 0
  PROVE  IsA(Serialize(m), m.action)
<1> DEFINE data == Serialize(m)
<1>1. PayloadSize[m.action] \in 8 .. 12
  BY PayloadIsBytes
<1>2. data \in Seq(Byte) /\ Len(data) = 22 + PayloadSize[m.action]
  BY Layout DEF Bytes
<1>3. HeaderOf(data).magic = kMagicBytes
  <2>1. 190 % Base \in Byte /\ 239 % Base \in Byte
    BY Bases DEF Byte
  <2>2. Len(kMagicBytes) = 2
    BY DEF kMagicBytes
  <2>3. data[0 + 1] = kMagicBytes[1] /\ data[0 + 2] = kMagicBytes[2]
    BY <2>2, Layout DEF Holds
  <2>4. Read(data, 0) = kMagicBytes[1] /\ Read(data, 1) = kMagicBytes[2]
    BY <1>1, <1>2, <2>3 DEF Read
  <2>5. HeaderOf(data).magic = <<kMagicBytes[1], kMagicBytes[2]>>
    BY <2>4 DEF HeaderOf
  <2>6. QED
    BY <2>5 DEF kMagicBytes
<1>4. HeaderOf(data).hash > 0
  <2>1. HashOf(m) \in UInt64
    BY SpanIsHashed
  <2>2. Read64_BE(data, 2) = HashOf(m)
    BY <1>2, <2>1, Layout, Read64OfPut64
  <2>3. HashOf(m) > 0
    BY <2>1, Bases DEF UInt64
  <2>4. QED
    BY <2>2, <2>3 DEF HeaderOf
<1>5. HeaderOf(data).payloadSize = 22 + PayloadSize[m.action]
  <2>1. Len(HashedSpan(m)) = 22 + PayloadSize[m.action]
    BY SpanIsHashed
  <2>2. Len(HashedSpan(m)) \in UInt32
    BY SpanIsHashed
  <2>3. Read32_BE(data, 10) = Len(HashedSpan(m))
    BY <1>2, <2>2, Layout, Read32OfPut32
  <2>4. QED
    BY <2>1, <2>3 DEF HeaderOf
<1>6. Read32_BE(data, 14) = Action[m.action]
  BY <1>2, ActionIsUInt32, Layout, Read32OfPut32
<1> HIDE DEF data
<1>7. IsMessage(data)
  <2>1. IsHeader(HeaderOf(data))
    BY <1>1, <1>3, <1>4, <1>5 DEF IsHeader
  <2>2. /\ Len(data) >= 14 /\ Len(data) - 14 >= 8
        /\ HeaderOf(data).payloadSize <= kNetworkBufferSize
        /\ HeaderOf(data).payloadSize <= Len(data)
    BY <1>1, <1>2, <1>5, CodecAssumption
  <2>3. QED
    BY <2>1, <2>2, Widths DEF IsMessage
<1>8. Len(data) - 22 >= PayloadSize[m.action]
  BY <1>1, <1>2
<1>9. QED
  BY <1>6, <1>7, <1>8, Widths DEF IsA, data

(* A login that is written is read back.                                   *)
LEMMA LoginIsReadBack ==
  ASSUME NEW m \in LoginMessage, HashOf(m) # 0
  PROVE  Deserialize(Serialize(m)) = m
<1> DEFINE data == Serialize(m)
<1>1. m \in Message /\ m.action = "Login" /\ m.messageId \in UInt32
  BY DEF LoginMessage, Message
<1>2. /\ m.session \in UInt32 /\ m.port \in UInt16
      /\ m.address \in [1 .. 4 -> Byte]
  BY DEF LoginMessage
<1>3. data \in Seq(Byte)
  BY <1>1, Layout DEF Bytes
<1>4. Deserialize(data) = LoginOf(data)
  BY <1>1, SerializedIsA, Results
<1>5. Holds(data, 22, LoginPayload(m)) /\ Holds(data, 18, Put32_BE(m.messageId))
  BY <1>1, Layout DEF Payload
<1> HIDE DEF data
<1>6. MessageId(data) = m.messageId
  BY <1>1, <1>3, <1>5, Read32OfPut32, Widths DEF MessageId
<1>7. /\ Holds(data, 22, Put32_BE(m.session) \o m.address)
      /\ Holds(data, 22 + (4 + 4), Put16_BE(m.port))
  <2>1. Holds(data, 22, (Put32_BE(m.session) \o m.address) \o Put16_BE(m.port))
    BY <1>5 DEF LoginPayload
  <2>2. /\ Put32_BE(m.session) \o m.address \in Bytes(4 + 4)
        /\ Put16_BE(m.port) \in Bytes(2)
    BY LoginPayloadIsBytes
  <2>3. QED
    BY <1>3, <2>1, <2>2, HoldsBoth
<1>8. Holds(data, 22, Put32_BE(m.session)) /\ Holds(data, 22 + 4, m.address)
  BY <1>3, <1>7, LoginPayloadIsBytes, HoldsBoth
<1>9. Read32_BE(data, 22) = m.session
  BY <1>2, <1>3, <1>8, Read32OfPut32
<1>10. Read16_BE(data, 30) = m.port
  BY <1>2, <1>3, <1>7, Read16OfPut16
<1>11. [i \in 1 .. 4 |-> Read(data, 22 + 3 + i)] = m.address
  <2>1. ASSUME NEW i \in 1 .. 4
        PROVE  Read(data, 22 + 3 + i) = m.address[i]
    <3>1. Len(m.address) = 4
      BY LoginPayloadIsBytes DEF Bytes
    <3>2. 26 + 4 <= Len(data) /\ data[26 + i] = m.address[i]
      BY <1>8, <3>1 DEF Holds
    <3>3. QED
      BY <1>3, <3>2, LenProperties DEF Read
  <2>2. QED
    BY <1>2, <2>1
<1>12. LoginOf(data) = m
  BY <1>1, <1>6, <1>9, <1>10, <1>11, Widths DEF LoginOf, LoginMessage
<1>13. QED
  BY <1>4, <1>12 DEF data

(* The same for a ping.                                                    *)
LEMMA PingIsReadBack ==
  ASSUME NEW m \in PingMessage, HashOf(m) # 0
  PROVE  Deserialize(Serialize(m)) = m
<1> DEFINE data == Serialize(m)
<1>1. m \in Message /\ m.action = "Ping" /\ m.messageId \in UInt32
  BY DEF PingMessage, Message
<1>2. m.playerId \in UInt32 /\ m.lastAck \in UInt64
  BY DEF PingMessage
<1>3. data \in Seq(Byte)
  BY <1>1, Layout DEF Bytes
<1>4. Deserialize(data) = PingOf(data)
  BY <1>1, SerializedIsA, Results
<1>5. Holds(data, 22, PingPayload(m)) /\ Holds(data, 18, Put32_BE(m.messageId))
  BY <1>1, Layout DEF Payload
<1> HIDE DEF data
<1>6. MessageId(data) = m.messageId
  BY <1>1, <1>3, <1>5, Read32OfPut32, Widths DEF MessageId
<1>7. /\ Holds(data, 22, Put32_BE(m.playerId))
      /\ Holds(data, 22 + 4, Put64_BE(m.lastAck))
  BY <1>3, <1>5, PingPayloadIsBytes, HoldsBoth DEF PingPayload
<1>8. Read32_BE(data, 22) = m.playerId
  BY <1>2, <1>3, <1>7, Read32OfPut32
<1>9. Read64_BE(data, 26) = m.lastAck
  BY <1>2, <1>3, <1>7, Read64OfPut64
<1>10. PingOf(data) = m
  BY <1>1, <1>6, <1>8, <1>9, Widths DEF PingOf, PingMessage
<1>11. QED
  BY <1>4, <1>10 DEF data

(* The same for an acknowledgement.                                        *)
LEMMA AcknowledgeIsReadBack ==
  ASSUME NEW m \in AcknowledgeMessage, HashOf(m) # 0
  PROVE  Deserialize(Serialize(m)) = m
<1> DEFINE data == Serialize(m)
<1>1. m \in Message /\ m.action = "Acknowledge" /\ m.messageId \in UInt32
  BY DEF AcknowledgeMessage, Message
<1>2. m.acked \in UInt64
  BY DEF AcknowledgeMessage
<1>3. data \in Seq(Byte)
  BY <1>1, Layout DEF Bytes
<1>4. Deserialize(data) = AcknowledgeOf(data)
  BY <1>1, SerializedIsA, Results
<1>5. /\ Holds(data, 22, Put64_BE(m.acked))
      /\ Holds(data, 18, Put32_BE(m.messageId))
  BY <1>1, Layout DEF Payload, AcknowledgePayload
<1> HIDE DEF data
<1>6. MessageId(data) = m.messageId
  BY <1>1, <1>3, <1>5, Read32OfPut32, Widths DEF MessageId
<1>7. Read64_BE(data, 22) = m.acked
  BY <1>2, <1>3, <1>5, Read64OfPut64
<1>8. AcknowledgeOf(data) = m
  BY <1>1, <1>6, <1>7, Widths DEF AcknowledgeOf, AcknowledgeMessage
<1>9. QED
  BY <1>4, <1>8 DEF data

(* Every message whose hash is not 0 is read as it was written.            *)
THEOREM WrittenIsReadBack ==
  ASSUME NEW m \in Message, HashOf(m) # 0
  PROVE  Deserialize(Serialize(m)) = m
BY LoginIsReadBack, PingIsReadBack, AcknowledgeIsReadBack DEF Message

(* The exception is a real one: a message whose hash is 0 is turned down   *)
(* by IsHeader, whoever sent it.                                           *)
THEOREM ZeroHashIsTurnedDown ==
  ASSUME NEW m \in Message, HashOf(m) = 0
  PROVE  Deserialize(Serialize(m)) = NoMessage
<1>1. Serialize(m) \in Seq(Byte)
  BY Layout DEF Bytes
<1>2. Read64_BE(Serialize(m), 2) = 0
  BY <1>1, SpanIsHashed, Layout, Read64OfPut64
<1>3. ~ IsHeader(HeaderOf(Serialize(m)))
  BY <1>2 DEF IsHeader, HeaderOf
<1>4. \A action \in {"Login", "Ping", "Acknowledge"} :
        ~ IsA(Serialize(m), action)
  BY <1>3 DEF IsA, IsMessage
<1>5. QED
  BY <1>4, Results

(* So two messages that look the same on the wire are the same, unless     *)
(* both are turned down.                                                   *)
COROLLARY BytesTellMessages ==
  ASSUME NEW m \in Message, NEW n \in Message, Serialize(m) = Serialize(n),
         HashOf(m) # 0
  PROVE  m = n
<1>1. Deserialize(Serialize(n)) = m
  BY WrittenIsReadBack
<1>2. m # NoMessage
  BY DEF Message, LoginMessage, PingMessage, AcknowledgeMessage, NoMessage
<1>3. HashOf(n) # 0
  BY <1>1, <1>2, ZeroHashIsTurnedDown
<1>4. QED
  BY <1>1, <1>3, WrittenIsReadBack

(* The span that is hashed is longer than what was written, and still ends *)
(* inside a buffer of kNetworkBufferSize, which all callers have.          *)
THEOREM HashStaysInBuffer ==
  ASSUME NEW m \in Message
  PROVE  kMessageHeaderSize + Len(HashedSpan(m)) <= kNetworkBufferSize
<1>1. Len(HashedSpan(m)) = 22 + PayloadSize[m.action]
  BY SpanIsHashed
<1>2. PayloadSize[m.action] \in 8 .. 12
  BY PayloadIsBytes
<1>3. kMessageHeaderSize = 14
  BY Widths
<1>4. kNetworkBufferSize \in Nat /\ kNetworkBufferSize >= 48
  BY CodecAssumption
<1>5. QED
  BY <1>1, <1>2, <1>3, <1>4

-----------------------------------------------------------------------------
(* Datagrams on their way.                                                 *)

(* The bytes stay bytes, no more than the buffer has room for, and are     *)
(* those of the message until they change for the first time.              *)
WireInv ==
  /\ sent \in Message
  /\ bytes \in Seq(Byte)
  /\ Len(bytes) <= kNetworkBufferSize
  /\ faults \in Nat
  /\ faults = 0 => bytes = Serialize(sent)

(* A message fits in the buffer.                                           *)
LEMMA InitWireInv == Init => WireInv
<1> SUFFICES ASSUME Init PROVE WireInv
  OBVIOUS
<1>1. sent \in Message
  BY SentAssumption DEF Init
<1>2. Serialize(sent) \in Seq(Byte)
      /\ Len(Serialize(sent)) = 22 + PayloadSize[sent.action]
  BY <1>1, Layout DEF Bytes
<1>3. Len(Serialize(sent)) <= kNetworkBufferSize
  <2>1. PayloadSize[sent.action] \in 8 .. 12
    BY <1>1, PayloadIsBytes
  <2>2. QED
    BY <1>2, <2>1, CodecAssumption
<1>4. QED
  BY <1>1, <1>2, <1>3 DEF Init, WireInv

(* Each change leaves bytes, of which there are no more than fit.          *)
LEMMA NextKeepsWireInv == WireInv /\ [Next]_vars => WireInv'
<1> SUFFICES ASSUME WireInv, [Next]_vars PROVE WireInv'
  OBVIOUS
<1>1. Len(bytes) \in Nat
  BY LenProperties DEF WireInv
<1>2. ASSUME Fault, bytes' \in Seq(Byte), Len(bytes') <= kNetworkBufferSize
      PROVE  WireInv'
  BY <1>2 DEF Fault, WireInv
<1>3. CASE CutShort
  <2>1. PICK n \in 0 .. Len(bytes) - 1 : bytes' = SubSeq(bytes, 1, n)
    BY <1>3 DEF CutShort
  <2>2. \A i \in 1 .. n : bytes[i] \in Byte
    BY <1>1, <2>1, ElementOfSeq DEF WireInv
  <2>3. bytes' \in Seq(Byte) /\ Len(bytes') <= Len(bytes)
    <3>1. n \in Int /\ Len(bytes) \in Nat /\ n <= Len(bytes)
      BY <1>1, <2>1
    <3>2. /\ SubSeq(bytes, 1, n) \in Seq(Byte)
          /\ Len(SubSeq(bytes, 1, n)) = IF 1 <= n THEN n - 1 + 1 ELSE 0
      BY <2>2, <3>1, SubSeqProperties
    <3>3. QED
      BY <2>1, <3>1, <3>2
  <2>4. Len(bytes') <= kNetworkBufferSize
    BY <1>1, <2>3, LenProperties, CodecAssumption DEF WireInv
  <2>5. QED
    BY <1>2, <1>3, <2>3, <2>4 DEF CutShort
<1>4. CASE Extended
  <2>1. PICK byte \in Byte : bytes' = Append(bytes, byte)
    BY <1>4 DEF Extended
  <2>2. bytes' \in Seq(Byte) /\ Len(bytes') = Len(bytes) + 1
    BY <2>1, AppendProperties DEF WireInv
  <2>3. Len(bytes') <= kNetworkBufferSize
    BY <1>1, <1>4, <2>2, CodecAssumption DEF Extended
  <2>4. QED
    BY <1>2, <1>4, <2>2, <2>3 DEF Extended
<1>5. CASE Changed
  <2>1. PICK i \in DOMAIN bytes, byte \in Byte :
          bytes' = [bytes EXCEPT ![i] = byte]
    BY <1>5 DEF Changed
  <2>2. i \in 1 .. Len(bytes)
    BY <2>1, LenProperties DEF WireInv
  <2>3. bytes' \in Seq(Byte) /\ Len(bytes') = Len(bytes)
    BY <2>1, <2>2, ExceptSeq DEF WireInv
  <2>4. QED
    BY <1>2, <1>5, <2>3 DEF Changed, WireInv
<1>6. CASE UNCHANGED vars
  BY <1>6 DEF vars, WireInv
<1>7. QED
  BY <1>3, <1>4, <1>5, <1>6 DEF Next

(* WireInv is an invariant.                                                *)
LEMMA WireInvariant == Spec => []WireInv
  BY InitWireInv, NextKeepsWireInv, PTL DEF Spec

(* Whatever happens to the bytes, the fields that are read from them are   *)
(* in range.                                                               *)
THEOREM WireTypeCorrect == Spec => []TypeOK
<1>1. WireInv => TypeOK
  BY DeserializeIsSafe DEF WireInv, TypeOK, Received
<1>2. QED
  BY <1>1, WireInvariant, PTL

(* What is written and not changed is read back, or its hash is 0 and it   *)
(* is turned down.                                                         *)
THEOREM RoundTrips == Spec => []RoundTrip
<1>1. WireInv => RoundTrip
  BY WrittenIsReadBack, ZeroHashIsTurnedDown DEF WireInv, RoundTrip, Received
<1>2. QED
  BY <1>1, WireInvariant, PTL

(* An accepted message has all its fields in the datagram, each at its     *)
(* offset, whatever happened to the bytes.                                 *)
THEOREM AcceptedIsComplete == Spec => []FieldsAreThere
<1>1. WireInv => FieldsAreThere
  <2> SUFFICES ASSUME WireInv, Received.action # "None",
                      NEW i \in DOMAIN Body(Received)
               PROVE  /\ 14 + i \in DOMAIN bytes
                      /\ bytes[14 + i] = Body(Received)[i]
    BY Widths DEF FieldsAreThere, IsAccepted
  <2>1. bytes \in Seq(Byte) /\ Received # NoMessage
    BY DEF NoMessage, WireInv
  <2>2. Holds(bytes, 14, Body(Received))
    BY <2>1, AcceptedIsThere, Widths DEF HasBody, Received
  <2>3. Received \in Message
    BY <2>1, DeserializeIsSafe DEF Received
  <2>4. Body(Received) \in Seq(Byte)
    BY <2>3, BodyIsBytes DEF Bytes
  <2>5. i \in 1 .. Len(Body(Received)) /\ Len(Body(Received)) \in Nat
    BY <2>4, LenProperties
  <2>6. DOMAIN bytes = 1 .. Len(bytes) /\ Len(bytes) \in Nat
    BY <2>1, LenProperties
  <2>7. QED
    BY <2>2, <2>5, <2>6 DEF Holds
<1>2. QED
  BY <1>1, WireInvariant, PTL

(* What is accepted from any bytes is the same message when it is sent on. *)
THEOREM AcceptedIsSentOn == Spec => []ReadsAsWritten
<1>1. WireInv => ReadsAsWritten
  <2> SUFFICES ASSUME WireInv, Received.action # "None", HashOf(Received) # 0
               PROVE  Deserialize(Serialize(Received)) = Received
    BY DEF ReadsAsWritten, IsAccepted
  <2>1. Received \in Message
    <3>1. Received # NoMessage
      BY DEF NoMessage
    <3>2. QED
      BY <3>1, DeserializeIsSafe DEF WireInv, Received
  <2>2. QED
    BY <2>1, WrittenIsReadBack
<1>2. QED
  BY <1>1, WireInvariant, PTL

=============================================================================
