------------------------------ MODULE KBucket -------------------------------
(***************************************************************************)
(* The arithmetic of the K buckets: xorBucket and GenerateNodeIDInBucket   *)
(* on node ids of IdBytes bytes with ByteBits bits (20 and 8 in the code). *)
(*                                                                         *)
(* A byte is the set of the positions of its one bits, the least           *)
(* significant one being 0: 1 << b is {b}, xor is the symmetric            *)
(* difference, and x & ((1 << b) - 1) is what x has below b.  Byte 0 of    *)
(* an id is its most significant one.                                      *)
(***************************************************************************)
EXTENDS Integers

CONSTANTS IdBytes, ByteBits

ASSUME KBucketAssumption == IdBytes \in Nat \ {0} /\ ByteBits \in Nat \ {0}

IdBits  == IdBytes * ByteBits
Bytes   == 0 .. IdBytes - 1
Byte    == SUBSET (0 .. ByteBits - 1)
NodeId  == [Bytes -> Byte]

Xor(a, b) == [i \in Bytes |-> (a[i] \ b[i]) \cup (b[i] \ a[i])]

\* bits.LeadingZeros8 of a byte other than zero
LeadingZeros(byte) == ByteBits - 1 - (CHOOSE h \in byte : \A l \in byte : l <= h)

\* The number of leading zeros of the distance; IdBits for the node itself.
xorBucket_oneBased(selfID, nodeID) ==
    LET d == Xor(selfID, nodeID) IN
    IF \A i \in Bytes : d[i] = {} THEN IdBits
    ELSE LET i == CHOOSE i \in Bytes : d[i] # {} /\ \A j \in 0 .. i - 1 : d[j] = {}
         IN  i * ByteBits + LeadingZeros(d[i]) + 1
xorBucket(selfID, nodeID) ==
    LET d == Xor(selfID, nodeID) IN
    IF \A i \in Bytes : d[i] = {} THEN IdBits
    ELSE LET i == CHOOSE i \in Bytes : d[i] # {} /\ \A j \in 0 .. i - 1 : d[j] = {}
         IN  i * ByteBits + LeadingZeros(d[i])

\* The mask of GenerateNodeIDInBucket: zeros, the one bit that decides, and
\* random bits below it.
Mask_lowBitFirst(bucketIdx, random) ==
    LET byteIdx == bucketIdx \div ByteBits
        bitIdx  == bucketIdx % ByteBits
    IN  [i \in Bytes |-> CASE i < byteIdx -> {}
                           [] i = byteIdx -> {bitIdx} \cup (random[i] \cap 0 .. bitIdx - 1)
                           [] i > byteIdx -> random[i]]
Mask(bucketIdx, random) ==
    LET byteIdx == bucketIdx \div ByteBits
        bitIdx  == ByteBits - 1 - (bucketIdx % ByteBits)
    IN  [i \in Bytes |-> CASE i < byteIdx -> {}
                           [] i = byteIdx -> {bitIdx} \cup (random[i] \cap 0 .. bitIdx - 1)
                           [] i > byteIdx -> random[i]]

\* random is what rand.Read fills in.  An index out of range is an error.
InRange(bucketIdx) == 0 <= bucketIdx /\ bucketIdx < IdBits
GenerateNodeIDInBucket(selfID, bucketIdx, random) == Xor(selfID, Mask(bucketIdx, random))
=============================================================================
