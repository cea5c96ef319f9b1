------------------------- MODULE RMAPExchange_proofs -------------------------
(***************************************************************************)
(* Theorems about the exchange between an initiator and a target: what the *)
(* target executes, what the answers of read() and write() tell, and when  *)
(* a call waits in vain.  They rest on the layout of the packets: a        *)
(* command and a reply are read, byte by byte, as they were sent.          *)
(***************************************************************************)
EXTENDS RMAPExchange, CommonLemmas

-----------------------------------------------------------------------------
(* Bits and numbers.                                                       *)

\* What a byte is made of.
LEMMA BitsOfSum ==
    ASSUME NEW b0 \in 0 .. 1, NEW b1 \in 0 .. 1, NEW b2 \in 0 .. 1, NEW b3 \in 0 .. 1,
           NEW b4 \in 0 .. 1, NEW b5 \in 0 .. 1, NEW b6 \in 0 .. 1, NEW b7 \in 0 .. 1,
           NEW n, n = b0 + 2 * b1 + 4 * b2 + 8 * b3 + 16 * b4 + 32 * b5 + 64 * b6 + 128 * b7
    PROVE  /\ n \in Byte
           /\ n % 2 = b0 /\ (n \div 2) % 2 = b1 /\ (n \div 4) % 2 = b2 /\ (n \div 8) % 2 = b3
           /\ (n \div 16) % 2 = b4 /\ (n \div 32) % 2 = b5 /\ (n \div 64) % 2 = b6
           /\ (n \div 128) % 2 = b7
  <1>1. n \in Byte
    BY DEF Byte
  <1>2. n % 2 = b0 /\ (n \div 2) % 2 = b1 /\ (n \div 4) % 2 = b2
    OBVIOUS
  <1>3. (n \div 8) % 2 = b3 /\ (n \div 16) % 2 = b4 /\ (n \div 32) % 2 = b5
    OBVIOUS
  <1>4. (n \div 64) % 2 = b6 /\ (n \div 128) % 2 = b7
    OBVIOUS
  <1>5. QED BY ONLY <1>1, <1>2, <1>3, <1>4

\* The bits of a byte made of bits.
LEMMA BitsOfByte ==
    ASSUME NEW S
    PROVE  ByteOf(S) \in Byte /\ BitsOf(ByteOf(S)) = S \cap 0 .. 7
  <1> DEFINE bit(k) == IF k \in S THEN 1 ELSE 0
  <1>1. \A k : bit(k) \in 0 .. 1 /\ (bit(k) = 1 <=> k \in S)
    OBVIOUS
  <1>2. ByteOf(S) = bit(0) + 2 * bit(1) + 4 * bit(2) + 8 * bit(3)
                    + 16 * bit(4) + 32 * bit(5) + 64 * bit(6) + 128 * bit(7)
    BY DEF ByteOf
  <1> HIDE DEF bit
  <1>3. PICK n : n = ByteOf(S)
    OBVIOUS
  <1>4. /\ n \in Byte
        /\ n % 2 = bit(0) /\ (n \div 2) % 2 = bit(1) /\ (n \div 4) % 2 = bit(2)
        /\ (n \div 8) % 2 = bit(3) /\ (n \div 16) % 2 = bit(4) /\ (n \div 32) % 2 = bit(5)
        /\ (n \div 64) % 2 = bit(6) /\ (n \div 128) % 2 = bit(7)
    <2>1. PICK b0, b1, b2, b3, b4, b5, b6, b7 \in 0 .. 1 :
             /\ b0 = bit(0) /\ b1 = bit(1) /\ b2 = bit(2) /\ b3 = bit(3)
             /\ b4 = bit(4) /\ b5 = bit(5) /\ b6 = bit(6) /\ b7 = bit(7)
      BY ONLY <1>1
    <2>2. n = b0 + 2 * b1 + 4 * b2 + 8 * b3 + 16 * b4 + 32 * b5 + 64 * b6 + 128 * b7
      BY ONLY <1>2, <1>3, <2>1
    <2>3. /\ n \in Byte
          /\ n % 2 = b0 /\ (n \div 2) % 2 = b1 /\ (n \div 4) % 2 = b2 /\ (n \div 8) % 2 = b3
          /\ (n \div 16) % 2 = b4 /\ (n \div 32) % 2 = b5 /\ (n \div 64) % 2 = b6
          /\ (n \div 128) % 2 = b7
      BY ONLY <2>2, BitsOfSum, b0 \in 0 .. 1, b1 \in 0 .. 1, b2 \in 0 .. 1, b3 \in 0 .. 1,
              b4 \in 0 .. 1, b5 \in 0 .. 1, b6 \in 0 .. 1, b7 \in 0 .. 1
    <2>4. QED BY ONLY <2>1, <2>3
  <1>5. /\ BitWeight[1] = 1 /\ BitWeight[2] = 2 /\ BitWeight[3] = 4 /\ BitWeight[4] = 8
        /\ BitWeight[5] = 16 /\ BitWeight[6] = 32 /\ BitWeight[7] = 64 /\ BitWeight[8] = 128
    BY DEF BitWeight
  <1>6. n \div 1 = n
    BY <1>4 DEF Byte
  <1>7. ASSUME NEW k \in 0 .. 7 PROVE (n \div BitWeight[k + 1]) % 2 = bit(k)
    <2>1. k = 0 \/ k = 1 \/ k = 2 \/ k = 3 \/ k = 4 \/ k = 5 \/ k = 6 \/ k = 7
      OBVIOUS
    <2>2. 0 + 1 = 1 /\ 1 + 1 = 2 /\ 2 + 1 = 3 /\ 3 + 1 = 4 /\ 4 + 1 = 5 /\ 5 + 1 = 6 /\ 6 + 1 = 7
          /\ 7 + 1 = 8
      OBVIOUS
    <2>3. CASE k \in {0, 1, 2, 3}
      BY ONLY <2>2, <2>3, <1>4, <1>5, <1>6
    <2>4. CASE k \in {4, 5, 6, 7}
      BY ONLY <2>2, <2>4, <1>4, <1>5
    <2>5. QED BY ONLY <2>1, <2>3, <2>4
  <1>8. BitsOf(n) = {k \in 0 .. 7 : bit(k) = 1}
    BY ONLY <1>7 DEF BitsOf
  <1>9. QED BY ONLY <1>1, <1>3, <1>4, <1>8

\* A number of two bytes is read as it was written.
LEMMA TwoBytesRead ==
    ASSUME NEW n \in Nat, n < 65536
    PROVE  \E a, b \in Byte : TwoBytes(n) = <<a, b>> /\ 256 * a + b = n
  <1>1. PICK h, l \in Nat : h = (n \div 256) % 256 /\ l = n % 256
    OBVIOUS
  <1>2. h <= 255 /\ l <= 255 /\ 256 * h + l = n
    BY <1>1
  <1>3. h \in Byte /\ l \in Byte
    BY ONLY <1>2, h \in Nat, l \in Nat DEF Byte
  <1>4. TwoBytes(n) = <<h, l>>
    BY ONLY <1>1 DEF TwoBytes
  <1>5. QED BY ONLY <1>2, <1>3, <1>4

\* And one of three bytes.
LEMMA ThreeBytesRead ==
    ASSUME NEW n \in Length
    PROVE  \E a, b, c \in Byte : ThreeBytes(n) = <<a, b, c>> /\ 65536 * a + 256 * b + c = n
  <1>0. n \in Nat /\ n < 16777216
    BY DEF Length
  <1>1. PICK h, m, l \in Nat : h = (n \div 65536) % 256 /\ m = (n \div 256) % 256 /\ l = n % 256
    BY <1>0
  <1>2. h <= 255 /\ m <= 255 /\ l <= 255
    BY <1>0, <1>1
  <1>3. 65536 * h + 256 * m + l = n
    BY ONLY <1>0, <1>1
  <1>4. h \in Byte /\ m \in Byte /\ l \in Byte
    BY ONLY <1>2, h \in Nat, m \in Nat, l \in Nat DEF Byte
  <1>5. ThreeBytes(n) = <<h, m, l>>
    BY ONLY <1>1 DEF ThreeBytes
  <1>6. QED BY ONLY <1>3, <1>4, <1>5

\* And an address, of four bytes.
LEMMA FourBytesRead ==
    ASSUME NEW n \in Address
    PROVE  /\ FourBytes(n) \in Seq(Byte) /\ Len(FourBytes(n)) = 4
           /\ NumberOfFour(FourBytes(n)) = n
  <1>0. n \in Nat /\ n \div 65536 < 65536
    <2>1. PICK m \in Nat : m = AddressSpace - 1
      BY AddressSpaceAssumption
    <2>2. m \div 65536 < 65536
      <3>1. SizesFit
        BY ExchangeAssumption
      <3>2. FourBytesSuffice
        BY ONLY <3>1 DEF SizesFit
      <3>3. QED BY ONLY <2>1, <3>2 DEF FourBytesSuffice
    <2>3. n \in Nat /\ n <= m
      BY ONLY <2>1, AddressSpaceAssumption, n \in Address DEF Address
    <2>4. m < 65536 * 65536
      BY ONLY <2>2, m \in Nat
    <2>5. QED BY ONLY <2>3, <2>4, m \in Nat
  <1>1. PICK g, h, m, l \in Nat : /\ g = (n \div 16777216) % 256 /\ h = (n \div 65536) % 256
                                  /\ m = (n \div 256) % 256 /\ l = n % 256
    BY <1>0
  <1>2. g <= 255 /\ h <= 255 /\ m <= 255 /\ l <= 255
    BY ONLY <1>0, <1>1
  <1>3. 16777216 * g + 65536 * h + 256 * m + l = n
    BY ONLY <1>0, <1>1
  <1>4. g \in Byte /\ h \in Byte /\ m \in Byte /\ l \in Byte
    BY ONLY <1>2, g \in Nat, h \in Nat, m \in Nat, l \in Nat DEF Byte
  <1>5. FourBytes(n) = <<g, h, m, l>>
    BY ONLY <1>1 DEF FourBytes
  <1>6. <<g, h, m, l>> \in Seq(Byte) /\ Len(<<g, h, m, l>>) = 4
    BY ONLY <1>4
  <1>7. NumberOfFour(<<g, h, m, l>>) = 16777216 * g + 65536 * h + 256 * m + l
    BY DEF NumberOfFour
  <1>8. QED BY ONLY <1>3, <1>5, <1>6, <1>7

-----------------------------------------------------------------------------
(* The way a reply takes home.                                             *)

\* How many words a reply address fills.
Words(path) == IF Len(path) % 4 = 0 THEN Len(path) \div 4 ELSE (Len(path) + 4) \div 4

\* A reply address has at most twelve bytes.
ReplyAddress == {path \in Seq(Byte) : Len(path) <= 12}

\* Words of twelve bytes or less.
LEMMA WordsOf ==
    ASSUME NEW n \in Nat, n <= 12
    PROVE  LET w == IF n % 4 = 0 THEN n \div 4 ELSE (n + 4) \div 4
           IN  /\ w \in 0 .. 3 /\ (-n) % 4 \in Nat /\ ((-n) % 4) + n = 4 * w
               /\ n % 4 = 0 => (-n) % 4 = 0
  OBVIOUS

\* Filled up, it has as many bytes as its words.
LEMMA PaddedAddress ==
    ASSUME NEW path \in ReplyAddress
    PROVE  /\ Words(path) \in 0 .. 3
           /\ Padded(path) \in Seq(Byte) /\ Len(Padded(path)) = 4 * Words(path)
  <1>1. PICK n, w \in Nat : n = Len(path) /\ w = Words(path) /\ w \in 0 .. 3
    BY WordsOf DEF Words, ReplyAddress
  <1>2. PICK z \in Nat : z = (-n) % 4 /\ z + n = 4 * w
    BY <1>1, WordsOf DEF Words, ReplyAddress
  <1>3. PICK f \in Seq(Byte) : f = [i \in 1 .. z |-> 0] /\ Len(f) = z
    <2>1. 0 \in Byte
      BY DEF Byte
    <2>2. [i \in 1 .. z |-> 0] \in Seq(Byte) /\ Len([i \in 1 .. z |-> 0]) = z
      BY ONLY <2>1, z \in Nat
    <2>3. QED BY ONLY <2>2
  <1>4. Padded(path) = f \o path
    BY ONLY <1>1, <1>2, <1>3 DEF Padded
  <1>5. path \in Seq(Byte)
    BY DEF ReplyAddress
  <1>6. f \o path \in Seq(Byte) /\ Len(f \o path) = z + n
    BY ONLY <1>1, <1>3, <1>5, OneAfterAnother
  <1>7. QED BY ONLY <1>1, <1>2, <1>4, <1>6

\* What is filled up already stays as it is.
LEMMA PaddedOnce ==
    ASSUME NEW r \in ReplyAddress, NEW w \in Nat, Len(r) = 4 * w
    PROVE  Padded(r) = r /\ Words(r) = w
  <1>1. PICK n \in Nat : n = Len(r) /\ n <= 12 /\ n % 4 = 0
    BY DEF ReplyAddress
  <1>2. (-n) % 4 = 0 /\ n \div 4 = w
    BY ONLY <1>1, Len(r) = 4 * w, w \in Nat, WordsOf
  <1>3. [i \in 1 .. 0 |-> 0] = <<>>
    OBVIOUS
  <1>4. <<>> \o r = r
    BY DEF ReplyAddress
  <1>5. QED BY ONLY <1>1, <1>2, <1>3, <1>4 DEF Padded, Words

\* The instruction says how many words there are: its two lowest bits.
LowBits(w) == (IF w \in {1, 3} THEN {0} ELSE {}) \cup (IF w \in {2, 3} THEN {1} ELSE {})
WithWords(bits, w) == (bits \ {0, 1}) \cup LowBits(w)

\* They can be added to the others and taken out again.
LEMMA WordsInInstruction ==
    ASSUME NEW bits \in SUBSET (0 .. 7), NEW w \in 0 .. 3
    PROVE  /\ BitsOf((ByteOf(bits \ ReplyPathAddressLengthBits) + w) % 256) = WithWords(bits, w)
           /\ ByteOf(WithWords(bits, w) \cap ReplyPathAddressLengthBits) = w
           /\ WithWords(bits, w) \in SUBSET (0 .. 7)
  <1> DEFINE S == WithWords(bits, w)
             R == bits \ {0, 1}
  <1>1. S \in SUBSET (0 .. 7) /\ ReplyPathAddressLengthBits = {0, 1}
    BY DEF WithWords, LowBits, ReplyPathAddressLengthBits
  <1>2. /\ 0 \notin R /\ 1 \notin R
        /\ (2 \in S <=> 2 \in R) /\ (3 \in S <=> 3 \in R) /\ (4 \in S <=> 4 \in R)
        /\ (5 \in S <=> 5 \in R) /\ (6 \in S <=> 6 \in R) /\ (7 \in S <=> 7 \in R)
    BY DEF WithWords, LowBits
  <1>3. w = (IF 0 \in S THEN 1 ELSE 0) + 2 * (IF 1 \in S THEN 1 ELSE 0)
    BY DEF WithWords, LowBits
  <1> HIDE DEF S, R
  <1>4. ByteOf(S) = ByteOf(R) + w
    BY ONLY <1>2, <1>3, w \in 0 .. 3 DEF ByteOf
  <1>5. ByteOf(S) \in Byte /\ BitsOf(ByteOf(S)) = S \cap 0 .. 7 /\ S \cap 0 .. 7 = S
    BY ONLY <1>1, BitsOfByte
  <1>6. ByteOf(S) % 256 = ByteOf(S)
    BY ONLY <1>5 DEF Byte
  <1>7. ByteOf(S \cap {0, 1}) = w
    <2>1. /\ (0 \in S \cap {0, 1} <=> 0 \in S) /\ (1 \in S \cap {0, 1} <=> 1 \in S)
          /\ 2 \notin S \cap {0, 1} /\ 3 \notin S \cap {0, 1} /\ 4 \notin S \cap {0, 1}
          /\ 5 \notin S \cap {0, 1} /\ 6 \notin S \cap {0, 1} /\ 7 \notin S \cap {0, 1}
      OBVIOUS
    <2>2. PICK T : T = S \cap {0, 1}
      OBVIOUS
    <2>3. ByteOf(T) = w
      BY ONLY <1>3, <2>1, <2>2 DEF ByteOf
    <2>4. QED BY ONLY <2>2, <2>3
  <1>8. QED BY ONLY <1>1, <1>4, <1>5, <1>6, <1>7 DEF S, R

-----------------------------------------------------------------------------
(* Sequences joined end to end.                                            *)

\* What is in a sequence is in a longer one.
LEMMA HoldsBefore ==
    ASSUME NEW A, NEW x \in Seq(A), NEW y \in Seq(A), NEW v \in Seq(A), NEW k \in Nat,
           Holds(x, k, v)
    PROVE  Holds(x \o y, k, v)
  <1>1. x \o y \in Seq(A) /\ Holds(x \o y, 0, x)
    BY ONLY HoldsBoth, x \in Seq(A), y \in Seq(A)
  <1>2. Holds(x \o y, 0 + k, v)
    BY ONLY <1>1, HoldsWithin, x \in Seq(A), v \in Seq(A), k \in Nat, 0 \in Nat, Holds(x, k, v)
  <1>3. QED BY ONLY <1>2, k \in Nat

\* b is four sequences, one after another.
AreFour(b, x, y, z, v) ==
    /\ Len(b) = Len(x) + Len(y) + Len(z) + Len(v)
    /\ Holds(b, 0, x) /\ Holds(b, Len(x), y) /\ Holds(b, Len(x) + Len(y), z)
    /\ Holds(b, Len(x) + Len(y) + Len(z), v)

\* So they are where they should be.
LEMMA FourParts ==
    ASSUME NEW A, NEW x \in Seq(A), NEW y \in Seq(A), NEW z \in Seq(A), NEW v \in Seq(A),
           NEW b, b = x \o y \o z \o v
    PROVE  b \in Seq(A) /\ AreFour(b, x, y, z, v)
  <1>1. PICK i, j, k, l \in Nat : i = Len(x) /\ j = Len(y) /\ k = Len(z) /\ l = Len(v)
    OBVIOUS
  <1>2. PICK c \in Seq(A) : c = x \o y
    BY ONLY HoldsBoth, x \in Seq(A), y \in Seq(A)
  <1>3. Len(c) = i + j /\ Holds(c, 0, x) /\ Holds(c, i, y)
    BY ONLY <1>1, <1>2, HoldsBoth, x \in Seq(A), y \in Seq(A)
  <1>4. PICK d \in Seq(A) : d = c \o z
    BY ONLY HoldsBoth, c \in Seq(A), z \in Seq(A)
  <1>5. Len(d) = i + j + k /\ Holds(d, i + j, z)
    <2>1. Len(d) = Len(c) + Len(z) /\ Holds(d, Len(c), z)
      BY ONLY <1>4, HoldsBoth, c \in Seq(A), z \in Seq(A)
    <2>2. QED BY ONLY <1>1, <1>3, <2>1
  <1>6. Holds(d, 0, x) /\ Holds(d, i, y)
    BY ONLY <1>3, <1>4, HoldsBefore, c \in Seq(A), z \in Seq(A), x \in Seq(A), y \in Seq(A),
       i \in Nat, 0 \in Nat
  <1>7. b = d \o v
    BY ONLY <1>2, <1>4, b = x \o y \o z \o v
  <1>8. b \in Seq(A) /\ Len(b) = i + j + k + l /\ Holds(b, i + j + k, v)
    <2>1. b \in Seq(A) /\ Len(b) = Len(d) + Len(v) /\ Holds(b, Len(d), v)
      BY ONLY <1>7, HoldsBoth, d \in Seq(A), v \in Seq(A)
    <2>2. QED BY ONLY <1>1, <1>5, <2>1
  <1>9. Holds(b, 0, x) /\ Holds(b, i, y) /\ Holds(b, i + j, z)
    <2>1. i + j \in Nat
      OBVIOUS
    <2>2. QED
      BY ONLY <1>5, <1>6, <1>7, <2>1, HoldsBefore, d \in Seq(A), v \in Seq(A), x \in Seq(A),
         y \in Seq(A), z \in Seq(A), i \in Nat, 0 \in Nat
  <1>10. QED BY ONLY <1>1, <1>8, <1>9 DEF AreFour

\* One more after a sequence that holds something.
LEMMA OneMore ==
    ASSUME NEW A, NEW x \in Seq(A), NEW c \in A
    PROVE  /\ Append(x, c) \in Seq(A) /\ Len(Append(x, c)) = Len(x) + 1
           /\ Holds(Append(x, c), 0, x) /\ Append(x, c)[Len(x) + 1] = c
  BY DEF Holds

\* The bytes a packet is read from are those it holds.
LEMMA BytesHeld ==
    ASSUME NEW b \in Seq(Byte), NEW k \in Nat, NEW w \in Seq(Byte), Holds(b, k, w),
           NEW i, i = k + 1, NEW n, n = Len(w), NEW beyond
    PROVE  BytesAt(b, i, n, beyond) = w
  <1>1. PICK m \in Nat : m = Len(b)
    OBVIOUS
  <1>2. n \in Nat /\ k + n <= m /\ \A j \in 1 .. n : b[k + j] = w[j]
    BY <1>1 DEF Holds
  <1>3. ASSUME NEW j \in 1 .. n PROVE ByteAt(b, i + j - 1, beyond) = w[j]
    <2>1. i + j - 1 = k + j /\ k + j \in 1 .. m
      BY <1>2
    <2>2. DOMAIN b = 1 .. m
      BY <1>1
    <2>3. QED BY ONLY <1>2, <2>1, <2>2, j \in 1 .. n DEF ByteAt
  <1>4. w = [j \in 1 .. n |-> w[j]]
    OBVIOUS
  <1>5. QED BY ONLY <1>3, <1>4 DEF BytesAt

-----------------------------------------------------------------------------
(* The packets an initiator sends.                                         *)

FourByte == {w \in Seq(Byte) : Len(w) = 4}
TransactionID == {n \in Nat : n < 65536}
Packet ==
    [targetSpaceWireAddress : PathAddress, targetLogicalAddress : LogicalAddress,
     instruction : SUBSET (0 .. 7), key : Byte, replyAddress : ReplyAddress,
     initiatorLogicalAddress : LogicalAddress, transactionID : TransactionID,
     extendedAddress : Byte, address : FourByte, dataLength : Length, status : Byte,
     data : Seq(Byte), useDraftECRC : BOOLEAN]

\* A command whose fields agree with one another.
CommandFits(q) ==
    /\ q \in Packet /\ IsCommand(q) /\ q.status = 0
    /\ q.instruction = WithWords(q.instruction, Words(q.replyAddress))
    /\ IF IsWrite(q) THEN Len(q.data) = q.dataLength ELSE q.data = <<>>

\* The fields of a header of a command.
CommandHeader(h, q) ==
    LET n == 4 * Words(q.replyAddress)
    IN /\ h \in Seq(Byte) /\ Len(h) = n + 15
       /\ h[1] = q.targetLogicalAddress /\ h[2] = ProtocolIdentifier
       /\ h[3] = ByteOf(q.instruction) /\ h[4] = q.key
       /\ Holds(h, 4, Padded(q.replyAddress))
       /\ h[n + 5] = q.initiatorLogicalAddress
       /\ Holds(h, n + 5, TwoBytes(q.transactionID)) /\ h[n + 8] = q.extendedAddress
       /\ Holds(h, n + 8, q.address) /\ Holds(h, n + 12, ThreeBytes(q.dataLength))

\* Sequences of bytes.
LEMMA ByteSequences ==
    /\ \A a \in Byte : <<a>> \in Seq(Byte) /\ Len(<<a>>) = 1 /\ <<a>>[1] = a
    /\ \A a, b \in Byte : <<a, b>> \in Seq(Byte) /\ Len(<<a, b>>) = 2
    /\ \A a, b, c \in Byte : <<a, b, c>> \in Seq(Byte) /\ Len(<<a, b, c>>) = 3
    /\ \A a, b, c, d \in Byte : <<a, b, c, d>> \in Seq(Byte) /\ Len(<<a, b, c, d>>) = 4
    /\ \A a, b, c, d, e \in Byte :
           <<a, b, c, d, e>> \in Seq(Byte) /\ Len(<<a, b, c, d, e>>) = 5
  OBVIOUS

\* Numbers of two and three bytes are sequences of bytes.
LEMMA NumbersAreBytes ==
    /\ \A n \in TransactionID : /\ TwoBytes(n) \in Seq(Byte) /\ Len(TwoBytes(n)) = 2
                                /\ NumberOfTwo(TwoBytes(n)) = n
    /\ \A n \in Length : /\ ThreeBytes(n) \in Seq(Byte) /\ Len(ThreeBytes(n)) = 3
                         /\ NumberOfThree(ThreeBytes(n)) = n
  <1>1. ASSUME NEW n \in TransactionID
        PROVE  /\ TwoBytes(n) \in Seq(Byte) /\ Len(TwoBytes(n)) = 2
               /\ NumberOfTwo(TwoBytes(n)) = n
    <2>1. PICK a, b \in Byte : TwoBytes(n) = <<a, b>> /\ 256 * a + b = n
      BY TwoBytesRead DEF TransactionID
    <2>2. NumberOfTwo(<<a, b>>) = 256 * a + b
      BY DEF NumberOfTwo
    <2>3. QED BY ONLY <2>1, <2>2, ByteSequences
  <1>2. ASSUME NEW n \in Length
        PROVE  /\ ThreeBytes(n) \in Seq(Byte) /\ Len(ThreeBytes(n)) = 3
               /\ NumberOfThree(ThreeBytes(n)) = n
    <2>1. PICK a, b, c \in Byte : ThreeBytes(n) = <<a, b, c>> /\ 65536 * a + 256 * b + c = n
      BY ThreeBytesRead
    <2>2. NumberOfThree(<<a, b, c>>) = 65536 * a + 256 * b + c
      BY DEF NumberOfThree
    <2>3. QED BY ONLY <2>1, <2>2, ByteSequences
  <1>3. QED BY ONLY <1>1, <1>2

\* What is written are bytes.
LEMMA FieldsAreBytes ==
    /\ PathAddress \subseteq Seq(Byte) /\ LogicalAddress \subseteq Byte
    /\ ReplyAddress \subseteq Seq(Byte) /\ FourByte \subseteq Seq(Byte)
    /\ ProtocolIdentifier \in Byte /\ 0 \in Byte
  <1>1. 0 .. 31 \subseteq Byte /\ LogicalAddress \subseteq Byte /\ ProtocolIdentifier \in Byte /\ 0 \in Byte
    BY DEF Byte, LogicalAddress, ProtocolIdentifier
  <1>2. PathAddress \subseteq Seq(Byte)
    BY ONLY <1>1, SeqOverMore DEF PathAddress
  <1>3. QED BY ONLY <1>1, <1>2 DEF ReplyAddress, FourByte

\* constructHeader() lays out a command as it should.
LEMMA CommandHeaderLayout ==
    ASSUME NEW q, CommandFits(q)
    PROVE  CommandHeader(HeaderOf(q), q)
  <1>1. PICK ta, ia, k, x \in Byte : /\ ta = q.targetLogicalAddress /\ k = q.key
                                     /\ ia = q.initiatorLogicalAddress /\ x = q.extendedAddress
    BY FieldsAreBytes DEF CommandFits, Packet
  <1>2. PICK o, m \in Byte : o = ProtocolIdentifier /\ m = ByteOf(q.instruction)
    BY FieldsAreBytes, BitsOfByte
  <1>3. PICK w \in Nat : w = Words(q.replyAddress)
    BY PaddedAddress DEF CommandFits, Packet
  <1>4. PICK r \in Seq(Byte) : r = Padded(q.replyAddress) /\ Len(r) = 4 * w
    BY <1>3, PaddedAddress DEF CommandFits, Packet
  <1>5. PICK t \in Seq(Byte) : t = TwoBytes(q.transactionID) /\ Len(t) = 2
    BY NumbersAreBytes DEF CommandFits, Packet
  <1>6. PICK d \in Seq(Byte) : d = ThreeBytes(q.dataLength) /\ Len(d) = 3
    BY NumbersAreBytes DEF CommandFits, Packet
  <1>7. PICK a \in Seq(Byte) : a = q.address /\ Len(a) = 4
    BY DEF CommandFits, Packet, FourByte
  <1>8. PICK u \in Seq(Byte) : /\ u = <<ta, o, m, k>> /\ Len(u) = 4
                               /\ u[1] = ta /\ u[2] = o /\ u[3] = m /\ u[4] = k
    <2>1. PICK y : y = <<ta, o, m, k>>
      OBVIOUS
    <2>2. y \in Seq(Byte) /\ Len(y) = 4
      BY ONLY <2>1, ta \in Byte, o \in Byte, m \in Byte, k \in Byte
    <2>3. y[1] = ta /\ y[2] = o /\ y[3] = m /\ y[4] = k
      BY ONLY <2>1
    <2>4. QED BY ONLY <2>1, <2>2, <2>3
  <1>9. PICK v \in Seq(Byte) : v = <<ia>> /\ Len(v) = 1
    BY ByteSequences
  <1>10. PICK z \in Seq(Byte) : z = <<x>> /\ Len(z) = 1
    BY ByteSequences
  <1>11. PICK f : f = u \o r \o v \o t
    OBVIOUS
  <1>12. PICK h : h = f \o z \o a \o d
    OBVIOUS
  <1>13. h = HeaderOf(q)
    <2>1. IsCommand(q)
      BY DEF CommandFits
    <2>2. HeaderOf(q) = u \o r \o v \o t \o z \o a \o d
      BY ONLY <2>1, <1>1, <1>2, <1>4, <1>5, <1>6, <1>7, <1>8, <1>9, <1>10 DEF HeaderOf
    <2>3. QED BY ONLY <2>2, <1>11, <1>12
  <1>14. /\ f \in Seq(Byte) /\ Len(f) = 4 + 4 * w + 1 + 2 /\ Holds(f, 0, u) /\ Holds(f, 4, r)
         /\ Holds(f, 4 + 4 * w, v) /\ Holds(f, 4 + 4 * w + 1, t)
    <2>1. f \in Seq(Byte) /\ AreFour(f, u, r, v, t)
      BY ONLY <1>11, FourParts, u \in Seq(Byte), r \in Seq(Byte), v \in Seq(Byte), t \in Seq(Byte)
    <2>2. QED BY ONLY <1>4, <1>5, <1>8, <1>9, <2>1 DEF AreFour
  <1>15. PICK lf \in Nat : lf = Len(f) /\ lf = 4 * w + 7
    BY ONLY <1>14, w \in Nat
  <1>16. /\ h \in Seq(Byte) /\ Len(h) = lf + 1 + 4 + 3 /\ Holds(h, 0, f) /\ Holds(h, lf, z)
         /\ Holds(h, lf + 1, a) /\ Holds(h, lf + 1 + 4, d)
    <2>1. h \in Seq(Byte) /\ AreFour(h, f, z, a, d)
      BY ONLY <1>12, <1>14, FourParts, z \in Seq(Byte), a \in Seq(Byte), d \in Seq(Byte)
    <2>2. QED BY ONLY <1>6, <1>7, <1>10, <1>15, <2>1 DEF AreFour
  <1>17. Holds(h, 0, u) /\ Holds(h, 4, r) /\ Holds(h, 4 + 4 * w, v) /\ Holds(h, 4 + 4 * w + 1, t)
    <2>1. PICK i, j \in Nat : i = 4 + 4 * w /\ j = i + 1
      OBVIOUS
    <2>2. Holds(f, i, v) /\ Holds(f, j, t)
      BY ONLY <1>14, <2>1
    <2>3. /\ Holds(h, 0 + 0, u) /\ Holds(h, 0 + 4, r) /\ Holds(h, 0 + i, v)
          /\ Holds(h, 0 + j, t)
      BY ONLY <1>14, <1>16, <2>2, HoldsWithin, 0 \in Nat, 4 \in Nat, i \in Nat, j \in Nat,
         u \in Seq(Byte), r \in Seq(Byte), v \in Seq(Byte), t \in Seq(Byte)
    <2>4. 0 + 0 = 0 /\ 0 + 4 = 4 /\ 0 + i = i /\ 0 + j = j
      OBVIOUS
    <2>5. QED BY ONLY <2>1, <2>3, <2>4
  <1>18. h[1] = ta /\ h[2] = o /\ h[3] = m /\ h[4] = k
    <2>1. \A i \in 1 .. 4 : h[0 + i] = u[i]
      BY ONLY <1>8, <1>17 DEF Holds
    <2>2. h[0 + 1] = u[1] /\ h[0 + 2] = u[2] /\ h[0 + 3] = u[3] /\ h[0 + 4] = u[4]
      BY ONLY <2>1
    <2>3. 0 + 1 = 1 /\ 0 + 2 = 2 /\ 0 + 3 = 3 /\ 0 + 4 = 4
      OBVIOUS
    <2>4. QED BY ONLY <1>8, <2>2, <2>3
  <1>19. h[4 * w + 5] = ia
    <2>1. h[4 + 4 * w + 1] = v[1]
      BY ONLY <1>9, <1>17 DEF Holds
    <2>2. 4 + 4 * w + 1 = 4 * w + 5 /\ v[1] = ia
      BY <1>9
    <2>3. QED BY ONLY <2>1, <2>2
  <1>20. h[4 * w + 8] = x
    <2>1. h[lf + 1] = z[1]
      BY ONLY <1>10, <1>16 DEF Holds
    <2>2. lf + 1 = 4 * w + 8 /\ z[1] = x
      BY <1>10, <1>15
    <2>3. QED BY ONLY <2>1, <2>2
  <1>21. /\ 4 + 4 * w + 1 = 4 * w + 5 /\ lf + 1 = 4 * w + 8 /\ lf + 1 + 4 = 4 * w + 12
         /\ lf + 1 + 4 + 3 = 4 * w + 15
    BY ONLY <1>15, w \in Nat
  <1>22. /\ Len(h) = 4 * w + 15 /\ Holds(h, 4 * w + 5, t) /\ Holds(h, 4 * w + 8, a)
         /\ Holds(h, 4 * w + 12, d)
    BY ONLY <1>16, <1>17, <1>21
  <1>23. CommandHeader(h, q)
    BY ONLY <1>1, <1>2, <1>3, <1>4, <1>5, <1>6, <1>7, <1>16, <1>17, <1>18, <1>19, <1>20, <1>22
       DEF CommandHeader
  <1>24. QED BY ONLY <1>13, <1>23

\* A CRC is a byte.
LEMMA CRCIsByte ==
    ASSUME NEW p, NEW bytes
    PROVE  CRCOf(p, bytes) \in Byte
  BY BitsOfByte, Zenon DEF CRCOf, CalculateCRC

\* Where the parts of a packet are: the path, the header and its CRC, the data.
BufferHolds(b, path, h, p) ==
    /\ b \in Seq(Byte) /\ path \in Seq(Byte) /\ h \in Seq(Byte)
    /\ Holds(b, 0, path) /\ Holds(b, Len(path), h)
    /\ b[Len(path) + Len(h) + 1] = CRCOf(p, h)
    /\ Holds(b, Len(path) + Len(h) + 1, p.data)
    /\ Len(b) = Len(path) + Len(h) + 1 + Len(p.data) + (IF HasData(p) THEN 1 ELSE 0)
    /\ HasData(p) => b[Len(b)] = CRCOf(p, p.data)

\* constructPacket() puts the parts there.
LEMMA BufferLayout ==
    ASSUME NEW p, p.data \in Seq(Byte), NEW path \in Seq(Byte), HeaderOf(p) \in Seq(Byte),
           path = IF IsCommand(p) THEN p.targetSpaceWireAddress ELSE p.replyAddress
    PROVE  BufferHolds(ConstructPacket(p), path, HeaderOf(p), p)
  <1>1. PICK h, w \in Seq(Byte) : h = HeaderOf(p) /\ w = p.data
    OBVIOUS
  <1>2. PICK c, e \in Byte : c = CRCOf(p, h) /\ e = CRCOf(p, w)
    BY CRCIsByte
  <1>3. PICK g \in Seq(Byte) : g = Append(h, c)
    BY OneMore
  <1>4. Len(g) = Len(h) + 1 /\ Holds(g, 0, h) /\ g[Len(h) + 1] = c
    BY ONLY <1>3, OneMore, h \in Seq(Byte), c \in Byte
  <1>5. PICK t \in Seq(Byte) : t = IF HasData(p) THEN <<e>> ELSE <<>>
    <2>1. <<e>> \in Seq(Byte) /\ <<>> \in Seq(Byte)
      BY ONLY e \in Byte
    <2>2. QED BY ONLY <2>1
  <1>6. Len(t) = (IF HasData(p) THEN 1 ELSE 0) /\ (HasData(p) => t[1] = e)
    BY ONLY <1>5, ByteSequences, e \in Byte
  <1>7. PICK b : b = path \o g \o w \o t
    OBVIOUS
  <1>8. b = ConstructPacket(p)
    BY ONLY <1>1, <1>2, <1>3, <1>5, <1>7,
       path = IF IsCommand(p) THEN p.targetSpaceWireAddress ELSE p.replyAddress DEF ConstructPacket
  <1>9. b \in Seq(Byte) /\ AreFour(b, path, g, w, t)
    BY ONLY <1>7, FourParts, path \in Seq(Byte), g \in Seq(Byte), w \in Seq(Byte), t \in Seq(Byte)
  <1>10. PICK i, j, k, l \in Nat : i = Len(path) /\ j = Len(h) /\ k = Len(w) /\ l = Len(t)
    OBVIOUS
  <1>11. /\ Len(b) = i + (j + 1) + k + l /\ Holds(b, 0, path) /\ Holds(b, i, g)
         /\ Holds(b, i + (j + 1), w) /\ Holds(b, i + (j + 1) + k, t)
    BY ONLY <1>4, <1>9, <1>10 DEF AreFour
  <1>12. Holds(b, i, h)
    <2>1. Holds(b, i + 0, h)
      BY ONLY <1>4, <1>9, <1>11, HoldsWithin, i \in Nat, 0 \in Nat, g \in Seq(Byte), h \in Seq(Byte)
    <2>2. QED BY ONLY <2>1, i \in Nat
  <1>13. b[i + j + 1] = c
    <2>1. b[i + (j + 1)] = g[j + 1]
      BY ONLY <1>4, <1>10, <1>11 DEF Holds
    <2>2. i + (j + 1) = i + j + 1
      OBVIOUS
    <2>3. QED BY ONLY <1>4, <1>10, <2>1, <2>2
  <1>14. HasData(p) => b[Len(b)] = e
    <2>1. SUFFICES ASSUME HasData(p) PROVE b[Len(b)] = e
      OBVIOUS
    <2>2. l = 1 /\ t[1] = e
      BY ONLY <1>6, <1>10, HasData(p)
    <2>3. b[i + (j + 1) + k + 1] = t[1]
      BY ONLY <1>10, <1>11, <2>2 DEF Holds
    <2>4. QED BY ONLY <1>11, <2>2, <2>3
  <1>15. i + (j + 1) = i + j + 1
    OBVIOUS
  <1>16. BufferHolds(b, path, h, p)
    BY ONLY <1>1, <1>2, <1>6, <1>9, <1>10, <1>11, <1>12, <1>13, <1>14, <1>15, path \in Seq(Byte)
       DEF BufferHolds
  <1>17. QED BY ONLY <1>1, <1>8, <1>16

-----------------------------------------------------------------------------
(* How a packet is read.                                                   *)

HeaderStart(b) == SelectInSeq(b, LAMBDA x : x >= 32)

\* The header begins after the path address.
LEMMA HeaderStarts ==
    ASSUME NEW b \in Seq(Byte), NEW path \in PathAddress, Holds(b, 0, path),
           Len(path) < Len(b), b[Len(path) + 1] \in LogicalAddress
    PROVE  HeaderStart(b) = Len(path) + 1
  <1>1. PICK a, n \in Nat : a = Len(path) /\ n = Len(b)
    BY DEF PathAddress
  <1>2. a < n
    BY ONLY <1>1, Len(path) < Len(b)
  <1>3. ASSUME NEW i \in 1 .. a PROVE ~(b[i] >= 32)
    <2>1. path[i] \in 0 .. 31
      BY <1>1 DEF PathAddress
    <2>2. b[0 + i] = path[i]
      BY ONLY <1>1, Holds(b, 0, path), i \in 1 .. a DEF Holds
    <2>3. 0 + i = i
      OBVIOUS
    <2>4. PICK v \in 0 .. 31 : v = path[i]
      BY ONLY <2>1
    <2>5. ~(v >= 32)
      BY ONLY v \in 0 .. 31
    <2>6. b[i] = v
      BY ONLY <2>2, <2>3, <2>4
    <2>7. QED BY ONLY <2>5, <2>6
  <1>4. b[a + 1] >= 32
    <2>1. PICK v : v = b[a + 1]
      OBVIOUS
    <2>2. v \in 32 .. 255
      BY ONLY <1>1, <2>1, b[Len(path) + 1] \in LogicalAddress DEF LogicalAddress
    <2>3. v >= 32
      BY ONLY <2>2
    <2>4. QED BY ONLY <2>1, <2>3
  <1> DEFINE I == {i \in 1 .. n : b[i] >= 32}
  <1>5. a + 1 \in I /\ \A i \in I : a + 1 <= i
    <2>1. a + 1 \in I
      BY <1>2, <1>4
    <2>2. ASSUME NEW i \in I, ~(a + 1 <= i) PROVE FALSE
      <3>1. i \in 1 .. a
        BY <2>2
      <3>2. QED BY <1>3, <3>1
    <2>3. QED BY <2>1, <2>2
  <1>6. HeaderStart(b) = IF I # {} THEN Min(I) ELSE 0
    BY <1>1 DEF HeaderStart, SelectInSeq
  <1>7. I \subseteq Nat
    OBVIOUS
  <1> HIDE DEF I
  <1>8. PICK m \in I : m = Min(I) /\ \A i \in I : m <= i
    BY <1>5 DEF Min
  <1>9. m = a + 1
    BY ONLY <1>5, <1>7, <1>8, a \in Nat
  <1>10. QED BY <1>1, <1>5, <1>6, <1>8, <1>9

\* What is taken for the kind of a packet once its header is found.
Found(b, draftE, s, beyond) ==
    [NewPacket(draftE) EXCEPT !.instruction = BitsOf(ByteAt(b, s + 2, beyond))]

\* Once its header is found, the kind of a packet says how the rest is read.
LEMMA HeaderFound ==
    ASSUME NEW b, NEW draftE, NEW beyond, NEW s, s = HeaderStart(b), s # 0, ~(Len(b) < 8),
           ByteAt(b, s + 1, beyond) = ProtocolIdentifier,
           NEW p, p = Found(b, draftE, s, beyond)
    PROVE  /\ IsCommand(p) => Interpret(b, draftE, beyond)
                                  = InterpretCommand(p, SubSeq(b, 1, s - 1), b, s, beyond)
           /\ ~IsCommand(p) => Interpret(b, draftE, beyond)
                                  = InterpretReply(p, SubSeq(b, 1, s - 1), b, s, beyond)
  BY DEF Interpret, HeaderStart, Found, SelectInSeq

\* The fields of a packet.
Fields ==
    {"targetSpaceWireAddress", "targetLogicalAddress", "instruction", "key", "replyAddress",
     "initiatorLogicalAddress", "transactionID", "extendedAddress", "address", "dataLength",
     "status", "data", "useDraftECRC"}
HasFields(p) == p = [x \in Fields |-> p[x]]

\* A packet is what its fields are.
LEMMA SamePacket ==
    ASSUME NEW p, NEW q, HasFields(p), HasFields(q),
           p.targetSpaceWireAddress = q.targetSpaceWireAddress,
           p.targetLogicalAddress = q.targetLogicalAddress, p.instruction = q.instruction,
           p.key = q.key, p.replyAddress = q.replyAddress,
           p.initiatorLogicalAddress = q.initiatorLogicalAddress,
           p.transactionID = q.transactionID, p.extendedAddress = q.extendedAddress,
           p.address = q.address, p.dataLength = q.dataLength, p.status = q.status,
           p.data = q.data, p.useDraftECRC = q.useDraftECRC
    PROVE  p = q
  BY DEF HasFields, Fields

\* A command as it is read.
ReadCommand(q, draftE) ==
    [targetSpaceWireAddress |-> q.targetSpaceWireAddress,
     targetLogicalAddress |-> q.targetLogicalAddress, instruction |-> q.instruction,
     key |-> q.key, replyAddress |-> Padded(q.replyAddress),
     initiatorLogicalAddress |-> q.initiatorLogicalAddress,
     transactionID |-> q.transactionID, extendedAddress |-> q.extendedAddress,
     address |-> q.address, dataLength |-> q.dataLength, status |-> 0, data |-> q.data,
     useDraftECRC |-> draftE]

\* The fields of a command, as its header tells them.
CommandFrom(p, r, path, ta, k, ia, tid, x, a, n) ==
    [SetReplyAddress(p, r) EXCEPT
        !.targetSpaceWireAddress = path, !.targetLogicalAddress = ta,
        !.key = k, !.initiatorLogicalAddress = ia, !.transactionID = tid,
        !.extendedAddress = x, !.address = a, !.dataLength = n, !.data = <<>>]

CommandAt(p, path, bytes, s, t, words, beyond) ==
    CommandFrom(p, BytesAt(bytes, s + 4, 4 * words, beyond), path, ByteAt(bytes, s, beyond),
                ByteAt(bytes, s + 3, beyond), ByteAt(bytes, t, beyond),
                NumberOfTwo(BytesAt(bytes, t + 1, 2, beyond)), ByteAt(bytes, t + 3, beyond),
                BytesAt(bytes, t + 4, 4, beyond), NumberOfThree(BytesAt(bytes, t + 8, 3, beyond)))

\* What is made of a command whose fields are q's.
InterpretedAs(result, q, bytes, t, beyond) ==
    LET read == {[q EXCEPT !.data = IF IsWrite(q) THEN SubSeq(bytes, t + 12, Len(bytes) - 1)
                                    ELSE <<>>]}
    IN /\ result \subseteq read
       /\ /\ HeaderCRCIntact(q, bytes, t + 11, beyond)
          /\ IsWrite(q) => DataPartIntact(q, bytes, t + 12)
          => result = read

\* interpretAsAnRMAPPacket() for a command, its fields named.
LEMMA CommandInterpreted ==
    ASSUME NEW p, NEW path, NEW bytes, NEW s, NEW beyond,
           NEW words, words = ReplyPathAddressLength(p), NEW t, t = s + 4 + 4 * words,
           NEW q, q = CommandAt(p, path, bytes, s, t, words, beyond)
    PROVE  InterpretedAs(InterpretCommand(p, path, bytes, s, beyond), q, bytes, t, beyond)
  <1>1. InterpretCommand(p, path, bytes, s, beyond) =
            IF \/ ~HeaderCRCIntact(q, bytes, t + 11, beyond)
               \/ IsWrite(q) /\ ~DataPartIntact(q, bytes, t + 12)
            THEN {}
            ELSE {[q EXCEPT !.data = IF IsWrite(q) THEN SubSeq(bytes, t + 12, Len(bytes) - 1)
                                     ELSE <<>>]}
    BY DEF InterpretCommand, CommandAt, CommandFrom
  <1>2. QED BY ONLY <1>1 DEF InterpretedAs

\* The fields of a command that is read.
LEMMA CommandFields ==
    ASSUME NEW q, CommandFits(q), NEW draftE, NEW p,
           p = [NewPacket(draftE) EXCEPT !.instruction = q.instruction]
    PROVE  CommandFrom(p, Padded(q.replyAddress), q.targetSpaceWireAddress, q.targetLogicalAddress,
                       q.key, q.initiatorLogicalAddress, q.transactionID, q.extendedAddress,
                       q.address, q.dataLength)
             = [ReadCommand(q, draftE) EXCEPT !.data = <<>>]
  <1>1. PICK r, w, m : r = Padded(q.replyAddress) /\ w = Words(q.replyAddress) /\ m = q.instruction
    OBVIOUS
  <1>2. q.replyAddress \in ReplyAddress /\ m \in SUBSET (0 .. 7) /\ m = WithWords(m, w)
    BY <1>1 DEF CommandFits, Packet
  <1>3. w \in 0 .. 3 /\ r \in Seq(Byte) /\ Len(r) = 4 * w
    BY ONLY <1>1, <1>2, PaddedAddress
  <1>4. r \in ReplyAddress
    BY ONLY <1>3 DEF ReplyAddress
  <1>5. Words(r) = w
    BY ONLY <1>3, <1>4, PaddedOnce
  <1>6. BitsOf((ByteOf(m \ ReplyPathAddressLengthBits) + w) % 256) = m
    BY ONLY <1>2, <1>3, WordsInInstruction
  <1>7. SetReplyAddress(p, r) = [p EXCEPT !.replyAddress = r, !.instruction = m]
    <2>1. p.instruction = m
      BY <1>1 DEF NewPacket
    <2>2. SetReplyAddress(p, r) =
              [p EXCEPT !.replyAddress = r,
                        !.instruction = BitsOf((ByteOf(m \ ReplyPathAddressLengthBits) + Words(r)) % 256)]
      BY ONLY <2>1 DEF SetReplyAddress, Words
    <2>3. QED BY ONLY <1>5, <1>6, <2>2
  <1>8. PICK y : y = [p EXCEPT !.replyAddress = r, !.instruction = m]
    OBVIOUS
  <1>9. /\ HasFields(y) /\ y.replyAddress = r /\ y.instruction = m /\ y.status = 0
        /\ y.useDraftECRC = draftE
    <2>1. HasFields(NewPacket(draftE))
      BY DEF HasFields, Fields, NewPacket
    <2>2. NewPacket(draftE).status = 0 /\ NewPacket(draftE).useDraftECRC = draftE
      BY DEF NewPacket
    <2>3. QED
      BY ONLY <1>8, <2>1, <2>2, p = [NewPacket(draftE) EXCEPT !.instruction = q.instruction]
         DEF HasFields, Fields
  <1>10. PICK z : z = [ReadCommand(q, draftE) EXCEPT !.data = <<>>]
    OBVIOUS
  <1>11. /\ HasFields(z) /\ z.targetSpaceWireAddress = q.targetSpaceWireAddress
         /\ z.targetLogicalAddress = q.targetLogicalAddress /\ z.instruction = m /\ z.key = q.key
         /\ z.replyAddress = r /\ z.initiatorLogicalAddress = q.initiatorLogicalAddress
         /\ z.transactionID = q.transactionID /\ z.extendedAddress = q.extendedAddress
         /\ z.address = q.address /\ z.dataLength = q.dataLength /\ z.status = 0
         /\ z.data = <<>> /\ z.useDraftECRC = draftE
    BY ONLY <1>1, <1>10 DEF ReadCommand, HasFields, Fields
  <1>12. PICK x : x = [y EXCEPT
            !.targetSpaceWireAddress = q.targetSpaceWireAddress,
            !.targetLogicalAddress = q.targetLogicalAddress,
            !.key = q.key, !.initiatorLogicalAddress = q.initiatorLogicalAddress,
            !.transactionID = q.transactionID,
            !.extendedAddress = q.extendedAddress, !.address = q.address,
            !.dataLength = q.dataLength, !.data = <<>>]
    OBVIOUS
  <1>13. /\ HasFields(x) /\ x.targetSpaceWireAddress = q.targetSpaceWireAddress
         /\ x.targetLogicalAddress = q.targetLogicalAddress /\ x.instruction = m /\ x.key = q.key
         /\ x.replyAddress = r /\ x.initiatorLogicalAddress = q.initiatorLogicalAddress
         /\ x.transactionID = q.transactionID /\ x.extendedAddress = q.extendedAddress
         /\ x.address = q.address /\ x.dataLength = q.dataLength /\ x.status = 0
         /\ x.data = <<>> /\ x.useDraftECRC = draftE
    BY ONLY <1>9, <1>12 DEF HasFields, Fields
  <1>14. x = z
    BY ONLY <1>11, <1>13, SamePacket
  <1>15. QED BY ONLY <1>1, <1>7, <1>8, <1>10, <1>12, <1>14 DEF CommandFrom

\* The bytes that a header puts into its packet.
HeaderIsRead(b, h, k, beyond) ==
    /\ \A i \in 1 .. Len(h) : ByteAt(b, k + i - 1, beyond) = h[i] /\ b[k + i - 1] = h[i]
    /\ \A j \in Nat : \A w \in Seq(Byte) :
           Holds(h, j, w) => BytesAt(b, k + j, Len(w), beyond) = w

\* Where a header lies whole in a packet, every byte and every field is read from it.
LEMMA HeaderBytes ==
    ASSUME NEW b \in Seq(Byte), NEW h \in Seq(Byte), NEW a \in Nat, Holds(b, a, h),
           NEW k, k = a + 1, NEW beyond
    PROVE  HeaderIsRead(b, h, k, beyond)
  <1>1. PICK m, l \in Nat : m = Len(b) /\ l = Len(h) /\ DOMAIN b = 1 .. m
    OBVIOUS
  <1>2. a + l <= m /\ \A i \in 1 .. l : b[a + i] = h[i]
    BY ONLY <1>1, Holds(b, a, h) DEF Holds
  <1>3. ASSUME NEW i \in 1 .. l
        PROVE  ByteAt(b, k + i - 1, beyond) = h[i] /\ b[k + i - 1] = h[i]
    <2>1. k + i - 1 = a + i /\ a + i \in 1 .. m
      <3>1. a + l <= m
        BY ONLY <1>2
      <3>2. QED BY ONLY <3>1, k = a + 1, i \in 1 .. l, a \in Nat, l \in Nat, m \in Nat
    <2>2. QED BY ONLY <1>1, <1>2, <2>1, i \in 1 .. l DEF ByteAt
  <1>4. ASSUME NEW j \in Nat, NEW w \in Seq(Byte), Holds(h, j, w)
        PROVE  BytesAt(b, k + j, Len(w), beyond) = w
    <2>1. Holds(b, a + j, w)
      BY ONLY b \in Seq(Byte), h \in Seq(Byte), a \in Nat, Holds(b, a, h), w \in Seq(Byte),
         j \in Nat, Holds(h, j, w), HoldsWithin
    <2>2. k + j = (a + j) + 1 /\ a + j \in Nat
      OBVIOUS
    <2>3. QED BY ONLY <2>1, <2>2, b \in Seq(Byte), w \in Seq(Byte), BytesHeld
  <1>5. QED BY ONLY <1>1, <1>3, <1>4 DEF HeaderIsRead

\* b is read as the command q, whose header begins at s and goes on at t after the way home.
FoundAs(q, p, b, s, t, draftE, beyond) ==
    LET words == Words(q.replyAddress)
        path  == q.targetSpaceWireAddress
    IN /\ ReplyPathAddressLength(p) = words
       /\ Interpret(b, draftE, beyond) = InterpretCommand(p, path, b, s, beyond)
       /\ CommandAt(p, path, b, s, t, words, beyond) = [ReadCommand(q, draftE) EXCEPT !.data = <<>>]

\* The header of a command is found, and its fields are read as they are.
LEMMA CommandIsFound ==
    ASSUME NEW q, CommandFits(q), NEW draftE, NEW beyond, NEW b, b = ConstructPacket(q),
           NEW s, s = Len(q.targetSpaceWireAddress) + 1,
           NEW t, t = s + 4 + 4 * Words(q.replyAddress),
           NEW p, p = [NewPacket(draftE) EXCEPT !.instruction = q.instruction]
    PROVE  FoundAs(q, p, b, s, t, draftE, beyond)
  <1>1. PICK path, h : path = q.targetSpaceWireAddress /\ h = HeaderOf(q)
    OBVIOUS
  <1>2. path \in PathAddress /\ path \in Seq(Byte) /\ q.data \in Seq(Byte) /\ IsCommand(q)
        /\ q.targetLogicalAddress \in LogicalAddress /\ q.replyAddress \in ReplyAddress
        /\ q.transactionID \in TransactionID /\ q.dataLength \in Length /\ q.address \in FourByte
        /\ q.instruction \in SUBSET (0 .. 7) /\ q.instruction = WithWords(q.instruction, Words(q.replyAddress))
    BY <1>1, FieldsAreBytes DEF CommandFits, Packet
  <1>3. CommandHeader(h, q)
    BY ONLY <1>1, CommandHeaderLayout, CommandFits(q)
  <1>4. h \in Seq(Byte)
    BY ONLY <1>3 DEF CommandHeader
  <1>5. BufferHolds(b, path, h, q)
    BY ONLY <1>1, <1>2, <1>4, BufferLayout, b = ConstructPacket(q)
  <1>6. PICK a, w, l \in Nat : a = Len(path) /\ w = Words(q.replyAddress) /\ w \in 0 .. 3 /\ l = Len(b)
    <2>1. b \in Seq(Byte)
      BY ONLY <1>5 DEF BufferHolds
    <2>2. Words(q.replyAddress) \in 0 .. 3
      BY ONLY <1>2, PaddedAddress
    <2>3. Len(path) \in Nat /\ Len(b) \in Nat
      BY ONLY <1>2, <2>1
    <2>4. QED BY ONLY <2>2, <2>3
  <1>7. PICK n \in Nat : n = 4 * w
    OBVIOUS
  <1>8. /\ Len(h) = n + 15
        /\ h[1] = q.targetLogicalAddress /\ h[2] = ProtocolIdentifier
        /\ h[3] = ByteOf(q.instruction) /\ h[4] = q.key
        /\ Holds(h, 4, Padded(q.replyAddress)) /\ h[n + 5] = q.initiatorLogicalAddress
        /\ Holds(h, n + 5, TwoBytes(q.transactionID)) /\ h[n + 8] = q.extendedAddress
        /\ Holds(h, n + 8, q.address) /\ Holds(h, n + 12, ThreeBytes(q.dataLength))
    BY ONLY <1>3, <1>6, <1>7 DEF CommandHeader
  <1>9. b \in Seq(Byte) /\ Holds(b, 0, path) /\ Holds(b, a, h) /\ a + n + 16 <= l
    <2>1. b \in Seq(Byte) /\ Holds(b, 0, path) /\ Holds(b, a, h)
      BY ONLY <1>5, <1>6 DEF BufferHolds
    <2>2. Len(b) = Len(path) + Len(h) + 1 + Len(q.data) + (IF HasData(q) THEN 1 ELSE 0)
      BY ONLY <1>5 DEF BufferHolds
    <2>3. PICK ld \in Nat : ld = Len(q.data)
      <3>1. q.data \in Seq(Byte)
        BY ONLY <1>2
      <3>2. QED BY ONLY <3>1
    <2>4. l = a + (n + 15) + 1 + ld + (IF HasData(q) THEN 1 ELSE 0)
      BY ONLY <1>6, <1>8, <2>2, <2>3
    <2>5. a + n + 16 <= l
      BY ONLY <2>4, a \in Nat, n \in Nat, ld \in Nat
    <2>6. QED BY ONLY <2>1, <2>5
  <1>10. s = a + 1 /\ t = s + 4 + n /\ s \in Nat /\ t \in Nat
    <2>1. Len(q.targetSpaceWireAddress) = a /\ 4 * Words(q.replyAddress) = n
      BY ONLY <1>1, <1>6, <1>7
    <2>2. s = a + 1
      BY ONLY <2>1, s = Len(q.targetSpaceWireAddress) + 1
    <2>3. t = s + 4 + n
      BY ONLY <2>1, t = s + 4 + 4 * Words(q.replyAddress)
    <2>4. QED BY ONLY <2>2, <2>3, a \in Nat, n \in Nat
  <1>11. /\ 1 \in 1 .. Len(h) /\ 2 \in 1 .. Len(h) /\ 3 \in 1 .. Len(h) /\ 4 \in 1 .. Len(h)
         /\ n + 5 \in 1 .. Len(h) /\ n + 8 \in 1 .. Len(h)
    BY ONLY <1>8, n \in Nat
  <1>12. /\ s = s + 1 - 1 /\ s + 1 = s + 2 - 1 /\ s + 2 = s + 3 - 1 /\ s + 3 = s + 4 - 1
         /\ t = s + (n + 5) - 1 /\ t + 3 = s + (n + 8) - 1
         /\ s + 4 = s + 4 /\ t + 1 = s + (n + 5) /\ t + 4 = s + (n + 8) /\ t + 8 = s + (n + 12)
    BY ONLY <1>10, n \in Nat
  <1>0. HeaderIsRead(b, h, s, beyond)
    BY ONLY <1>4, <1>9, <1>10, a \in Nat, HeaderBytes
  <1>13. /\ ByteAt(b, s, beyond) = q.targetLogicalAddress /\ b[s] = q.targetLogicalAddress
         /\ ByteAt(b, s + 1, beyond) = ProtocolIdentifier
         /\ ByteAt(b, s + 2, beyond) = ByteOf(q.instruction)
         /\ ByteAt(b, s + 3, beyond) = q.key
    <2>1. \A i \in 1 .. Len(h) : ByteAt(b, s + i - 1, beyond) = h[i] /\ b[s + i - 1] = h[i]
      BY ONLY <1>0 DEF HeaderIsRead
    <2>2. /\ ByteAt(b, s + 1 - 1, beyond) = h[1] /\ b[s + 1 - 1] = h[1]
          /\ ByteAt(b, s + 2 - 1, beyond) = h[2] /\ ByteAt(b, s + 3 - 1, beyond) = h[3]
          /\ ByteAt(b, s + 4 - 1, beyond) = h[4]
      BY ONLY <1>11, <2>1
    <2>3. QED BY ONLY <1>8, <1>12, <2>2
  <1>14. /\ ByteAt(b, t, beyond) = q.initiatorLogicalAddress
         /\ ByteAt(b, t + 3, beyond) = q.extendedAddress
    <2>1. \A i \in 1 .. Len(h) : ByteAt(b, s + i - 1, beyond) = h[i]
      BY ONLY <1>0 DEF HeaderIsRead
    <2>2. /\ ByteAt(b, s + (n + 5) - 1, beyond) = h[n + 5]
          /\ ByteAt(b, s + (n + 8) - 1, beyond) = h[n + 8]
      BY ONLY <1>11, <2>1
    <2>3. QED BY ONLY <1>8, <1>12, <2>2
  <1>15. BytesAt(b, s + 4, 4 * w, beyond) = Padded(q.replyAddress)
    <2>1. Padded(q.replyAddress) \in Seq(Byte) /\ Len(Padded(q.replyAddress)) = 4 * w
      BY ONLY <1>2, <1>6, PaddedAddress
    <2>2. QED BY ONLY <1>0, <1>8, <2>1, 4 \in Nat DEF HeaderIsRead
  <1>16. BytesAt(b, t + 1, 2, beyond) = TwoBytes(q.transactionID)
    <2>1. TwoBytes(q.transactionID) \in Seq(Byte) /\ Len(TwoBytes(q.transactionID)) = 2
      BY ONLY <1>2, NumbersAreBytes
    <2>2. n + 5 \in Nat
      OBVIOUS
    <2>3. BytesAt(b, s + (n + 5), Len(TwoBytes(q.transactionID)), beyond) = TwoBytes(q.transactionID)
      BY ONLY <1>0, <1>8, <2>1, <2>2 DEF HeaderIsRead
    <2>4. QED BY ONLY <1>12, <2>1, <2>3
  <1>17. BytesAt(b, t + 4, 4, beyond) = q.address
    <2>1. q.address \in Seq(Byte) /\ Len(q.address) = 4
      BY ONLY <1>2 DEF FourByte
    <2>2. n + 8 \in Nat
      OBVIOUS
    <2>3. BytesAt(b, s + (n + 8), Len(q.address), beyond) = q.address
      BY ONLY <1>0, <1>8, <2>1, <2>2 DEF HeaderIsRead
    <2>4. QED BY ONLY <1>12, <2>1, <2>3
  <1>18. BytesAt(b, t + 8, 3, beyond) = ThreeBytes(q.dataLength)
    <2>1. ThreeBytes(q.dataLength) \in Seq(Byte) /\ Len(ThreeBytes(q.dataLength)) = 3
      BY ONLY <1>2, NumbersAreBytes
    <2>2. n + 12 \in Nat
      OBVIOUS
    <2>3. BytesAt(b, s + (n + 12), Len(ThreeBytes(q.dataLength)), beyond) = ThreeBytes(q.dataLength)
      BY ONLY <1>0, <1>8, <2>1, <2>2 DEF HeaderIsRead
    <2>4. QED BY ONLY <1>12, <2>1, <2>3
  <1>19. HeaderStart(b) = s
    <2>1. Len(path) < Len(b) /\ b[Len(path) + 1] \in LogicalAddress
      BY ONLY <1>2, <1>6, <1>9, <1>10, <1>13, n \in Nat
    <2>2. QED BY ONLY <1>2, <1>6, <1>9, <1>10, <2>1, HeaderStarts
  <1>20. p = Found(b, draftE, s, beyond) /\ IsCommand(p)
    <2>1. BitsOf(ByteOf(q.instruction)) = q.instruction
      BY ONLY <1>2, BitsOfByte
    <2>2. p = Found(b, draftE, s, beyond)
      BY ONLY <1>13, <2>1, p = [NewPacket(draftE) EXCEPT !.instruction = q.instruction] DEF Found
    <2>3. p.instruction = q.instruction
      BY DEF NewPacket
    <2>4. QED BY ONLY <1>2, <2>2, <2>3 DEF IsCommand
  <1>21. ReplyPathAddressLength(p) = w
    <2>1. p.instruction = q.instruction
      BY DEF NewPacket
    <2>2. ByteOf(WithWords(q.instruction, w) \cap ReplyPathAddressLengthBits) = w
      BY ONLY <1>2, <1>6, WordsInInstruction
    <2>3. q.instruction = WithWords(q.instruction, w)
      BY ONLY <1>2, <1>6
    <2>4. QED BY ONLY <2>1, <2>2, <2>3 DEF ReplyPathAddressLength
  <1>22. SubSeq(b, 1, s - 1) = path
    <2>1. SubSeq(b, 0 + 1, 0 + Len(path)) = path
      BY ONLY <1>2, <1>9, 0 \in Nat, HoldsPart
    <2>2. 0 + 1 = 1 /\ 0 + Len(path) = s - 1
      BY ONLY <1>6, <1>10, a \in Nat
    <2>3. QED BY ONLY <2>1, <2>2
  <1>23. Interpret(b, draftE, beyond) = InterpretCommand(p, path, b, s, beyond)
    <2>1. s # 0 /\ ~(Len(b) < 8)
      BY ONLY <1>6, <1>9, <1>10, a \in Nat, n \in Nat
    <2>2. QED BY ONLY <1>13, <1>19, <1>20, <1>22, <2>1, HeaderFound
  <1>24. CommandAt(p, path, b, s, t, w, beyond) = [ReadCommand(q, draftE) EXCEPT !.data = <<>>]
    <2>1. /\ NumberOfTwo(TwoBytes(q.transactionID)) = q.transactionID
          /\ NumberOfThree(ThreeBytes(q.dataLength)) = q.dataLength
      BY ONLY <1>2, NumbersAreBytes
    <2>2. CommandAt(p, path, b, s, t, w, beyond)
            = CommandFrom(p, Padded(q.replyAddress), path, q.targetLogicalAddress,
                          q.key, q.initiatorLogicalAddress, q.transactionID, q.extendedAddress,
                          q.address, q.dataLength)
      BY ONLY <1>13, <1>14, <1>15, <1>16, <1>17, <1>18, <2>1 DEF CommandAt
    <2>3. QED
      BY ONLY <1>1, <2>2, CommandFields, CommandFits(q),
         p = [NewPacket(draftE) EXCEPT !.instruction = q.instruction]
  <1>25. QED BY ONLY <1>1, <1>6, <1>21, <1>23, <1>24 DEF FoundAs

\* z is q before its data, if any, are read.
ReadsAs(z, q, draftE) ==
    /\ HeaderOf(z) = HeaderOf(q) /\ (IsWrite(z) <=> IsWrite(q))
    /\ z.dataLength = q.dataLength
    /\ draftE = q.useDraftECRC => \A x : CRCOf(z, x) = CRCOf(q, x)
    /\ [z EXCEPT !.data = q.data] = ReadCommand(q, draftE)

\* Filling up twice changes nothing, nor does it change the header.
LEMMA HeaderAsRead ==
    ASSUME NEW q, CommandFits(q), NEW draftE, NEW z,
           z = [ReadCommand(q, draftE) EXCEPT !.data = <<>>]
    PROVE  ReadsAs(z, q, draftE)
  <1>1. PICK r, w : r = Padded(q.replyAddress) /\ w = Words(q.replyAddress)
    OBVIOUS
  <1>2. r \in Seq(Byte) /\ Len(r) = 4 * w /\ w \in 0 .. 3 /\ w \in Nat
    BY <1>1, PaddedAddress DEF CommandFits, Packet
  <1>3. r \in ReplyAddress
    BY ONLY <1>2 DEF ReplyAddress
  <1>4. Padded(r) = r
    BY ONLY <1>2, <1>3, PaddedOnce
  <1>5. /\ z.targetLogicalAddress = q.targetLogicalAddress /\ z.instruction = q.instruction
        /\ z.key = q.key /\ z.replyAddress = r
        /\ z.initiatorLogicalAddress = q.initiatorLogicalAddress
        /\ z.transactionID = q.transactionID /\ z.extendedAddress = q.extendedAddress
        /\ z.address = q.address /\ z.dataLength = q.dataLength /\ z.useDraftECRC = draftE
    BY <1>1 DEF ReadCommand
  <1>6. (IsWrite(z) <=> IsWrite(q)) /\ (IsCommand(z) <=> IsCommand(q)) /\ IsCommand(q)
    BY <1>5 DEF IsWrite, IsCommand, CommandFits
  <1>7. HeaderOf(z) = HeaderOf(q)
    BY ONLY <1>1, <1>4, <1>5, <1>6 DEF HeaderOf
  <1>8. draftE = q.useDraftECRC => \A x : CRCOf(z, x) = CRCOf(q, x)
    BY ONLY <1>5 DEF CRCOf
  <1>9. [z EXCEPT !.data = q.data] = ReadCommand(q, draftE)
    <2>1. PICK x, y : x = [z EXCEPT !.data = q.data] /\ y = ReadCommand(q, draftE)
      OBVIOUS
    <2>2. HasFields(y) /\ y.data = q.data /\ z = [y EXCEPT !.data = <<>>]
      BY <2>1 DEF ReadCommand, HasFields, Fields
    <2>3. HasFields(x)
      BY ONLY <2>1, <2>2 DEF HasFields, Fields
    <2>4. /\ x.targetSpaceWireAddress = y.targetSpaceWireAddress
          /\ x.targetLogicalAddress = y.targetLogicalAddress /\ x.instruction = y.instruction
          /\ x.key = y.key /\ x.replyAddress = y.replyAddress
          /\ x.initiatorLogicalAddress = y.initiatorLogicalAddress
          /\ x.transactionID = y.transactionID /\ x.extendedAddress = y.extendedAddress
          /\ x.address = y.address /\ x.dataLength = y.dataLength /\ x.status = y.status
          /\ x.data = y.data /\ x.useDraftECRC = y.useDraftECRC
      BY ONLY <2>1, <2>2 DEF HasFields, Fields
    <2>5. QED BY ONLY <2>1, <2>2, <2>3, <2>4, SamePacket
  <1>10. QED BY ONLY <1>5, <1>6, <1>7, <1>8, <1>9 DEF ReadsAs

\* A command is read as it was sent, or not at all, and it is read when both
\* sides use the same CRC.
LEMMA CommandIsRead ==
    ASSUME NEW q, CommandFits(q), NEW draftE, NEW beyond
    PROVE  /\ Interpret(ConstructPacket(q), draftE, beyond) \subseteq {ReadCommand(q, draftE)}
           /\ draftE = q.useDraftECRC =>
                  Interpret(ConstructPacket(q), draftE, beyond) = {ReadCommand(q, draftE)}
  <1>1. PICK b, h, path : b = ConstructPacket(q) /\ h = HeaderOf(q) /\ path = q.targetSpaceWireAddress
    OBVIOUS
  <1>2. /\ path \in Seq(Byte) /\ q.data \in Seq(Byte) /\ q.replyAddress \in ReplyAddress
        /\ IsCommand(q)
        /\ IsWrite(q) => q.dataLength = Len(q.data)
        /\ ~IsWrite(q) => q.data = <<>>
    BY <1>1, FieldsAreBytes DEF CommandFits, Packet
  <1>3. h \in Seq(Byte) /\ Len(h) = 4 * Words(q.replyAddress) + 15
    BY ONLY <1>1, CommandHeaderLayout, CommandFits(q) DEF CommandHeader
  <1>4. BufferHolds(b, path, h, q)
    BY ONLY <1>1, <1>2, <1>3, BufferLayout
  <1>5. PICK a, w, l, d \in Nat : /\ a = Len(path) /\ w = Words(q.replyAddress) /\ l = Len(b)
                                  /\ d = Len(q.data)
    <2>1. b \in Seq(Byte)
      BY ONLY <1>4 DEF BufferHolds
    <2>2. Words(q.replyAddress) \in 0 .. 3
      BY ONLY <1>2, PaddedAddress
    <2>3. Len(path) \in Nat /\ Len(b) \in Nat /\ Len(q.data) \in Nat
      BY ONLY <1>2, <2>1
    <2>4. QED BY ONLY <2>2, <2>3
  <1>6. PICK s, t \in Nat : s = a + 1 /\ t = s + 4 + 4 * w
    OBVIOUS
  <1>7. PICK p : p = [NewPacket(draftE) EXCEPT !.instruction = q.instruction]
    OBVIOUS
  <1>8. PICK z : z = [ReadCommand(q, draftE) EXCEPT !.data = <<>>]
    OBVIOUS
  <1>9. /\ ReplyPathAddressLength(p) = w
        /\ Interpret(b, draftE, beyond) = InterpretCommand(p, path, b, s, beyond)
        /\ CommandAt(p, path, b, s, t, w, beyond) = z
    <2>1. s = Len(q.targetSpaceWireAddress) + 1 /\ t = s + 4 + 4 * Words(q.replyAddress)
      BY ONLY <1>1, <1>5, <1>6
    <2>2. FoundAs(q, p, b, s, t, draftE, beyond)
      BY ONLY <1>1, <1>7, <2>1, CommandIsFound, CommandFits(q)
    <2>3. QED BY ONLY <1>1, <1>5, <1>8, <2>2 DEF FoundAs
  <1>10. PICK y : y = {[z EXCEPT !.data = IF IsWrite(z) THEN SubSeq(b, t + 12, Len(b) - 1)
                                          ELSE <<>>]}
    OBVIOUS
  <1>11. /\ InterpretCommand(p, path, b, s, beyond) \subseteq y
         /\ /\ HeaderCRCIntact(z, b, t + 11, beyond)
            /\ IsWrite(z) => DataPartIntact(z, b, t + 12)
            => InterpretCommand(p, path, b, s, beyond) = y
    <2>1. InterpretedAs(InterpretCommand(p, path, b, s, beyond), z, b, t, beyond)
      BY ONLY <1>6, <1>9, CommandInterpreted
    <2>2. QED BY ONLY <1>10, <2>1 DEF InterpretedAs
  <1>12. /\ HeaderOf(z) = h /\ (IsWrite(z) <=> IsWrite(q)) /\ z.dataLength = q.dataLength
         /\ draftE = q.useDraftECRC => \A x : CRCOf(z, x) = CRCOf(q, x)
         /\ [z EXCEPT !.data = q.data] = ReadCommand(q, draftE)
    <2>1. ReadsAs(z, q, draftE)
      BY ONLY <1>8, HeaderAsRead, CommandFits(q)
    <2>2. QED BY ONLY <1>1, <2>1 DEF ReadsAs
  <1>13. /\ b \in Seq(Byte) /\ b[a + (4 * w + 15) + 1] = CRCOf(q, h)
         /\ Holds(b, a + (4 * w + 15) + 1, q.data)
         /\ l = a + (4 * w + 15) + 1 + d + (IF HasData(q) THEN 1 ELSE 0)
         /\ HasData(q) => b[l] = CRCOf(q, q.data)
    BY ONLY <1>3, <1>4, <1>5 DEF BufferHolds
  <1>14. t + 11 = a + (4 * w + 15) + 1 /\ t + 12 = t + 11 + 1 /\ t + 11 \in Nat
    BY ONLY <1>6, a \in Nat, w \in Nat
  <1>15. IsWrite(q) => HasData(q)
    BY ONLY <1>2 DEF HasData
  <1>16. IsWrite(q) => /\ SubSeq(b, t + 12, Len(b) - 1) = q.data
                       /\ t + 12 + q.dataLength = Len(b)
    <2>1. SUFFICES ASSUME IsWrite(q) PROVE /\ SubSeq(b, t + 12, Len(b) - 1) = q.data
                                           /\ t + 12 + q.dataLength = Len(b)
      OBVIOUS
    <2>2. SubSeq(b, t + 11 + 1, t + 11 + Len(q.data)) = q.data
      <3>1. PICK k \in Nat : k = t + 11
        BY ONLY <1>14
      <3>2. Holds(b, k, q.data) /\ b \in Seq(Byte) /\ q.data \in Seq(Byte)
        BY ONLY <1>2, <1>13, <1>14, <3>1
      <3>3. SubSeq(b, k + 1, k + Len(q.data)) = q.data
        BY ONLY <3>2, HoldsPart, k \in Nat
      <3>4. QED BY ONLY <3>1, <3>3
    <2>3. l = t + 11 + d + 1
      BY ONLY <1>13, <1>14, <1>15, IsWrite(q)
    <2>4. l - 1 = t + 11 + d /\ t + 12 + d = l
      BY ONLY <1>14, <2>3, d \in Nat, t \in Nat
    <2>5. q.dataLength = d
      BY ONLY <1>2, <1>5, IsWrite(q)
    <2>6. QED BY ONLY <1>5, <1>14, <2>2, <2>4, <2>5
  <1>17. y = {ReadCommand(q, draftE)}
    BY ONLY <1>2, <1>10, <1>12, <1>16
  <1>18. ASSUME draftE = q.useDraftECRC
         PROVE  /\ HeaderCRCIntact(z, b, t + 11, beyond)
                /\ IsWrite(z) => DataPartIntact(z, b, t + 12)
    <2>1. t + 11 \in DOMAIN b
      <3>1. t + 11 <= l /\ t + 11 >= 1
        BY ONLY <1>6, <1>13, <1>14, d \in Nat
      <3>2. DOMAIN b = 1 .. l
        <4>1. b \in Seq(Byte) /\ l = Len(b)
          BY ONLY <1>5, <1>13
        <4>2. QED BY ONLY <4>1
      <3>3. QED BY ONLY <1>14, <3>1, <3>2, l \in Nat
    <2>2. ByteAt(b, t + 11, beyond) = CRCOf(q, h)
      BY ONLY <1>13, <1>14, <2>1 DEF ByteAt
    <2>3. HeaderCRCIntact(z, b, t + 11, beyond)
      BY ONLY <1>12, <1>18, <2>2 DEF HeaderCRCIntact
    <2>4. IsWrite(z) => DataPartIntact(z, b, t + 12)
      BY ONLY <1>5, <1>12, <1>13, <1>15, <1>16, <1>18 DEF DataPartIntact
    <2>5. QED BY ONLY <2>3, <2>4
  <1>19. QED BY ONLY <1>1, <1>9, <1>11, <1>17, <1>18

-----------------------------------------------------------------------------
(* The replies of a target.                                                *)

\* A reply whose fields agree with one another.
ReplyFits(r) ==
    /\ ~IsCommand(r) /\ r.instruction \in SUBSET (0 .. 7)
    /\ r.initiatorLogicalAddress \in LogicalAddress /\ r.targetLogicalAddress \in LogicalAddress
    /\ r.status \in Byte /\ r.transactionID \in TransactionID /\ r.dataLength \in Length
    /\ r.replyAddress \in PathAddress /\ r.data \in Seq(Byte)
    /\ IsWrite(r) => r.data = <<>>

\* A reply as it is read.
ReadReply(r, draftE) ==
    [NewPacket(draftE) EXCEPT
        !.instruction = r.instruction, !.replyAddress = r.replyAddress,
        !.initiatorLogicalAddress = r.initiatorLogicalAddress,
        !.status = r.status, !.targetLogicalAddress = r.targetLogicalAddress,
        !.transactionID = r.transactionID,
        !.dataLength = IF IsWrite(r) THEN 0 ELSE r.dataLength, !.data = r.data]

\* The fields of a header of a reply.
ReplyHeader(h, r) ==
    /\ h \in Seq(Byte) /\ Len(h) = IF IsWrite(r) THEN 7 ELSE 11
    /\ h[1] = r.initiatorLogicalAddress /\ h[2] = ProtocolIdentifier
    /\ h[3] = ByteOf(r.instruction) /\ h[4] = r.status /\ h[5] = r.targetLogicalAddress
    /\ Holds(h, 5, TwoBytes(r.transactionID))
    /\ ~IsWrite(r) => Holds(h, 8, ThreeBytes(r.dataLength))

\* constructHeader() lays out a reply as it should.
LEMMA ReplyHeaderLayout ==
    ASSUME NEW r, ReplyFits(r)
    PROVE  ReplyHeader(HeaderOf(r), r)
  <1>1. PICK ia, o, m, c, ta \in Byte : /\ ia = r.initiatorLogicalAddress /\ o = ProtocolIdentifier
                                        /\ m = ByteOf(r.instruction) /\ c = r.status
                                        /\ ta = r.targetLogicalAddress
    BY FieldsAreBytes, BitsOfByte DEF ReplyFits
  <1>2. PICK u : u = <<ia, o, m, c, ta>>
    OBVIOUS
  <1>3. u \in Seq(Byte) /\ Len(u) = 5
    BY ONLY <1>2, ia \in Byte, o \in Byte, m \in Byte, c \in Byte, ta \in Byte
  <1>4. u[1] = ia /\ u[2] = o /\ u[3] = m /\ u[4] = c /\ u[5] = ta
    BY ONLY <1>2
  <1>5. PICK t \in Seq(Byte) : t = TwoBytes(r.transactionID) /\ Len(t) = 2
    BY NumbersAreBytes DEF ReplyFits
  <1>6. PICK d \in Seq(Byte) : d = ThreeBytes(r.dataLength) /\ Len(d) = 3
    BY NumbersAreBytes DEF ReplyFits
  <1>7. PICK z \in Seq(Byte) : z = <<0>> /\ Len(z) = 1
    BY ByteSequences, FieldsAreBytes
  <1>8. PICK e \in Seq(Byte) : e = z \o d /\ Len(e) = 4 /\ Holds(e, 1, d)
    <2>1. PICK y : y = z \o d
      OBVIOUS
    <2>2. y \in Seq(Byte) /\ Len(y) = Len(z) + Len(d) /\ Holds(y, Len(z), d)
      BY ONLY <2>1, HoldsBoth, z \in Seq(Byte), d \in Seq(Byte)
    <2>3. Len(y) = 4 /\ Holds(y, 1, d)
      BY ONLY <1>6, <1>7, <2>2
    <2>4. QED BY ONLY <2>1, <2>2, <2>3
  <1>9. PICK g \in Seq(Byte) : /\ g = IF IsWrite(r) THEN <<>> ELSE e
                               /\ Len(g) = IF IsWrite(r) THEN 0 ELSE 4
    <2>1. PICK x, y : x = <<>> /\ y = IF IsWrite(r) THEN x ELSE e
      OBVIOUS
    <2>2. x \in Seq(Byte) /\ Len(x) = 0
      BY ONLY <2>1
    <2>3. CASE IsWrite(r)
      <3>1. (IF IsWrite(r) THEN <<>> ELSE e) = x /\ (IF IsWrite(r) THEN 0 ELSE 4) = 0
        BY ONLY <2>1, <2>3
      <3>2. QED BY ONLY <2>2, <3>1
    <2>4. CASE ~IsWrite(r)
      BY ONLY <1>8, <2>4, e \in Seq(Byte)
    <2>5. QED BY ONLY <2>3, <2>4
  <1>10. PICK f \in Seq(Byte) : f = u \o t
    BY ONLY <1>3, HoldsBoth, t \in Seq(Byte)
  <1>11. Len(f) = 7 /\ Holds(f, 0, u) /\ Holds(f, 5, t)
    <2>1. Len(f) = Len(u) + Len(t) /\ Holds(f, 0, u) /\ Holds(f, Len(u), t)
      BY ONLY <1>3, <1>10, HoldsBoth, t \in Seq(Byte)
    <2>2. QED BY ONLY <1>3, <1>5, <2>1
  <1>12. PICK h \in Seq(Byte) : h = f \o g
    BY ONLY HoldsBoth, f \in Seq(Byte), g \in Seq(Byte)
  <1>13. Len(h) = (IF IsWrite(r) THEN 7 ELSE 11) /\ Holds(h, 7, g)
    <2>1. Len(h) = Len(f) + Len(g) /\ Holds(h, Len(f), g)
      BY ONLY <1>12, HoldsBoth, f \in Seq(Byte), g \in Seq(Byte)
    <2>2. QED BY ONLY <1>9, <1>11, <2>1
  <1>14. Holds(h, 0, u) /\ Holds(h, 5, t)
    BY ONLY <1>3, <1>11, <1>12, HoldsBefore, f \in Seq(Byte), g \in Seq(Byte), t \in Seq(Byte),
       0 \in Nat, 5 \in Nat
  <1>15. h[1] = ia /\ h[2] = o /\ h[3] = m /\ h[4] = c /\ h[5] = ta
    <2>1. \A i \in 1 .. 5 : h[0 + i] = u[i]
      BY ONLY <1>3, <1>14 DEF Holds
    <2>2. h[0 + 1] = u[1] /\ h[0 + 2] = u[2] /\ h[0 + 3] = u[3] /\ h[0 + 4] = u[4] /\ h[0 + 5] = u[5]
      BY ONLY <2>1
    <2>3. 0 + 1 = 1 /\ 0 + 2 = 2 /\ 0 + 3 = 3 /\ 0 + 4 = 4 /\ 0 + 5 = 5
      OBVIOUS
    <2>4. QED BY ONLY <1>4, <2>2, <2>3
  <1>16. ~IsWrite(r) => Holds(h, 8, d)
    <2>1. SUFFICES ASSUME ~IsWrite(r) PROVE Holds(h, 8, d)
      OBVIOUS
    <2>2. g = e
      BY ONLY <1>9, ~IsWrite(r)
    <2>3. Holds(h, 7 + 1, d)
      BY ONLY <1>8, <1>13, <2>2, HoldsWithin, h \in Seq(Byte), g \in Seq(Byte), d \in Seq(Byte),
         7 \in Nat, 1 \in Nat
    <2>4. QED BY ONLY <2>3
  <1>17. h = HeaderOf(r)
    <2>1. ~IsCommand(r)
      BY DEF ReplyFits
    <2>2. HeaderOf(r) = u \o t \o g
      BY ONLY <1>1, <1>2, <1>5, <1>6, <1>7, <1>8, <1>9, <2>1 DEF HeaderOf
    <2>3. QED BY ONLY <1>10, <1>12, <2>2
  <1>18. QED
    BY ONLY <1>1, <1>5, <1>6, <1>13, <1>14, <1>15, <1>16, <1>17, h \in Seq(Byte) DEF ReplyHeader

\* The fields of a reply, as its header tells them.
ReplyFrom(p, path, ia, c, ta, tid, n) ==
    [p EXCEPT !.replyAddress = path, !.initiatorLogicalAddress = ia, !.status = c,
              !.targetLogicalAddress = ta, !.transactionID = tid, !.dataLength = n]

ReplyAt(p, path, bytes, s, beyond) ==
    ReplyFrom(p, path, ByteAt(bytes, s, beyond), ByteAt(bytes, s + 3, beyond),
              ByteAt(bytes, s + 4, beyond), NumberOfTwo(BytesAt(bytes, s + 5, 2, beyond)),
              IF IsWrite(p) THEN p.dataLength
              ELSE NumberOfThree(BytesAt(bytes, s + 8, 3, beyond)))

\* What is made of a reply whose fields are q's.
ReplyInterpretedAs(result, q, bytes, s, beyond) ==
    LET read == {IF IsWrite(q) THEN q
                 ELSE [q EXCEPT !.data = SubSeq(bytes, s + 12, Len(bytes) - 1)]}
    IN /\ result \subseteq read
       /\ /\ HeaderCRCIntact(q, bytes, IF IsWrite(q) THEN s + 7 ELSE s + 11, beyond)
          /\ ~IsWrite(q) => DataPartIntact(q, bytes, s + 12)
          => result = read

\* interpretAsAnRMAPPacket() for a reply, its fields named.
LEMMA ReplyInterpreted ==
    ASSUME NEW p, NEW path, NEW bytes, NEW s, NEW beyond,
           NEW q, q = ReplyAt(p, path, bytes, s, beyond), q.instruction = p.instruction
    PROVE  ReplyInterpretedAs(InterpretReply(p, path, bytes, s, beyond), q, bytes, s, beyond)
  <1>1. IsWrite(p) <=> IsWrite(q)
    BY DEF IsWrite
  <1>2. InterpretReply(p, path, bytes, s, beyond) =
            IF IsWrite(p)
            THEN IF HeaderCRCIntact(q, bytes, s + 7, beyond) THEN {q} ELSE {}
            ELSE IF HeaderCRCIntact(q, bytes, s + 11, beyond) /\ DataPartIntact(q, bytes, s + 12)
                 THEN {[q EXCEPT !.data = SubSeq(bytes, s + 12, Len(bytes) - 1)]} ELSE {}
    BY DEF InterpretReply, ReplyAt, ReplyFrom
  <1>3. QED BY ONLY <1>1, <1>2 DEF ReplyInterpretedAs

\* The fields of a reply that is read.
LEMMA ReplyFields ==
    ASSUME NEW r, ReplyFits(r), NEW draftE, NEW p,
           p = [NewPacket(draftE) EXCEPT !.instruction = r.instruction]
    PROVE  ReplyFrom(p, r.replyAddress, r.initiatorLogicalAddress, r.status, r.targetLogicalAddress,
                     r.transactionID, IF IsWrite(r) THEN p.dataLength ELSE r.dataLength)
             = [ReadReply(r, draftE) EXCEPT !.data = <<>>]
  <1>1. HasFields(NewPacket(draftE))
    BY DEF HasFields, Fields, NewPacket
  <1>2. /\ p.dataLength = 0 /\ p.status = 0 /\ p.data = <<>>
        /\ p.targetSpaceWireAddress = <<>> /\ p.key = 32 /\ p.extendedAddress = 0
        /\ p.address = <<0, 0, 0, 0>> /\ p.useDraftECRC = draftE /\ p.instruction = r.instruction
        /\ HasFields(p)
    BY DEF NewPacket, HasFields, Fields
  <1>3. PICK n : n = IF IsWrite(r) THEN 0 ELSE r.dataLength
    OBVIOUS
  <1>4. PICK x : x = ReplyFrom(p, r.replyAddress, r.initiatorLogicalAddress, r.status,
                               r.targetLogicalAddress, r.transactionID,
                               IF IsWrite(r) THEN p.dataLength ELSE r.dataLength)
    OBVIOUS
  <1>5. /\ HasFields(x) /\ x.targetSpaceWireAddress = <<>>
        /\ x.targetLogicalAddress = r.targetLogicalAddress /\ x.instruction = r.instruction
        /\ x.key = 32 /\ x.replyAddress = r.replyAddress
        /\ x.initiatorLogicalAddress = r.initiatorLogicalAddress
        /\ x.transactionID = r.transactionID /\ x.extendedAddress = 0
        /\ x.address = <<0, 0, 0, 0>> /\ x.dataLength = n /\ x.status = r.status
        /\ x.data = <<>> /\ x.useDraftECRC = draftE
    BY ONLY <1>2, <1>3, <1>4 DEF ReplyFrom, HasFields, Fields
  <1>6. PICK y, v : y = ReadReply(r, draftE) /\ v = [y EXCEPT !.data = <<>>]
    OBVIOUS
  <1>7. PICK w : w = NewPacket(draftE)
    OBVIOUS
  <1>8. /\ HasFields(w) /\ w.targetSpaceWireAddress = <<>> /\ w.key = 32
        /\ w.extendedAddress = 0 /\ w.address = <<0, 0, 0, 0>> /\ w.useDraftECRC = draftE
    BY ONLY <1>1, <1>7 DEF NewPacket
  <1>9. /\ HasFields(y) /\ y.targetSpaceWireAddress = <<>>
        /\ y.targetLogicalAddress = r.targetLogicalAddress /\ y.instruction = r.instruction
        /\ y.key = 32 /\ y.replyAddress = r.replyAddress
        /\ y.initiatorLogicalAddress = r.initiatorLogicalAddress
        /\ y.transactionID = r.transactionID /\ y.extendedAddress = 0
        /\ y.address = <<0, 0, 0, 0>> /\ y.dataLength = n /\ y.status = r.status
        /\ y.useDraftECRC = draftE
    BY ONLY <1>3, <1>6, <1>7, <1>8 DEF ReadReply, HasFields, Fields
  <1>10. /\ HasFields(v) /\ v.targetSpaceWireAddress = <<>>
         /\ v.targetLogicalAddress = r.targetLogicalAddress /\ v.instruction = r.instruction
         /\ v.key = 32 /\ v.replyAddress = r.replyAddress
         /\ v.initiatorLogicalAddress = r.initiatorLogicalAddress
         /\ v.transactionID = r.transactionID /\ v.extendedAddress = 0
         /\ v.address = <<0, 0, 0, 0>> /\ v.dataLength = n /\ v.status = r.status
         /\ v.data = <<>> /\ v.useDraftECRC = draftE
    BY ONLY <1>6, <1>9 DEF HasFields, Fields
  <1>11. x = v
    BY ONLY <1>5, <1>10, SamePacket
  <1>12. QED BY ONLY <1>4, <1>6, <1>11

\* The header of a reply is found, and its fields are read as they are.
ReplyFoundAs(r, p, b, s, draftE, beyond) ==
    /\ Interpret(b, draftE, beyond) = InterpretReply(p, r.replyAddress, b, s, beyond)
    /\ ReplyAt(p, r.replyAddress, b, s, beyond) = [ReadReply(r, draftE) EXCEPT !.data = <<>>]

\* In the bytes of a reply its header is found behind the path, with its fields.
LEMMA ReplyIsFound ==
    ASSUME NEW r, ReplyFits(r), NEW draftE, NEW beyond, NEW b, b = ConstructPacket(r),
           NEW s, s = Len(r.replyAddress) + 1,
           NEW p, p = [NewPacket(draftE) EXCEPT !.instruction = r.instruction]
    PROVE  ReplyFoundAs(r, p, b, s, draftE, beyond)
  <1>1. PICK path, h : path = r.replyAddress /\ h = HeaderOf(r)
    OBVIOUS
  <1>2. /\ path \in PathAddress /\ path \in Seq(Byte) /\ r.data \in Seq(Byte) /\ ~IsCommand(r)
        /\ r.initiatorLogicalAddress \in LogicalAddress /\ r.transactionID \in TransactionID
        /\ r.dataLength \in Length /\ r.instruction \in SUBSET (0 .. 7)
    BY <1>1, FieldsAreBytes DEF ReplyFits
  <1>3. ReplyHeader(h, r)
    BY ONLY <1>1, ReplyHeaderLayout, ReplyFits(r)
  <1>4. h \in Seq(Byte)
    BY ONLY <1>3 DEF ReplyHeader
  <1>5. BufferHolds(b, path, h, r)
    BY ONLY <1>1, <1>2, <1>4, BufferLayout, b = ConstructPacket(r)
  <1>6. b \in Seq(Byte)
    BY ONLY <1>5 DEF BufferHolds
  <1>7. PICK a, l, m : a = Len(path) /\ l = Len(b) /\ m = Len(h)
    OBVIOUS
  <1>8. a \in Nat /\ l \in Nat /\ m \in Nat
    BY ONLY <1>2, <1>4, <1>6, <1>7
  <1>9. /\ m = IF IsWrite(r) THEN 7 ELSE 11
        /\ h[1] = r.initiatorLogicalAddress /\ h[2] = ProtocolIdentifier
        /\ h[3] = ByteOf(r.instruction) /\ h[4] = r.status /\ h[5] = r.targetLogicalAddress
        /\ Holds(h, 5, TwoBytes(r.transactionID))
        /\ ~IsWrite(r) => Holds(h, 8, ThreeBytes(r.dataLength))
    BY ONLY <1>3, <1>7 DEF ReplyHeader
  <1>10. m >= 7
    BY ONLY <1>9
  <1>11. Holds(b, 0, path) /\ Holds(b, a, h) /\ a + m + 1 <= l
    <2>1. Holds(b, 0, path) /\ Holds(b, a, h)
      BY ONLY <1>5, <1>7 DEF BufferHolds
    <2>2. l = a + m + 1 + Len(r.data) + (IF HasData(r) THEN 1 ELSE 0)
      BY ONLY <1>5, <1>7 DEF BufferHolds
    <2>3. PICK d \in Nat : d = Len(r.data)
      BY ONLY <1>2
    <2>4. l = a + m + 1 + d + (IF HasData(r) THEN 1 ELSE 0)
      BY ONLY <2>2, <2>3
    <2>5. a + m + 1 <= l
      BY ONLY <1>8, <2>4, d \in Nat
    <2>6. QED BY ONLY <2>1, <2>5
  <1>12. s = a + 1 /\ s \in Nat
    BY <1>1, <1>7, <1>8
  <1>13. HeaderIsRead(b, h, s, beyond)
    BY ONLY <1>4, <1>6, <1>8, <1>11, <1>12, HeaderBytes
  <1>14. /\ ByteAt(b, s, beyond) = r.initiatorLogicalAddress /\ b[s] = r.initiatorLogicalAddress
         /\ ByteAt(b, s + 1, beyond) = ProtocolIdentifier
         /\ ByteAt(b, s + 2, beyond) = ByteOf(r.instruction)
         /\ ByteAt(b, s + 3, beyond) = r.status
         /\ ByteAt(b, s + 4, beyond) = r.targetLogicalAddress
    <2>1. \A i \in 1 .. m : ByteAt(b, s + i - 1, beyond) = h[i] /\ b[s + i - 1] = h[i]
      BY ONLY <1>7, <1>13 DEF HeaderIsRead
    <2>2. 1 \in 1 .. m /\ 2 \in 1 .. m /\ 3 \in 1 .. m /\ 4 \in 1 .. m /\ 5 \in 1 .. m
      BY ONLY <1>8, <1>10
    <2>3. /\ ByteAt(b, s + 1 - 1, beyond) = h[1] /\ b[s + 1 - 1] = h[1]
          /\ ByteAt(b, s + 2 - 1, beyond) = h[2] /\ ByteAt(b, s + 3 - 1, beyond) = h[3]
          /\ ByteAt(b, s + 4 - 1, beyond) = h[4] /\ ByteAt(b, s + 5 - 1, beyond) = h[5]
      BY ONLY <2>1, <2>2
    <2>4. /\ s + 1 - 1 = s /\ s + 2 - 1 = s + 1 /\ s + 3 - 1 = s + 2 /\ s + 4 - 1 = s + 3
          /\ s + 5 - 1 = s + 4
      BY ONLY <1>12
    <2>5. QED BY ONLY <1>9, <2>3, <2>4
  <1>15. NumberOfTwo(BytesAt(b, s + 5, 2, beyond)) = r.transactionID
    <2>1. /\ TwoBytes(r.transactionID) \in Seq(Byte) /\ Len(TwoBytes(r.transactionID)) = 2
          /\ NumberOfTwo(TwoBytes(r.transactionID)) = r.transactionID
      BY ONLY <1>2, NumbersAreBytes
    <2>2. BytesAt(b, s + 5, Len(TwoBytes(r.transactionID)), beyond) = TwoBytes(r.transactionID)
      BY ONLY <1>9, <1>13, <2>1, 5 \in Nat DEF HeaderIsRead
    <2>3. QED BY ONLY <2>1, <2>2
  <1>16. ~IsWrite(r) => NumberOfThree(BytesAt(b, s + 8, 3, beyond)) = r.dataLength
    <2>1. /\ ThreeBytes(r.dataLength) \in Seq(Byte) /\ Len(ThreeBytes(r.dataLength)) = 3
          /\ NumberOfThree(ThreeBytes(r.dataLength)) = r.dataLength
      BY ONLY <1>2, NumbersAreBytes
    <2>2. ~IsWrite(r) =>
             BytesAt(b, s + 8, Len(ThreeBytes(r.dataLength)), beyond) = ThreeBytes(r.dataLength)
      BY ONLY <1>9, <1>13, <2>1, 8 \in Nat DEF HeaderIsRead
    <2>3. QED BY ONLY <2>1, <2>2
  <1>17. HeaderStart(b) = s
    <2>1. Len(path) < Len(b) /\ b[Len(path) + 1] \in LogicalAddress
      BY ONLY <1>2, <1>7, <1>8, <1>11, <1>12, <1>14
    <2>2. QED BY ONLY <1>2, <1>6, <1>7, <1>11, <1>12, <2>1, HeaderStarts
  <1>18. p = Found(b, draftE, s, beyond) /\ ~IsCommand(p) /\ p.instruction = r.instruction
         /\ (IsWrite(p) <=> IsWrite(r))
    <2>1. BitsOf(ByteOf(r.instruction)) = r.instruction
      BY ONLY <1>2, BitsOfByte
    <2>2. p = Found(b, draftE, s, beyond)
      BY ONLY <1>14, <2>1, p = [NewPacket(draftE) EXCEPT !.instruction = r.instruction] DEF Found
    <2>3. p.instruction = r.instruction
      BY DEF NewPacket
    <2>4. QED BY ONLY <1>2, <2>2, <2>3 DEF IsCommand, IsWrite
  <1>19. SubSeq(b, 1, s - 1) = path
    <2>1. SubSeq(b, 0 + 1, 0 + Len(path)) = path
      BY ONLY <1>2, <1>6, <1>11, 0 \in Nat, HoldsPart
    <2>2. 0 + 1 = 1 /\ 0 + Len(path) = s - 1
      BY ONLY <1>7, <1>8, <1>12
    <2>3. QED BY ONLY <2>1, <2>2
  <1>20. Interpret(b, draftE, beyond) = InterpretReply(p, path, b, s, beyond)
    <2>1. s # 0 /\ ~(Len(b) < 8)
      BY ONLY <1>7, <1>8, <1>10, <1>11, <1>12
    <2>2. QED BY ONLY <1>14, <1>17, <1>18, <1>19, <2>1, HeaderFound
  <1>21. ReplyAt(p, path, b, s, beyond) = [ReadReply(r, draftE) EXCEPT !.data = <<>>]
    <2>1. ReplyAt(p, path, b, s, beyond)
            = ReplyFrom(p, path, r.initiatorLogicalAddress, r.status, r.targetLogicalAddress,
                        r.transactionID, IF IsWrite(r) THEN p.dataLength ELSE r.dataLength)
      BY ONLY <1>14, <1>15, <1>16, <1>18 DEF ReplyAt
    <2>2. QED
      BY ONLY <1>1, <2>1, ReplyFields, ReplyFits(r),
         p = [NewPacket(draftE) EXCEPT !.instruction = r.instruction]
  <1>22. QED BY ONLY <1>1, <1>20, <1>21 DEF ReplyFoundAs

\* z is the reply r before its data, if any, are read.
ReplyReadsAs(z, r, draftE) ==
    /\ HeaderOf(z) = HeaderOf(r) /\ (IsWrite(z) <=> IsWrite(r)) /\ z.instruction = r.instruction
    /\ ~IsWrite(r) => z.dataLength = r.dataLength
    /\ draftE = r.useDraftECRC => \A x : CRCOf(z, x) = CRCOf(r, x)
    /\ [z EXCEPT !.data = r.data] = ReadReply(r, draftE)
    /\ IsWrite(r) => z = ReadReply(r, draftE)

\* Whatever CRC the reader uses, the fields of a reply are those it was made of.
LEMMA ReplyAsRead ==
    ASSUME NEW r, ReplyFits(r), NEW draftE, NEW z,
           z = [ReadReply(r, draftE) EXCEPT !.data = <<>>]
    PROVE  ReplyReadsAs(z, r, draftE)
  <1>1. PICK w : w = NewPacket(draftE)
    OBVIOUS
  <1>2. HasFields(w) /\ w.useDraftECRC = draftE
    BY <1>1 DEF NewPacket, HasFields, Fields
  <1>3. PICK y : y = ReadReply(r, draftE)
    OBVIOUS
  <1>4. PICK n : n = IF IsWrite(r) THEN 0 ELSE r.dataLength
    OBVIOUS
  <1>5. /\ HasFields(y) /\ y.targetLogicalAddress = r.targetLogicalAddress
        /\ y.instruction = r.instruction /\ y.replyAddress = r.replyAddress
        /\ y.initiatorLogicalAddress = r.initiatorLogicalAddress
        /\ y.transactionID = r.transactionID /\ y.dataLength = n /\ y.status = r.status
        /\ y.data = r.data /\ y.useDraftECRC = draftE
    BY ONLY <1>1, <1>2, <1>3, <1>4 DEF ReadReply, HasFields, Fields
  <1>6. z = [y EXCEPT !.data = <<>>]
    BY <1>3
  <1>7. /\ HasFields(z) /\ z.targetLogicalAddress = r.targetLogicalAddress
        /\ z.instruction = r.instruction /\ z.replyAddress = r.replyAddress
        /\ z.initiatorLogicalAddress = r.initiatorLogicalAddress
        /\ z.transactionID = r.transactionID /\ z.dataLength = n /\ z.status = r.status
        /\ z.useDraftECRC = draftE
    BY ONLY <1>5, <1>6 DEF HasFields, Fields
  <1>8. (IsWrite(z) <=> IsWrite(r)) /\ ~IsCommand(z) /\ ~IsCommand(r)
    BY <1>7 DEF IsWrite, IsCommand, ReplyFits
  <1>9. ~IsWrite(r) => z.dataLength = r.dataLength
    BY ONLY <1>4, <1>7
  <1>10. HeaderOf(z) = HeaderOf(r)
    BY ONLY <1>7, <1>8, <1>9 DEF HeaderOf
  <1>11. draftE = r.useDraftECRC => \A x : CRCOf(z, x) = CRCOf(r, x)
    BY ONLY <1>7 DEF CRCOf
  <1>12. [z EXCEPT !.data = r.data] = y
    <2>1. PICK x : x = [z EXCEPT !.data = r.data]
      OBVIOUS
    <2>2. HasFields(x)
      BY ONLY <1>7, <2>1 DEF HasFields, Fields
    <2>3. /\ x.targetSpaceWireAddress = y.targetSpaceWireAddress
          /\ x.targetLogicalAddress = y.targetLogicalAddress /\ x.instruction = y.instruction
          /\ x.key = y.key /\ x.replyAddress = y.replyAddress
          /\ x.initiatorLogicalAddress = y.initiatorLogicalAddress
          /\ x.transactionID = y.transactionID /\ x.extendedAddress = y.extendedAddress
          /\ x.address = y.address /\ x.dataLength = y.dataLength /\ x.status = y.status
          /\ x.data = y.data /\ x.useDraftECRC = y.useDraftECRC
      BY ONLY <1>5, <1>6, <1>7, <2>1 DEF HasFields, Fields
    <2>4. QED BY ONLY <1>5, <2>1, <2>2, <2>3, SamePacket
  <1>13. IsWrite(r) => z = y
    <2>1. IsWrite(r) => z = [z EXCEPT !.data = r.data]
      <3>1. IsWrite(r) => r.data = <<>>
        BY DEF ReplyFits
      <3>2. z = [z EXCEPT !.data = <<>>]
        <4>1. PICK x : x = [z EXCEPT !.data = <<>>]
          OBVIOUS
        <4>2. HasFields(x)
          BY ONLY <1>7, <4>1 DEF HasFields, Fields
        <4>3. /\ x.targetSpaceWireAddress = z.targetSpaceWireAddress
              /\ x.targetLogicalAddress = z.targetLogicalAddress /\ x.instruction = z.instruction
              /\ x.key = z.key /\ x.replyAddress = z.replyAddress
              /\ x.initiatorLogicalAddress = z.initiatorLogicalAddress
              /\ x.transactionID = z.transactionID /\ x.extendedAddress = z.extendedAddress
              /\ x.address = z.address /\ x.dataLength = z.dataLength /\ x.status = z.status
              /\ x.data = z.data /\ x.useDraftECRC = z.useDraftECRC
          BY ONLY <1>5, <1>6, <1>7, <4>1 DEF HasFields, Fields
        <4>4. QED BY ONLY <1>7, <4>1, <4>2, <4>3, SamePacket
      <3>3. QED BY ONLY <3>1, <3>2
    <2>2. QED BY ONLY <1>12, <2>1
  <1>14. QED BY ONLY <1>3, <1>7, <1>8, <1>9, <1>10, <1>11, <1>12, <1>13 DEF ReplyReadsAs

\* A reply is read as it was sent, or not at all, and it is read when both sides
\* use the same CRC and its data are as long as it says.
LEMMA ReplyIsRead ==
    ASSUME NEW r, ReplyFits(r), NEW draftE, NEW beyond
    PROVE  /\ Interpret(ConstructPacket(r), draftE, beyond) \subseteq {ReadReply(r, draftE)}
           /\ draftE = r.useDraftECRC /\ (IsWrite(r) \/ Len(r.data) = r.dataLength) =>
                  Interpret(ConstructPacket(r), draftE, beyond) = {ReadReply(r, draftE)}
  <1>1. PICK b, h, path : b = ConstructPacket(r) /\ h = HeaderOf(r) /\ path = r.replyAddress
    OBVIOUS
  <1>2. /\ path \in Seq(Byte) /\ r.data \in Seq(Byte) /\ ~IsCommand(r)
        /\ IsWrite(r) => r.data = <<>>
        /\ r.dataLength \in Nat
    BY <1>1, FieldsAreBytes DEF ReplyFits, Length
  <1>3. h \in Seq(Byte) /\ Len(h) = IF IsWrite(r) THEN 7 ELSE 11
    BY ONLY <1>1, ReplyHeaderLayout, ReplyFits(r) DEF ReplyHeader
  <1>4. BufferHolds(b, path, h, r)
    BY ONLY <1>1, <1>2, <1>3, BufferLayout
  <1>5. PICK a, l, d, m \in Nat : a = Len(path) /\ l = Len(b) /\ d = Len(r.data) /\ m = Len(h)
    <2>1. b \in Seq(Byte)
      BY ONLY <1>4 DEF BufferHolds
    <2>2. Len(path) \in Nat /\ Len(b) \in Nat /\ Len(r.data) \in Nat /\ Len(h) \in Nat
      BY ONLY <1>2, <1>3, <2>1
    <2>3. QED BY ONLY <2>2
  <1>6. PICK s \in Nat : s = a + 1
    OBVIOUS
  <1>7. PICK p : p = [NewPacket(draftE) EXCEPT !.instruction = r.instruction]
    OBVIOUS
  <1>8. PICK z : z = [ReadReply(r, draftE) EXCEPT !.data = <<>>]
    OBVIOUS
  <1>9. /\ Interpret(b, draftE, beyond) = InterpretReply(p, path, b, s, beyond)
        /\ ReplyAt(p, path, b, s, beyond) = z
    <2>1. s = Len(r.replyAddress) + 1
      BY ONLY <1>1, <1>5, <1>6
    <2>2. ReplyFoundAs(r, p, b, s, draftE, beyond)
      BY ONLY <1>1, <1>7, <2>1, ReplyIsFound, ReplyFits(r)
    <2>3. QED BY ONLY <1>1, <1>8, <2>2 DEF ReplyFoundAs
  <1>10. /\ HeaderOf(z) = h /\ (IsWrite(z) <=> IsWrite(r)) /\ z.instruction = r.instruction
         /\ ~IsWrite(r) => z.dataLength = r.dataLength
         /\ draftE = r.useDraftECRC => \A x : CRCOf(z, x) = CRCOf(r, x)
         /\ [z EXCEPT !.data = r.data] = ReadReply(r, draftE)
         /\ IsWrite(r) => z = ReadReply(r, draftE)
    <2>1. ReplyReadsAs(z, r, draftE)
      BY ONLY <1>8, ReplyAsRead, ReplyFits(r)
    <2>2. QED BY ONLY <1>1, <2>1 DEF ReplyReadsAs
  <1>11. PICK y : y = {IF IsWrite(z) THEN z
                       ELSE [z EXCEPT !.data = SubSeq(b, s + 12, Len(b) - 1)]}
    OBVIOUS
  <1>12. /\ InterpretReply(p, path, b, s, beyond) \subseteq y
         /\ /\ HeaderCRCIntact(z, b, IF IsWrite(z) THEN s + 7 ELSE s + 11, beyond)
            /\ ~IsWrite(z) => DataPartIntact(z, b, s + 12)
            => InterpretReply(p, path, b, s, beyond) = y
    <2>1. p.instruction = r.instruction
      BY <1>7 DEF NewPacket
    <2>2. ReplyInterpretedAs(InterpretReply(p, path, b, s, beyond), z, b, s, beyond)
      BY ONLY <1>9, <1>10, <2>1, ReplyInterpreted
    <2>3. QED BY ONLY <1>11, <2>2 DEF ReplyInterpretedAs
  <1>13. /\ b \in Seq(Byte) /\ b[a + m + 1] = CRCOf(r, h)
         /\ Holds(b, a + m + 1, r.data)
         /\ l = a + m + 1 + d + (IF HasData(r) THEN 1 ELSE 0)
         /\ HasData(r) => b[l] = CRCOf(r, r.data)
    BY ONLY <1>4, <1>5 DEF BufferHolds
  <1>14. ~IsWrite(r) => HasData(r)
    BY ONLY <1>2 DEF HasData
  <1>15. ~IsWrite(r) => /\ SubSeq(b, s + 12, Len(b) - 1) = r.data
                        /\ s + 12 + d = Len(b)
    <2>1. SUFFICES ASSUME ~IsWrite(r) PROVE /\ SubSeq(b, s + 12, Len(b) - 1) = r.data
                                            /\ s + 12 + d = Len(b)
      OBVIOUS
    <2>2. m = 11
      BY ONLY <1>3, <1>5, ~IsWrite(r)
    <2>3. a + m + 1 = s + 11 /\ s + 11 \in Nat
      BY ONLY <1>6, <2>2, a \in Nat
    <2>4. SubSeq(b, s + 11 + 1, s + 11 + Len(r.data)) = r.data
      BY ONLY <1>2, <1>13, <2>3, HoldsPart
    <2>5. l = s + 11 + d + 1
      BY ONLY <1>13, <1>14, <2>3, ~IsWrite(r)
    <2>6. l - 1 = s + 11 + d /\ s + 12 + d = l /\ s + 12 = s + 11 + 1
      BY ONLY <2>5, d \in Nat, s \in Nat
    <2>7. QED BY ONLY <1>5, <2>4, <2>6
  <1>16. y = {ReadReply(r, draftE)}
    BY ONLY <1>10, <1>11, <1>15
  <1>17. ASSUME draftE = r.useDraftECRC, IsWrite(r) \/ Len(r.data) = r.dataLength
         PROVE  /\ HeaderCRCIntact(z, b, IF IsWrite(z) THEN s + 7 ELSE s + 11, beyond)
                /\ ~IsWrite(z) => DataPartIntact(z, b, s + 12)
    <2>1. PICK k : k = IF IsWrite(z) THEN s + 7 ELSE s + 11
      OBVIOUS
    <2>2. k = a + m + 1 /\ k \in Nat
      BY ONLY <1>3, <1>5, <1>6, <1>10, <2>1, a \in Nat
    <2>3. k \in DOMAIN b
      <3>1. k <= l /\ k >= 1
        BY ONLY <1>13, <2>2, d \in Nat, a \in Nat, m \in Nat
      <3>2. DOMAIN b = 1 .. l
        <4>1. b \in Seq(Byte) /\ l = Len(b)
          BY ONLY <1>5, <1>13
        <4>2. QED BY ONLY <4>1
      <3>3. QED BY ONLY <2>2, <3>1, <3>2, l \in Nat
    <2>4. ByteAt(b, k, beyond) = CRCOf(r, h)
      BY ONLY <1>13, <2>2, <2>3 DEF ByteAt
    <2>5. HeaderCRCIntact(z, b, k, beyond)
      BY ONLY <1>10, <1>17, <2>4 DEF HeaderCRCIntact
    <2>6. ~IsWrite(z) => DataPartIntact(z, b, s + 12)
      BY ONLY <1>5, <1>10, <1>13, <1>14, <1>15, <1>17 DEF DataPartIntact
    <2>7. QED BY ONLY <2>1, <2>5, <2>6
  <1>18. QED BY ONLY <1>1, <1>9, <1>12, <1>16, <1>17

-----------------------------------------------------------------------------
(* What a call asks for, and the command it sends.                         *)

\* The words of the instruction that a call and the settings decide.
ModeBits(asked) ==
    LET write == asked.call.kind = "write"
    IN {CommandReplyBit} \cup (IF write THEN {WriteReadBit} ELSE {})
       \cup (IF asked.options.incrementMode THEN {IncrementBit} ELSE {})
       \cup (IF write /\ asked.options.verifyMode THEN {VerifyBit} ELSE {})
       \cup (IF ~write \/ asked.options.replyMode THEN {ReplyBit} ELSE {})

\* The command of a call.
CommandOf(asked) ==
    LET node == asked.to.node
    IN [targetSpaceWireAddress |-> node.targetSpaceWireAddress,
        targetLogicalAddress |-> node.targetLogicalAddress,
        instruction |-> WithWords(ModeBits(asked), Words(node.replyAddress)),
        key |-> node.defaultKey, replyAddress |-> node.replyAddress,
        initiatorLogicalAddress |-> IF node.initiatorLogicalAddress # <<>>
                                    THEN node.initiatorLogicalAddress[1]
                                    ELSE asked.options.initiatorLogicalAddress,
        transactionID |-> asked.transactionID, extendedAddress |-> 0,
        address |-> FourBytes(asked.to.address), dataLength |-> asked.to.length,
        status |-> 0,
        data |-> IF asked.call.kind = "write" THEN DataOf(asked.call, asked.to.length) ELSE <<>>,
        useDraftECRC |-> asked.options.useDraftECRC]

\* A node as the database describes it.
NodeOK(node) ==
    /\ node.targetLogicalAddress \in LogicalAddress /\ node.targetSpaceWireAddress \in PathAddress
    /\ node.replyAddress \in PathAddress /\ Len(node.replyAddress) <= 12
    /\ node.defaultKey \in Byte
    /\ node.initiatorLogicalAddress # <<>> => node.initiatorLogicalAddress[1] \in LogicalAddress

\* What a call asks for once names are resolved.
AskedFits(asked) ==
    /\ asked.call.kind \in {"read", "write"} /\ NodeOK(asked.to.node)
    /\ asked.to.address \in Address /\ asked.to.length \in Length
    /\ asked.call.kind = "write" => /\ asked.call.data \in Seq(Byte)
                                    /\ asked.to.length <= Len(asked.call.data)
    /\ asked.transactionID \in TransactionID /\ asked.options \in Options

\* Every object of the database is one of a file's, and no other.
ObjectFrom(name, id, object) ==
    \E file \in Files : \E i \in DOMAIN file : file[i]["id"] = name /\
        LET objects == file[i]["RMAPMemoryObject"]
        IN \E k \in DOMAIN objects : /\ objects[k]["id"] = id
                                     /\ object \in ConstructMemoryObject(objects[k])
DatabaseOK(db) ==
    \A name \in DOMAIN db :
        /\ NodeOK(db[name])
        /\ \A id \in DOMAIN db[name].objects : ObjectFrom(name, id, db[name].objects[id])

\* The packet object between two calls.
Reusable(p) == HasFields(p) /\ p.status = 0 /\ p.instruction \in SUBSET (0 .. 6)

-----------------------------------------------------------------------------
(* The inductive invariant.                                                *)

DatabaseInv == database = <<>> \/ (Len(database) = 1 /\ DatabaseOK(database[1]))

SentInv ==
    /\ IsSequence(sent)
    /\ \A j \in DOMAIN sent : /\ AskedFits(sent[j]) /\ sent[j].transactionID < calls
                              /\ sent[j].call.kind = "write" /\ IsByObject(sent[j].call)
                                     => FileAllowsWriting(sent[j].call.node, sent[j].call.object)
    /\ \A i, j \in DOMAIN sent : i < j => sent[i].transactionID < sent[j].transactionID

RequestInv ==
    /\ Reusable(commandPacket) /\ options \in OptionChoices
    /\ request # <<>> =>
           /\ sent # <<>> /\ request = <<Last(sent)>> /\ answer = NoAnswer
           /\ commandPacket = CommandOf(Last(sent)) /\ options = Last(sent).options

OnlyCommand(bytes, q) ==
    \A draftE \in BOOLEAN :
        CommandsIn(bytes, draftE) \subseteq
            {[ReadCommand(q, draftE) EXCEPT !.targetSpaceWireAddress = <<>>]}

\* On the wire, in the order of the calls, are commands that were sent.
WireInv ==
    /\ wire \in Seq(Seq(Byte))
    /\ \A k \in DOMAIN wire : \E j \in DOMAIN sent :
           (k < Len(wire) => j < Len(sent)) /\ OnlyCommand(wire[k], CommandOf(sent[j]))

\* What a read that was executed found.
ReadOf(e) ==
    [i \in 1 .. e.command.dataLength |->
        e.memory[(NumberOfFour(e.command.address) + i - 1) % AddressSpace]]

OnlyReply(bytes, e) ==
    \A draftE \in BOOLEAN : \A p \in RepliesIn(bytes, draftE) :
        /\ p.transactionID = e.command.transactionID /\ p.status = e.status
        /\ ~IsWrite(e.command) /\ e.status = CommandExcecutedSuccessfully /\ ~ShortAnswers
               => p.data = ReadOf(e)

\* On the way back are the replies to commands that were executed.
BackInv ==
    /\ back \in Seq(Seq(Byte))
    /\ \A k \in DOMAIN back : \E i \in DOMAIN executed : OnlyReply(back[k], executed[i])

\* The last call's command is executed last, and what it writes stays.
TargetInv ==
    /\ IsSequence(executed) /\ targetMemory \in [Address -> Byte] /\ ExecutesOnlyWhatWasAsked
    /\ \A i \in DOMAIN executed : executed[i].command.transactionID = Last(sent).transactionID =>
           /\ wire = <<>>
           /\ IsWrite(executed[i].command) /\ executed[i].status = CommandExcecutedSuccessfully =>
                  MemoryOf(Last(sent).to.address, Last(sent).to.length)
                      = DataOf(Last(sent).call, Last(sent).to.length)

\* A read was given what it asked for, a write was executed.
AnswerInv ==
    /\ answer.kind \in AnswerKinds
    /\ answer.kind \in {"data", "written", "Timeout"} => sent # <<>>
    /\ answer.kind = "data" /\ ~ShortAnswers =>
           \E i \in DOMAIN executed :
               /\ executed[i].command.transactionID = Last(sent).transactionID
               /\ ~IsWrite(executed[i].command) /\ answer.data = ReadOf(executed[i])
    /\ answer.kind = "written" =>
           \E i \in DOMAIN executed :
               /\ executed[i].command.transactionID = Last(sent).transactionID
               /\ IsWrite(executed[i].command) /\ executed[i].status = CommandExcecutedSuccessfully

\* Bytes that the initiator takes for the reply to a transaction.
Reaches(bytes, id) ==
    \A beyond \in BeyondBytes :
        LET packets == Interpret(bytes, options.useDraftECRC, beyond)
        IN packets # {} /\ \A p \in packets : ~IsCommand(p) /\ p.transactionID = id

\* While nothing is damaged, a command that will be answered is the last on the
\* wire, or its answer is on the way back.
PendingInv ==
    damages = 0 /\ request # <<>> /\ Answerable(Last(sent)) /\ ~RefusedRead(Last(sent)) =>
        \/ wire # <<>> /\ Last(wire) = ConstructPacket(CommandOf(Last(sent)))
        \/ \E k \in DOMAIN back : Reaches(back[k], Last(sent).transactionID)

CountsInv == calls \in 0 .. MaxCalls /\ damages \in 0 .. MaxDamages

ExchangeIInv ==
    /\ DatabaseInv /\ SentInv /\ RequestInv /\ WireInv /\ BackInv /\ TargetInv /\ AnswerInv
    /\ PendingInv /\ CountsInv /\ TimeoutsHaveACause

-----------------------------------------------------------------------------
(* The command of a call, on the wire and at the target.                   *)

\* The bits of the instruction.
LEMMA InstructionBits ==
    ASSUME NEW asked, AskedFits(asked), NEW w \in 0 .. 3, NEW m, m = WithWords(ModeBits(asked), w)
    PROVE  /\ ModeBits(asked) \in SUBSET (0 .. 6) /\ m \in SUBSET (0 .. 6)
           /\ CommandReplyBit \in m
           /\ WriteReadBit \in m <=> asked.call.kind = "write"
           /\ IncrementBit \in m <=> asked.options.incrementMode
           /\ VerifyBit \in m <=> asked.call.kind = "write" /\ asked.options.verifyMode
           /\ ReplyBit \in m <=> asked.call.kind # "write" \/ asked.options.replyMode
           /\ m = WithWords(m, w)
  BY DEF ModeBits, WithWords, LowBits, CommandReplyBit, WriteReadBit, IncrementBit, VerifyBit,
         ReplyBit

\* Its fields agree with one another.
LEMMA CommandOfFits ==
    ASSUME NEW asked, AskedFits(asked)
    PROVE  CommandFits(CommandOf(asked)) /\ CommandOf(asked).replyAddress \in PathAddress
  <1> DEFINE q == CommandOf(asked)
             node == asked.to.node
  <1>1. /\ node.targetLogicalAddress \in LogicalAddress
        /\ node.targetSpaceWireAddress \in PathAddress
        /\ node.replyAddress \in PathAddress /\ Len(node.replyAddress) <= 12
        /\ node.defaultKey \in Byte
        /\ node.initiatorLogicalAddress # <<>> => node.initiatorLogicalAddress[1] \in LogicalAddress
    BY DEF AskedFits, NodeOK
  <1>2. node.replyAddress \in ReplyAddress
    BY <1>1, FieldsAreBytes DEF ReplyAddress
  <1>3. PICK w \in 0 .. 3 : w = Words(node.replyAddress)
    BY <1>2, PaddedAddress
  <1>4. PICK m : m = WithWords(ModeBits(asked), w)
    OBVIOUS
  <1>5. /\ m \in SUBSET (0 .. 6) /\ CommandReplyBit \in m
        /\ WriteReadBit \in m <=> asked.call.kind = "write"
        /\ m = WithWords(m, w)
    BY ONLY <1>4, w \in 0 .. 3, InstructionBits, AskedFits(asked)
  <1>6. /\ q.targetSpaceWireAddress = node.targetSpaceWireAddress
        /\ q.targetLogicalAddress = node.targetLogicalAddress /\ q.instruction = m
        /\ q.key = node.defaultKey /\ q.replyAddress = node.replyAddress
        /\ q.transactionID = asked.transactionID /\ q.extendedAddress = 0
        /\ q.address = FourBytes(asked.to.address) /\ q.dataLength = asked.to.length
        /\ q.status = 0 /\ q.useDraftECRC = asked.options.useDraftECRC
    BY <1>3, <1>4 DEF CommandOf
  <1>7. q.initiatorLogicalAddress \in LogicalAddress
    <2>1. q.initiatorLogicalAddress = IF node.initiatorLogicalAddress # <<>>
                                      THEN node.initiatorLogicalAddress[1]
                                      ELSE asked.options.initiatorLogicalAddress
      BY DEF CommandOf
    <2>2. asked.options.initiatorLogicalAddress \in LogicalAddress
      BY DEF AskedFits, Options
    <2>3. QED BY ONLY <1>1, <2>1, <2>2
  <1>8. q.data = IF asked.call.kind = "write" THEN DataOf(asked.call, asked.to.length) ELSE <<>>
    BY DEF CommandOf
  <1>9. asked.to.length \in Length /\ asked.to.length \in Nat /\ asked.to.address \in Address
        /\ asked.transactionID \in TransactionID /\ asked.options.useDraftECRC \in BOOLEAN
    BY DEF AskedFits, Length, Options
  <1>10. asked.call.kind = "write" =>
           /\ DataOf(asked.call, asked.to.length) \in Seq(Byte)
           /\ Len(DataOf(asked.call, asked.to.length)) = asked.to.length
    <2>1. SUFFICES ASSUME asked.call.kind = "write"
                   PROVE  /\ DataOf(asked.call, asked.to.length) \in Seq(Byte)
                          /\ Len(DataOf(asked.call, asked.to.length)) = asked.to.length
      OBVIOUS
    <2>2. PICK d \in Seq(Byte), l \in Nat : d = asked.call.data /\ l = asked.to.length /\ l <= Len(d)
      BY <1>9, <2>1 DEF AskedFits
    <2>3. SubSeq(d, 1, l) \in Seq(Byte) /\ Len(SubSeq(d, 1, l)) = l
      BY <2>2
    <2>4. QED BY <2>2, <2>3 DEF DataOf
  <1>11. q.data \in Seq(Byte)
    BY <1>8, <1>10
  <1>12. FourBytes(asked.to.address) \in FourByte
    BY <1>9, FourBytesRead DEF FourByte
  <1>13. IsWrite(q) <=> asked.call.kind = "write"
    BY ONLY <1>5, <1>6 DEF IsWrite
  <1>14. IF IsWrite(q) THEN Len(q.data) = q.dataLength ELSE q.data = <<>>
    BY ONLY <1>6, <1>8, <1>10, <1>13
  <1>15. 0 \in Byte /\ m \in SUBSET (0 .. 7)
    BY <1>5, FieldsAreBytes
  <1>16. HasFields(q)
    BY DEF CommandOf, HasFields, Fields
  <1> HIDE DEF q
  <1>17. q \in Packet
    BY ONLY <1>1, <1>2, <1>6, <1>7, <1>9, <1>11, <1>12, <1>15, <1>16 DEF Packet, HasFields, Fields
  <1>18. CommandFits(q)
    BY ONLY <1>3, <1>5, <1>6, <1>14, <1>17 DEF CommandFits, IsCommand
  <1>19. QED BY <1>1, <1>6, <1>18 DEF q

\* Nothing else is found in the bytes of a command.
LEMMA CommandOnly ==
    ASSUME NEW q, CommandFits(q)
    PROVE  OnlyCommand(ConstructPacket(q), q)
  <1>1. PICK b : b = ConstructPacket(q)
    OBVIOUS
  <1>2. ASSUME NEW draftE \in BOOLEAN, NEW c \in CommandsIn(b, draftE)
        PROVE  c = [ReadCommand(q, draftE) EXCEPT !.targetSpaceWireAddress = <<>>]
    <2>1. PICK p \in ReadBy(b, draftE) : c = [p EXCEPT !.targetSpaceWireAddress = <<>>]
      BY DEF CommandsIn
    <2>2. PICK beyond \in BeyondBytes : p \in Interpret(b, draftE, beyond)
      BY <2>1 DEF ReadBy
    <2>3. Interpret(b, draftE, beyond) \subseteq {ReadCommand(q, draftE)}
      BY ONLY <1>1, CommandIsRead, CommandFits(q)
    <2>4. p = ReadCommand(q, draftE)
      BY <2>2, <2>3
    <2>5. QED BY <2>1, <2>4
  <1>3. QED BY ONLY <1>1, <1>2 DEF OnlyCommand

\* What the target makes of the bytes of a command: its fields, save the path.
Taken(p, q, draftE) ==
    /\ DOMAIN p = Fields
    /\ p.targetLogicalAddress = q.targetLogicalAddress /\ p.instruction = q.instruction
    /\ p.key = q.key /\ p.replyAddress = Padded(q.replyAddress)
    /\ p.initiatorLogicalAddress = q.initiatorLogicalAddress
    /\ p.transactionID = q.transactionID /\ p.extendedAddress = q.extendedAddress
    /\ p.address = q.address /\ p.dataLength = q.dataLength /\ p.data = q.data
    /\ p.useDraftECRC = draftE

\* In bytes in which only the command q can be found, the target takes q's fields.
LEMMA CommandTaken ==
    ASSUME NEW bytes, NEW q, OnlyCommand(bytes, q), NEW draftE \in BOOLEAN,
           NEW beyond \in BeyondBytes, NEW p \in Interpret(bytes, draftE, beyond), IsCommand(p)
    PROVE  Taken(p, q, draftE)
  <1>1. p \in ReadBy(bytes, draftE)
    BY DEF ReadBy
  <1>2. PICK c : c = [p EXCEPT !.targetSpaceWireAddress = <<>>]
    OBVIOUS
  <1>3. c \in CommandsIn(bytes, draftE)
    BY <1>1, <1>2 DEF CommandsIn
  <1>4. PICK y : y = ReadCommand(q, draftE)
    OBVIOUS
  <1>5. c = [y EXCEPT !.targetSpaceWireAddress = <<>>]
    BY ONLY <1>3, <1>4, OnlyCommand(bytes, q), draftE \in BOOLEAN DEF OnlyCommand
  <1>6. HasFields(y)
    BY ONLY <1>4 DEF ReadCommand, HasFields, Fields
  <1>7. DOMAIN c = Fields /\ DOMAIN p = DOMAIN c
    BY ONLY <1>2, <1>5, <1>6 DEF HasFields
  <1>8. /\ c.targetLogicalAddress = y.targetLogicalAddress /\ c.instruction = y.instruction
        /\ c.key = y.key /\ c.replyAddress = y.replyAddress
        /\ c.initiatorLogicalAddress = y.initiatorLogicalAddress
        /\ c.transactionID = y.transactionID /\ c.extendedAddress = y.extendedAddress
        /\ c.address = y.address /\ c.dataLength = y.dataLength
        /\ c.data = y.data /\ c.useDraftECRC = y.useDraftECRC
    BY ONLY <1>5, <1>6 DEF HasFields, Fields
  <1>9. /\ c.targetLogicalAddress = p.targetLogicalAddress /\ c.instruction = p.instruction
        /\ c.key = p.key /\ c.replyAddress = p.replyAddress
        /\ c.initiatorLogicalAddress = p.initiatorLogicalAddress
        /\ c.transactionID = p.transactionID /\ c.extendedAddress = p.extendedAddress
        /\ c.address = p.address /\ c.dataLength = p.dataLength
        /\ c.data = p.data /\ c.useDraftECRC = p.useDraftECRC
    BY ONLY <1>2, <1>7 DEF Fields
  <1>10. /\ y.targetLogicalAddress = q.targetLogicalAddress /\ y.instruction = q.instruction
         /\ y.key = q.key /\ y.replyAddress = Padded(q.replyAddress)
         /\ y.initiatorLogicalAddress = q.initiatorLogicalAddress
         /\ y.transactionID = q.transactionID /\ y.extendedAddress = q.extendedAddress
         /\ y.address = q.address /\ y.dataLength = q.dataLength
         /\ y.data = q.data /\ y.useDraftECRC = draftE
    BY ONLY <1>4 DEF ReadCommand
  <1>11. QED BY ONLY <1>7, <1>8, <1>9, <1>10 DEF Taken

\* It is what was asked for.
LEMMA TakenIsAsAsked ==
    ASSUME NEW asked, AskedFits(asked), NEW draftE, NEW p, Taken(p, CommandOf(asked), draftE)
    PROVE  IsAsAsked(p, asked)
  <1>1. PICK q : q = CommandOf(asked)
    OBVIOUS
  <1>2. asked.to.node.replyAddress \in ReplyAddress /\ asked.to.address \in Address
    BY FieldsAreBytes DEF AskedFits, NodeOK, ReplyAddress
  <1>3. PICK w \in 0 .. 3 : w = Words(asked.to.node.replyAddress)
    BY <1>2, PaddedAddress
  <1>4. PICK m : m = WithWords(ModeBits(asked), w)
    OBVIOUS
  <1>5. /\ WriteReadBit \in m <=> asked.call.kind = "write"
        /\ IncrementBit \in m <=> asked.options.incrementMode
        /\ VerifyBit \in m <=> asked.call.kind = "write" /\ asked.options.verifyMode
        /\ ReplyBit \in m <=> asked.call.kind # "write" \/ asked.options.replyMode
    BY ONLY <1>4, w \in 0 .. 3, InstructionBits, AskedFits(asked)
  <1>6. /\ q.targetLogicalAddress = asked.to.node.targetLogicalAddress /\ q.instruction = m
        /\ q.key = asked.to.node.defaultKey /\ q.replyAddress = asked.to.node.replyAddress
        /\ q.transactionID = asked.transactionID
        /\ q.address = FourBytes(asked.to.address) /\ q.dataLength = asked.to.length
        /\ q.data = IF asked.call.kind = "write" THEN DataOf(asked.call, asked.to.length) ELSE <<>>
    BY <1>1, <1>3, <1>4 DEF CommandOf
  <1>7. NumberOfFour(FourBytes(asked.to.address)) = asked.to.address
    BY <1>2, FourBytesRead
  <1>8. /\ p.targetLogicalAddress = q.targetLogicalAddress /\ p.instruction = q.instruction
        /\ p.key = q.key /\ p.replyAddress = Padded(q.replyAddress)
        /\ p.transactionID = q.transactionID
        /\ p.address = q.address /\ p.dataLength = q.dataLength /\ p.data = q.data
    BY <1>1 DEF Taken
  <1>9. IsWrite(p) <=> asked.call.kind = "write"
    BY ONLY <1>5, <1>6, <1>8 DEF IsWrite
  <1>10. QED BY ONLY <1>5, <1>6, <1>7, <1>8, <1>9 DEF IsAsAsked

\* What setRMAPTargetInformation() does to a packet.
LEMMA InformationSet ==
    ASSUME NEW p, HasFields(p), p.instruction \in SUBSET (0 .. 7), NEW node, NodeOK(node),
           NEW r, r = SetRMAPTargetInformation(p, node)
    PROVE  /\ HasFields(r) /\ r.targetSpaceWireAddress = node.targetSpaceWireAddress
           /\ r.targetLogicalAddress = node.targetLogicalAddress
           /\ r.instruction = WithWords(p.instruction, Words(node.replyAddress))
           /\ r.key = node.defaultKey /\ r.replyAddress = node.replyAddress
           /\ r.initiatorLogicalAddress = IF node.initiatorLogicalAddress # <<>>
                                          THEN node.initiatorLogicalAddress[1]
                                          ELSE p.initiatorLogicalAddress
           /\ r.transactionID = p.transactionID /\ r.extendedAddress = p.extendedAddress
           /\ r.address = p.address /\ r.dataLength = p.dataLength /\ r.status = p.status
           /\ r.data = p.data /\ r.useDraftECRC = p.useDraftECRC
  <1>1. node.replyAddress \in ReplyAddress
    BY FieldsAreBytes DEF NodeOK, ReplyAddress
  <1>2. PICK w \in 0 .. 3 : w = Words(node.replyAddress)
    BY <1>1, PaddedAddress
  <1>3. BitsOf((ByteOf(p.instruction \ ReplyPathAddressLengthBits) + w) % 256)
           = WithWords(p.instruction, w)
    BY WordsInInstruction
  <1>4. PICK x : x = [p EXCEPT !.targetLogicalAddress = node.targetLogicalAddress]
    OBVIOUS
  <1>5. /\ HasFields(x) /\ x.targetLogicalAddress = node.targetLogicalAddress
        /\ x.instruction = p.instruction /\ x.initiatorLogicalAddress = p.initiatorLogicalAddress
        /\ x.transactionID = p.transactionID /\ x.extendedAddress = p.extendedAddress
        /\ x.address = p.address /\ x.dataLength = p.dataLength /\ x.status = p.status
        /\ x.data = p.data /\ x.useDraftECRC = p.useDraftECRC
    BY ONLY HasFields(p), <1>4 DEF HasFields, Fields
  <1>6. PICK y : y = SetReplyAddress(x, node.replyAddress)
    OBVIOUS
  <1>7. y = [x EXCEPT !.replyAddress = node.replyAddress,
                      !.instruction = WithWords(p.instruction, w)]
    <2>1. y = [x EXCEPT !.replyAddress = node.replyAddress,
                        !.instruction = BitsOf((ByteOf(x.instruction \ ReplyPathAddressLengthBits) + w) % 256)]
      BY ONLY <1>2, <1>6 DEF SetReplyAddress, Words
    <2>2. QED BY ONLY <1>3, <1>5, <2>1
  <1>8. /\ HasFields(y) /\ y.targetLogicalAddress = node.targetLogicalAddress
        /\ y.instruction = WithWords(p.instruction, w) /\ y.replyAddress = node.replyAddress
        /\ y.initiatorLogicalAddress = p.initiatorLogicalAddress
        /\ y.transactionID = p.transactionID /\ y.extendedAddress = p.extendedAddress
        /\ y.address = p.address /\ y.dataLength = p.dataLength /\ y.status = p.status
        /\ y.data = p.data /\ y.useDraftECRC = p.useDraftECRC
    BY ONLY <1>5, <1>7 DEF HasFields, Fields
  <1>9. r = [y EXCEPT !.targetSpaceWireAddress = node.targetSpaceWireAddress,
                      !.key = node.defaultKey,
                      !.initiatorLogicalAddress =
                          IF node.initiatorLogicalAddress # <<>>
                          THEN node.initiatorLogicalAddress[1] ELSE y.initiatorLogicalAddress]
    BY ONLY <1>4, <1>6, r = SetRMAPTargetInformation(p, node) DEF SetRMAPTargetInformation
  <1>10. PICK i : i = IF node.initiatorLogicalAddress # <<>>
                      THEN node.initiatorLogicalAddress[1] ELSE y.initiatorLogicalAddress
    OBVIOUS
  <1>11. r = [y EXCEPT !.targetSpaceWireAddress = node.targetSpaceWireAddress,
                       !.key = node.defaultKey, !.initiatorLogicalAddress = i]
    BY ONLY <1>9, <1>10
  <1>12. /\ HasFields(r) /\ r.targetSpaceWireAddress = node.targetSpaceWireAddress
         /\ r.targetLogicalAddress = y.targetLogicalAddress /\ r.instruction = y.instruction
         /\ r.key = node.defaultKey /\ r.replyAddress = y.replyAddress
         /\ r.initiatorLogicalAddress = i
         /\ r.transactionID = y.transactionID /\ r.extendedAddress = y.extendedAddress
         /\ r.address = y.address /\ r.dataLength = y.dataLength /\ r.status = y.status
         /\ r.data = y.data /\ r.useDraftECRC = y.useDraftECRC
    BY ONLY <1>8, <1>11 DEF HasFields, Fields
  <1>13. QED BY ONLY <1>2, <1>8, <1>10, <1>12

\* A bit of the instruction is set or cleared.
BitIsSet(x, y, bit, on) ==
    /\ HasFields(y) /\ y = [x EXCEPT !.instruction = y.instruction]
    /\ y.instruction = IF on THEN x.instruction \cup {bit} ELSE x.instruction \ {bit}

\* SetBit() changes that bit and no other field.
LEMMA BitSet ==
    ASSUME NEW x, HasFields(x), NEW bit, NEW on \in BOOLEAN
    PROVE  BitIsSet(x, SetBit(x, bit, on), bit, on)
  <1>1. PICK i : i = IF on THEN x.instruction \cup {bit} ELSE x.instruction \ {bit}
    OBVIOUS
  <1>2. PICK y : y = [x EXCEPT !.instruction = i]
    OBVIOUS
  <1>3. SetBit(x, bit, on) = y
    BY <1>1, <1>2 DEF SetBit
  <1>4. HasFields(y) /\ y.instruction = i
    BY <1>2 DEF HasFields, Fields
  <1>5. QED BY ONLY <1>1, <1>2, <1>3, <1>4 DEF BitIsSet

\* What read() and write() make of the flags of a packet.
LEMMA ModesSet ==
    ASSUME NEW p, HasFields(p), p.instruction \in SUBSET (0 .. 6), NEW asked, AskedFits(asked),
           asked.options = options, NEW r, r = SetModes(p, asked.call)
    PROVE  /\ r = [p EXCEPT !.instruction = r.instruction]
           /\ r.instruction \ {0, 1} = ModeBits(asked) /\ r.instruction \in SUBSET (0 .. 6)
  <1>1. /\ options.incrementMode \in BOOLEAN /\ options.verifyMode \in BOOLEAN
        /\ options.replyMode \in BOOLEAN /\ asked.call.kind \in {"read", "write"}
    BY DEF AskedFits, Options
  <1> DEFINE write == asked.call.kind = "write"
             verify == write /\ options.verifyMode
             reply == asked.call.kind = "read" \/ options.replyMode
  <1>2. PICK a : a = SetBit(p, WriteReadBit, write)
    OBVIOUS
  <1>3. PICK b : b = SetBit(a, CommandReplyBit, TRUE)
    OBVIOUS
  <1>4. PICK c : c = SetBit(b, IncrementBit, options.incrementMode)
    OBVIOUS
  <1>5. PICK d : d = SetBit(c, VerifyBit, verify)
    OBVIOUS
  <1>6. r = SetBit(d, ReplyBit, reply)
    BY <1>2, <1>3, <1>4, <1>5 DEF SetModes
  <1>7. write \in BOOLEAN /\ verify \in BOOLEAN /\ reply \in BOOLEAN
    OBVIOUS
  <1> HIDE DEF write, verify, reply
  <1>8. ASSUME NEW x, NEW y, NEW z, HasFields(x), y = [x EXCEPT !.instruction = y.instruction],
               z = [y EXCEPT !.instruction = z.instruction]
        PROVE  z = [x EXCEPT !.instruction = z.instruction]
    BY ONLY <1>8 DEF HasFields, Fields
  <1>9. BitIsSet(p, a, WriteReadBit, write)
    BY ONLY <1>2, <1>7, HasFields(p), BitSet
  <1>10. BitIsSet(a, b, CommandReplyBit, TRUE)
    <2>1. HasFields(a)
      BY ONLY <1>9 DEF BitIsSet
    <2>2. QED BY ONLY <1>3, <2>1, TRUE \in BOOLEAN, BitSet
  <1>11. BitIsSet(b, c, IncrementBit, options.incrementMode)
    <2>1. HasFields(b)
      BY ONLY <1>10 DEF BitIsSet
    <2>2. QED BY ONLY <1>4, <1>1, <2>1, BitSet
  <1>12. BitIsSet(c, d, VerifyBit, verify)
    <2>1. HasFields(c)
      BY ONLY <1>11 DEF BitIsSet
    <2>2. QED BY ONLY <1>5, <1>7, <2>1, BitSet
  <1>13. BitIsSet(d, r, ReplyBit, reply)
    <2>1. HasFields(d)
      BY ONLY <1>12 DEF BitIsSet
    <2>2. QED BY ONLY <1>6, <1>7, <2>1, BitSet
  <1>14. r = [p EXCEPT !.instruction = r.instruction]
    <2>0. /\ a = [p EXCEPT !.instruction = a.instruction]
          /\ b = [a EXCEPT !.instruction = b.instruction]
          /\ c = [b EXCEPT !.instruction = c.instruction]
          /\ d = [c EXCEPT !.instruction = d.instruction]
          /\ r = [d EXCEPT !.instruction = r.instruction]
      BY ONLY <1>9, <1>10, <1>11, <1>12, <1>13 DEF BitIsSet
    <2>1. b = [p EXCEPT !.instruction = b.instruction]
      BY ONLY <1>8, <2>0, HasFields(p)
    <2>2. c = [p EXCEPT !.instruction = c.instruction]
      BY ONLY <1>8, <2>0, <2>1, HasFields(p)
    <2>3. d = [p EXCEPT !.instruction = d.instruction]
      BY ONLY <1>8, <2>0, <2>2, HasFields(p)
    <2>4. QED BY ONLY <1>8, <2>0, <2>3, HasFields(p)
  <1>15. /\ a.instruction = IF write THEN p.instruction \cup {5} ELSE p.instruction \ {5}
         /\ b.instruction = a.instruction \cup {6}
         /\ c.instruction = IF options.incrementMode THEN b.instruction \cup {2}
                            ELSE b.instruction \ {2}
         /\ d.instruction = IF verify THEN c.instruction \cup {4} ELSE c.instruction \ {4}
         /\ r.instruction = IF reply THEN d.instruction \cup {3} ELSE d.instruction \ {3}
    BY ONLY <1>9, <1>10, <1>11, <1>12, <1>13
       DEF BitIsSet, WriteReadBit, CommandReplyBit, IncrementBit, VerifyBit, ReplyBit
  <1>16. r.instruction \in SUBSET (0 .. 6)
    <2>1. a.instruction \in SUBSET (0 .. 6)
      BY ONLY <1>15, p.instruction \in SUBSET (0 .. 6)
    <2>2. b.instruction \in SUBSET (0 .. 6)
      BY ONLY <1>15, <2>1
    <2>3. c.instruction \in SUBSET (0 .. 6)
      BY ONLY <1>15, <2>2
    <2>4. d.instruction \in SUBSET (0 .. 6)
      BY ONLY <1>15, <2>3
    <2>5. QED BY ONLY <1>15, <2>4
  <1>17. /\ 6 \in r.instruction /\ (5 \in r.instruction <=> write)
         /\ (2 \in r.instruction <=> options.incrementMode)
         /\ (4 \in r.instruction <=> verify) /\ (3 \in r.instruction <=> reply)
    BY ONLY <1>15
  <1>18. r.instruction \ {0, 1} = ModeBits(asked)
    <2>1. r.instruction \ {0, 1} \in SUBSET {2, 3, 4, 5, 6} /\ ModeBits(asked) \in SUBSET {2, 3, 4, 5, 6}
      BY ONLY <1>16 DEF ModeBits, WriteReadBit, CommandReplyBit, IncrementBit, VerifyBit, ReplyBit
    <2>2. /\ 6 \in ModeBits(asked) /\ (5 \in ModeBits(asked) <=> write)
          /\ (2 \in ModeBits(asked) <=> options.incrementMode)
          /\ (4 \in ModeBits(asked) <=> verify) /\ (3 \in ModeBits(asked) <=> reply)
      BY ONLY <1>1, asked.options = options
         DEF ModeBits, WriteReadBit, CommandReplyBit, IncrementBit, VerifyBit, ReplyBit,
             write, verify, reply
    <2>3. QED BY ONLY <1>17, <2>1, <2>2
  <1>19. QED BY ONLY <1>14, <1>16, <1>18

\* What is known of the packet that read() and write() set up before the
\* description of the node and the data go in: the call's fields are right.
Prepared(z, asked) ==
    /\ HasFields(z) /\ z.instruction \in SUBSET (0 .. 7)
    /\ z.instruction \ {0, 1} = ModeBits(asked) /\ z.status = 0 /\ z.extendedAddress = 0
    /\ z.initiatorLogicalAddress = asked.options.initiatorLogicalAddress
    /\ z.address = FourBytes(asked.to.address) /\ z.dataLength = asked.to.length
    /\ z.useDraftECRC = asked.options.useDraftECRC

\* The fields that depend on the options, the direction and the address.
LEMMA PacketPrepared ==
    ASSUME NEW p, Reusable(p), NEW asked, AskedFits(asked), asked.options = options,
           NEW y, y = SetModes([p EXCEPT !.useDraftECRC = options.useDraftECRC,
                                         !.initiatorLogicalAddress = options.initiatorLogicalAddress],
                               asked.call),
           NEW z, z = [y EXCEPT !.extendedAddress = 0, !.address = FourBytes(asked.to.address),
                                !.dataLength = asked.to.length]
    PROVE  Prepared(z, asked) /\ HasFields(y)
  <1>1. PICK x : x = [p EXCEPT !.useDraftECRC = options.useDraftECRC,
                               !.initiatorLogicalAddress = options.initiatorLogicalAddress]
    OBVIOUS
  <1>2. HasFields(p) /\ p.status = 0 /\ p.instruction \in SUBSET (0 .. 6)
    BY DEF Reusable
  <1>3. /\ HasFields(x) /\ x.instruction = p.instruction /\ x.status = p.status
        /\ x.useDraftECRC = options.useDraftECRC
        /\ x.initiatorLogicalAddress = options.initiatorLogicalAddress
    BY ONLY <1>1, <1>2 DEF HasFields, Fields
  <1>4. /\ y = [x EXCEPT !.instruction = y.instruction]
        /\ y.instruction \ {0, 1} = ModeBits(asked) /\ y.instruction \in SUBSET (0 .. 6)
    <2>1. y = SetModes(x, asked.call)
      BY <1>1
    <2>2. x.instruction \in SUBSET (0 .. 6)
      BY ONLY <1>2, <1>3
    <2>3. QED BY ONLY <1>3, <2>1, <2>2, AskedFits(asked), asked.options = options, ModesSet
  <1>5. /\ HasFields(y) /\ y.status = 0 /\ y.useDraftECRC = options.useDraftECRC
        /\ y.initiatorLogicalAddress = options.initiatorLogicalAddress
    BY ONLY <1>2, <1>3, <1>4 DEF HasFields, Fields
  <1>6. /\ HasFields(z) /\ z.instruction = y.instruction /\ z.status = y.status
        /\ z.useDraftECRC = y.useDraftECRC /\ z.extendedAddress = 0
        /\ z.initiatorLogicalAddress = y.initiatorLogicalAddress
        /\ z.address = FourBytes(asked.to.address) /\ z.dataLength = asked.to.length
    BY ONLY <1>5, z = [y EXCEPT !.extendedAddress = 0, !.address = FourBytes(asked.to.address),
                                !.dataLength = asked.to.length] DEF HasFields, Fields
  <1>7. z.instruction \in SUBSET (0 .. 7)
    BY ONLY <1>4, <1>6
  <1>8. QED BY ONLY <1>4, <1>5, <1>6, <1>7, asked.options = options DEF Prepared

\* What setRMAPTargetInformation() and the transaction ID make of it, and the
\* data, is the command of the call, whatever the packet was used for before.
LEMMA CommandSetUp ==
    ASSUME NEW z, NEW asked, AskedFits(asked), Prepared(z, asked), NEW v,
           v = SetRMAPTargetInformation(z, asked.to.node), NEW u,
           u = [v EXCEPT !.data = CommandOf(asked).data, !.dataLength = asked.to.length,
                         !.transactionID = asked.transactionID]
    PROVE  u = CommandOf(asked)
  <1>1. PICK q : q = CommandOf(asked)
    OBVIOUS
  <1>2. PICK node : node = asked.to.node
    OBVIOUS
  <1>3. NodeOK(node)
    BY <1>2 DEF AskedFits
  <1>4. /\ HasFields(z) /\ z.instruction \in SUBSET (0 .. 7)
        /\ z.instruction \ {0, 1} = ModeBits(asked) /\ z.status = 0 /\ z.extendedAddress = 0
        /\ z.initiatorLogicalAddress = asked.options.initiatorLogicalAddress
        /\ z.address = FourBytes(asked.to.address) /\ z.dataLength = asked.to.length
        /\ z.useDraftECRC = asked.options.useDraftECRC
    BY DEF Prepared
  <1>5. /\ HasFields(v) /\ v.targetSpaceWireAddress = node.targetSpaceWireAddress
        /\ v.targetLogicalAddress = node.targetLogicalAddress
        /\ v.instruction = WithWords(z.instruction, Words(node.replyAddress))
        /\ v.key = node.defaultKey /\ v.replyAddress = node.replyAddress
        /\ v.initiatorLogicalAddress = IF node.initiatorLogicalAddress # <<>>
                                       THEN node.initiatorLogicalAddress[1]
                                       ELSE z.initiatorLogicalAddress
        /\ v.extendedAddress = z.extendedAddress
        /\ v.address = z.address /\ v.status = z.status /\ v.useDraftECRC = z.useDraftECRC
    BY ONLY <1>2, <1>3, <1>4, InformationSet, v = SetRMAPTargetInformation(z, asked.to.node)
  <1>6. v.instruction = WithWords(ModeBits(asked), Words(node.replyAddress))
    BY ONLY <1>4, <1>5 DEF WithWords, ModeBits, CommandReplyBit, WriteReadBit, IncrementBit,
                           VerifyBit, ReplyBit
  <1>7. /\ HasFields(u) /\ u.data = q.data /\ u.dataLength = asked.to.length
        /\ u.transactionID = asked.transactionID
        /\ u.targetSpaceWireAddress = v.targetSpaceWireAddress
        /\ u.targetLogicalAddress = v.targetLogicalAddress /\ u.instruction = v.instruction
        /\ u.key = v.key /\ u.replyAddress = v.replyAddress
        /\ u.initiatorLogicalAddress = v.initiatorLogicalAddress
        /\ u.extendedAddress = v.extendedAddress /\ u.address = v.address
        /\ u.status = v.status /\ u.useDraftECRC = v.useDraftECRC
    BY ONLY <1>1, <1>5, u = [v EXCEPT !.data = CommandOf(asked).data,
            !.dataLength = asked.to.length, !.transactionID = asked.transactionID]
       DEF HasFields, Fields
  <1>8. /\ HasFields(q) /\ q.targetSpaceWireAddress = node.targetSpaceWireAddress
        /\ q.targetLogicalAddress = node.targetLogicalAddress
        /\ q.instruction = WithWords(ModeBits(asked), Words(node.replyAddress))
        /\ q.key = node.defaultKey /\ q.replyAddress = node.replyAddress
        /\ q.initiatorLogicalAddress = IF node.initiatorLogicalAddress # <<>>
                                       THEN node.initiatorLogicalAddress[1]
                                       ELSE asked.options.initiatorLogicalAddress
        /\ q.transactionID = asked.transactionID /\ q.extendedAddress = 0
        /\ q.address = FourBytes(asked.to.address) /\ q.dataLength = asked.to.length
        /\ q.status = 0 /\ q.useDraftECRC = asked.options.useDraftECRC
    BY ONLY <1>1, <1>2 DEF CommandOf, HasFields, Fields
  <1>9. u.initiatorLogicalAddress = q.initiatorLogicalAddress
    BY ONLY <1>4, <1>5, <1>7, <1>8
  <1>10. u = q
    BY ONLY <1>4, <1>5, <1>6, <1>7, <1>8, <1>9, SamePacket
  <1>11. QED BY ONLY <1>1, <1>10

\* read() and write() make the same command of every reusable packet.
LEMMA SetUpGives ==
    ASSUME NEW p, Reusable(p), NEW asked, AskedFits(asked), asked.options = options
    PROVE  [SetUp(p, asked.call, asked.to) EXCEPT !.transactionID = asked.transactionID]
               = CommandOf(asked)
  <1>1. PICK y : y = SetModes([p EXCEPT !.useDraftECRC = options.useDraftECRC,
                                 !.initiatorLogicalAddress = options.initiatorLogicalAddress],
                              asked.call)
    OBVIOUS
  <1>2. PICK z : z = [y EXCEPT !.extendedAddress = 0, !.address = FourBytes(asked.to.address),
                               !.dataLength = asked.to.length]
    OBVIOUS
  <1>3. Prepared(z, asked) /\ HasFields(y)
    BY ONLY <1>1, <1>2, PacketPrepared, Reusable(p), AskedFits(asked), asked.options = options
  <1>4. HasFields(z)
    BY ONLY <1>3 DEF Prepared
  <1>5. asked.call.kind \in {"read", "write"} /\ NodeOK(asked.to.node)
    BY DEF AskedFits
  <1>6. ASSUME NEW x, Prepared(x, asked), NEW v, v = SetRMAPTargetInformation(x, asked.to.node)
        PROVE  HasFields(v) /\ v.data = x.data /\ v.dataLength = x.dataLength
    <2>1. HasFields(x) /\ x.instruction \in SUBSET (0 .. 7)
      BY ONLY <1>6 DEF Prepared
    <2>2. QED BY ONLY <1>5, <1>6, <2>1, InformationSet
  <1>7. CASE asked.call.kind = "read"
    <2>1. PICK x : x = [z EXCEPT !.data = <<>>]
      OBVIOUS
    <2>2. x = [y EXCEPT !.extendedAddress = 0, !.address = FourBytes(asked.to.address),
                        !.dataLength = asked.to.length, !.data = <<>>]
      BY ONLY <1>2, <1>3, <2>1 DEF HasFields, Fields
    <2>3. PICK v : v = SetRMAPTargetInformation(x, asked.to.node)
      OBVIOUS
    <2>4. SetUp(p, asked.call, asked.to) = v
      BY ONLY <1>1, <1>7, <2>2, <2>3 DEF SetUp, SetUpRead
    <2>5. Prepared(x, asked) /\ x.data = <<>>
      BY ONLY <1>3, <1>4, <2>1 DEF Prepared, HasFields, Fields
    <2>6. HasFields(v) /\ v.data = <<>> /\ v.dataLength = asked.to.length
      <3>1. x.dataLength = asked.to.length
        BY ONLY <2>5 DEF Prepared
      <3>2. QED BY ONLY <1>6, <2>3, <2>5, <3>1
    <2>7. CommandOf(asked).data = <<>>
      BY ONLY <1>7 DEF CommandOf
    <2>8. [v EXCEPT !.transactionID = asked.transactionID]
            = [v EXCEPT !.data = CommandOf(asked).data, !.dataLength = asked.to.length,
                        !.transactionID = asked.transactionID]
      BY ONLY <2>6, <2>7 DEF HasFields, Fields
    <2>9. PICK u : u = [v EXCEPT !.data = CommandOf(asked).data, !.dataLength = asked.to.length,
                                 !.transactionID = asked.transactionID]
      OBVIOUS
    <2>10. u = CommandOf(asked)
      BY ONLY <2>3, <2>5, <2>9, AskedFits(asked), CommandSetUp
    <2>11. QED BY ONLY <2>4, <2>8, <2>9, <2>10
  <1>8. CASE asked.call.kind = "write"
    <2>1. PICK d : d = DataOf(asked.call, asked.to.length)
      OBVIOUS
    <2>2. PICK v : v = SetRMAPTargetInformation(z, asked.to.node)
      OBVIOUS
    <2>3. SetUp(p, asked.call, asked.to) = [v EXCEPT !.data = d, !.dataLength = Len(d)]
      BY ONLY <1>1, <1>2, <1>8, <2>1, <2>2 DEF SetUp, SetUpWrite, SetData
    <2>4. Len(d) = asked.to.length
      <3>1. PICK c \in Seq(Byte), l \in Nat : c = asked.call.data /\ l = asked.to.length
                                              /\ l <= Len(c)
        BY <1>8 DEF AskedFits, Length
      <3>2. Len(SubSeq(c, 1, l)) = l
        BY ONLY l \in Nat, c \in Seq(Byte), <3>1
      <3>3. QED BY ONLY <2>1, <3>1, <3>2 DEF DataOf
    <2>5. CommandOf(asked).data = d
      BY ONLY <1>8, <2>1 DEF CommandOf
    <2>6. HasFields(v)
      BY ONLY <1>3, <1>6, <2>2
    <2>7. PICK u : u = [v EXCEPT !.data = CommandOf(asked).data, !.dataLength = asked.to.length,
                                 !.transactionID = asked.transactionID]
      OBVIOUS
    <2>8. [[v EXCEPT !.data = d, !.dataLength = Len(d)] EXCEPT !.transactionID = asked.transactionID] = u
      BY ONLY <2>4, <2>5, <2>6, <2>7 DEF HasFields, Fields
    <2>9. u = CommandOf(asked)
      BY ONLY <1>3, <2>2, <2>7, AskedFits(asked), CommandSetUp
    <2>10. QED BY ONLY <2>3, <2>8, <2>9
  <1>9. QED BY ONLY <1>5, <1>7, <1>8

\* After a call the packet can be used for the next one.
LEMMA CommandReusable ==
    ASSUME NEW asked, AskedFits(asked)
    PROVE  Reusable(CommandOf(asked))
  <1>1. PICK q : q = CommandOf(asked)
    OBVIOUS
  <1>2. PICK w : w = Words(asked.to.node.replyAddress)
    OBVIOUS
  <1>3. w \in 0 .. 3
    BY <1>2, PaddedAddress, FieldsAreBytes DEF AskedFits, NodeOK, ReplyAddress
  <1>4. PICK m : m = WithWords(ModeBits(asked), w)
    OBVIOUS
  <1>5. HasFields(q) /\ q.instruction = m /\ q.status = 0
    BY ONLY <1>1, <1>2, <1>4 DEF CommandOf, HasFields, Fields
  <1>6. m \in SUBSET (0 .. 6)
    BY ONLY <1>3, <1>4, InstructionBits, AskedFits(asked)
  <1>7. QED BY ONLY <1>1, <1>5, <1>6 DEF Reusable

\* So can a new packet.
LEMMA NewReusable == Reusable(NewPacket(FALSE))
  BY DEF Reusable, NewPacket, HasFields, Fields

-----------------------------------------------------------------------------
(* The database, and what names stand for.                                 *)

\* A set of numbers with a bound has a greatest one.
LEMMA GreatestNumber ==
    ASSUME NEW n \in Nat, NEW S \in SUBSET (1 .. n), S # {}
    PROVE  Max(S) \in S
  <1> DEFINE T == {n - x : x \in S}
  <1>1. T \in SUBSET Nat /\ T # {}
    <2>1. \A x \in S : n - x \in Nat
      OBVIOUS
    <2>2. QED BY <2>1
  <1>2. PICK t \in T : \A m \in T : t <= m
    BY ONLY <1>1, LeastNumber
  <1>3. PICK x \in S : t = n - x
    OBVIOUS
  <1>4. \A y \in S : n - x <= n - y
    BY <1>2, <1>3
  <1>5. ASSUME NEW y \in S PROVE x >= y
    <2>1. n - x <= n - y
      BY ONLY <1>4, y \in S
    <2>2. x \in Nat /\ y \in Nat
      BY ONLY x \in S, y \in S, S \in SUBSET (1 .. n)
    <2>3. QED BY ONLY <2>1, <2>2, n \in Nat
  <1>6. QED BY <1>5 DEF Max

\* What a name stands for is an element that has it.
StandsFor(name, f, n) == \E k \in 1 .. n : f[k].id = name /\ ByName(f)[name] = f[k]

\* In a list of records.
LEMMA ByNameFinds ==
    ASSUME NEW n \in Nat, NEW f, f = [k \in 1 .. n |-> f[k]], NEW name \in DOMAIN ByName(f)
    PROVE  StandsFor(name, f, n)
  <1>1. DOMAIN f = 1 .. n
    OBVIOUS
  <1>2. Len(f) = n
    BY <1>1
  <1> DEFINE I == {k \in 1 .. n : f[k].id = name}
  <1>3. PICK r \in ToSet(f) : r.id = name
    BY DEF ByName
  <1>4. I # {} /\ I \in SUBSET (1 .. n)
    BY <1>1, <1>3 DEF ToSet
  <1>5. Max(I) \in I
    BY ONLY <1>4, GreatestNumber, n \in Nat
  <1>6. ByName(f)[name] = f[Max(I)]
    BY <1>2, <1>4 DEF ByName, SelectLastInSeq
  <1>7. QED BY <1>5, <1>6 DEF StandsFor

\* A node of the database is one of the file's, and so are its objects.
LEMMA NodeConstructed ==
    ASSUME NEW file \in Files, NEW i \in DOMAIN file, NEW m \in ConstructTargetNode(file[i])
    PROVE  /\ m.id = file[i]["id"] /\ NodeOK(m)
           /\ \A id \in DOMAIN m.objects : ObjectFrom(m.id, id, m.objects[id])
  <1>1. PICK e : e = file[i]
    OBVIOUS
  <1>2. NodeFits(e)
    BY <1>1, ExchangeAssumption DEF FileFits
  <1>3. PICK objects : objects = e["RMAPMemoryObject"]
    OBVIOUS
  <1>4. PICK n \in Nat : DOMAIN objects = 1 .. n
    BY <1>2, <1>3 DEF NodeFits, IsSequence
  <1>5. PICK f : f = [k \in 1 .. n |-> CHOOSE o \in ConstructMemoryObject(objects[k]) : TRUE]
    OBVIOUS
  <1>6. PICK a : a = IF "InitiatorLogicalAddress" \in DOMAIN e
                     THEN <<e["InitiatorLogicalAddress"]>> ELSE <<>>
    OBVIOUS
  <1>7. /\ \A k \in 1 .. n : ConstructMemoryObject(objects[k]) # {}
        /\ m = [id |-> e["id"], targetLogicalAddress |-> e["TargetLogicalAddress"],
                targetSpaceWireAddress |-> e["TargetSpaceWireAddress"],
                replyAddress |-> e["ReplyAddress"], defaultKey |-> e["Key"],
                initiatorLogicalAddress |-> a, objects |-> ByName(f)]
    <2>1. f = [k \in DOMAIN objects |-> CHOOSE o \in ConstructMemoryObject(objects[k]) : TRUE]
      BY ONLY <1>4, <1>5
    <2>2. m \in ConstructTargetNode(e)
      BY <1>1
    <2>3. ConstructTargetNode(e) =
              IF \E k \in DOMAIN objects : ConstructMemoryObject(objects[k]) = {} THEN {}
              ELSE {[id |-> e["id"], targetLogicalAddress |-> e["TargetLogicalAddress"],
                     targetSpaceWireAddress |-> e["TargetSpaceWireAddress"],
                     replyAddress |-> e["ReplyAddress"], defaultKey |-> e["Key"],
                     initiatorLogicalAddress |-> a, objects |-> ByName(f)]}
      BY ONLY <1>3, <1>6, <2>1 DEF ConstructTargetNode
    <2>4. QED BY ONLY <1>4, <2>2, <2>3
  <1>8. /\ m.id = e["id"] /\ m.targetLogicalAddress = e["TargetLogicalAddress"]
        /\ m.targetSpaceWireAddress = e["TargetSpaceWireAddress"]
        /\ m.replyAddress = e["ReplyAddress"] /\ m.defaultKey = e["Key"]
        /\ m.initiatorLogicalAddress = a /\ m.objects = ByName(f)
    BY ONLY <1>7
  <1>9. a # <<>> => a[1] \in LogicalAddress
    BY <1>2, <1>6 DEF NodeFits
  <1>10. NodeOK(m)
    BY ONLY <1>2, <1>8, <1>9 DEF NodeOK, NodeFits
  <1>11. ASSUME NEW id \in DOMAIN ByName(f) PROVE ObjectFrom(m.id, id, ByName(f)[id])
    <2>1. f = [k \in 1 .. n |-> f[k]]
      BY ONLY <1>5
    <2>0. StandsFor(id, f, n)
      BY ONLY <2>1, ByNameFinds, n \in Nat, id \in DOMAIN ByName(f)
    <2>2. PICK k \in 1 .. n : f[k].id = id /\ ByName(f)[id] = f[k]
      BY ONLY <2>0 DEF StandsFor
    <2>3. f[k] \in ConstructMemoryObject(objects[k])
      BY ONLY <1>5, <1>7, k \in 1 .. n
    <2>4. f[k].id = objects[k]["id"]
      BY ONLY <2>3 DEF ConstructMemoryObject
    <2>5. QED BY <1>1, <1>3, <1>4, <1>8, <2>2, <2>3, <2>4 DEF ObjectFrom
  <1>12. QED BY ONLY <1>1, <1>8, <1>10, <1>11

\* The database of a file describes nodes and objects of the file.
LEMMA DatabaseConstructed ==
    ASSUME NEW file \in Files
    PROVE  DatabaseOK(ConstructDatabase(file))
  <1>1. PICK n \in Nat : DOMAIN file = 1 .. n
    BY ExchangeAssumption DEF FileFits, IsSequence
  <1>2. CASE \E i \in DOMAIN file : ConstructTargetNode(file[i]) = {}
    <2>1. DOMAIN ConstructDatabase(file) = {}
      BY <1>2 DEF ConstructDatabase
    <2>2. QED BY <2>1 DEF DatabaseOK
  <1>3. CASE ~\E i \in DOMAIN file : ConstructTargetNode(file[i]) = {}
    <2>1. PICK f : f = [i \in 1 .. n |-> CHOOSE m \in ConstructTargetNode(file[i]) : TRUE]
      OBVIOUS
    <2>2. ConstructDatabase(file) = ByName(f)
      BY <1>1, <1>3, <2>1 DEF ConstructDatabase
    <2>3. ASSUME NEW name \in DOMAIN ByName(f)
          PROVE  /\ NodeOK(ByName(f)[name])
                 /\ \A id \in DOMAIN ByName(f)[name].objects :
                        ObjectFrom(name, id, ByName(f)[name].objects[id])
      <3>1. f = [k \in 1 .. n |-> f[k]]
        BY ONLY <2>1
      <3>0. StandsFor(name, f, n)
        BY ONLY <3>1, ByNameFinds, n \in Nat, name \in DOMAIN ByName(f)
      <3>2. PICK k \in 1 .. n : f[k].id = name /\ ByName(f)[name] = f[k]
        BY ONLY <3>0 DEF StandsFor
      <3>3. f[k] \in ConstructTargetNode(file[k]) /\ k \in DOMAIN file
        BY <1>1, <1>3, <2>1
      <3>4. QED BY ONLY <3>2, <3>3, NodeConstructed, file \in Files
    <2>4. QED BY ONLY <2>2, <2>3 DEF DatabaseOK
  <1>4. QED BY ONLY <1>2, <1>3

\* A program may write only what a key word of the file allows.
LEMMA WritableByWords ==
    ASSUME NEW words, "Writable" \in AccessModeOf(words)
    PROVE  words \cap WritingWords # {}
  BY DEF AccessModeOf, WritingWords

\* An object of the database that can be written is one the file lets be written,
\* and its address and length are the file's.
LEMMA ObjectAllows ==
    ASSUME NEW name, NEW id, NEW object, ObjectFrom(name, id, object)
    PROVE  /\ object.address \in Address /\ object.length \in Length
           /\ IsWritable(object) => FileAllowsWriting(name, id)
  <1>0. PICK file \in Files : \E i \in DOMAIN file : file[i]["id"] = name
            /\ \E k \in DOMAIN file[i]["RMAPMemoryObject"] :
                  /\ file[i]["RMAPMemoryObject"][k]["id"] = id
                  /\ object \in ConstructMemoryObject(file[i]["RMAPMemoryObject"][k])
    BY DEF ObjectFrom
  <1>1. PICK i \in DOMAIN file : file[i]["id"] = name
            /\ \E k \in DOMAIN file[i]["RMAPMemoryObject"] :
                  /\ file[i]["RMAPMemoryObject"][k]["id"] = id
                  /\ object \in ConstructMemoryObject(file[i]["RMAPMemoryObject"][k])
    BY <1>0
  <1>2. PICK objects : objects = file[i]["RMAPMemoryObject"]
    OBVIOUS
  <1>3. PICK k \in DOMAIN objects : objects[k]["id"] = id /\ object \in ConstructMemoryObject(objects[k])
    BY <1>1, <1>2
  <1>4. PICK e : e = objects[k]
    OBVIOUS
  <1>5. ObjectFits(e)
    BY <1>2, <1>4, ExchangeAssumption DEF FileFits, NodeFits
  <1>6. /\ RequiredObjectTags \subseteq DOMAIN e
        /\ object = [id |-> e["id"], address |-> e["Address"], length |-> e["Length"],
                     accessMode |-> IF "AccessMode" \in DOMAIN e THEN AccessModeOf(e["AccessMode"])
                                    ELSE DefaultAccessMode]
    BY <1>3, <1>4 DEF ConstructMemoryObject
  <1>7. object.address \in Address /\ object.length \in Length
    BY <1>5, <1>6 DEF ObjectFits, RequiredObjectTags
  <1>8. IsWritable(object) /\ "AccessMode" \in DOMAIN e => e["AccessMode"] \cap WritingWords # {}
    BY <1>6, WritableByWords DEF IsWritable
  <1>9. IsWritable(object) => FileAllowsWriting(name, id)
    BY <1>1, <1>2, <1>3, <1>4, <1>8 DEF FileAllowsWriting
  <1>10. QED BY ONLY <1>7, <1>9

\* What a call asks for once its names are resolved.
LEMMA CallResolved ==
    ASSUME DatabaseInv, NEW call \in Calls, NEW to, to = Resolve(call), to.kind = "resolved",
           options \in OptionChoices, calls \in TransactionID,
           NEW asked, asked = [call |-> call, to |-> to, transactionID |-> calls, options |-> options]
    PROVE  /\ AskedFits(asked)
           /\ call.kind = "write" /\ IsByObject(call) => FileAllowsWriting(call.node, call.object)
  <1>1. CallFits(call) /\ options \in Options
    BY ExchangeAssumption
  <1>2. database # <<>>
    BY DEF Resolve, Throws
  <1>3. PICK db : db = database[1]
    OBVIOUS
  <1>4. DatabaseOK(db)
    BY <1>2, <1>3 DEF DatabaseInv
  <1>5. call.node \in DOMAIN db
    BY <1>2, <1>3 DEF Resolve, NoSuchNode, Throws
  <1>6. PICK node : node = db[call.node]
    OBVIOUS
  <1>7. NodeOK(node) /\ \A id \in DOMAIN node.objects : ObjectFrom(call.node, id, node.objects[id])
    BY ONLY <1>4, <1>5, <1>6 DEF DatabaseOK
  <1>8. to = IF IsByObject(call) THEN ResolveObject(call, node)
             ELSE [kind |-> "resolved", node |-> node, address |-> call.address,
                   length |-> IF call.kind = "read" THEN call.length ELSE Len(call.data)]
    BY ONLY <1>2, <1>3, <1>5, <1>6, to = Resolve(call) DEF Resolve
  <1>9. call.kind \in {"read", "write"} /\ (call.kind = "write" => call.data \in Seq(Byte))
    BY ONLY <1>1 DEF CallFits
  <1>10. /\ to.node = node /\ to.address \in Address /\ to.length \in Length
         /\ call.kind = "write" => to.length <= Len(call.data)
         /\ call.kind = "write" /\ IsByObject(call) => FileAllowsWriting(call.node, call.object)
    <2>1. CASE ~IsByObject(call)
      <3>1. call.address \in Address /\ (call.kind = "read" => call.length \in Length)
            /\ (call.kind = "write" => Len(call.data) \in Length)
        BY ONLY <1>1, <2>1 DEF CallFits
      <3>2. /\ to.node = node /\ to.address = call.address
            /\ to.length = IF call.kind = "read" THEN call.length ELSE Len(call.data)
        BY ONLY <1>8, <2>1
      <3>3. call.kind = "write" => Len(call.data) \in Nat
        BY ONLY <3>1 DEF Length
      <3>4. QED BY ONLY <1>9, <2>1, <3>1, <3>2, <3>3
    <2>2. CASE IsByObject(call)
      <3>1. to = ResolveObject(call, node)
        BY ONLY <1>8, <2>2
      <3>2. call.object \in DOMAIN node.objects
        BY ONLY <3>1, to.kind = "resolved" DEF ResolveObject, Throws
      <3>3. PICK object : object = node.objects[call.object]
        OBVIOUS
      <3>4. /\ ~(call.kind = "write" /\ ~IsWritable(object))
            /\ to.node = node /\ to.address = object.address /\ to.length = object.length
        BY ONLY <3>1, <3>2, <3>3, to.kind = "resolved" DEF ResolveObject, Throws
      <3>5. ObjectFrom(call.node, call.object, object)
        BY ONLY <1>7, <3>2, <3>3
      <3>6. /\ object.address \in Address /\ object.length \in Length
            /\ IsWritable(object) => FileAllowsWriting(call.node, call.object)
        BY ONLY <3>5, ObjectAllows
      <3>7. call.kind = "write" => object.length <= Len(call.data)
        <4>1. SUFFICES ASSUME call.kind = "write" PROVE object.length <= Len(call.data)
          OBVIOUS
        <4>2. HasDataFor(call)
          BY <1>1, <2>2, <4>1 DEF CallFits
        <4>0. PICK file \in Files : \E i \in DOMAIN file : file[i]["id"] = call.node
                /\ \E k \in DOMAIN file[i]["RMAPMemoryObject"] :
                      /\ file[i]["RMAPMemoryObject"][k]["id"] = call.object
                      /\ object \in ConstructMemoryObject(file[i]["RMAPMemoryObject"][k])
          BY ONLY <3>5 DEF ObjectFrom
        <4>3. PICK i \in DOMAIN file : file[i]["id"] = call.node
                /\ \E k \in DOMAIN file[i]["RMAPMemoryObject"] :
                      /\ file[i]["RMAPMemoryObject"][k]["id"] = call.object
                      /\ object \in ConstructMemoryObject(file[i]["RMAPMemoryObject"][k])
          BY ONLY <4>0
        <4>4. PICK objects : objects = file[i]["RMAPMemoryObject"]
          OBVIOUS
        <4>5. PICK k \in DOMAIN objects : objects[k]["id"] = call.object
                                          /\ object \in ConstructMemoryObject(objects[k])
          BY ONLY <4>3, <4>4
        <4>6. "Length" \in DOMAIN objects[k] /\ object.length = objects[k]["Length"]
          BY ONLY <4>5 DEF ConstructMemoryObject, RequiredObjectTags
        <4>7. objects[k]["Length"] <= Len(call.data)
          BY ONLY <4>2, <4>3, <4>4, <4>5, <4>6 DEF HasDataFor
        <4>8. QED BY ONLY <4>6, <4>7
      <3>8. QED BY ONLY <3>4, <3>6, <3>7
    <2>3. QED BY ONLY <2>1, <2>2
  <1>11. /\ asked.call = call /\ asked.to = to /\ asked.transactionID = calls
         /\ asked.options = options
    OBVIOUS
  <1>12. AskedFits(asked)
    BY ONLY <1>1, <1>7, <1>9, <1>10, <1>11, calls \in TransactionID DEF AskedFits
  <1>13. QED BY ONLY <1>10, <1>12

-----------------------------------------------------------------------------
(* The reply to a command.                                                 *)

\* The way home, filled up with zeros and without them, is a path address.
LEMMA WayHome ==
    ASSUME NEW path \in PathAddress, Len(path) <= 12, NEW r,
           r = RemoveLeadingZerosInReplyAddress(Padded(path))
    PROVE  r \in PathAddress /\ Len(r) <= 12
  <1>1. path \in ReplyAddress
    BY FieldsAreBytes DEF ReplyAddress
  <1>2. PICK x : x = Padded(path)
    OBVIOUS
  <1>3. PICK n \in Nat : n = Len(x) /\ n <= 12
    <2>1. PICK w \in 0 .. 3 : w = Words(path)
      BY ONLY <1>1, PaddedAddress
    <2>2. Len(x) = 4 * w
      BY ONLY <1>1, <1>2, <2>1, PaddedAddress
    <2>3. 4 * w \in Nat /\ 4 * w <= 12
      OBVIOUS
    <2>4. QED BY ONLY <2>2, <2>3
  <1>4. x \in Seq(0 .. 31)
    <2>1. PICK z \in Nat : z = (-Len(path)) % 4
      BY DEF PathAddress
    <2>2. PICK f : f = [i \in 1 .. z |-> 0]
      OBVIOUS
    <2>3. 0 \in 0 .. 31
      OBVIOUS
    <2>4. f \in Seq(0 .. 31)
      BY ONLY <2>2, <2>3, z \in Nat
    <2>5. x = f \o path
      BY ONLY <1>2, <2>1, <2>2 DEF Padded
    <2>6. path \in Seq(0 .. 31)
      BY DEF PathAddress
    <2>7. QED BY ONLY <2>4, <2>5, <2>6, OneAfterAnother
  <1> DEFINE I == {i \in 1 .. n : x[i] # 0}
  <1>5. RemoveLeadingZerosInReplyAddress(x) = IF I = {} THEN <<>> ELSE SubSeq(x, Min(I), n)
    <2>1. I # {} => Min(I) \in I
      <3>1. I \in SUBSET Nat
        OBVIOUS
      <3>2. QED BY ONLY <3>1, LeastIsLeast DEF Min
    <2>2. SelectInSeq(x, LAMBDA b : b # 0) = IF I # {} THEN Min(I) ELSE 0
      BY <1>3 DEF SelectInSeq
    <2>3. I # {} => Min(I) # 0
      BY <2>1
    <2>4. QED BY ONLY <1>3, <2>2, <2>3 DEF RemoveLeadingZerosInReplyAddress
  <1>6. CASE I = {}
    <2>1. PICK e : e = <<>>
      OBVIOUS
    <2>2. e \in Seq(0 .. 31) /\ Len(e) = 0
      BY ONLY <2>1
    <2>3. r = e
      BY <1>2, <1>5, <1>6, <2>1
    <2>4. QED BY ONLY <2>2, <2>3 DEF PathAddress
  <1>7. CASE I # {}
    <2>1. PICK k \in 1 .. n : k = Min(I)
      <3>1. I \in SUBSET Nat
        OBVIOUS
      <3>2. Min(I) \in I
        BY ONLY <1>7, <3>1, LeastIsLeast DEF Min
      <3>3. QED BY <3>2
    <2>2. r = SubSeq(x, k, n)
      BY <1>2, <1>5, <1>7, <2>1
    <2>3. SubSeq(x, k, n) \in Seq(0 .. 31) /\ Len(SubSeq(x, k, n)) = n - k + 1
      BY ONLY <1>3, <1>4, k \in 1 .. n, n \in Nat
    <2>4. n - k + 1 <= 12
      BY ONLY <1>3, k \in 1 .. n, n \in Nat
    <2>5. r \in PathAddress /\ Len(r) = n - k + 1
      BY ONLY <2>2, <2>3 DEF PathAddress
    <2>6. QED BY ONLY <2>4, <2>5
  <1>8. QED BY ONLY <1>6, <1>7

\* What a reply takes over from its command.
AnswersCommand(r, q, draftE, status) ==
    /\ ReplyFits(r) /\ DOMAIN r = Fields /\ r.transactionID = q.transactionID
    /\ r.status = status /\ (IsWrite(r) <=> IsWrite(q)) /\ r.useDraftECRC = draftE

\* The reply with a status and no data.
LEMMA ReplyMade ==
    ASSUME NEW q, CommandFits(q), q.replyAddress \in PathAddress, NEW draftE, NEW p,
           Taken(p, q, draftE), NEW status \in Byte, NEW r, r = ConstructReplyForCommand(p, status)
    PROVE  /\ AnswersCommand(r, q, draftE, status)
           /\ r.data = <<>> /\ r.dataLength = q.dataLength
  <1>1. /\ q.instruction \in SUBSET (0 .. 7) /\ q.initiatorLogicalAddress \in LogicalAddress
        /\ q.targetLogicalAddress \in LogicalAddress /\ q.transactionID \in TransactionID
        /\ q.dataLength \in Length /\ Len(q.replyAddress) <= 12
    BY DEF CommandFits, Packet, ReplyAddress
  <1>2. /\ DOMAIN p = Fields /\ p.targetLogicalAddress = q.targetLogicalAddress
        /\ p.instruction = q.instruction /\ p.replyAddress = Padded(q.replyAddress)
        /\ p.initiatorLogicalAddress = q.initiatorLogicalAddress
        /\ p.transactionID = q.transactionID /\ p.dataLength = q.dataLength
        /\ p.useDraftECRC = draftE
    BY DEF Taken
  <1>3. PICK path : path = RemoveLeadingZerosInReplyAddress(p.replyAddress)
    OBVIOUS
  <1>4. path \in PathAddress /\ Len(path) <= 12
    BY ONLY <1>1, <1>2, <1>3, WayHome, q.replyAddress \in PathAddress
  <1>5. PICK w \in 0 .. 3 : w = Words(path)
    BY <1>4, PaddedAddress, FieldsAreBytes DEF ReplyAddress
  <1>6. PICK m : m = WithWords(q.instruction, w)
    OBVIOUS
  <1>7. BitsOf((ByteOf(q.instruction \ ReplyPathAddressLengthBits) + w) % 256) = m
        /\ m \in SUBSET (0 .. 7)
    <2>1. PICK bits \in SUBSET (0 .. 7) : bits = q.instruction
      BY ONLY <1>1
    <2>2. BitsOf((ByteOf(bits \ ReplyPathAddressLengthBits) + w) % 256) = WithWords(bits, w)
          /\ WithWords(bits, w) \in SUBSET (0 .. 7)
      BY ONLY WordsInInstruction, bits \in SUBSET (0 .. 7), w \in 0 .. 3
    <2>3. QED BY ONLY <1>6, <2>1, <2>2
  <1>8. PICK x : x = SetReplyAddress(p, path)
    OBVIOUS
  <1>9. x = [p EXCEPT !.replyAddress = path, !.instruction = m]
    <2>1. x = [p EXCEPT !.replyAddress = path,
                        !.instruction = BitsOf((ByteOf(p.instruction \ ReplyPathAddressLengthBits) + w) % 256)]
      BY ONLY <1>5, <1>8 DEF SetReplyAddress, Words
    <2>2. QED BY ONLY <1>2, <1>7, <2>1
  <1>10. /\ DOMAIN x = Fields /\ x.targetLogicalAddress = p.targetLogicalAddress
         /\ x.instruction = m /\ x.replyAddress = path
         /\ x.initiatorLogicalAddress = p.initiatorLogicalAddress
         /\ x.transactionID = p.transactionID /\ x.dataLength = p.dataLength
         /\ x.useDraftECRC = p.useDraftECRC
    BY ONLY <1>2, <1>9 DEF Fields
  <1>11. PICK i : i = m \ {CommandReplyBit}
    OBVIOUS
  <1>12. PICK y : y = [x EXCEPT !.instruction = i]
    OBVIOUS
  <1>13. r = [y EXCEPT !.data = <<>>, !.status = status]
    <2>1. SetBit(x, CommandReplyBit, FALSE) = y
      BY ONLY <1>10, <1>11, <1>12 DEF SetBit
    <2>2. QED BY ONLY <1>3, <1>8, <2>1, r = ConstructReplyForCommand(p, status)
             DEF ConstructReplyForCommand
  <1>14. /\ DOMAIN y = Fields /\ y.targetLogicalAddress = x.targetLogicalAddress
         /\ y.instruction = i /\ y.replyAddress = x.replyAddress
         /\ y.initiatorLogicalAddress = x.initiatorLogicalAddress
         /\ y.transactionID = x.transactionID /\ y.dataLength = x.dataLength
         /\ y.useDraftECRC = x.useDraftECRC
    BY ONLY <1>10, <1>12 DEF Fields
  <1>15. PICK e : e = <<>>
    OBVIOUS
  <1>16. /\ DOMAIN r = Fields /\ r.targetLogicalAddress = y.targetLogicalAddress
         /\ r.instruction = y.instruction /\ r.replyAddress = y.replyAddress
         /\ r.initiatorLogicalAddress = y.initiatorLogicalAddress
         /\ r.transactionID = y.transactionID /\ r.dataLength = y.dataLength
         /\ r.useDraftECRC = y.useDraftECRC /\ r.data = e /\ r.status = status
    BY ONLY <1>13, <1>14, <1>15 DEF Fields
  <1>17. i \in SUBSET (0 .. 7) /\ CommandReplyBit \notin i
         /\ (WriteReadBit \in i <=> WriteReadBit \in q.instruction)
    BY ONLY <1>6, <1>7, <1>11, w \in 0 .. 3 DEF WithWords, LowBits, CommandReplyBit, WriteReadBit
  <1>18. e \in Seq(Byte)
    BY ONLY <1>15
  <1>19. r.instruction = i
    BY ONLY <1>14, <1>16
  <1>20. ~IsCommand(r) /\ (IsWrite(r) <=> IsWrite(q))
    BY ONLY <1>17, <1>19 DEF IsCommand, IsWrite
  <1>21. ReplyFits(r)
    BY ONLY <1>1, <1>2, <1>4, <1>10, <1>14, <1>15, <1>16, <1>17, <1>18, <1>20, status \in Byte
       DEF ReplyFits
  <1>22. QED BY ONLY <1>2, <1>10, <1>14, <1>15, <1>16, <1>20, <1>21 DEF AnswersCommand

\* The reply to a read with data.
LEMMA DataReplyMade ==
    ASSUME NEW q, CommandFits(q), q.replyAddress \in PathAddress, NEW draftE, NEW p,
           Taken(p, q, draftE), NEW status \in Byte, NEW data \in Seq(Byte), Len(data) \in Length,
           ~IsWrite(q), NEW r, r = SetReplyWithDataWithStatus(p, data, status)
    PROVE  /\ AnswersCommand(r, q, draftE, status)
           /\ r.data = data /\ r.dataLength = Len(data)
  <1>1. PICK x : x = ConstructReplyForCommand(p, status)
    OBVIOUS
  <1>2. AnswersCommand(x, q, draftE, status)
    BY ONLY <1>1, ReplyMade, CommandFits(q), q.replyAddress \in PathAddress, Taken(p, q, draftE),
            status \in Byte
  <1>3. r = [x EXCEPT !.data = data, !.dataLength = Len(data)]
    BY ONLY <1>1, r = SetReplyWithDataWithStatus(p, data, status)
       DEF SetReplyWithDataWithStatus, SetData
  <1>4. DOMAIN x = Fields
    BY ONLY <1>2 DEF AnswersCommand
  <1>5. /\ DOMAIN r = Fields /\ r.targetLogicalAddress = x.targetLogicalAddress
        /\ r.instruction = x.instruction /\ r.replyAddress = x.replyAddress
        /\ r.initiatorLogicalAddress = x.initiatorLogicalAddress
        /\ r.transactionID = x.transactionID /\ r.dataLength = Len(data)
        /\ r.useDraftECRC = x.useDraftECRC /\ r.data = data /\ r.status = x.status
    BY ONLY <1>3, <1>4 DEF Fields
  <1>6. (IsWrite(r) <=> IsWrite(x)) /\ (IsCommand(r) <=> IsCommand(x))
    BY ONLY <1>5 DEF IsWrite, IsCommand
  <1>7. ReplyFits(x) /\ ~IsWrite(x)
    BY ONLY <1>2, ~IsWrite(q) DEF AnswersCommand
  <1>8. ReplyFits(r)
    BY ONLY <1>5, <1>6, <1>7, data \in Seq(Byte), Len(data) \in Length DEF ReplyFits
  <1>9. QED BY ONLY <1>2, <1>5, <1>6, <1>8 DEF AnswersCommand

\* What a reply looks like to the initiator.
LEMMA ReplyLooksLike ==
    ASSUME NEW r, ReplyFits(r), NEW draftE \in BOOLEAN, NEW y, y = ReadReply(r, draftE)
    PROVE  /\ y.transactionID = r.transactionID /\ y.status = r.status /\ y.data = r.data
           /\ ~IsCommand(y) /\ DOMAIN y = Fields
  <1>1. PICK n : n = IF IsWrite(r) THEN 0 ELSE r.dataLength
    OBVIOUS
  <1>2. PICK z : z = NewPacket(draftE)
    OBVIOUS
  <1>3. DOMAIN z = Fields
    BY ONLY <1>2 DEF NewPacket, Fields
  <1>4. y = [z EXCEPT
        !.instruction = r.instruction, !.replyAddress = r.replyAddress,
        !.initiatorLogicalAddress = r.initiatorLogicalAddress,
        !.status = r.status, !.targetLogicalAddress = r.targetLogicalAddress,
        !.transactionID = r.transactionID,
        !.dataLength = n, !.data = r.data]
    BY ONLY <1>1, <1>2, y = ReadReply(r, draftE) DEF ReadReply
  <1>5. /\ DOMAIN y = Fields /\ y.transactionID = r.transactionID /\ y.status = r.status
        /\ y.data = r.data /\ y.instruction = r.instruction
    BY ONLY <1>3, <1>4 DEF Fields
  <1>6. ~IsCommand(y)
    BY ONLY <1>5, ReplyFits(r) DEF ReplyFits, IsCommand
  <1>7. QED BY ONLY <1>5, <1>6

\* Nothing else is found in the bytes of a reply.
LEMMA ReplyOnly ==
    ASSUME NEW r, ReplyFits(r), NEW e, r.transactionID = e.command.transactionID,
           r.status = e.status,
           ~IsWrite(e.command) /\ e.status = CommandExcecutedSuccessfully /\ ~ShortAnswers
               => r.data = ReadOf(e)
    PROVE  OnlyReply(ConstructPacket(r), e)
  <1>1. PICK b : b = ConstructPacket(r)
    OBVIOUS
  <1>2. ASSUME NEW draftE \in BOOLEAN, NEW c \in RepliesIn(b, draftE)
        PROVE  c.transactionID = r.transactionID /\ c.status = r.status /\ c.data = r.data
    <2>1. PICK p \in ReadBy(b, draftE) : c = [p EXCEPT !.replyAddress = <<>>]
      BY DEF RepliesIn
    <2>2. PICK beyond \in BeyondBytes : p \in Interpret(b, draftE, beyond)
      BY <2>1 DEF ReadBy
    <2>3. Interpret(b, draftE, beyond) \subseteq {ReadReply(r, draftE)}
      BY ONLY <1>1, ReplyIsRead, ReplyFits(r)
    <2>4. p = ReadReply(r, draftE)
      BY <2>2, <2>3
    <2>5. /\ p.transactionID = r.transactionID /\ p.status = r.status /\ p.data = r.data
          /\ DOMAIN p = Fields
      BY ONLY <2>4, ReplyLooksLike, ReplyFits(r), draftE \in BOOLEAN
    <2>6. QED BY ONLY <2>1, <2>5 DEF Fields
  <1>3. QED
    BY ONLY <1>1, <1>2, r.transactionID = e.command.transactionID, r.status = e.status,
            ~IsWrite(e.command) /\ e.status = CommandExcecutedSuccessfully /\ ~ShortAnswers
               => r.data = ReadOf(e)
       DEF OnlyReply

\* A reply that says how long its data are reaches an initiator with the same CRC.
LEMMA ReplyReaches ==
    ASSUME NEW r, ReplyFits(r), options.useDraftECRC \in BOOLEAN,
           r.useDraftECRC = options.useDraftECRC, IsWrite(r) \/ Len(r.data) = r.dataLength,
           NEW id, r.transactionID = id
    PROVE  Reaches(ConstructPacket(r), id)
  <1>1. PICK b, d : b = ConstructPacket(r) /\ d = options.useDraftECRC
    OBVIOUS
  <1>2. ASSUME NEW beyond
        PROVE  /\ Interpret(b, d, beyond) # {}
               /\ \A p \in Interpret(b, d, beyond) : ~IsCommand(p) /\ p.transactionID = id
    <2>1. Interpret(b, d, beyond) = {ReadReply(r, d)}
      BY ONLY <1>1, ReplyIsRead, ReplyFits(r), r.useDraftECRC = options.useDraftECRC,
              IsWrite(r) \/ Len(r.data) = r.dataLength
    <2>2. PICK y : y = ReadReply(r, d)
      OBVIOUS
    <2>3. ~IsCommand(y) /\ y.transactionID = id
      BY ONLY <1>1, <2>2, ReplyLooksLike, ReplyFits(r), options.useDraftECRC \in BOOLEAN,
              r.transactionID = id
    <2>4. QED BY ONLY <2>1, <2>2, <2>3
  <1>3. QED BY ONLY <1>1, <1>2 DEF Reaches

-----------------------------------------------------------------------------
(* Bytes on the wire, and what stays bytes when they are damaged.          *)

\* A command and a reply are bytes.
LEMMA PacketBytes ==
    /\ \A q : CommandFits(q) => ConstructPacket(q) \in Seq(Byte)
    /\ \A r : ReplyFits(r) => ConstructPacket(r) \in Seq(Byte)
  <1>1. ASSUME NEW q, CommandFits(q) PROVE ConstructPacket(q) \in Seq(Byte)
    <2>1. PICK b, h, path : b = ConstructPacket(q) /\ h = HeaderOf(q)
                            /\ path = q.targetSpaceWireAddress
      OBVIOUS
    <2>2. path \in Seq(Byte) /\ q.data \in Seq(Byte) /\ IsCommand(q)
      BY ONLY <1>1, <2>1, FieldsAreBytes DEF CommandFits, Packet
    <2>3. h \in Seq(Byte)
      BY ONLY <1>1, <2>1, CommandHeaderLayout DEF CommandHeader
    <2>4. BufferHolds(b, path, h, q)
      BY ONLY <2>1, <2>2, <2>3, BufferLayout
    <2>5. QED BY ONLY <2>1, <2>4 DEF BufferHolds
  <1>2. ASSUME NEW r, ReplyFits(r) PROVE ConstructPacket(r) \in Seq(Byte)
    <2>1. PICK b, h, path : b = ConstructPacket(r) /\ h = HeaderOf(r) /\ path = r.replyAddress
      OBVIOUS
    <2>2. path \in Seq(Byte) /\ r.data \in Seq(Byte) /\ ~IsCommand(r)
      BY ONLY <1>2, <2>1, FieldsAreBytes DEF ReplyFits
    <2>3. h \in Seq(Byte)
      BY ONLY <1>2, <2>1, ReplyHeaderLayout DEF ReplyHeader
    <2>4. BufferHolds(b, path, h, r)
      BY ONLY <2>1, <2>2, <2>3, BufferLayout
    <2>5. QED BY ONLY <2>1, <2>4 DEF BufferHolds
  <1>3. QED BY ONLY <1>1, <1>2

\* So are bytes with a bit inverted, or cut short.
LEMMA DamagedBytes ==
    ASSUME NEW b \in Seq(Byte)
    PROVE  Damaged(b) \subseteq Seq(Byte)
  <1>1. ASSUME NEW i \in DOMAIN b, NEW bits
        PROVE  [b EXCEPT ![i] = ByteOf(SymDiff(BitsOf(b[i]), bits))] \in Seq(Byte)
    <2>1. PICK c \in Byte : c = ByteOf(SymDiff(BitsOf(b[i]), bits))
      BY BitsOfByte
    <2>2. [b EXCEPT ![i] = c] \in Seq(Byte)
      BY ONLY b \in Seq(Byte), i \in DOMAIN b, c \in Byte
    <2>3. QED BY ONLY <2>1, <2>2
  <1>2. ASSUME NEW n \in 1 .. Len(b) - 1 PROVE SubSeq(b, 1, n) \in Seq(Byte)
    OBVIOUS
  <1>3. QED BY ONLY <1>1, <1>2 DEF Damaged

\* g is f and one more element.
GrowsBy(g, f, x) ==
    /\ IsSequence(g) /\ Len(f) \in Nat /\ Len(g) = Len(f) + 1
    /\ DOMAIN f = 1 .. Len(f) /\ DOMAIN g = 1 .. Len(g)
    /\ \A i \in DOMAIN f : g[i] = f[i]
    /\ g[Len(g)] = x /\ Last(g) = x /\ g # <<>>

\* As Append() makes it.
LEMMA SequenceGrows ==
    ASSUME NEW f, IsSequence(f), NEW x
    PROVE  GrowsBy(Append(f, x), f, x)
  <1>0. PICK g : g = Append(f, x)
    OBVIOUS
  <1>1. PICK A : A = ToSet(f) \cup {x}
    OBVIOUS
  <1>2. f \in Seq(A) /\ x \in A /\ g = Append(f, x)
    BY <1>0, <1>1 DEF IsSequence
  <1>3. PICK n \in Nat : n = Len(f) /\ DOMAIN f = 1 .. n
    BY <1>2
  <1>4. /\ g \in Seq(A) /\ Len(g) = n + 1 /\ DOMAIN g = 1 .. n + 1
        /\ \A i \in 1 .. n : g[i] = f[i]
        /\ g[n + 1] = x
    BY <1>2, <1>3
  <1>5. \A i \in DOMAIN g : g[i] \in ToSet(g)
    BY DEF ToSet
  <1>6. g \in Seq(ToSet(g))
    <2>0. PICK m \in Nat : m = n + 1
      OBVIOUS
    <2>1. g = [i \in 1 .. m |-> g[i]]
      BY ONLY <1>4, <2>0
    <2>2. QED BY ONLY <1>4, <1>5, <2>0, <2>1
  <1>7. g # <<>>
    BY ONLY <1>4, n \in Nat
  <1>8. QED BY ONLY <1>0, <1>3, <1>4, <1>6, <1>7 DEF IsSequence, Last, GrowsBy

\* A sequence and what is behind its first element.
WithoutHead(g, f, A) ==
    /\ g \in Seq(A) /\ Len(f) \in Nat /\ Len(f) >= 1 /\ Len(g) = Len(f) - 1
    /\ DOMAIN f = 1 .. Len(f) /\ DOMAIN g = 1 .. Len(g)
    /\ Head(f) = f[1] /\ \A i \in DOMAIN g : g[i] = f[i + 1] /\ i + 1 \in DOMAIN f

\* As Tail() makes it.
LEMMA BehindTheHead ==
    ASSUME NEW A, NEW f \in Seq(A), f # <<>>
    PROVE  WithoutHead(Tail(f), f, A)
  <1>0. PICK g : g = Tail(f)
    OBVIOUS
  <1>1. PICK n \in Nat : n = Len(f) /\ n >= 1
    <2>1. Len(f) \in Nat /\ Len(f) # 0
      OBVIOUS
    <2>2. QED BY ONLY <2>1
  <1>2. DOMAIN f = 1 .. n /\ g \in Seq(A) /\ Len(g) = n - 1 /\ DOMAIN g = 1 .. n - 1 /\ Head(f) = f[1]
    BY <1>0, <1>1
  <1>3. ASSUME NEW i \in 1 .. n - 1 PROVE g[i] = f[i + 1] /\ i + 1 \in 1 .. n
    BY ONLY <1>0, <1>1, <1>3, f \in Seq(A)
  <1>4. QED BY ONLY <1>0, <1>1, <1>2, <1>3 DEF WithoutHead

\* With another first element.
WithHead(g, f, A, x) ==
    /\ g \in Seq(A) /\ Len(g) = Len(f) /\ DOMAIN g = DOMAIN f /\ g # <<>>
    /\ g[1] = x /\ Head(g) = x /\ \A i \in DOMAIN f : i # 1 => g[i] = f[i]

\* As it is put in front of the rest.
LEMMA OtherHead ==
    ASSUME NEW A, NEW f \in Seq(A), f # <<>>, NEW x \in A
    PROVE  WithHead(<<x>> \o Tail(f), f, A, x)
  <1>0. PICK g : g = <<x>> \o Tail(f)
    OBVIOUS
  <1>1. PICK t : t = Tail(f)
    OBVIOUS
  <1>20. WithoutHead(t, f, A)
    BY ONLY <1>1, BehindTheHead, f \in Seq(A), f # <<>>
  <1>2. PICK n \in Nat : n = Len(f) /\ n >= 1
    BY ONLY <1>20 DEF WithoutHead
  <1>3. /\ t \in Seq(A) /\ Len(t) = n - 1 /\ DOMAIN f = 1 .. n /\ DOMAIN t = 1 .. n - 1
        /\ \A i \in 1 .. n - 1 : t[i] = f[i + 1]
    BY ONLY <1>2, <1>20 DEF WithoutHead
  <1>4. PICK h : h = <<x>>
    OBVIOUS
  <1>5. h \in Seq(A) /\ Len(h) = 1 /\ h[1] = x
    BY ONLY <1>4, x \in A
  <1>6. g = h \o t
    BY ONLY <1>0, <1>1, <1>4
  <1>7. /\ g \in Seq(A) /\ Len(g) = 1 + (n - 1) /\ g[1] = x
        /\ \A i \in 1 .. n - 1 : g[1 + i] = t[i]
    <2>1. /\ h \o t \in Seq(A) /\ Len(h \o t) = Len(h) + Len(t)
          /\ Holds(h \o t, 0, h) /\ Holds(h \o t, Len(h), t)
      BY ONLY <1>3, <1>5, HoldsBoth
    <2>2. /\ \A i \in 1 .. 1 : g[0 + i] = h[i]
          /\ \A i \in 1 .. n - 1 : g[1 + i] = t[i]
      BY ONLY <1>3, <1>5, <1>6, <2>1 DEF Holds
    <2>3. 1 \in 1 .. 1 /\ 0 + 1 = 1
      OBVIOUS
    <2>4. QED BY ONLY <1>3, <1>5, <1>6, <2>1, <2>2, <2>3
  <1>8. Len(g) = n
    BY ONLY <1>7, n \in Nat
  <1>9. DOMAIN g = 1 .. n /\ g # <<>> /\ Head(g) = g[1]
    BY ONLY <1>2, <1>7, <1>8, n \in Nat
  <1>10. ASSUME NEW i \in 1 .. n, i # 1 PROVE g[i] = f[i]
    <2>1. PICK j \in 1 .. n - 1 : i = 1 + j
      <3>1. i - 1 \in 1 .. n - 1 /\ i = 1 + (i - 1)
        BY ONLY <1>10, n \in Nat
      <3>2. QED BY ONLY <3>1
    <2>2. g[1 + j] = t[j] /\ t[j] = f[j + 1] /\ 1 + j = j + 1
      BY ONLY <1>3, <1>7, j \in 1 .. n - 1, n \in Nat
    <2>3. QED BY ONLY <2>1, <2>2
  <1>11. QED BY ONLY <1>0, <1>2, <1>3, <1>7, <1>8, <1>9, <1>10 DEF WithHead

-----------------------------------------------------------------------------
(* The memory of the target.                                               *)

\* Numbers modulo the size of the address space.
LEMMA Wrapped ==
    ASSUME NEW A \in Nat \ {0}, NEW x \in 0 .. A - 1
    PROVE  x % A = x /\ (x + A) % A = x /\ (x - A) % A = x
  OBVIOUS

\* Where the address of the i-th byte is looked for, the i-th byte is found.
LEMMA PlaceOfByte ==
    ASSUME NEW address \in Address, NEW k \in 0 .. AddressSpace - 1
    PROVE  /\ (address + k) % AddressSpace \in Address
           /\ (((address + k) % AddressSpace) - address) % AddressSpace = k
  <1>1. PICK A \in Nat \ {0} : A = AddressSpace
    BY AddressSpaceAssumption
  <1>2. address \in 0 .. A - 1 /\ k \in 0 .. A - 1
    BY ONLY <1>1, address \in Address, k \in 0 .. AddressSpace - 1 DEF Address
  <1>3. CASE address + k <= A - 1
    <2>1. PICK x \in 0 .. A - 1 : x = address + k
      BY ONLY <1>2, <1>3
    <2>2. x % A = x
      BY ONLY Wrapped, A \in Nat \ {0}, x \in 0 .. A - 1
    <2>3. x - address = k
      BY ONLY <1>2, <2>1
    <2>4. k % A = k
      BY ONLY <1>2, Wrapped, A \in Nat \ {0}
    <2>5. QED BY ONLY <1>1, <2>1, <2>2, <2>3, <2>4 DEF Address
  <1>4. CASE ~(address + k <= A - 1)
    <2>1. PICK x \in 0 .. A - 1 : address + k = x + A
      <3>1. address + k - A \in 0 .. A - 1 /\ address + k = (address + k - A) + A
        BY ONLY <1>2, <1>4, A \in Nat \ {0}
      <3>2. QED BY ONLY <3>1
    <2>2. (x + A) % A = x
      BY ONLY Wrapped, A \in Nat \ {0}, x \in 0 .. A - 1
    <2>3. x - address = k - A
      BY ONLY <1>2, <2>1, A \in Nat \ {0}
    <2>4. (k - A) % A = k
      BY ONLY <1>2, Wrapped, A \in Nat \ {0}
    <2>5. QED BY ONLY <1>1, <2>1, <2>2, <2>3, <2>4 DEF Address
  <1>5. QED BY ONLY <1>3, <1>4

\* The memory after a write.
Overwritten(memory, address, data) ==
    [a \in DOMAIN memory |-> LET i == ((a - address) % AddressSpace) + 1
                             IN IF i \in DOMAIN data THEN data[i] ELSE memory[a]]

\* It holds bytes, and where they were written, those that were written.
KeepsData(m, address, l, data) ==
    /\ m \in [Address -> Byte]
    /\ [i \in 1 .. l |-> m[(address + i - 1) % AddressSpace]] = data

\* When they fit into the address space.
LEMMA MemoryOverwritten ==
    ASSUME NEW memory \in [Address -> Byte], NEW address \in Address, NEW data \in Seq(Byte),
           NEW l \in Nat, l = Len(data), l <= AddressSpace, NEW m, m = Overwritten(memory, address, data)
    PROVE  KeepsData(m, address, l, data)
  <1>1. AddressSpace \in Nat
    BY AddressSpaceAssumption
  <1>2. DOMAIN memory = Address /\ DOMAIN data = 1 .. l
    OBVIOUS
  <1>3. m \in [Address -> Byte]
    <2>1. ASSUME NEW a \in Address, NEW i
          PROVE  (IF i \in DOMAIN data THEN data[i] ELSE memory[a]) \in Byte
      OBVIOUS
    <2>2. QED BY <1>2, <2>1 DEF Overwritten
  <1>4. ASSUME NEW i \in 1 .. l PROVE m[(address + i - 1) % AddressSpace] = data[i]
    <2>1. PICK k \in 0 .. AddressSpace - 1 : k = i - 1 /\ k + 1 = i /\ address + i - 1 = address + k
      <3>1. i - 1 \in 0 .. AddressSpace - 1
        BY ONLY <1>1, i \in 1 .. l, l <= AddressSpace, l \in Nat
      <3>2. (i - 1) + 1 = i /\ address + i - 1 = address + (i - 1)
        BY ONLY i \in 1 .. l, l \in Nat, address \in Address, <1>1 DEF Address
      <3>3. QED BY ONLY <3>1, <3>2
    <2>2. PICK a : a = (address + k) % AddressSpace
      OBVIOUS
    <2>3. a \in Address /\ (a - address) % AddressSpace = k
      BY ONLY <2>2, PlaceOfByte, address \in Address, k \in 0 .. AddressSpace - 1
    <2>4. m[a] = IF k + 1 \in DOMAIN data THEN data[k + 1] ELSE memory[a]
      BY ONLY <1>2, <2>3, m = Overwritten(memory, address, data) DEF Overwritten
    <2>5. QED BY ONLY <1>2, <2>1, <2>2, <2>4, i \in 1 .. l
  <1>5. data = [i \in 1 .. l |-> data[i]]
    BY ONLY <1>2, data \in Seq(Byte)
  <1>6. QED BY ONLY <1>3, <1>4, <1>5 DEF KeepsData

\* What is read are bytes, as many as asked for.
LEMMA MemoryIsBytes ==
    ASSUME targetMemory \in [Address -> Byte], NEW address \in Address, NEW n \in Nat
    PROVE  MemoryOf(address, n) \in Seq(Byte) /\ Len(MemoryOf(address, n)) = n
  <1>1. PICK A \in Nat \ {0} : A = AddressSpace
    BY AddressSpaceAssumption
  <1>2. ASSUME NEW i \in 1 .. n PROVE targetMemory[(address + i - 1) % AddressSpace] \in Byte
    <2>1. PICK x \in Int : x = address + i - 1
      BY <1>1 DEF Address
    <2>2. x % A \in 0 .. A - 1
      BY ONLY x \in Int, A \in Nat \ {0}
    <2>3. QED BY <1>1, <2>1, <2>2 DEF Address
  <1>3. PICK f : f = [i \in 1 .. n |-> targetMemory[(address + i - 1) % AddressSpace]]
    OBVIOUS
  <1>4. f \in Seq(Byte) /\ Len(f) = n
    BY ONLY <1>2, <1>3, n \in Nat
  <1>5. QED BY ONLY <1>3, <1>4 DEF MemoryOf

-----------------------------------------------------------------------------
(* What the invariant says.                                                *)

\* The call with the last transaction ID is the last one.
LEMMA LastAsked ==
    ASSUME SentInv, NEW j \in DOMAIN sent, sent[j].transactionID = Last(sent).transactionID
    PROVE  j = Len(sent) /\ sent[j] = Last(sent)
  <1>1. PICK n \in Nat : n = Len(sent) /\ DOMAIN sent = 1 .. n
    BY DEF SentInv, IsSequence
  <1>2. Last(sent) = sent[n]
    BY <1>1 DEF Last
  <1>3. j \in 1 .. n /\ n \in DOMAIN sent
    BY <1>1
  <1>4. /\ \A i, k \in DOMAIN sent : i < k => sent[i].transactionID < sent[k].transactionID
        /\ sent[j].transactionID \in Nat /\ sent[n].transactionID \in Nat
    BY <1>3 DEF SentInv, AskedFits, TransactionID
  <1>5. ~(j < n)
    BY ONLY <1>2, <1>3, <1>4, j \in DOMAIN sent, sent[j].transactionID = Last(sent).transactionID
  <1>6. j = n
    BY ONLY <1>3, <1>5, n \in Nat
  <1>7. QED BY ONLY <1>1, <1>2, <1>6

\* What was executed for the last transaction is what the last call asked for.
LEMMA ExecutedLast ==
    ASSUME SentInv, TargetInv, NEW i \in DOMAIN executed,
           executed[i].command.transactionID = Last(sent).transactionID
    PROVE  IsAsAsked(executed[i].command, Last(sent)) /\ sent # <<>>
  <1>1. PICK j \in DOMAIN sent : IsAsAsked(executed[i].command, sent[j])
    BY DEF TargetInv, ExecutesOnlyWhatWasAsked
  <1>2. sent[j].transactionID = Last(sent).transactionID
    BY <1>1 DEF IsAsAsked
  <1>3. sent # <<>>
    OBVIOUS
  <1>4. QED BY ONLY <1>1, <1>2, <1>3, LastAsked, SentInv

\* The packet object carries nothing over.
LEMMA NothingCarriedOver ==
    ASSUME SentInv, RequestInv
    PROVE  CommandsCarryNothingOver
  <1>1. SUFFICES ASSUME request # <<>>
                 PROVE  ConstructPacket(commandPacket) =
                            ConstructPacket([SetUp(NewPacket(FALSE), request[1].call, request[1].to)
                                     EXCEPT !.transactionID = request[1].transactionID])
    BY DEF CommandsCarryNothingOver
  <1>2. PICK asked : asked = Last(sent)
    OBVIOUS
  <1>3. request[1] = asked /\ commandPacket = CommandOf(asked) /\ asked.options = options
    BY <1>1, <1>2 DEF RequestInv
  <1>4. AskedFits(asked)
    <2>1. PICK n \in Nat : n = Len(sent) /\ DOMAIN sent = 1 .. n
      BY DEF SentInv, IsSequence
    <2>2. sent # <<>> /\ IsSequence(sent)
      BY <1>1 DEF RequestInv, SentInv
    <2>3. n # 0
      BY ONLY <2>1, <2>2 DEF IsSequence
    <2>4. asked = sent[n] /\ n \in DOMAIN sent
      BY ONLY <1>2, <2>1, <2>3 DEF Last
    <2>5. QED BY ONLY <2>4, SentInv DEF SentInv
  <1>5. [SetUp(NewPacket(FALSE), asked.call, asked.to) EXCEPT !.transactionID = asked.transactionID]
            = CommandOf(asked)
    BY ONLY <1>3, <1>4, NewReusable, SetUpGives
  <1>6. QED BY ONLY <1>3, <1>5

\* The target and the packets are as they should be.
LEMMA InvariantOfExchange ==
    ASSUME ExchangeIInv
    PROVE  ExchangeInv
  <1>1. SentInv /\ RequestInv /\ WireInv /\ BackInv /\ TargetInv /\ AnswerInv /\ CountsInv
    BY DEF ExchangeIInv
  <1>2. ExchangeTypeOK
    <2>1. /\ \A i \in DOMAIN wire : wire[i] \in Seq(Byte)
          /\ \A i \in DOMAIN back : back[i] \in Seq(Byte)
      BY <1>1 DEF WireInv, BackInv
    <2>2. request = <<>> \/ request[1] = Last(sent)
      BY <1>1 DEF RequestInv
    <2>3. QED BY ONLY <1>1, <2>1, <2>2 DEF ExchangeTypeOK, TargetInv, AnswerInv, CountsInv
  <1>3. ReadOnlyObjectsStayUnwritten
    BY <1>1 DEF SentInv, ReadOnlyObjectsStayUnwritten
  <1>4. QED BY ONLY <1>1, <1>2, <1>3, NothingCarriedOver DEF ExchangeInv, TargetInv

\* And so are the answers, when reads are answered in full.
LEMMA AnswersOfExchange ==
    ASSUME ExchangeIInv, ~ShortAnswers
    PROVE  AnswersTellTheTruth
  <1>1. SentInv /\ TargetInv /\ AnswerInv
    BY DEF ExchangeIInv
  <1>2. ReadGivesTheMemory
    <2>1. SUFFICES ASSUME answer.kind = "data"
                   PROVE  \E e \in ExecutionsOf(Last(sent)) :
                              answer.data = [i \in 1 .. Last(sent).to.length |->
                                  e.memory[(Last(sent).to.address + i - 1) % AddressSpace]]
      BY DEF ReadGivesTheMemory
    <2>2. PICK i \in DOMAIN executed :
               /\ executed[i].command.transactionID = Last(sent).transactionID
               /\ answer.data = ReadOf(executed[i])
      BY <1>1, <2>1, ~ShortAnswers DEF AnswerInv
    <2>3. PICK e : e = executed[i]
      OBVIOUS
    <2>4. e \in ExecutionsOf(Last(sent))
      BY <2>2, <2>3 DEF ExecutionsOf, ToSet
    <2>5. IsAsAsked(e.command, Last(sent))
      BY ONLY <1>1, <2>2, <2>3, ExecutedLast
    <2>6. NumberOfFour(e.command.address) = Last(sent).to.address
          /\ e.command.dataLength = Last(sent).to.length
      BY ONLY <2>5 DEF IsAsAsked
    <2>7. QED BY ONLY <2>2, <2>3, <2>4, <2>6 DEF ReadOf
  <1>3. WrittenMeansWritten
    <2>1. SUFFICES ASSUME answer.kind = "written"
                   PROVE  /\ ExecutionsOf(Last(sent)) # {}
                          /\ MemoryOf(Last(sent).to.address, Last(sent).to.length)
                                 = DataOf(Last(sent).call, Last(sent).to.length)
      BY DEF WrittenMeansWritten
    <2>2. PICK i \in DOMAIN executed :
               /\ executed[i].command.transactionID = Last(sent).transactionID
               /\ IsWrite(executed[i].command)
               /\ executed[i].status = CommandExcecutedSuccessfully
      BY <1>1, <2>1 DEF AnswerInv
    <2>3. executed[i] \in ExecutionsOf(Last(sent))
      BY <2>2 DEF ExecutionsOf, ToSet
    <2>4. QED BY <1>1, <2>2, <2>3 DEF TargetInv
  <1>4. QED BY ONLY <1>2, <1>3 DEF AnswersTellTheTruth

-----------------------------------------------------------------------------
(* Every step keeps the invariant.                                         *)

\* Each part of it stays true while what it is about stays as it is.
LEMMA PartsStay ==
    ASSUME ExchangeIInv
    PROVE  /\ UNCHANGED database => DatabaseInv'
           /\ UNCHANGED <<sent, calls>> => SentInv'
           /\ UNCHANGED <<commandPacket, options, request, sent, answer>> => RequestInv'
           /\ UNCHANGED <<wire, sent>> => WireInv'
           /\ UNCHANGED <<back, executed>> => BackInv'
           /\ UNCHANGED <<executed, targetMemory, sent, wire>> => TargetInv'
           /\ UNCHANGED <<answer, sent, executed>> => AnswerInv'
           /\ UNCHANGED <<damages, request, sent, wire, back, options>> => PendingInv'
           /\ UNCHANGED <<calls, damages>> => CountsInv'
           /\ UNCHANGED <<answer, damages, sent>> => TimeoutsHaveACause'
  <1>1. /\ DatabaseInv /\ SentInv /\ RequestInv /\ WireInv /\ BackInv /\ TargetInv /\ AnswerInv
        /\ PendingInv /\ CountsInv /\ TimeoutsHaveACause
    BY DEF ExchangeIInv
  <1>2. UNCHANGED database => DatabaseInv'
    BY <1>1 DEF DatabaseInv
  <1>3. UNCHANGED <<sent, calls>> => SentInv'
    BY <1>1 DEF SentInv
  <1>4. UNCHANGED <<commandPacket, options, request, sent, answer>> => RequestInv'
    BY <1>1 DEF RequestInv
  <1>5. UNCHANGED <<wire, sent>> => WireInv'
    BY <1>1 DEF WireInv
  <1>6. UNCHANGED <<back, executed>> => BackInv'
    BY <1>1 DEF BackInv
  <1>7. UNCHANGED <<executed, targetMemory, sent, wire>> => TargetInv'
    BY <1>1 DEF TargetInv, ExecutesOnlyWhatWasAsked, MemoryOf
  <1>8. UNCHANGED <<answer, sent, executed>> => AnswerInv'
    BY <1>1 DEF AnswerInv
  <1>9. UNCHANGED <<damages, request, sent, wire, back, options>> => PendingInv'
    BY <1>1 DEF PendingInv, Reaches
  <1>10. UNCHANGED <<calls, damages>> => CountsInv'
    BY <1>1 DEF CountsInv
  <1>11. UNCHANGED <<answer, damages, sent>> => TimeoutsHaveACause'
    BY <1>1 DEF TimeoutsHaveACause
  <1>12. QED BY ONLY <1>2, <1>3, <1>4, <1>5, <1>6, <1>7, <1>8, <1>9, <1>10, <1>11

\* The bounds are numbers, and the transaction IDs suffice.
LEMMA Bounds ==
    /\ MaxCalls \in Nat /\ MaxCalls <= 65536 /\ MaxDamages \in Nat /\ AddressSpace \in Nat
    /\ TargetSetup.lengths \subseteq 0 .. AddressSpace
  <1>1. SizesFit
    BY ExchangeAssumption
  <1>2. QED BY ONLY <1>1, AddressSpaceAssumption DEF SizesFit

\* It holds at the start.
LEMMA InvariantInitially ==
    ASSUME ExchangeInit
    PROVE  ExchangeIInv
  <1>1. /\ database = <<>> /\ options \in OptionChoices /\ commandPacket = NewPacket(FALSE)
        /\ request = <<>> /\ wire = <<>> /\ back = <<>>
        /\ targetMemory = [a \in Address |-> a % 256] /\ sent = <<>> /\ executed = <<>>
        /\ answer = NoAnswer /\ calls = 0 /\ damages = 0
    BY DEF ExchangeInit
  <1>2. PICK e : e = <<>>
    OBVIOUS
  <1>3. IsSequence(e) /\ DOMAIN e = {} /\ e \in Seq(Seq(Byte))
    BY ONLY <1>2 DEF IsSequence
  <1>4. DatabaseInv /\ SentInv /\ RequestInv
    BY ONLY <1>1, <1>2, <1>3, NewReusable DEF DatabaseInv, SentInv, RequestInv
  <1>5. WireInv /\ BackInv
    BY ONLY <1>1, <1>2, <1>3 DEF WireInv, BackInv
  <1>6. targetMemory \in [Address -> Byte]
    <2>1. ASSUME NEW a \in Address PROVE a % 256 \in Byte
      <3>1. a \in Int
        BY AddressSpaceAssumption DEF Address
      <3>2. QED BY ONLY <3>1 DEF Byte
    <2>2. QED BY <1>1, <2>1
  <1>7. TargetInv
    BY ONLY <1>1, <1>2, <1>3, <1>6 DEF TargetInv, ExecutesOnlyWhatWasAsked
  <1>8. answer.kind = "none"
    BY <1>1 DEF NoAnswer
  <1>9. AnswerInv /\ TimeoutsHaveACause
    BY ONLY <1>8 DEF AnswerInv, TimeoutsHaveACause, AnswerKinds
  <1>10. PendingInv
    BY ONLY <1>1 DEF PendingInv
  <1>11. CountsInv
    BY ONLY <1>1, Bounds DEF CountsInv
  <1>12. QED BY ONLY <1>4, <1>5, <1>7, <1>9, <1>10, <1>11 DEF ExchangeIInv

\* A database is registered.
LEMMA RegisterStep ==
    ASSUME ExchangeIInv, RegisterDatabase
    PROVE  ExchangeIInv'
  <1>1. PICK file \in Files : database' = <<ConstructDatabase(file)>>
    BY DEF RegisterDatabase
  <1>2. DatabaseInv'
    <2>1. PICK db : db = ConstructDatabase(file)
      OBVIOUS
    <2>2. DatabaseOK(db)
      BY ONLY <2>1, DatabaseConstructed, file \in Files
    <2>3. database' = <<db>>
      BY ONLY <1>1, <2>1
    <2>4. QED BY ONLY <2>2, <2>3 DEF DatabaseInv
  <1>3. UNCHANGED <<options, commandPacket, request, wire, back, targetMemory, sent, executed,
                    answer, calls, damages>>
    BY DEF RegisterDatabase
  <1>4. QED BY ONLY <1>2, <1>3, ExchangeIInv, PartsStay DEF ExchangeIInv

\* The options change between two calls.
LEMMA SetOptionsStep ==
    ASSUME ExchangeIInv, SetOptions
    PROVE  ExchangeIInv'
  <1>1. /\ request = <<>> /\ options' \in OptionChoices
        /\ UNCHANGED <<database, commandPacket, request, wire, back, targetMemory, sent, executed,
                       answer, calls, damages>>
    BY DEF SetOptions
  <1>2. RequestInv'
    <2>1. Reusable(commandPacket)
      BY DEF ExchangeIInv, RequestInv
    <2>2. QED BY ONLY <1>1, <2>1 DEF RequestInv
  <1>3. PendingInv'
    BY ONLY <1>1 DEF PendingInv
  <1>4. QED BY ONLY <1>1, <1>2, <1>3, ExchangeIInv, PartsStay DEF ExchangeIInv

\* What may come of looking up a name.
LEMMA ResolveKinds ==
    ASSUME NEW call
    PROVE  Resolve(call).kind \in {"resolved", "RMAPTargetNodeDBIsNotRegistered",
              "NoSuchRMAPTargetNode", "NoSuchRMAPMemoryObject",
              "SpecifiedRMAPMemoryObjectIsNotReadable", "SpecifiedRMAPMemoryObjectIsNotWritable"}
  BY DEF Resolve, ResolveObject, NoSuchNode, Throws

\* A call that fails before anything is sent.
LEMMA CallFailsStep ==
    ASSUME ExchangeIInv, request = <<>>, calls < MaxCalls, calls' = calls + 1, NEW call,
           Resolve(call).kind # "resolved", answer' = Resolve(call),
           UNCHANGED <<commandPacket, request, wire, sent>>,
           UNCHANGED <<database, options, back, targetMemory, executed, damages>>
    PROVE  ExchangeIInv'
  <1>1. answer'.kind \in AnswerKinds \ {"data", "written", "Timeout"}
    <2>1. PICK to : to = Resolve(call)
      OBVIOUS
    <2>2. to.kind \in AnswerKinds \ {"data", "written", "Timeout"}
      BY ONLY <2>1, ResolveKinds, Resolve(call).kind # "resolved" DEF AnswerKinds
    <2>3. QED BY ONLY <2>1, <2>2, answer' = Resolve(call)
  <1>2. calls \in Nat /\ CountsInv'
    <2>1. CountsInv /\ damages' = damages
      BY DEF ExchangeIInv
    <2>2. QED BY ONLY <2>1, Bounds, calls < MaxCalls, calls' = calls + 1 DEF CountsInv
  <1>3. SentInv'
    <2>1. SentInv
      BY DEF ExchangeIInv
    <2>2. ASSUME NEW j \in DOMAIN sent PROVE sent[j].transactionID < calls + 1
      <3>1. sent[j].transactionID < calls /\ sent[j].transactionID \in Nat
        BY ONLY <2>1, <2>2 DEF SentInv, AskedFits, TransactionID
      <3>2. QED BY ONLY <1>2, <3>1
    <2>3. QED BY ONLY <2>1, <2>2, calls' = calls + 1, UNCHANGED <<commandPacket, request, wire, sent>>
             DEF SentInv
  <1>4. RequestInv'
    <2>1. Reusable(commandPacket) /\ options \in OptionChoices
      BY DEF ExchangeIInv, RequestInv
    <2>2. QED
      BY ONLY <2>1, request = <<>>, UNCHANGED <<commandPacket, request, wire, sent>>,
              UNCHANGED <<database, options, back, targetMemory, executed, damages>> DEF RequestInv
  <1>5. AnswerInv' /\ TimeoutsHaveACause'
    BY ONLY <1>1 DEF AnswerInv, TimeoutsHaveACause
  <1>6. QED
    BY ONLY <1>2, <1>3, <1>4, <1>5, ExchangeIInv, PartsStay,
            UNCHANGED <<commandPacket, request, wire, sent>>,
            UNCHANGED <<database, options, back, targetMemory, executed, damages>> DEF ExchangeIInv

\* A call that sends its command.
LEMMA CallSendsStep ==
    ASSUME ExchangeIInv, request = <<>>, calls < MaxCalls, calls' = calls + 1, NEW call \in Calls,
           Resolve(call).kind = "resolved", CallSends(call, Resolve(call)),
           UNCHANGED <<database, options, back, targetMemory, executed, damages>>
    PROVE  ExchangeIInv'
  <1>1. /\ DatabaseInv /\ SentInv /\ RequestInv /\ WireInv /\ TargetInv /\ CountsInv
    BY DEF ExchangeIInv
  <1>2. /\ calls \in Nat /\ calls \in TransactionID /\ CountsInv'
    BY ONLY <1>1, Bounds, calls < MaxCalls, calls' = calls + 1,
            UNCHANGED <<database, options, back, targetMemory, executed, damages>>
       DEF CountsInv, TransactionID
  <1>3. PICK to : to = Resolve(call)
    OBVIOUS
  <1>4. PICK asked : asked = [call |-> call, to |-> to, transactionID |-> calls, options |-> options]
    OBVIOUS
  <1>5. options \in OptionChoices /\ Reusable(commandPacket)
    BY <1>1 DEF RequestInv
  <1>6. /\ AskedFits(asked)
        /\ call.kind = "write" /\ IsByObject(call) => FileAllowsWriting(call.node, call.object)
    BY ONLY <1>1, <1>2, <1>3, <1>4, <1>5, CallResolved, Resolve(call).kind = "resolved",
            call \in Calls
  <1>7. asked.call = call /\ asked.to = to /\ asked.transactionID = calls /\ asked.options = options
    BY ONLY <1>4
  <1>8. PICK q : q = CommandOf(asked)
    OBVIOUS
  <1>9. q = [SetUp(commandPacket, call, to) EXCEPT !.transactionID = calls]
    BY ONLY <1>5, <1>6, <1>7, <1>8, SetUpGives
  <1>10. /\ commandPacket' = q /\ sent' = Append(sent, asked)
         /\ wire' = Append(wire, ConstructPacket(q))
         /\ \/ request' = <<asked>> /\ answer' = NoAnswer
            \/ request' = <<>> /\ answer' = [kind |-> "sent"]
    BY ONLY <1>3, <1>4, <1>9, CallSends(call, Resolve(call)) DEF CallSends
  <1>11. IsSequence(sent)
    BY ONLY <1>1 DEF SentInv
  <1>12. PICK n \in Nat : /\ n = Len(sent) /\ Len(sent') = n + 1 /\ IsSequence(sent')
                          /\ DOMAIN sent = 1 .. n /\ DOMAIN sent' = 1 .. n + 1
                          /\ \A j \in 1 .. n : sent'[j] = sent[j]
                          /\ sent'[n + 1] = asked /\ Last(sent') = asked /\ sent' # <<>>
    <2>1. GrowsBy(sent', sent, asked)
      BY ONLY <1>10, <1>11, SequenceGrows
    <2>2. QED BY ONLY <2>1 DEF GrowsBy
  <1>13. \A j \in 1 .. n : sent[j].transactionID \in Nat /\ sent[j].transactionID < calls
    BY ONLY <1>1, <1>12 DEF SentInv, AskedFits, TransactionID
  <1>14. SentInv'
    <2>1. ASSUME NEW j \in 1 .. n + 1
          PROVE  /\ AskedFits(sent'[j]) /\ sent'[j].transactionID < calls + 1
                 /\ sent'[j].call.kind = "write" /\ IsByObject(sent'[j].call)
                        => FileAllowsWriting(sent'[j].call.node, sent'[j].call.object)
      <3>1. CASE j = n + 1
        BY ONLY <1>2, <1>6, <1>7, <1>12, <3>1
      <3>2. CASE j # n + 1
        <4>1. j \in 1 .. n
          BY ONLY <3>2, j \in 1 .. n + 1, n \in Nat
        <4>2. sent'[j] = sent[j] /\ j \in DOMAIN sent
          BY ONLY <1>12, <4>1
        <4>3. sent[j].transactionID < calls + 1
          BY ONLY <1>2, <1>13, <4>1
        <4>4. QED BY ONLY <1>1, <4>2, <4>3 DEF SentInv
      <3>3. QED BY ONLY <3>1, <3>2
    <2>2. ASSUME NEW i \in 1 .. n + 1, NEW j \in 1 .. n + 1, i < j
          PROVE  sent'[i].transactionID < sent'[j].transactionID
      <3>1. i \in 1 .. n
        BY ONLY <2>2, n \in Nat
      <3>2. sent'[i] = sent[i]
        BY ONLY <1>12, <3>1
      <3>3. CASE j = n + 1
        BY ONLY <1>7, <1>12, <1>13, <3>1, <3>2, <3>3
      <3>4. CASE j # n + 1
        <4>1. j \in 1 .. n
          BY ONLY <3>4, j \in 1 .. n + 1, n \in Nat
        <4>2. sent'[j] = sent[j] /\ j \in DOMAIN sent /\ i \in DOMAIN sent
          BY ONLY <1>12, <3>1, <4>1
        <4>3. QED BY ONLY <1>1, <2>2, <3>2, <4>2 DEF SentInv
      <3>5. QED BY ONLY <3>3, <3>4
    <2>3. QED BY ONLY <1>12, <2>1, <2>2, calls' = calls + 1 DEF SentInv
  <1>15. RequestInv'
    <2>1. Reusable(q)
      BY ONLY <1>6, <1>8, CommandReusable
    <2>2. options' = options
      BY ONLY UNCHANGED <<database, options, back, targetMemory, executed, damages>>
    <2>3. CASE request' = <<>>
      BY ONLY <1>5, <1>10, <2>1, <2>2, <2>3 DEF RequestInv
    <2>4. CASE request' = <<asked>> /\ answer' = NoAnswer
      BY ONLY <1>5, <1>7, <1>8, <1>10, <1>12, <2>1, <2>2, <2>4 DEF RequestInv
    <2>5. QED BY ONLY <1>10, <2>3, <2>4
  <1>16. CommandFits(q)
    BY ONLY <1>6, <1>8, CommandOfFits
  <1>17. PICK b \in Seq(Byte) : b = ConstructPacket(q)
    BY ONLY <1>16, PacketBytes
  <1>18. wire \in Seq(Seq(Byte)) /\ wire' = Append(wire, b)
    BY ONLY <1>1, <1>10, <1>17 DEF WireInv
  <1>19. PICK l \in Nat : /\ l = Len(wire) /\ Len(wire') = l + 1 /\ wire' \in Seq(Seq(Byte))
                          /\ DOMAIN wire = 1 .. l /\ DOMAIN wire' = 1 .. l + 1
                          /\ \A k \in 1 .. l : wire'[k] = wire[k]
                          /\ wire'[l + 1] = b /\ wire' # <<>>
    BY ONLY <1>18, b \in Seq(Byte)
  <1>20. WireInv'
    <2>1. ASSUME NEW k \in 1 .. l + 1
          PROVE  \E j \in 1 .. n + 1 :
                    (k < l + 1 => j < n + 1) /\ OnlyCommand(wire'[k], CommandOf(sent'[j]))
      <3>1. CASE k = l + 1
        <4>1. OnlyCommand(b, q)
          BY ONLY <1>16, <1>17, CommandOnly
        <4>2. n + 1 \in 1 .. n + 1 /\ ~(k < l + 1)
          BY ONLY <3>1, n \in Nat, l \in Nat
        <4>3. QED BY ONLY <1>8, <1>12, <1>19, <3>1, <4>1, <4>2
      <3>2. CASE k # l + 1
        <4>1. k \in 1 .. l
          BY ONLY <3>2, k \in 1 .. l + 1, l \in Nat
        <4>2. PICK j \in 1 .. n : OnlyCommand(wire[k], CommandOf(sent[j]))
          BY ONLY <1>1, <1>12, <1>19, <4>1 DEF WireInv
        <4>3. j \in 1 .. n + 1 /\ j < n + 1
          BY ONLY j \in 1 .. n, n \in Nat
        <4>4. wire'[k] = wire[k] /\ sent'[j] = sent[j]
          BY ONLY <1>12, <1>19, <4>1, j \in 1 .. n
        <4>5. QED BY ONLY <4>2, <4>3, <4>4
      <3>3. QED BY ONLY <3>1, <3>2
    <2>2. wire' \in Seq(Seq(Byte)) /\ DOMAIN wire' = 1 .. l + 1 /\ Len(wire') = l + 1
          /\ DOMAIN sent' = 1 .. n + 1 /\ Len(sent') = n + 1
      BY ONLY <1>12, <1>19
    <2>3. \A k \in DOMAIN wire' : \E j \in DOMAIN sent' :
             (k < Len(wire') => j < Len(sent')) /\ OnlyCommand(wire'[k], CommandOf(sent'[j]))
      BY ONLY <2>1, <2>2
    <2>4. QED BY ONLY <2>2, <2>3 DEF WireInv
  <1>21. TargetInv'
    <2>1. /\ IsSequence(executed') /\ targetMemory' \in [Address -> Byte]
          /\ executed' = executed
      BY ONLY <1>1, UNCHANGED <<database, options, back, targetMemory, executed, damages>> DEF TargetInv
    <2>2. ASSUME NEW i \in DOMAIN executed
          PROVE  /\ \E j \in DOMAIN sent' : IsAsAsked(executed[i].command, sent'[j])
                 /\ executed[i].command.transactionID # calls
      <3>1. PICK j \in DOMAIN sent : IsAsAsked(executed[i].command, sent[j])
        BY ONLY <1>1, <2>2 DEF TargetInv, ExecutesOnlyWhatWasAsked
      <3>2. j \in 1 .. n /\ j \in 1 .. n + 1
        BY ONLY <1>12, j \in DOMAIN sent, n \in Nat
      <3>3. sent'[j] = sent[j] /\ j \in DOMAIN sent'
        BY ONLY <1>12, <3>2
      <3>4. executed[i].command.transactionID = sent[j].transactionID
        BY ONLY <3>1 DEF IsAsAsked
      <3>5. executed[i].command.transactionID # calls
        BY ONLY <1>2, <1>13, <3>2, <3>4
      <3>6. QED BY ONLY <3>1, <3>3, <3>5
    <2>3. QED BY ONLY <1>7, <1>12, <2>1, <2>2 DEF TargetInv, ExecutesOnlyWhatWasAsked
  <1>22. answer'.kind \in {"none", "sent"}
    BY ONLY <1>10 DEF NoAnswer
  <1>23. AnswerInv' /\ TimeoutsHaveACause'
    BY ONLY <1>22 DEF AnswerInv, TimeoutsHaveACause, AnswerKinds
  <1>24. PendingInv'
    <2>1. Last(wire') = b
      BY ONLY <1>19 DEF Last
    <2>2. Last(wire') = ConstructPacket(CommandOf(Last(sent')))
      BY ONLY <1>8, <1>12, <1>17, <2>1
    <2>3. QED BY ONLY <1>19, <2>2 DEF PendingInv
  <1>25. QED
    BY ONLY <1>2, <1>14, <1>15, <1>20, <1>21, <1>23, <1>24, ExchangeIInv, PartsStay,
            UNCHANGED <<database, options, back, targetMemory, executed, damages>> DEF ExchangeIInv

\* A call.
LEMMA CallStep ==
    ASSUME ExchangeIInv, Call
    PROVE  ExchangeIInv'
  <1>1. /\ request = <<>> /\ calls < MaxCalls /\ calls' = calls + 1
        /\ UNCHANGED <<database, options, back, targetMemory, executed, damages>>
    BY DEF Call
  <1>2. PICK call \in Calls :
           IF Resolve(call).kind = "resolved" THEN CallSends(call, Resolve(call))
           ELSE answer' = Resolve(call) /\ UNCHANGED <<commandPacket, request, wire, sent>>
    BY DEF Call
  <1>3. CASE Resolve(call).kind = "resolved"
    BY ONLY <1>1, <1>2, <1>3, CallSendsStep, ExchangeIInv, call \in Calls
  <1>4. CASE Resolve(call).kind # "resolved"
    BY ONLY <1>1, <1>2, <1>4, CallFailsStep, ExchangeIInv
  <1>5. QED BY ONLY <1>3, <1>4

\* On the wire is still what was sent when a packet is gone.
LEMMA WireShorter ==
    ASSUME WireInv, wire # <<>>, wire' = Tail(wire), sent' = sent
    PROVE  WireInv'
  <1>1. WithoutHead(wire', wire, Seq(Byte))
    BY ONLY WireInv, wire # <<>>, wire' = Tail(wire), BehindTheHead DEF WireInv
  <1>2. PICK l \in Nat : /\ l = Len(wire) /\ wire' \in Seq(Seq(Byte)) /\ Len(wire') = l - 1
                         /\ DOMAIN wire = 1 .. l /\ DOMAIN wire' = 1 .. l - 1 /\ l >= 1
                         /\ \A k \in 1 .. l - 1 : wire'[k] = wire[k + 1]
    BY ONLY <1>1 DEF WithoutHead
  <1>3. ASSUME NEW k \in 1 .. l - 1
        PROVE  \E j \in DOMAIN sent : /\ k < l - 1 => j < Len(sent)
                                      /\ OnlyCommand(wire'[k], CommandOf(sent[j]))
    <2>1. k + 1 \in 1 .. l /\ (k < l - 1 => k + 1 < l)
      BY ONLY k \in 1 .. l - 1, l \in Nat
    <2>2. PICK i \in 1 .. l : i = k + 1
      BY ONLY <2>1
    <2>3. PICK j \in DOMAIN sent : (i < l => j < Len(sent)) /\ OnlyCommand(wire[i], CommandOf(sent[j]))
      BY ONLY <1>2, WireInv, i \in 1 .. l DEF WireInv
    <2>4. QED BY ONLY <1>2, <2>1, <2>2, <2>3, k \in 1 .. l - 1
  <1>4. QED BY ONLY <1>2, <1>3, sent' = sent DEF WireInv

\* A command is damaged or lost.
LEMMA DamageCommandStep ==
    ASSUME ExchangeIInv, DamageCommand, DamageNoticed
    PROVE  ExchangeIInv'
  <1>1. SentInv /\ WireInv /\ TargetInv /\ CountsInv /\ TimeoutsHaveACause
    BY DEF ExchangeIInv
  <1>2. /\ wire # <<>> /\ damages < MaxDamages /\ damages' = damages + 1
        /\ UNCHANGED <<database, options, commandPacket, request, back, targetMemory, sent, executed,
                       answer, calls>>
    BY DEF DamageCommand
  <1>3. WireInv'
    <2>1. CASE wire' = Tail(wire)
      BY ONLY <1>1, <1>2, <2>1, WireShorter
    <2>2. CASE \E bytes \in Damaged(Head(wire)) : wire' = <<bytes>> \o Tail(wire)
      <3>1. PICK bytes \in Damaged(Head(wire)) : wire' = <<bytes>> \o Tail(wire)
        BY ONLY <2>2
      <3>2. wire \in Seq(Seq(Byte))
        BY ONLY <1>1 DEF WireInv
      <3>3. WithoutHead(Tail(wire), wire, Seq(Byte))
        BY ONLY <1>2, <3>2, BehindTheHead
      <3>4. PICK l \in Nat : l = Len(wire) /\ DOMAIN wire = 1 .. l /\ Head(wire) = wire[1] /\ l >= 1
        BY ONLY <3>3 DEF WithoutHead
      <3>5. Head(wire) \in Seq(Byte)
        BY ONLY <3>2, <3>4
      <3>6. bytes \in Seq(Byte)
        BY ONLY <3>1, <3>5, DamagedBytes
      <3>7. WithHead(wire', wire, Seq(Byte), bytes)
        BY ONLY <1>2, <3>1, <3>2, <3>6, OtherHead
      <3>8. /\ wire' \in Seq(Seq(Byte)) /\ Len(wire') = l /\ DOMAIN wire' = 1 .. l
            /\ wire'[1] = bytes /\ Head(wire') = bytes
            /\ \A k \in 1 .. l : k # 1 => wire'[k] = wire[k]
        BY ONLY <3>4, <3>7 DEF WithHead
      <3>9. ASSUME NEW draftE \in BOOLEAN
            PROVE  CommandsIn(bytes, draftE) \subseteq CommandsIn(wire[1], draftE)
        <4>0. damages' # damages
          BY ONLY <1>1, <1>2, Bounds DEF CountsInv
        <4>1. CASE wire' = wire
          BY ONLY <3>4, <3>8, <4>1
        <4>2. CASE wire' # wire
          <5>1. \A p \in CommandsIn(Head(wire'), draftE) : p \in CommandsIn(Head(wire), draftE)
            BY ONLY <3>4, <3>8, <4>0, <4>2, DamageNoticed, draftE \in BOOLEAN DEF DamageNoticed
          <5>2. QED BY ONLY <3>4, <3>8, <5>1
        <4>3. QED BY ONLY <4>1, <4>2
      <3>10. ASSUME NEW k \in 1 .. l
             PROVE  \E j \in DOMAIN sent : /\ k < l => j < Len(sent)
                                           /\ OnlyCommand(wire'[k], CommandOf(sent[j]))
        <4>1. PICK j \in DOMAIN sent : (k < l => j < Len(sent)) /\ OnlyCommand(wire[k], CommandOf(sent[j]))
          BY ONLY <1>1, <3>4, <3>10 DEF WireInv
        <4>2. CASE k # 1
          BY ONLY <3>8, <3>10, <4>1, <4>2
        <4>3. CASE k = 1
          <5>1. OnlyCommand(bytes, CommandOf(sent[j]))
            BY ONLY <3>9, <4>1, <4>3 DEF OnlyCommand
          <5>2. QED BY ONLY <3>8, <4>1, <4>3, <5>1
        <4>4. QED BY ONLY <4>2, <4>3
      <3>11. QED BY ONLY <1>2, <3>8, <3>10 DEF WireInv
    <2>3. QED BY ONLY <2>1, <2>2, DamageCommand DEF DamageCommand
  <1>4. TargetInv'
    <2>1. /\ IsSequence(executed') /\ targetMemory' \in [Address -> Byte]
          /\ ExecutesOnlyWhatWasAsked'
      BY ONLY <1>1, <1>2 DEF TargetInv, ExecutesOnlyWhatWasAsked
    <2>2. \A i \in DOMAIN executed :
              executed[i].command.transactionID # Last(sent).transactionID
      BY ONLY <1>1, <1>2 DEF TargetInv
    <2>3. QED BY ONLY <1>2, <2>1, <2>2 DEF TargetInv
  <1>5. damages' > 0 /\ CountsInv'
    BY ONLY <1>1, <1>2, Bounds DEF CountsInv
  <1>6. PendingInv' /\ TimeoutsHaveACause'
    <2>1. damages' # 0
      BY ONLY <1>1, <1>2, Bounds DEF CountsInv
    <2>2. QED BY ONLY <1>5, <2>1 DEF PendingInv, TimeoutsHaveACause
  <1>7. QED BY ONLY <1>2, <1>3, <1>4, <1>5, <1>6, ExchangeIInv, PartsStay DEF ExchangeIInv

\* On the way back is still what was answered when a packet is gone.
LEMMA BackShorter ==
    ASSUME BackInv, back # <<>>, back' = Tail(back), executed' = executed
    PROVE  BackInv'
  <1>1. WithoutHead(back', back, Seq(Byte))
    BY ONLY BackInv, back # <<>>, back' = Tail(back), BehindTheHead DEF BackInv
  <1>2. PICK l \in Nat : /\ l = Len(back) /\ back' \in Seq(Seq(Byte))
                         /\ DOMAIN back = 1 .. l /\ DOMAIN back' = 1 .. l - 1
                         /\ \A k \in 1 .. l - 1 : back'[k] = back[k + 1]
    BY ONLY <1>1 DEF WithoutHead
  <1>3. ASSUME NEW k \in 1 .. l - 1
        PROVE  \E i \in DOMAIN executed : OnlyReply(back'[k], executed[i])
    <2>1. PICK h \in 1 .. l : h = k + 1
      <3>1. k + 1 \in 1 .. l
        BY ONLY k \in 1 .. l - 1, l \in Nat
      <3>2. QED BY ONLY <3>1
    <2>2. PICK i \in DOMAIN executed : OnlyReply(back[h], executed[i])
      BY ONLY <1>2, BackInv, h \in 1 .. l DEF BackInv
    <2>3. QED BY ONLY <1>2, <2>1, <2>2, k \in 1 .. l - 1
  <1>4. QED BY ONLY <1>2, <1>3, executed' = executed DEF BackInv

\* A reply is damaged or lost.
LEMMA DamageReplyStep ==
    ASSUME ExchangeIInv, DamageReply, DamageNoticed
    PROVE  ExchangeIInv'
  <1>1. BackInv /\ CountsInv /\ TimeoutsHaveACause
    BY DEF ExchangeIInv
  <1>2. /\ back # <<>> /\ damages < MaxDamages /\ damages' = damages + 1
        /\ UNCHANGED <<database, options, commandPacket, request, wire, targetMemory, sent, executed,
                       answer, calls>>
    BY DEF DamageReply
  <1>3. BackInv'
    <2>1. CASE back' = Tail(back)
      BY ONLY <1>1, <1>2, <2>1, BackShorter
    <2>2. CASE \E bytes \in Damaged(Head(back)) : back' = <<bytes>> \o Tail(back)
      <3>1. PICK bytes \in Damaged(Head(back)) : back' = <<bytes>> \o Tail(back)
        BY ONLY <2>2
      <3>2. back \in Seq(Seq(Byte))
        BY ONLY <1>1 DEF BackInv
      <3>3. WithoutHead(Tail(back), back, Seq(Byte))
        BY ONLY <1>2, <3>2, BehindTheHead
      <3>4. PICK l \in Nat : l = Len(back) /\ DOMAIN back = 1 .. l /\ Head(back) = back[1] /\ l >= 1
        BY ONLY <3>3 DEF WithoutHead
      <3>5. Head(back) \in Seq(Byte)
        BY ONLY <3>2, <3>4
      <3>6. bytes \in Seq(Byte)
        BY ONLY <3>1, <3>5, DamagedBytes
      <3>7. WithHead(back', back, Seq(Byte), bytes)
        BY ONLY <1>2, <3>1, <3>2, <3>6, OtherHead
      <3>8. /\ back' \in Seq(Seq(Byte)) /\ Len(back') = l /\ DOMAIN back' = 1 .. l
            /\ back'[1] = bytes /\ Head(back') = bytes
            /\ \A k \in 1 .. l : k # 1 => back'[k] = back[k]
        BY ONLY <3>4, <3>7 DEF WithHead
      <3>9. ASSUME NEW draftE \in BOOLEAN
            PROVE  RepliesIn(bytes, draftE) \subseteq RepliesIn(back[1], draftE)
        <4>0. damages' # damages
          BY ONLY <1>1, <1>2, Bounds DEF CountsInv
        <4>1. CASE back' = back
          BY ONLY <3>4, <3>8, <4>1
        <4>2. CASE back' # back
          <5>1. \A p \in RepliesIn(Head(back'), draftE) : p \in RepliesIn(Head(back), draftE)
            BY ONLY <3>4, <3>8, <4>0, <4>2, DamageNoticed, draftE \in BOOLEAN DEF DamageNoticed
          <5>2. QED BY ONLY <3>4, <3>8, <5>1
        <4>3. QED BY ONLY <4>1, <4>2
      <3>10. ASSUME NEW k \in 1 .. l
             PROVE  \E i \in DOMAIN executed : OnlyReply(back'[k], executed[i])
        <4>1. PICK i \in DOMAIN executed : OnlyReply(back[k], executed[i])
          BY ONLY <1>1, <3>4, <3>10 DEF BackInv
        <4>2. CASE k # 1
          BY ONLY <3>8, <3>10, <4>1, <4>2
        <4>3. CASE k = 1
          <5>1. OnlyReply(bytes, executed[i])
            BY ONLY <3>9, <4>1, <4>3 DEF OnlyReply
          <5>2. QED BY ONLY <3>8, <4>3, <5>1
        <4>4. QED BY ONLY <4>2, <4>3
      <3>11. QED BY ONLY <1>2, <3>8, <3>10 DEF BackInv
    <2>3. QED BY ONLY <2>1, <2>2, DamageReply DEF DamageReply
  <1>4. damages' > 0 /\ CountsInv' /\ damages' # 0
    BY ONLY <1>1, <1>2, Bounds DEF CountsInv
  <1>5. PendingInv' /\ TimeoutsHaveACause'
    BY ONLY <1>4 DEF PendingInv, TimeoutsHaveACause
  <1>6. QED BY ONLY <1>2, <1>3, <1>4, <1>5, ExchangeIInv, PartsStay DEF ExchangeIInv

\* What the action of a target makes of the command of a call.
ProcessedRight(done, p, asked, draftE) ==
    /\ done.memory \in [Address -> Byte]
    /\ AnswersCommand(done.reply, CommandOf(asked), draftE, done.reply.status)
    /\ IsWrite(p) /\ done.reply.status = CommandExcecutedSuccessfully =>
           [i \in 1 .. asked.to.length |-> done.memory[(asked.to.address + i - 1) % AddressSpace]]
               = DataOf(asked.call, asked.to.length)
    /\ ~IsWrite(p) /\ done.reply.status = CommandExcecutedSuccessfully /\ ~ShortAnswers =>
           done.reply.data = MemoryOf(NumberOfFour(p.address), p.dataLength)
    /\ ~RefusedRead(asked) => IsWrite(done.reply) \/ Len(done.reply.data) = done.reply.dataLength

\* It is executed as it was asked for, or refused.
LEMMA Processed ==
    ASSUME targetMemory \in [Address -> Byte], NEW asked, AskedFits(asked), NEW draftE, NEW p,
           Taken(p, CommandOf(asked), draftE), NEW done \in ProcessTransaction(p)
    PROVE  ProcessedRight(done, p, asked, draftE)
  <1>1. PICK q : q = CommandOf(asked)
    OBVIOUS
  <1>2. CommandFits(q) /\ q.replyAddress \in PathAddress /\ Taken(p, q, draftE)
    BY ONLY <1>1, CommandOfFits, AskedFits(asked), Taken(p, CommandOf(asked), draftE)
  <1>3. IsAsAsked(p, asked)
    BY ONLY TakenIsAsAsked, AskedFits(asked), Taken(p, CommandOf(asked), draftE)
  <1>4. /\ NumberOfFour(p.address) = asked.to.address /\ p.dataLength = asked.to.length
        /\ p.key = asked.to.node.defaultKey
        /\ p.targetLogicalAddress = asked.to.node.targetLogicalAddress
        /\ IsWrite(p) <=> asked.call.kind = "write"
        /\ p.data = IF IsWrite(p) THEN DataOf(asked.call, asked.to.length) ELSE <<>>
    BY ONLY <1>3 DEF IsAsAsked
  <1>5. asked.to.address \in Address /\ asked.to.length \in Length /\ asked.to.length \in Nat
        /\ asked.call.kind \in {"read", "write"}
    BY DEF AskedFits, Length
  <1>6. (IsWrite(q) <=> IsWrite(p)) /\ p.data = q.data /\ q.dataLength = asked.to.length
    BY ONLY <1>2, <1>4 DEF Taken, IsWrite
  <1>7. PICK statuses : statuses = {InvalidTargetLogicalAddress, InvalidDestinationKey,
                                    CommandNotImplementedOrNotAuthorized}
    OBVIOUS
  <1>8. /\ \A status \in statuses : status \in Byte /\ status # CommandExcecutedSuccessfully
        /\ CommandExcecutedSuccessfully \in Byte
    BY ONLY <1>7 DEF InvalidTargetLogicalAddress, InvalidDestinationKey,
       CommandNotImplementedOrNotAuthorized, CommandExcecutedSuccessfully, Byte
  <1>9. ASSUME NEW status \in statuses,
               done = [memory |-> targetMemory, reply |-> SetReplyWithStatus(p, status)],
               RefusedRead(asked) \/ IsWrite(p) \/ asked.to.length = 0
        PROVE  ProcessedRight(done, p, asked, draftE)
    <2>1. PICK r : r = ConstructReplyForCommand(p, status)
      OBVIOUS
    <2>2. done.memory = targetMemory /\ done.reply = r
      BY ONLY <1>9, <2>1 DEF SetReplyWithStatus
    <2>3. status \in Byte /\ status # CommandExcecutedSuccessfully
      BY ONLY <1>8, status \in statuses
    <2>4. AnswersCommand(r, q, draftE, status) /\ r.data = <<>> /\ r.dataLength = q.dataLength
      BY ONLY <1>2, <2>1, <2>3, ReplyMade
    <2>5. r.status = status /\ (IsWrite(r) <=> IsWrite(p))
      BY ONLY <1>6, <2>4 DEF AnswersCommand
    <2>6. ~RefusedRead(asked) => IsWrite(r) \/ Len(r.data) = r.dataLength
      <3>1. asked.to.length = 0 => Len(r.data) = r.dataLength
        BY ONLY <1>6, <2>4
      <3>2. QED BY ONLY <1>9, <2>5, <3>1
    <2>7. QED
      BY ONLY <1>1, <2>2, <2>3, <2>4, <2>5, <2>6, targetMemory \in [Address -> Byte] DEF ProcessedRight
  <1>10. CASE \/ p.targetLogicalAddress # TargetSetup.logicalAddress
              \/ p.key # TargetSetup.key \/ p.dataLength \notin TargetSetup.lengths
    <2>1. PICK status \in statuses :
             done = [memory |-> targetMemory, reply |-> SetReplyWithStatus(p, status)]
      BY ONLY <1>7, <1>10, done \in ProcessTransaction(p) DEF ProcessTransaction
    <2>2. RefusedRead(asked) \/ IsWrite(p) \/ asked.to.length = 0
      <3>1. asked.to.length > 0 \/ asked.to.length = 0
        BY ONLY <1>5
      <3>2. QED BY ONLY <1>4, <1>5, <1>10, <3>1 DEF RefusedRead
    <2>3. QED BY ONLY <1>9, <2>1, <2>2
  <1>11. ASSUME p.targetLogicalAddress = TargetSetup.logicalAddress,
                p.key = TargetSetup.key, p.dataLength \in TargetSetup.lengths, IsWrite(p)
         PROVE  ProcessedRight(done, p, asked, draftE)
    <2>1. PICK m : m = Overwritten(targetMemory, asked.to.address, p.data)
      OBVIOUS
    <2>2. PICK r : r = ConstructReplyForCommand(p, CommandExcecutedSuccessfully)
      OBVIOUS
    <2>3. done = [memory |-> m, reply |-> r]
      BY ONLY <1>4, <1>11, <2>1, <2>2, done \in ProcessTransaction(p)
         DEF ProcessTransaction, Overwritten, MemoryAddress, SetReplyWithStatus
    <2>4. done.memory = m /\ done.reply = r
      BY ONLY <2>3
    <2>5. AnswersCommand(r, q, draftE, CommandExcecutedSuccessfully)
      BY ONLY <1>2, <1>8, <2>2, ReplyMade
    <2>6. r.status = CommandExcecutedSuccessfully /\ IsWrite(r)
      BY ONLY <1>6, <1>11, <2>5 DEF AnswersCommand
    <2>7. PICK l \in Nat : l = asked.to.length
      BY ONLY <1>5
    <2>8. p.data \in Seq(Byte) /\ Len(p.data) = l
      BY ONLY <1>2, <1>6, <1>11, <2>7 DEF CommandFits, Packet
    <2>9. l <= AddressSpace
      <3>2. l \in 0 .. AddressSpace
        BY ONLY <1>4, <1>11, <2>7, Bounds
      <3>3. QED BY ONLY <3>2, Bounds
    <2>10. /\ m \in [Address -> Byte]
           /\ [i \in 1 .. l |-> m[(asked.to.address + i - 1) % AddressSpace]] = p.data
      <3>1. KeepsData(m, asked.to.address, l, p.data)
        BY ONLY <1>5, <2>1, <2>8, <2>9, MemoryOverwritten, targetMemory \in [Address -> Byte], l \in Nat
      <3>2. QED BY ONLY <3>1 DEF KeepsData
    <2>11. p.data = DataOf(asked.call, asked.to.length)
      BY ONLY <1>4, <1>11
    <2>12. QED
      BY ONLY <1>1, <1>11, <2>4, <2>5, <2>6, <2>7, <2>10, <2>11 DEF ProcessedRight
  <1>12. ASSUME p.targetLogicalAddress = TargetSetup.logicalAddress,
                p.key = TargetSetup.key, p.dataLength \in TargetSetup.lengths, ~IsWrite(p)
         PROVE  ProcessedRight(done, p, asked, draftE)
    <2>1. PICK n \in IF ShortAnswers THEN 0 .. p.dataLength ELSE {p.dataLength} :
             done = [memory |-> targetMemory,
                     reply |-> SetReplyWithDataWithStatus(p, MemoryOf(NumberOfFour(p.address), n),
                                                          CommandExcecutedSuccessfully)]
      BY ONLY <1>12, done \in ProcessTransaction(p) DEF ProcessTransaction
    <2>2. n \in Nat /\ n <= asked.to.length /\ (~ShortAnswers => n = p.dataLength)
      BY ONLY <1>4, <1>5, <2>1
    <2>3. n \in Length
      BY ONLY <1>5, <2>2 DEF Length
    <2>4. PICK data : data = MemoryOf(NumberOfFour(p.address), n)
      OBVIOUS
    <2>5. data \in Seq(Byte) /\ Len(data) = n
      BY ONLY <1>4, <1>5, <2>2, <2>4, MemoryIsBytes, targetMemory \in [Address -> Byte]
    <2>6. PICK r : r = SetReplyWithDataWithStatus(p, data, CommandExcecutedSuccessfully)
      OBVIOUS
    <2>7. done = [memory |-> targetMemory, reply |-> r]
      BY ONLY <2>1, <2>4, <2>6
    <2>8. done.memory = targetMemory /\ done.reply = r
      BY ONLY <2>7
    <2>9. /\ AnswersCommand(r, q, draftE, CommandExcecutedSuccessfully)
          /\ r.data = data /\ r.dataLength = Len(data)
      BY ONLY <1>2, <1>6, <1>8, <1>12, <2>3, <2>5, <2>6, DataReplyMade
    <2>10. r.status = CommandExcecutedSuccessfully
      BY ONLY <2>9 DEF AnswersCommand
    <2>11. ~ShortAnswers => r.data = MemoryOf(NumberOfFour(p.address), p.dataLength)
      BY ONLY <2>2, <2>4, <2>9
    <2>12. QED
      BY ONLY <1>1, <1>12, <2>8, <2>9, <2>10, <2>11, targetMemory \in [Address -> Byte]
         DEF ProcessedRight
  <1>13. QED BY ONLY <1>10, <1>11, <1>12

\* The last of what is left when the first is taken away.
LEMMA LastBehind ==
    ASSUME NEW A, NEW f \in Seq(A), f # <<>>
    PROVE  IF Tail(f) = <<>> THEN Head(f) = Last(f) ELSE Last(Tail(f)) = Last(f)
  <1>1. PICK g : g = Tail(f)
    OBVIOUS
  <1>2. WithoutHead(g, f, A)
    BY ONLY <1>1, BehindTheHead, f \in Seq(A), f # <<>>
  <1>3. PICK n \in Nat : /\ n = Len(f) /\ n >= 1 /\ Len(g) = n - 1 /\ g \in Seq(A) /\ Head(f) = f[1]
                         /\ \A i \in 1 .. n - 1 : g[i] = f[i + 1]
    BY ONLY <1>2 DEF WithoutHead
  <1>4. CASE g = <<>>
    <2>1. n - 1 = 0
      BY ONLY <1>3, <1>4
    <2>2. n = 1
      BY ONLY <2>1, n \in Nat
    <2>3. QED BY ONLY <1>1, <1>3, <1>4, <2>2 DEF Last
  <1>5. CASE g # <<>>
    <2>1. n - 1 # 0
      BY ONLY <1>3, <1>5
    <2>2. n - 1 \in 1 .. n - 1 /\ (n - 1) + 1 = n
      BY ONLY <1>3, <2>1, n \in Nat
    <2>3. g[n - 1] = f[n]
      BY ONLY <1>3, <2>2
    <2>4. QED BY ONLY <1>1, <1>3, <1>5, <2>3 DEF Last
  <1>6. QED BY ONLY <1>4, <1>5

\* A single packet is found, the command of the call.
FoundAsAsked(packets, asked) ==
    \E y : /\ packets = {y} /\ IsCommand(y)
           /\ NumberOfFour(y.address) = asked.to.address /\ y.dataLength = asked.to.length

\* In the bytes that were sent.
LEMMA CommandFound ==
    ASSUME NEW asked, AskedFits(asked), NEW draftE, draftE = asked.options.useDraftECRC, NEW beyond
    PROVE  FoundAsAsked(Interpret(ConstructPacket(CommandOf(asked)), draftE, beyond), asked)
  <1>1. PICK q : q = CommandOf(asked)
    OBVIOUS
  <1>2. CommandFits(q) /\ q.useDraftECRC = draftE /\ q.dataLength = asked.to.length
        /\ q.address = FourBytes(asked.to.address)
    BY ONLY <1>1, CommandOfFits, AskedFits(asked), draftE = asked.options.useDraftECRC DEF CommandOf
  <1>3. PICK y : y = ReadCommand(q, draftE)
    OBVIOUS
  <1>4. Interpret(ConstructPacket(q), draftE, beyond) = {y}
    BY ONLY <1>2, <1>3, CommandIsRead
  <1>5. y.instruction = q.instruction /\ y.address = q.address /\ y.dataLength = q.dataLength
    BY ONLY <1>3 DEF ReadCommand
  <1>6. IsCommand(y)
    BY ONLY <1>2, <1>5 DEF CommandFits, IsCommand
  <1>7. asked.to.address \in Address
    BY DEF AskedFits
  <1>8. NumberOfFour(y.address) = asked.to.address
    BY ONLY <1>2, <1>5, <1>7, FourBytesRead
  <1>9. QED BY ONLY <1>1, <1>2, <1>4, <1>5, <1>6, <1>8 DEF FoundAsAsked

\* The call in progress is the last one, and fits.
LEMMA CallInProgress ==
    ASSUME SentInv, RequestInv, request # <<>>
    PROVE  /\ AskedFits(Last(sent)) /\ request = <<Last(sent)>> /\ Last(sent).options = options
           /\ sent # <<>> /\ answer = NoAnswer
  <1>1. PICK n \in Nat : n = Len(sent) /\ DOMAIN sent = 1 .. n
    BY DEF SentInv, IsSequence
  <1>2. sent # <<>> /\ IsSequence(sent) /\ request = <<Last(sent)>> /\ Last(sent).options = options
        /\ answer = NoAnswer
    BY DEF RequestInv, SentInv
  <1>3. n # 0
    BY ONLY <1>1, <1>2 DEF IsSequence
  <1>4. Last(sent) = sent[n] /\ n \in DOMAIN sent
    BY ONLY <1>1, <1>3 DEF Last
  <1>5. AskedFits(Last(sent))
    BY ONLY <1>4, SentInv DEF SentInv
  <1>6. QED BY ONLY <1>2, <1>5

\* The draft CRC is used or not.
LEMMA DraftChosen ==
    ASSUME RequestInv
    PROVE  options.useDraftECRC \in BOOLEAN
  <1>1. options \in Options
    BY ExchangeAssumption DEF RequestInv
  <1>2. QED BY ONLY <1>1 DEF Options

\* The target drops a packet.
LEMMA TargetDropsStep ==
    ASSUME ExchangeIInv, wire # <<>>, wire' = Tail(wire), NEW beyond, NEW packets,
           packets = Interpret(Head(wire), options.useDraftECRC, beyond),
           \/ packets = {}
           \/ LET p == CHOOSE q \in packets : TRUE
              IN \/ ~IsCommand(p)
                 \/ ActionFor(TargetSetup.targets, NumberOfFour(p.address), p.dataLength) = {},
           UNCHANGED <<back, targetMemory, executed>>,
           UNCHANGED <<database, options, commandPacket, request, sent, answer, calls, damages>>
    PROVE  ExchangeIInv'
  <1>1. SentInv /\ RequestInv /\ WireInv /\ TargetInv /\ PendingInv
    BY DEF ExchangeIInv
  <1>2. wire \in Seq(Seq(Byte))
    BY ONLY <1>1 DEF WireInv
  <1>3. WireInv'
    BY ONLY <1>1, wire # <<>>, wire' = Tail(wire), WireShorter,
            UNCHANGED <<database, options, commandPacket, request, sent, answer, calls, damages>>
  <1>4. TargetInv'
    <2>1. /\ IsSequence(executed') /\ targetMemory' \in [Address -> Byte]
          /\ ExecutesOnlyWhatWasAsked'
      BY ONLY <1>1, UNCHANGED <<back, targetMemory, executed>>,
            UNCHANGED <<database, options, commandPacket, request, sent, answer, calls, damages>>
         DEF TargetInv, ExecutesOnlyWhatWasAsked
    <2>2. \A i \in DOMAIN executed :
              executed[i].command.transactionID # Last(sent).transactionID
      BY ONLY <1>1, wire # <<>> DEF TargetInv
    <2>3. QED
      BY ONLY <2>1, <2>2, UNCHANGED <<back, targetMemory, executed>>,
            UNCHANGED <<database, options, commandPacket, request, sent, answer, calls, damages>>
         DEF TargetInv
  <1>5. PendingInv'
    <2>1. SUFFICES ASSUME damages = 0, request # <<>>, Answerable(Last(sent)), ~RefusedRead(Last(sent))
                   PROVE  \/ wire' # <<>> /\ Last(wire') = ConstructPacket(CommandOf(Last(sent)))
                          \/ \E k \in DOMAIN back : Reaches(back[k], Last(sent).transactionID)
      BY UNCHANGED <<back, targetMemory, executed>>,
         UNCHANGED <<database, options, commandPacket, request, sent, answer, calls, damages>>
         DEF PendingInv, Reaches
    <2>2. PICK asked : asked = Last(sent)
      OBVIOUS
    <2>3. AskedFits(asked) /\ asked.options = options
      BY ONLY <1>1, <2>1, <2>2, CallInProgress
    <2>4. CASE \E k \in DOMAIN back : Reaches(back[k], Last(sent).transactionID)
      BY ONLY <2>4
    <2>5. CASE Last(wire) = ConstructPacket(CommandOf(Last(sent)))
      <3>1. CASE wire' # <<>>
        BY ONLY <1>2, <2>5, <3>1, LastBehind, wire # <<>>, wire' = Tail(wire)
      <3>2. CASE wire' = <<>>
        <4>1. Head(wire) = ConstructPacket(CommandOf(asked))
          BY ONLY <1>2, <2>2, <2>5, <3>2, LastBehind, wire # <<>>, wire' = Tail(wire)
        <4>2. FoundAsAsked(packets, asked)
          <5>1. PICK d : d = options.useDraftECRC
            OBVIOUS
          <5>2. FoundAsAsked(Interpret(ConstructPacket(CommandOf(asked)), d, beyond), asked)
            BY ONLY <2>3, <5>1, CommandFound
          <5>3. QED BY ONLY <4>1, <5>1, <5>2,
                       packets = Interpret(Head(wire), options.useDraftECRC, beyond)
        <4>3. PICK y : /\ packets = {y} /\ IsCommand(y)
                       /\ NumberOfFour(y.address) = asked.to.address
                       /\ y.dataLength = asked.to.length
          BY ONLY <4>2 DEF FoundAsAsked
        <4>4. packets # {} /\ (CHOOSE q \in packets : TRUE) = y
          BY ONLY <4>3
        <4>5. ActionFor(TargetSetup.targets, NumberOfFour(y.address), y.dataLength) = {}
          BY ONLY <4>3, <4>4,
             \/ packets = {}
             \/ LET p == CHOOSE q \in packets : TRUE
                IN \/ ~IsCommand(p)
                   \/ ActionFor(TargetSetup.targets, NumberOfFour(p.address), p.dataLength) = {}
        <4>6. QED BY ONLY <2>1, <2>2, <4>3, <4>5 DEF Answerable
      <3>3. QED BY ONLY <3>1, <3>2
    <2>6. QED BY ONLY <1>1, <2>1, <2>4, <2>5 DEF PendingInv
  <1>6. QED
    BY ONLY <1>3, <1>4, <1>5, ExchangeIInv, PartsStay,
            UNCHANGED <<back, targetMemory, executed>>,
            UNCHANGED <<database, options, commandPacket, request, sent, answer, calls, damages>>
       DEF ExchangeIInv

\* What is to be shown of a call in progress, while it stays as it is.
LEMMA StillPending ==
    ASSUME UNCHANGED <<damages, request, sent, options>>,
           damages = 0 /\ request # <<>> /\ Answerable(Last(sent)) /\ ~RefusedRead(Last(sent)) =>
               \/ wire' # <<>> /\ Last(wire') = ConstructPacket(CommandOf(Last(sent)))
               \/ \E k \in DOMAIN back' : Reaches(back'[k], Last(sent).transactionID)
    PROVE  PendingInv'
  BY DEF PendingInv, Reaches

\* The target executes a command.
LEMMA TargetExecutesStep ==
    ASSUME ExchangeIInv, wire # <<>>, wire' = Tail(wire), NEW beyond \in BeyondBytes, NEW packets,
           packets = Interpret(Head(wire), options.useDraftECRC, beyond), packets # {},
           NEW p, p = CHOOSE q \in packets : TRUE, IsCommand(p),
           NEW done \in ProcessTransaction(p), targetMemory' = done.memory,
           NEW e, e = [command |-> p, memory |-> targetMemory, status |-> done.reply.status],
           executed' = Append(executed, e), back' = Append(back, ConstructPacket(done.reply)),
           UNCHANGED <<database, options, commandPacket, request, sent, answer, calls, damages>>
    PROVE  ExchangeIInv'
  <1>1. /\ SentInv /\ RequestInv /\ WireInv /\ BackInv /\ TargetInv /\ AnswerInv /\ PendingInv
    BY DEF ExchangeIInv
  <1>2. wire \in Seq(Seq(Byte)) /\ back \in Seq(Seq(Byte)) /\ targetMemory \in [Address -> Byte]
        /\ IsSequence(executed)
    BY ONLY <1>1 DEF WireInv, BackInv, TargetInv
  <1>3. PICK d \in BOOLEAN : d = options.useDraftECRC
    BY ONLY <1>1, DraftChosen
  <1>4. PICK h : h = Head(wire)
    OBVIOUS
  <1>5. p \in Interpret(h, d, beyond)
    BY ONLY <1>3, <1>4, packets = Interpret(Head(wire), options.useDraftECRC, beyond), packets # {},
            p = CHOOSE q \in packets : TRUE
  <1>6. PICK n, l \in Nat : n = Len(sent) /\ DOMAIN sent = 1 .. n /\ l = Len(wire) /\ l >= 1
                            /\ h = wire[1] /\ DOMAIN wire = 1 .. l /\ Len(wire') = l - 1
                            /\ wire' \in Seq(Seq(Byte))
    <2>1. WithoutHead(wire', wire, Seq(Byte))
      BY ONLY <1>2, wire # <<>>, wire' = Tail(wire), BehindTheHead
    <2>2. IsSequence(sent)
      BY ONLY <1>1 DEF SentInv
    <2>3. Len(sent) \in Nat /\ DOMAIN sent = 1 .. Len(sent)
      BY ONLY <2>2 DEF IsSequence
    <2>4. QED BY ONLY <1>4, <2>1, <2>3 DEF WithoutHead
  <1>7. PICK j \in 1 .. n : (1 < l => j < n) /\ OnlyCommand(h, CommandOf(sent[j]))
    <2>1. 1 \in DOMAIN wire
      BY ONLY <1>6
    <2>2. QED BY ONLY <1>1, <1>6, <2>1 DEF WireInv
  <1>8. PICK asked : asked = sent[j]
    OBVIOUS
  <1>9. AskedFits(asked)
    BY ONLY <1>1, <1>6, <1>8 DEF SentInv
  <1>10. Taken(p, CommandOf(asked), d)
    <2>1. OnlyCommand(h, CommandOf(asked))
      BY ONLY <1>7, <1>8
    <2>2. QED BY ONLY <1>5, <2>1, CommandTaken, IsCommand(p), beyond \in BeyondBytes, d \in BOOLEAN
  <1>11. IsAsAsked(p, asked)
    BY ONLY <1>9, <1>10, TakenIsAsAsked
  <1>12. PICK r : r = done.reply
    OBVIOUS
  <1>13. ProcessedRight(done, p, asked, d)
    BY ONLY <1>2, <1>9, <1>10, Processed, done \in ProcessTransaction(p)
  <1>14. /\ targetMemory' \in [Address -> Byte]
         /\ AnswersCommand(r, CommandOf(asked), d, r.status)
         /\ IsWrite(p) /\ r.status = CommandExcecutedSuccessfully =>
              [i \in 1 .. asked.to.length |-> targetMemory'[(asked.to.address + i - 1) % AddressSpace]]
                  = DataOf(asked.call, asked.to.length)
         /\ ~IsWrite(p) /\ r.status = CommandExcecutedSuccessfully /\ ~ShortAnswers =>
              r.data = MemoryOf(NumberOfFour(p.address), p.dataLength)
    BY ONLY <1>12, <1>13, targetMemory' = done.memory DEF ProcessedRight
  <1>15. ReplyFits(r) /\ r.transactionID = p.transactionID
    BY ONLY <1>10, <1>14 DEF AnswersCommand, Taken
  <1>16. e.command = p /\ e.memory = targetMemory /\ e.status = r.status
    BY ONLY <1>12, e = [command |-> p, memory |-> targetMemory, status |-> done.reply.status]
  <1>17. GrowsBy(executed', executed, e)
    BY ONLY <1>2, SequenceGrows, executed' = Append(executed, e)
  <1>18. PICK x \in Nat : /\ x = Len(executed) /\ DOMAIN executed = 1 .. x
                          /\ DOMAIN executed' = 1 .. x + 1 /\ IsSequence(executed')
                          /\ executed'[x + 1] = e /\ \A i \in 1 .. x : executed'[i] = executed[i]
    BY ONLY <1>17 DEF GrowsBy
  <1>19. PICK b \in Seq(Byte) : b = ConstructPacket(r)
    BY ONLY <1>15, PacketBytes
  <1>20. PICK y \in Nat : /\ y = Len(back) /\ Len(back') = y + 1 /\ back' \in Seq(Seq(Byte))
                          /\ DOMAIN back = 1 .. y
                          /\ DOMAIN back' = 1 .. y + 1 /\ back'[y + 1] = b
                          /\ \A k \in 1 .. y : back'[k] = back[k]
    <2>1. back' = Append(back, b)
      BY ONLY <1>12, <1>19, back' = Append(back, ConstructPacket(done.reply))
    <2>2. PICK z : z = back'
      OBVIOUS
    <2>3. PICK y \in Nat : y = Len(back) /\ DOMAIN back = 1 .. y
      BY ONLY <1>2
    <2>4. /\ Len(z) = y + 1 /\ z \in Seq(Seq(Byte)) /\ DOMAIN z = 1 .. y + 1
          /\ z[y + 1] = b /\ \A k \in 1 .. y : z[k] = back[k]
      BY ONLY <1>2, <2>1, <2>2, <2>3, b \in Seq(Byte)
    <2>5. QED BY ONLY <2>2, <2>3, <2>4
  <1>21. UNCHANGED sent
    BY ONLY UNCHANGED <<database, options, commandPacket, request, sent, answer, calls, damages>>
  <1>22. WireInv'
    BY ONLY <1>1, <1>21, wire # <<>>, wire' = Tail(wire), WireShorter
  <1>23. OnlyReply(b, e)
    <2>1. ReadOf(e) = MemoryOf(NumberOfFour(p.address), p.dataLength)
      BY ONLY <1>16 DEF ReadOf, MemoryOf
    <2>2. QED BY ONLY <1>14, <1>15, <1>16, <1>19, <2>1, ReplyOnly
  <1>24. BackInv'
    <2>1. ASSUME NEW k \in 1 .. y + 1
          PROVE  \E i \in 1 .. x + 1 : OnlyReply(back'[k], executed'[i])
      <3>1. CASE k = y + 1
        <4>1. x + 1 \in 1 .. x + 1
          BY ONLY x \in Nat
        <4>2. QED BY ONLY <1>18, <1>20, <1>23, <3>1, <4>1
      <3>2. CASE k # y + 1
        <4>1. k \in 1 .. y
          BY ONLY <3>2, k \in 1 .. y + 1, y \in Nat
        <4>2. PICK i \in 1 .. x : OnlyReply(back[k], executed[i])
          BY ONLY <1>1, <1>18, <1>20, <4>1 DEF BackInv
        <4>3. i \in 1 .. x + 1
          BY ONLY i \in 1 .. x, x \in Nat
        <4>4. QED BY ONLY <1>18, <1>20, <4>1, <4>2, <4>3
      <3>3. QED BY ONLY <3>1, <3>2
    <2>2. \A k \in DOMAIN back' : \E i \in DOMAIN executed' : OnlyReply(back'[k], executed'[i])
      BY ONLY <1>18, <1>20, <2>1
    <2>3. QED BY ONLY <1>20, <2>2 DEF BackInv
  <1>25. \A i \in 1 .. x : executed[i].command.transactionID # Last(sent).transactionID
    BY ONLY <1>1, <1>18, wire # <<>> DEF TargetInv
  <1>26. TargetInv'
    <2>1. ASSUME NEW i \in 1 .. x + 1
          PROVE  \E k \in DOMAIN sent : IsAsAsked(executed'[i].command, sent[k])
      <3>1. CASE i = x + 1
        BY ONLY <1>6, <1>8, <1>11, <1>16, <1>18, <3>1, j \in 1 .. n
      <3>2. CASE i # x + 1
        <4>1. i \in 1 .. x
          BY ONLY <3>2, i \in 1 .. x + 1, x \in Nat
        <4>2. QED BY ONLY <1>1, <1>18, <4>1 DEF TargetInv, ExecutesOnlyWhatWasAsked
      <3>3. QED BY ONLY <3>1, <3>2
    <2>2. ExecutesOnlyWhatWasAsked'
      BY ONLY <1>18, <1>21, <2>1 DEF ExecutesOnlyWhatWasAsked
    <2>3. ASSUME p.transactionID = Last(sent).transactionID
          PROVE  wire' = <<>> /\ asked = Last(sent)
      <3>1. sent[j].transactionID = Last(sent).transactionID /\ j \in DOMAIN sent
        BY ONLY <1>6, <1>8, <1>11, <2>3 DEF IsAsAsked
      <3>2. j = n /\ sent[j] = Last(sent)
        BY ONLY <1>1, <1>6, <3>1, LastAsked
      <3>3. ~(1 < l)
        BY ONLY <1>7, <3>2, n \in Nat
      <3>4. l - 1 = 0
        BY ONLY <1>6, <3>3, l \in Nat
      <3>5. wire' = <<>>
        <4>1. wire' \in Seq(Seq(Byte)) /\ Len(wire') = 0
          BY ONLY <1>6, <3>4
        <4>2. QED BY ONLY <4>1
      <3>6. QED BY ONLY <1>8, <3>2, <3>5
    <2>4. ASSUME NEW i \in 1 .. x + 1, executed'[i].command.transactionID = Last(sent).transactionID
          PROVE  /\ wire' = <<>>
                 /\ IsWrite(executed'[i].command) /\ executed'[i].status = CommandExcecutedSuccessfully =>
                      [m \in 1 .. Last(sent).to.length |->
                          targetMemory'[(Last(sent).to.address + m - 1) % AddressSpace]]
                              = DataOf(Last(sent).call, Last(sent).to.length)
      <3>1. i = x + 1
        <4>1. SUFFICES ASSUME i # x + 1 PROVE FALSE
          OBVIOUS
        <4>2. i \in 1 .. x
          BY ONLY <4>1, i \in 1 .. x + 1, x \in Nat
        <4>3. QED BY ONLY <1>18, <1>25, <2>4, <4>2
      <3>2. executed'[i].command = p /\ executed'[i].status = r.status
        BY ONLY <1>16, <1>18, <3>1
      <3>3. wire' = <<>> /\ asked = Last(sent)
        BY ONLY <2>3, <2>4, <3>2
      <3>4. QED BY ONLY <1>14, <3>2, <3>3
    <2>5. QED BY ONLY <1>14, <1>18, <1>21, <2>2, <2>4 DEF TargetInv, MemoryOf
  <1>27. AnswerInv'
    <2>1. \A i \in DOMAIN executed : i \in DOMAIN executed' /\ executed'[i] = executed[i]
      <3>1. \A i \in 1 .. x : i \in 1 .. x + 1
        BY ONLY x \in Nat
      <3>2. QED BY ONLY <1>18, <3>1
    <2>2. QED
      BY ONLY <1>1, <2>1,
              UNCHANGED <<database, options, commandPacket, request, sent, answer, calls, damages>>
         DEF AnswerInv
  <1>28. PendingInv'
    <2>0. UNCHANGED <<damages, request, sent, options>>
      BY ONLY UNCHANGED <<database, options, commandPacket, request, sent, answer, calls, damages>>
    <2>1. SUFFICES ASSUME damages = 0, request # <<>>, Answerable(Last(sent)), ~RefusedRead(Last(sent))
                   PROVE  \/ wire' # <<>> /\ Last(wire') = ConstructPacket(CommandOf(Last(sent)))
                          \/ \E k \in DOMAIN back' : Reaches(back'[k], Last(sent).transactionID)
      BY ONLY <2>0, <2>1, StillPending
    <2>2. CASE \E k \in DOMAIN back : Reaches(back[k], Last(sent).transactionID)
      <3>1. PICK k \in 1 .. y : Reaches(back[k], Last(sent).transactionID)
        BY ONLY <1>20, <2>2
      <3>2. k \in 1 .. y + 1
        BY ONLY k \in 1 .. y, y \in Nat
      <3>3. QED BY ONLY <1>20, <3>1, <3>2
    <2>3. CASE Last(wire) = ConstructPacket(CommandOf(Last(sent)))
      <3>1. CASE wire' # <<>>
        BY ONLY <1>2, <2>3, <3>1, LastBehind, wire # <<>>, wire' = Tail(wire)
      <3>2. CASE wire' = <<>>
        <4>1. PICK last : last = Last(sent)
          OBVIOUS
        <4>2. AskedFits(last)
          BY ONLY <1>1, <2>1, <4>1, CallInProgress
        <4>3. h = ConstructPacket(CommandOf(last))
          BY ONLY <1>2, <1>4, <2>3, <3>2, <4>1, LastBehind, wire # <<>>, wire' = Tail(wire)
        <4>4. OnlyCommand(h, CommandOf(last))
          BY ONLY <4>2, <4>3, CommandOfFits, CommandOnly
        <4>5. Taken(p, CommandOf(last), d)
          BY ONLY <1>5, <4>4, CommandTaken, IsCommand(p), beyond \in BeyondBytes, d \in BOOLEAN
        <4>6. ProcessedRight(done, p, last, d)
          BY ONLY <1>2, <4>2, <4>5, Processed, done \in ProcessTransaction(p)
        <4>7. AnswersCommand(r, CommandOf(last), d, r.status)
              /\ (IsWrite(r) \/ Len(r.data) = r.dataLength)
          BY ONLY <1>12, <2>1, <4>1, <4>6 DEF ProcessedRight
        <4>8. PICK id : id = last.transactionID
          OBVIOUS
        <4>9. r.useDraftECRC = d /\ r.transactionID = id
          BY ONLY <4>7, <4>8 DEF AnswersCommand, CommandOf
        <4>10. Reaches(b, id)
          BY ONLY <1>3, <1>15, <1>19, <4>7, <4>9, ReplyReaches
        <4>11. y + 1 \in 1 .. y + 1
          BY ONLY y \in Nat
        <4>12. QED BY ONLY <1>20, <4>1, <4>8, <4>10, <4>11
      <3>3. QED BY ONLY <3>1, <3>2
    <2>4. QED BY ONLY <1>1, <2>1, <2>2, <2>3 DEF PendingInv
  <1>29. QED
    BY ONLY <1>22, <1>24, <1>26, <1>27, <1>28, ExchangeIInv, PartsStay,
            UNCHANGED <<database, options, commandPacket, request, sent, answer, calls, damages>>
       DEF ExchangeIInv

\* The target receives a packet.
LEMMA TargetReceivesStep ==
    ASSUME ExchangeIInv, TargetReceives
    PROVE  ExchangeIInv'
  <1>1. /\ wire # <<>> /\ wire' = Tail(wire)
        /\ UNCHANGED <<database, options, commandPacket, request, sent, answer, calls, damages>>
    BY DEF TargetReceives
  <1>2. PICK beyond \in BeyondBytes :
          LET packets == Interpret(Head(wire), options.useDraftECRC, beyond)
          IN IF packets = {} THEN TargetDrops
             ELSE LET p == CHOOSE q \in packets : TRUE
                  IN IF \/ ~IsCommand(p)
                        \/ ActionFor(TargetSetup.targets, NumberOfFour(p.address), p.dataLength) = {}
                     THEN TargetDrops
                     ELSE \E done \in ProcessTransaction(p) :
                             /\ targetMemory' = done.memory
                             /\ executed' = Append(executed,
                                    [command |-> p, memory |-> targetMemory,
                                     status |-> done.reply.status])
                             /\ back' = Append(back, ConstructPacket(done.reply))
    BY DEF TargetReceives
  <1>3. PICK packets : packets = Interpret(Head(wire), options.useDraftECRC, beyond)
    OBVIOUS
  <1>4. PICK p : p = CHOOSE q \in packets : TRUE
    OBVIOUS
  <1>5. IF \/ packets = {} \/ ~IsCommand(p)
           \/ ActionFor(TargetSetup.targets, NumberOfFour(p.address), p.dataLength) = {}
        THEN TargetDrops
        ELSE \E done \in ProcessTransaction(p) :
                /\ targetMemory' = done.memory
                /\ executed' = Append(executed, [command |-> p, memory |-> targetMemory,
                                                 status |-> done.reply.status])
                /\ back' = Append(back, ConstructPacket(done.reply))
    BY ONLY <1>2, <1>3, <1>4
  <1>6. CASE TargetDrops /\ \/ packets = {} \/ ~IsCommand(p)
                            \/ ActionFor(TargetSetup.targets, NumberOfFour(p.address), p.dataLength) = {}
    <2>1. UNCHANGED <<back, targetMemory, executed>>
      BY ONLY <1>6 DEF TargetDrops
    <2>2. QED BY ONLY <1>1, <1>3, <1>4, <1>6, <2>1, ExchangeIInv, TargetDropsStep
  <1>7. CASE /\ packets # {} /\ IsCommand(p)
             /\ \E done \in ProcessTransaction(p) :
                   /\ targetMemory' = done.memory
                   /\ executed' = Append(executed, [command |-> p, memory |-> targetMemory,
                                                    status |-> done.reply.status])
                   /\ back' = Append(back, ConstructPacket(done.reply))
    BY ONLY <1>1, <1>3, <1>4, <1>7, ExchangeIInv, TargetExecutesStep, beyond \in BeyondBytes
  <1>8. QED BY ONLY <1>5, <1>6, <1>7

\* The initiator discards what it receives.
LEMMA InitiatorDiscardsStep ==
    ASSUME ExchangeIInv, back # <<>>, back' = Tail(back), NEW beyond \in BeyondBytes, NEW packets,
           packets = Interpret(Head(back), options.useDraftECRC, beyond),
           \A p \in packets : ~(/\ ~IsCommand(p) /\ request # <<>>
                                /\ p.transactionID = request[1].transactionID),
           UNCHANGED <<request, answer>>,
           UNCHANGED <<database, options, commandPacket, wire, targetMemory, sent, executed,
                       calls, damages>>
    PROVE  ExchangeIInv'
  <1>1. SentInv /\ RequestInv /\ BackInv /\ PendingInv
    BY DEF ExchangeIInv
  <1>2. executed' = executed /\ UNCHANGED <<damages, request, sent, options>> /\ wire' = wire
    BY ONLY UNCHANGED <<request, answer>>,
            UNCHANGED <<database, options, commandPacket, wire, targetMemory, sent, executed,
                        calls, damages>>
  <1>3. BackInv'
    BY ONLY <1>1, <1>2, back # <<>>, back' = Tail(back), BackShorter
  <1>4. PendingInv'
    <2>1. SUFFICES ASSUME damages = 0, request # <<>>, Answerable(Last(sent)), ~RefusedRead(Last(sent))
                   PROVE  \/ wire' # <<>> /\ Last(wire') = ConstructPacket(CommandOf(Last(sent)))
                          \/ \E k \in DOMAIN back' : Reaches(back'[k], Last(sent).transactionID)
      BY ONLY <1>2, <2>1, StillPending
    <2>2. CASE wire # <<>> /\ Last(wire) = ConstructPacket(CommandOf(Last(sent)))
      BY ONLY <1>2, <2>2
    <2>3. CASE \E k \in DOMAIN back : Reaches(back[k], Last(sent).transactionID)
      <3>1. PICK k \in DOMAIN back : Reaches(back[k], Last(sent).transactionID)
        BY ONLY <2>3
      <3>2. WithoutHead(back', back, Seq(Byte))
        BY ONLY <1>1, back # <<>>, back' = Tail(back), BehindTheHead DEF BackInv
      <3>3. PICK l \in Nat : /\ DOMAIN back = 1 .. l /\ DOMAIN back' = 1 .. l - 1
                             /\ Head(back) = back[1] /\ \A m \in 1 .. l - 1 : back'[m] = back[m + 1]
        BY ONLY <3>2 DEF WithoutHead
      <3>4. k # 1
        <4>1. SUFFICES ASSUME k = 1 PROVE FALSE
          OBVIOUS
        <4>2. PICK last : last = Last(sent)
          OBVIOUS
        <4>3. request[1] = last
          BY ONLY <1>1, <2>1, <4>2, CallInProgress
        <4>4. packets # {} /\ \A p \in packets : ~IsCommand(p) /\ p.transactionID = last.transactionID
          BY ONLY <3>1, <3>3, <4>1, <4>2, beyond \in BeyondBytes,
                  packets = Interpret(Head(back), options.useDraftECRC, beyond) DEF Reaches
        <4>5. QED
          BY ONLY <2>1, <4>3, <4>4,
             \A p \in packets : ~(/\ ~IsCommand(p) /\ request # <<>>
                                  /\ p.transactionID = request[1].transactionID)
      <3>5. PICK m \in 1 .. l - 1 : k = m + 1
        <4>1. k - 1 \in 1 .. l - 1 /\ k = (k - 1) + 1
          BY ONLY <3>3, <3>4, k \in DOMAIN back, l \in Nat
        <4>2. QED BY ONLY <4>1
      <3>6. Reaches(back'[m], Last(sent).transactionID)
        BY ONLY <3>1, <3>3, <3>5, m \in 1 .. l - 1
      <3>7. QED BY ONLY <3>3, <3>6, m \in 1 .. l - 1
    <2>4. QED BY ONLY <1>1, <2>1, <2>2, <2>3 DEF PendingInv
  <1>5. QED
    BY ONLY <1>3, <1>4, ExchangeIInv, PartsStay, UNCHANGED <<request, answer>>,
            UNCHANGED <<database, options, commandPacket, wire, targetMemory, sent, executed,
                        calls, damages>>
       DEF ExchangeIInv

\* Whatever is found in bytes has the fields of a packet.
LEMMA FoundHasFields ==
    ASSUME NEW bytes, NEW draftE, NEW beyond, NEW p \in Interpret(bytes, draftE, beyond)
    PROVE  DOMAIN p = Fields
  <1>1. ASSUME NEW z, DOMAIN z = Fields, NEW path, NEW s, NEW x \in InterpretCommand(z, path, bytes, s, beyond)
        PROVE  DOMAIN x = Fields
    BY ONLY <1>1 DEF InterpretCommand, SetReplyAddress
  <1>2. ASSUME NEW z, DOMAIN z = Fields, NEW path, NEW s, NEW x \in InterpretReply(z, path, bytes, s, beyond)
        PROVE  DOMAIN x = Fields
    BY ONLY <1>2 DEF InterpretReply
  <1>3. PICK s : s = SelectInSeq(bytes, LAMBDA b : b >= 32)
    OBVIOUS
  <1>4. PICK fresh : fresh = NewPacket(draftE)
    OBVIOUS
  <1>5. PICK z : z = [fresh EXCEPT !.instruction = BitsOf(ByteAt(bytes, s + 2, beyond))]
    OBVIOUS
  <1>6. DOMAIN z = Fields
    BY ONLY <1>4, <1>5 DEF NewPacket, Fields
  <1>7. PICK path : path = SubSeq(bytes, 1, s - 1)
    OBVIOUS
  <1>8. \/ p \in InterpretCommand(z, path, bytes, s, beyond)
        \/ p \in InterpretReply(z, path, bytes, s, beyond)
    BY ONLY <1>3, <1>4, <1>5, <1>7, p \in Interpret(bytes, draftE, beyond) DEF Interpret
  <1>9. QED BY ONLY <1>1, <1>2, <1>6, <1>8

\* The initiator receives the reply its caller waits for.
LEMMA InitiatorAnswersStep ==
    ASSUME ExchangeIInv, back # <<>>, back' = Tail(back), NEW beyond \in BeyondBytes,
           NEW p \in Interpret(Head(back), options.useDraftECRC, beyond), ~IsCommand(p),
           request # <<>>, p.transactionID = request[1].transactionID,
           answer' = Examine(p), request' = <<>>,
           UNCHANGED <<database, options, commandPacket, wire, targetMemory, sent, executed,
                       calls, damages>>
    PROVE  ExchangeIInv'
  <1>1. SentInv /\ RequestInv /\ BackInv /\ TargetInv
    BY DEF ExchangeIInv
  <1>2. UNCHANGED <<options, commandPacket, sent, executed>>
    BY ONLY UNCHANGED <<database, options, commandPacket, wire, targetMemory, sent, executed,
                        calls, damages>>
  <1>3. BackInv'
    BY ONLY <1>1, <1>2, back # <<>>, back' = Tail(back), BackShorter
  <1>4. PICK asked : asked = Last(sent)
    OBVIOUS
  <1>5. AskedFits(asked) /\ request[1] = asked /\ sent # <<>>
    BY ONLY <1>1, <1>4, request # <<>>, CallInProgress
  <1>6. asked.call.kind \in {"read", "write"}
    BY ONLY <1>5 DEF AskedFits
  <1>7. PICK d \in BOOLEAN : d = options.useDraftECRC
    BY ONLY <1>1, DraftChosen
  <1>8. PICK i \in DOMAIN executed : OnlyReply(Head(back), executed[i])
    <2>1. back \in Seq(Seq(Byte))
      BY ONLY <1>1 DEF BackInv
    <2>2. 1 \in DOMAIN back /\ Head(back) = back[1]
      BY ONLY <2>1, back # <<>>
    <2>3. QED BY ONLY <1>1, <2>2 DEF BackInv
  <1>9. PICK e : e = executed[i]
    OBVIOUS
  <1>10. PICK c : c = [p EXCEPT !.replyAddress = <<>>]
    OBVIOUS
  <1>11. c \in RepliesIn(Head(back), d)
    <2>1. p \in ReadBy(Head(back), d)
      BY ONLY <1>7, beyond \in BeyondBytes, p \in Interpret(Head(back), options.useDraftECRC, beyond)
         DEF ReadBy
    <2>2. QED BY ONLY <1>10, <2>1, ~IsCommand(p) DEF RepliesIn
  <1>12. c.transactionID = p.transactionID /\ c.status = p.status /\ c.data = p.data
    <2>1. DOMAIN p = Fields
      BY ONLY FoundHasFields, p \in Interpret(Head(back), options.useDraftECRC, beyond)
    <2>2. QED BY ONLY <1>10, <2>1 DEF Fields
  <1>13. /\ p.transactionID = e.command.transactionID /\ p.status = e.status
         /\ ~IsWrite(e.command) /\ e.status = CommandExcecutedSuccessfully /\ ~ShortAnswers
                => p.data = ReadOf(e)
    BY ONLY <1>8, <1>9, <1>11, <1>12, d \in BOOLEAN DEF OnlyReply
  <1>14. e.command.transactionID = asked.transactionID
    BY ONLY <1>5, <1>13, p.transactionID = request[1].transactionID
  <1>15. IsWrite(e.command) <=> asked.call.kind = "write"
    <2>1. IsAsAsked(e.command, asked)
      BY ONLY <1>1, <1>4, <1>9, <1>14, ExecutedLast
    <2>2. QED BY ONLY <2>1 DEF IsAsAsked
  <1>16. /\ answer'.kind \in {"data", "written", "RMAPReplyException", "ReadReplyWithInsufficientData"}
         /\ answer'.kind = "data" => /\ p.status = CommandExcecutedSuccessfully
                                     /\ asked.call.kind = "read" /\ answer'.data = p.data
         /\ answer'.kind = "written" => /\ p.status = CommandExcecutedSuccessfully
                                        /\ asked.call.kind # "read"
    BY ONLY <1>5, answer' = Examine(p) DEF Examine, ExamineReadReply, ExamineWriteReply, Throws
  <1>17. answer'.kind = "data" /\ ~ShortAnswers =>
            e.command.transactionID = asked.transactionID /\ ~IsWrite(e.command) /\ answer'.data = ReadOf(e)
    BY ONLY <1>13, <1>14, <1>15, <1>16
  <1>18. answer'.kind = "written" =>
            e.command.transactionID = asked.transactionID /\ IsWrite(e.command)
            /\ e.status = CommandExcecutedSuccessfully
    BY ONLY <1>6, <1>13, <1>14, <1>15, <1>16
  <1>19. AnswerInv'
    BY ONLY <1>2, <1>4, <1>5, <1>9, <1>16, <1>17, <1>18, i \in DOMAIN executed DEF AnswerInv, AnswerKinds
  <1>20. TimeoutsHaveACause'
    BY ONLY <1>16 DEF TimeoutsHaveACause
  <1>21. RequestInv' /\ PendingInv'
    BY ONLY <1>1, <1>2, request' = <<>> DEF RequestInv, PendingInv
  <1>22. QED
    BY ONLY <1>3, <1>19, <1>20, <1>21, ExchangeIInv, PartsStay,
            UNCHANGED <<database, options, commandPacket, wire, targetMemory, sent, executed,
                        calls, damages>>
       DEF ExchangeIInv

\* The initiator receives a packet.
LEMMA InitiatorReceivesStep ==
    ASSUME ExchangeIInv, InitiatorReceives
    PROVE  ExchangeIInv'
  <1>1. /\ back # <<>> /\ back' = Tail(back)
        /\ UNCHANGED <<database, options, commandPacket, wire, targetMemory, sent, executed,
                       calls, damages>>
    BY DEF InitiatorReceives
  <1>2. PICK beyond \in BeyondBytes :
          LET packets == Interpret(Head(back), options.useDraftECRC, beyond)
              replies == {p \in packets : /\ ~IsCommand(p) /\ request # <<>>
                                          /\ p.transactionID = request[1].transactionID}
          IN IF replies = {} THEN UNCHANGED <<request, answer>>
             ELSE answer' = Examine(CHOOSE p \in replies : TRUE) /\ request' = <<>>
    BY DEF InitiatorReceives
  <1>3. PICK packets : packets = Interpret(Head(back), options.useDraftECRC, beyond)
    OBVIOUS
  <1>4. PICK replies : replies = {p \in packets : /\ ~IsCommand(p) /\ request # <<>>
                                                  /\ p.transactionID = request[1].transactionID}
    OBVIOUS
  <1>5. IF replies = {} THEN UNCHANGED <<request, answer>>
        ELSE answer' = Examine(CHOOSE p \in replies : TRUE) /\ request' = <<>>
    BY ONLY <1>2, <1>3, <1>4
  <1>6. CASE replies = {}
    <2>1. \A p \in packets : ~(/\ ~IsCommand(p) /\ request # <<>>
                               /\ p.transactionID = request[1].transactionID)
      BY ONLY <1>4, <1>6
    <2>2. QED
      BY ONLY <1>1, <1>3, <1>5, <1>6, <2>1, ExchangeIInv, InitiatorDiscardsStep, beyond \in BeyondBytes
  <1>7. CASE replies # {}
    <2>1. PICK p : p = CHOOSE q \in replies : TRUE
      OBVIOUS
    <2>2. p \in replies
      BY ONLY <1>7, <2>1
    <2>3. /\ p \in Interpret(Head(back), options.useDraftECRC, beyond) /\ ~IsCommand(p)
          /\ request # <<>> /\ p.transactionID = request[1].transactionID
      BY ONLY <1>3, <1>4, <2>2
    <2>4. answer' = Examine(p) /\ request' = <<>>
      BY ONLY <1>5, <1>7, <2>1
    <2>5. QED
      BY ONLY <1>1, <2>3, <2>4, ExchangeIInv, InitiatorAnswersStep, beyond \in BeyondBytes
  <1>8. QED BY ONLY <1>6, <1>7

\* A caller gives up.
LEMMA TimesOutStep ==
    ASSUME ExchangeIInv, TimesOut
    PROVE  ExchangeIInv'
  <1>1. /\ request # <<>> /\ wire = <<>> /\ back = <<>>
        /\ request' = <<>> /\ answer' = Throws("Timeout")
        /\ UNCHANGED <<database, options, commandPacket, wire, back, targetMemory, sent, executed,
                       calls, damages>>
    BY DEF TimesOut
  <1>2. SentInv /\ RequestInv /\ PendingInv /\ CountsInv
    BY DEF ExchangeIInv
  <1>3. sent # <<>>
    BY ONLY <1>1, <1>2, CallInProgress
  <1>4. answer'.kind = "Timeout"
    BY ONLY <1>1 DEF Throws
  <1>5. AnswerInv'
    BY ONLY <1>1, <1>3, <1>4 DEF AnswerInv, AnswerKinds
  <1>6. ~(damages = 0 /\ Answerable(Last(sent)) /\ ~RefusedRead(Last(sent)))
    <2>1. PICK none : none = <<>>
      OBVIOUS
    <2>2. DOMAIN none = {}
      BY ONLY <2>1
    <2>3. wire = none /\ back = none
      BY ONLY <1>1, <2>1
    <2>4. QED BY ONLY <1>1, <1>2, <2>2, <2>3 DEF PendingInv
  <1>7. damages > 0 \/ damages = 0
    BY ONLY <1>2, Bounds DEF CountsInv
  <1>8. TimeoutsHaveACause'
    BY ONLY <1>1, <1>6, <1>7 DEF TimeoutsHaveACause, Answerable, RefusedRead
  <1>9. RequestInv' /\ PendingInv'
    BY ONLY <1>1, <1>2 DEF RequestInv, PendingInv
  <1>10. QED BY ONLY <1>1, <1>5, <1>8, <1>9, ExchangeIInv, PartsStay DEF ExchangeIInv

-----------------------------------------------------------------------------
(* The theorems.                                                           *)

\* A step of the wire or of a caller keeps the invariant.
LEMMA KeptWithoutDamage ==
    ASSUME ExchangeIInv, [ExchangeNext]_exchangeVars, ~DamageCommand, ~DamageReply
    PROVE  ExchangeIInv'
  <1>1. CASE UNCHANGED exchangeVars
    BY ONLY <1>1, ExchangeIInv, PartsStay DEF exchangeVars, ExchangeIInv
  <1>2. CASE RegisterDatabase
    BY ONLY <1>2, ExchangeIInv, RegisterStep
  <1>3. CASE SetOptions
    BY ONLY <1>3, ExchangeIInv, SetOptionsStep
  <1>4. CASE Call
    BY ONLY <1>4, ExchangeIInv, CallStep
  <1>5. CASE TargetReceives
    BY ONLY <1>5, ExchangeIInv, TargetReceivesStep
  <1>6. CASE InitiatorReceives
    BY ONLY <1>6, ExchangeIInv, InitiatorReceivesStep
  <1>7. CASE TimesOut
    BY ONLY <1>7, ExchangeIInv, TimesOutStep
  <1>8. QED
    BY ONLY <1>1, <1>2, <1>3, <1>4, <1>5, <1>6, <1>7, ~DamageCommand, ~DamageReply,
            [ExchangeNext]_exchangeVars DEF ExchangeNext

\* The bounds are kept, and damage is counted.
LEMMA DamageIsCounted ==
    ASSUME CountsInv, [ExchangeNext]_exchangeVars
    PROVE  CountsInv' /\ (damages' = 0 => damages = 0 /\ ~DamageCommand /\ ~DamageReply)
  <1>1. calls \in Nat /\ damages \in Nat /\ calls <= MaxCalls /\ damages <= MaxDamages
    BY ONLY CountsInv, Bounds DEF CountsInv
  <1>2. ASSUME damages' = damages, calls' = calls \/ (calls < MaxCalls /\ calls' = calls + 1)
        PROVE  CountsInv'
    BY ONLY <1>1, <1>2, Bounds DEF CountsInv
  <1>3. ASSUME DamageCommand \/ DamageReply PROVE CountsInv' /\ damages' # 0
    <2>1. damages < MaxDamages /\ damages' = damages + 1 /\ calls' = calls
      BY ONLY <1>3 DEF DamageCommand, DamageReply
    <2>2. QED BY ONLY <1>1, <2>1, Bounds DEF CountsInv
  <1>4. ASSUME ~DamageCommand, ~DamageReply
        PROVE  damages' = damages /\ (calls' = calls \/ (calls < MaxCalls /\ calls' = calls + 1))
    <2>1. CASE UNCHANGED exchangeVars
      BY ONLY <2>1 DEF exchangeVars
    <2>2. CASE RegisterDatabase \/ SetOptions
      BY ONLY <2>2 DEF RegisterDatabase, SetOptions
    <2>3. CASE Call
      BY ONLY <2>3 DEF Call
    <2>4. CASE TargetReceives \/ InitiatorReceives \/ TimesOut
      BY ONLY <2>4 DEF TargetReceives, InitiatorReceives, TimesOut
    <2>5. QED BY ONLY <1>4, <2>1, <2>2, <2>3, <2>4, [ExchangeNext]_exchangeVars DEF ExchangeNext
  <1>5. QED BY ONLY <1>2, <1>3, <1>4

\* The invariant holds as long as damaged bytes are told from a packet
\* (DamageIsNoticed, which the lengths and the CRCs give).
THEOREM ExchangeIsSound == ExchangeSpec /\ DamageIsNoticed => []ExchangeIInv
  <1>1. ExchangeInit => ExchangeIInv
    BY InvariantInitially
  <1>2. ExchangeIInv /\ [ExchangeNext]_exchangeVars /\ [DamageNoticed]_exchangeVars => ExchangeIInv'
    <2>1. SUFFICES ASSUME ExchangeIInv, [ExchangeNext]_exchangeVars, [DamageNoticed]_exchangeVars
                   PROVE  ExchangeIInv'
      OBVIOUS
    <2>2. CASE UNCHANGED exchangeVars
      BY ONLY <2>2, ExchangeIInv, PartsStay DEF exchangeVars, ExchangeIInv
    <2>3. CASE DamageNoticed /\ DamageCommand
      BY ONLY <2>1, <2>3, DamageCommandStep
    <2>4. CASE DamageNoticed /\ DamageReply
      BY ONLY <2>1, <2>4, DamageReplyStep
    <2>5. CASE ~DamageCommand /\ ~DamageReply
      BY ONLY <2>1, <2>5, KeptWithoutDamage
    <2>6. QED BY ONLY <2>1, <2>2, <2>3, <2>4, <2>5
  <1>3. QED BY <1>1, <1>2, PTL DEF ExchangeSpec, DamageIsNoticed

\* ExchangeInv: the target executes only what was asked for, nothing of one call
\* is carried over to the next, and what a file makes read-only stays unwritten.
THEOREM NothingElseIsExecuted == ExchangeSpec /\ DamageIsNoticed => []ExchangeInv
  <1>1. ExchangeIInv => ExchangeInv
    BY InvariantOfExchange
  <1>2. QED BY <1>1, ExchangeIsSound, PTL

\* AnswersTellTheTruth: what read() and write() return is what the target did,
\* when the target answers a read in full.
THEOREM AnswersAreTrue ==
    ASSUME ~ShortAnswers
    PROVE  ExchangeSpec /\ DamageIsNoticed => []AnswersTellTheTruth
  <1>1. ExchangeIInv => AnswersTellTheTruth
    BY ~ShortAnswers, AnswersOfExchange
  <1>2. QED BY <1>1, ExchangeIsSound, PTL

\* TimeoutsHaveACause: without damage, a call times out only when no range of
\* the target takes it, or when its read is refused.  Nothing is assumed of the
\* CRCs: a damaged packet is cause enough.
THEOREM TimeoutsAreExplained == ExchangeSpec => []TimeoutsHaveACause
  <1> DEFINE UntilDamage == CountsInv /\ (damages = 0 => ExchangeIInv)
  <1>1. ExchangeInit => UntilDamage
    BY InvariantInitially DEF ExchangeIInv
  <1>2. UntilDamage /\ [ExchangeNext]_exchangeVars => UntilDamage'
    BY KeptWithoutDamage, DamageIsCounted
  <1>3. UntilDamage => TimeoutsHaveACause
    <2>1. CASE damages = 0
      BY <2>1 DEF ExchangeIInv
    <2>2. CASE damages # 0
      <3>1. CountsInv => damages > 0
        BY <2>2, Bounds DEF CountsInv
      <3>2. QED BY <3>1 DEF TimeoutsHaveACause
    <2>3. QED BY <2>1, <2>2
  <1>4. QED BY <1>1, <1>2, <1>3, PTL DEF ExchangeSpec

=============================================================================
