----------------------------- MODULE RMAPPacket -----------------------------
(***************************************************************************)
(* The packets of the Remote Memory Access Protocol, byte by byte: the     *)
(* fields of class RMAPPacket, how they are laid out (constructPacket) and *)
(* how bytes that arrive are read back (interpretAsAnRMAPPacket).          *)
(* The instruction byte and the registers of the CRC are sets of bits.     *)
(***************************************************************************)
EXTENDS Bytes

-----------------------------------------------------------------------------
(* The two CRC tables.  Each is linear: its entry for a byte is the XOR of *)
(* its entries for the bits of the byte, given here.                       *)
StandardCRCRow ==
    [k \in 0 .. 7 |-> CASE k = 0 -> {0, 4, 7}
                        [] k = 1 -> {0, 1, 5, 6, 7}
                        [] OTHER -> {k - 2, k - 1, k}]
DraftECRCRow ==
    [k \in 0 .. 7 |-> CASE k = 6 -> {0, 1, 2, 6, 7}
                        [] k = 7 -> {0, 3, 7}
                        [] OTHER -> {k, k + 1, k + 2}]

CalculateCRC(bytes, row) ==
    LET Table(S) == {k \in 0 .. 7 : Cardinality({i \in S : k \in row[i]}) % 2 = 1}
    IN ByteOf(FoldLeft(LAMBDA crc, b : Table(SymDiff(crc, BitsOf(b))), {}, bytes))

CRCOf(p, bytes) ==
    CalculateCRC(bytes, IF p.useDraftECRC THEN DraftECRCRow ELSE StandardCRCRow)

-----------------------------------------------------------------------------
(* The fields of a packet as its constructor leaves them; the 32-bit       *)
(* address is kept as its four bytes, the highest first.                   *)
ProtocolIdentifier == 1
NewPacket(draftE) ==
    [targetSpaceWireAddress |-> <<>>, targetLogicalAddress |-> 254,
     instruction |-> {}, key |-> 32, replyAddress |-> <<>>,
     initiatorLogicalAddress |-> 254, transactionID |-> 0, extendedAddress |-> 0,
     address |-> <<0, 0, 0, 0>>, dataLength |-> 0, status |-> 0, data |-> <<>>,
     useDraftECRC |-> draftE]

(* The bits of the instruction byte.                                       *)
CommandReplyBit == 6
WriteReadBit == 5
VerifyBit == 4
ReplyBit == 3
IncrementBit == 2
ReplyPathAddressLengthBits == {0, 1}

IsCommand(p) == CommandReplyBit \in p.instruction
IsWrite(p) == WriteReadBit \in p.instruction
ReplyPathAddressLength(p) == ByteOf(p.instruction \cap ReplyPathAddressLengthBits)
SetBit(p, bit, on) ==
    [p EXCEPT !.instruction = IF on THEN @ \cup {bit} ELSE @ \ {bit}]

(* hasData(): whether a data CRC follows the header.                       *)
HasData(p) == p.data # <<>> \/ (IsCommand(p) <=> IsWrite(p))

SetData(p, data) == [p EXCEPT !.data = data, !.dataLength = Len(data)]

(* setReplyAddress(): the length of the address, in words, is added to the *)
(* instruction with its two lowest bits cleared.                           *)
\* Faulty variant: a last word that is not full is not counted.
SetReplyAddressRounded(p, path) ==
    [p EXCEPT !.replyAddress = path,
              !.instruction = BitsOf((ByteOf(@ \ ReplyPathAddressLengthBits) + Len(path) \div 4) % 256)]

SetReplyAddress(p, path) ==
    LET words == IF Len(path) % 4 = 0 THEN Len(path) \div 4 ELSE (Len(path) + 4) \div 4
        rest  == ByteOf(p.instruction \ ReplyPathAddressLengthBits)
    IN [p EXCEPT !.replyAddress = path, !.instruction = BitsOf((rest + words) % 256)]

(* setRMAPTargetInformation(): what a target node's description decides.   *)
SetRMAPTargetInformation(p, node) ==
    LET q == SetReplyAddress([p EXCEPT !.targetLogicalAddress = node.targetLogicalAddress],
                             node.replyAddress)
    IN [q EXCEPT !.targetSpaceWireAddress = node.targetSpaceWireAddress,
                 !.key = node.defaultKey,
                 !.initiatorLogicalAddress =
                     IF node.initiatorLogicalAddress # <<>>
                     THEN node.initiatorLogicalAddress[1] ELSE @]

-----------------------------------------------------------------------------
(* constructHeader(), without the CRC that ends the header.  The way back   *)
(* is filled up with zeros to whole words.                                 *)
Padded(path) == [i \in 1 .. (-Len(path)) % 4 |-> 0] \o path
HeaderOf(p) ==
    IF IsCommand(p)
    THEN <<p.targetLogicalAddress, ProtocolIdentifier, ByteOf(p.instruction), p.key>>
         \o Padded(p.replyAddress)
         \o <<p.initiatorLogicalAddress>>
         \o TwoBytes(p.transactionID) \o <<p.extendedAddress>>
         \o p.address \o ThreeBytes(p.dataLength)
    ELSE <<p.initiatorLogicalAddress, ProtocolIdentifier, ByteOf(p.instruction), p.status,
           p.targetLogicalAddress>>
         \o TwoBytes(p.transactionID)
         \o (IF IsWrite(p) THEN <<>> ELSE <<0>> \o ThreeBytes(p.dataLength))

(* constructPacket(), both CRCs computed.                                  *)
ConstructPacket(p) ==
    LET header == HeaderOf(p)
    IN (IF IsCommand(p) THEN p.targetSpaceWireAddress ELSE p.replyAddress)
       \o Append(header, CRCOf(p, header))
       \o p.data
       \o (IF HasData(p) THEN <<CRCOf(p, p.data)>> ELSE <<>>)

RemoveLeadingZerosInReplyAddress(path) ==
    LET zeros == SelectInSeq(path, LAMBDA b : b # 0)
    IN IF zeros = 0 THEN <<>> ELSE SubSeq(path, zeros, Len(path))

(* constructReplyForCommand(): a copy of the command, its dataLength too.  *)
ConstructReplyForCommand(p, status) ==
    LET q == SetReplyAddress(p, RemoveLeadingZerosInReplyAddress(p.replyAddress))
    IN [SetBit(q, CommandReplyBit, FALSE) EXCEPT !.data = <<>>, !.status = status]

SetReplyWithDataWithStatus(p, data, status) ==
    SetData(ConstructReplyForCommand(p, status), data)
SetReplyWithStatus(p, status) == ConstructReplyForCommand(p, status)

-----------------------------------------------------------------------------
(* interpretAsAnRMAPPacket().  `bytes' is what arrived; a byte beyond its  *)
(* end is read all the same in the header (the code checks only that eight *)
(* bytes arrived): `beyond' is what lies there.  The result is a set: the  *)
(* packet, or nothing when an exception refuses the bytes.                 *)
ByteAt(bytes, i, beyond) == IF i \in DOMAIN bytes THEN bytes[i] ELSE beyond
BytesAt(bytes, i, n, beyond) == [k \in 1 .. n |-> ByteAt(bytes, i + k - 1, beyond)]

(* The data part starts at i: as long as announced, and one CRC after it.  *)
\* Faulty variant: the length of the data is checked, its CRC is not.
DataPartLongEnough(p, bytes, i) == i + p.dataLength = Len(bytes)

DataPartIntact(p, bytes, i) ==
    /\ i + p.dataLength = Len(bytes)
    /\ bytes[Len(bytes)] = CRCOf(p, SubSeq(bytes, i, Len(bytes) - 1))

\* Faulty variant: the CRC of the header is there but not compared.
HeaderCRCThere(p, bytes, i, beyond) == i \in DOMAIN bytes

HeaderCRCIntact(p, bytes, i, beyond) ==
    ByteAt(bytes, i, beyond) = CRCOf(p, HeaderOf(p))

InterpretCommand(p, path, bytes, s, beyond) ==
    LET At(i) == ByteAt(bytes, i, beyond)
        words == ReplyPathAddressLength(p)
        t     == s + 4 + 4 * words
        q     == [SetReplyAddress(p, BytesAt(bytes, s + 4, 4 * words, beyond)) EXCEPT
                     !.targetSpaceWireAddress = path, !.targetLogicalAddress = At(s),
                     !.key = At(s + 3), !.initiatorLogicalAddress = At(t),
                     !.transactionID = NumberOfTwo(BytesAt(bytes, t + 1, 2, beyond)),
                     !.extendedAddress = At(t + 3),
                     !.address = BytesAt(bytes, t + 4, 4, beyond),
                     !.dataLength = NumberOfThree(BytesAt(bytes, t + 8, 3, beyond)),
                     !.data = <<>>]
    IN IF \/ ~HeaderCRCIntact(q, bytes, t + 11, beyond)
          \/ IsWrite(q) /\ ~DataPartIntact(q, bytes, t + 12)
       THEN {}
       ELSE {[q EXCEPT !.data = IF IsWrite(q) THEN SubSeq(bytes, t + 12, Len(bytes) - 1)
                                ELSE <<>>]}

InterpretReply(p, path, bytes, s, beyond) ==
    LET At(i) == ByteAt(bytes, i, beyond)
        q == [p EXCEPT !.replyAddress = path, !.initiatorLogicalAddress = At(s),
                       !.status = At(s + 3), !.targetLogicalAddress = At(s + 4),
                       !.transactionID = NumberOfTwo(BytesAt(bytes, s + 5, 2, beyond)),
                       !.dataLength = IF IsWrite(p) THEN @
                                      ELSE NumberOfThree(BytesAt(bytes, s + 8, 3, beyond))]
    IN IF IsWrite(p)
       THEN IF HeaderCRCIntact(q, bytes, s + 7, beyond) THEN {q} ELSE {}
       ELSE IF HeaderCRCIntact(q, bytes, s + 11, beyond) /\ DataPartIntact(q, bytes, s + 12)
            THEN {[q EXCEPT !.data = SubSeq(bytes, s + 12, Len(bytes) - 1)]} ELSE {}

Interpret(bytes, draftE, beyond) ==
    LET s     == SelectInSeq(bytes, LAMBDA b : b >= 32)
        fresh == NewPacket(draftE)
        p     == [fresh EXCEPT !.instruction = BitsOf(ByteAt(bytes, s + 2, beyond))]
        path  == SubSeq(bytes, 1, s - 1)
    IN IF Len(bytes) < 8 \/ s = 0 \/ ByteAt(bytes, s + 1, beyond) # ProtocolIdentifier
       THEN {}
       ELSE IF IsCommand(p) THEN InterpretCommand(p, path, bytes, s, beyond)
                            ELSE InterpretReply(p, path, bytes, s, beyond)

-----------------------------------------------------------------------------
(* The status codes a target answers with (RMAPReplyStatus).               *)
CommandExcecutedSuccessfully == 0
InvalidDestinationKey == 3
CommandNotImplementedOrNotAuthorized == 10
InvalidTargetLogicalAddress == 12
=============================================================================
