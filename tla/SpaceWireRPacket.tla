-------------------------- MODULE SpaceWireRPacket --------------------------
(***************************************************************************)
(* The packets of SpaceWire-R, byte by byte: the fields of class           *)
(* SpaceWireRPacket, how they are laid out (getPacketBufferPointer), how   *)
(* bytes that arrive are read back (interpretPacket), and the packet that  *)
(* acknowledges another one.                                               *)
(***************************************************************************)
EXTENDS Bytes

(* Packet types.  A flow control packet is acknowledged by its own type.   *)
DataPacket == 0
DataAckPacket == 1
ControlPacketOpenCommand == 2
ControlPacketCloseCommand == 3
HeartBeatPacket == 4
HeartBeatAckPacket == 5
FlowControlPacket == 6
ControlAckPacket == 7

IsAckPacket(p) == p.packetType \in {DataAckPacket, ControlAckPacket, HeartBeatAckPacket}

(* Sequence flags.                                                         *)
CompleteSegment == 3

ProtocolID == 82
ProtocolVersion == 1
MinimumHeaderLength == 10
MaxPayloadLength == 65535
DefaultLogicalAddress == 254

(* What the fields hold in a packet that another node can make: what is    *)
(* not an address is as wide as its place in the header.                   *)
ChannelNumber == {n \in Nat : n < 65536}
Packet ==
    {p \in [destinationSpaceWireAddress : PathAddress, destinationLogicalAddress : LogicalAddress,
            secondaryHeaderFlag : 0 .. 1, sequenceFlags : 0 .. 3, packetType : 0 .. 7,
            channelNumber : ChannelNumber, sequenceNumber : Byte, prefix : Seq(Byte),
            sourceLogicalAddress : LogicalAddress, payload : Seq(Byte)] :
        Len(p.prefix) < 256 /\ Len(p.payload) <= MaxPayloadLength}

(* A packet as a transport end point prepares it for the far side: `far'   *)
(* is the way there, `near' the way back that goes with it as the prefix.  *)
PreparedPacket(channel, far, near) ==
    [destinationSpaceWireAddress |-> far.path, destinationLogicalAddress |-> far.address,
     secondaryHeaderFlag |-> 0, sequenceFlags |-> CompleteSegment, packetType |-> DataPacket,
     channelNumber |-> channel, sequenceNumber |-> 0, prefix |-> near.path,
     sourceLogicalAddress |-> near.address, payload |-> <<>>]

SetPayload(p, bytes) == [p EXCEPT !.payload = bytes]

-----------------------------------------------------------------------------
(* CRC-16: the table is linear, its entry for a byte the XOR of its        *)
(* entries for the bits of the byte, given here.  The register, shifted by *)
(* eight, loses its upper half, which chooses the entry.                   *)
CRCRow == [k \in 0 .. 7 |-> IF k < 4 THEN {k, k + 5, k + 12}
                                     ELSE {k - 4, k, k + 1, k + 5, k + 8}]

(* The register as a number of 16 bits, read from the highest bit.         *)
Word(bits) ==
    LET n[k \in 0 .. 16] == IF k = 0 THEN 0 ELSE 2 * n[k - 1] + (IF 16 - k \in bits THEN 1 ELSE 0)
    IN n[16]

Register(bytes) ==
    LET Entry(S) == {k \in 0 .. 15 : Cardinality({i \in S : k \in CRCRow[i]}) % 2 = 1}
        Next(crc, b) == SymDiff({k + 8 : k \in crc \cap (0 .. 7)},
                                Entry(SymDiff({k - 8 : k \in crc \cap (8 .. 15)}, BitsOf(b))))
    IN FoldLeft(Next, 0 .. 15, bytes)

CalculateCRC(bytes) == Word(Register(bytes))

-----------------------------------------------------------------------------
(* A number of 16 bits in the packet, the first of its bytes at i.         *)
NumberAt(bytes, i) == bytes[i] * 256 + bytes[i + 1]

PacketControl(p) == 64 * ProtocolVersion + 32 * p.secondaryHeaderFlag
                    + 8 * p.sequenceFlags + p.packetType

(* constructHeader()                                                       *)
HeaderOf(p) ==
    <<p.destinationLogicalAddress, ProtocolID, PacketControl(p)>>
    \o TwoBytes(Len(p.payload)) \o TwoBytes(p.channelNumber)
    \o <<p.sequenceNumber, Len(p.prefix) % 256>> \o p.prefix
    \o <<p.sourceLogicalAddress>>

(* getPacketBufferPointer(): the CRC covers header and payload, not the    *)
(* path address that the routers on the way take off.                      *)
PacketBuffer(p) ==
    LET body == HeaderOf(p) \o p.payload
    IN p.destinationSpaceWireAddress \o body \o TwoBytes(CalculateCRC(body))

-----------------------------------------------------------------------------
(* interpretPacket().  Path address left over comes first (bytes below     *)
(* 32); the positions of what follows, as the bytes announce them.         *)
HeaderStart(bytes) == SelectInSeq(bytes, LAMBDA b : b >= 32)
SourceAt(bytes) == HeaderStart(bytes) + 9 + bytes[HeaderStart(bytes) + 8]
PayloadLengthIn(bytes) == NumberAt(bytes, HeaderStart(bytes) + 3)
TrailerAt(bytes) == SourceAt(bytes) + 1 + PayloadLengthIn(bytes)

(* Every at() of the code finds its byte, the protocol is SpaceWire-R, and *)
(* the bytes end with the trailer.                                         *)
WellFormed(bytes) ==
    LET s == HeaderStart(bytes) IN
    /\ Len(bytes) >= MinimumHeaderLength
    /\ s # 0 /\ s + 8 <= Len(bytes)
    /\ bytes[s + 1] = ProtocolID
    /\ TrailerAt(bytes) + 1 = Len(bytes)

CRCIntact(bytes) ==
    NumberAt(bytes, TrailerAt(bytes))
        = CalculateCRC(SubSeq(bytes, HeaderStart(bytes), TrailerAt(bytes) - 1))

(* The packet, or nothing when an exception refuses the bytes.             *)
Interpret(bytes) ==
    LET s       == HeaderStart(bytes)
        t       == SourceAt(bytes)
        control == bytes[s + 2]
    IN IF ~WellFormed(bytes) \/ ~CRCIntact(bytes) THEN {}
       ELSE {[destinationSpaceWireAddress |-> SubSeq(bytes, 1, s - 1),
              destinationLogicalAddress |-> bytes[s],
              secondaryHeaderFlag |-> (control \div 32) % 2,
              sequenceFlags |-> (control \div 8) % 4,
              packetType |-> control % 8,
              channelNumber |-> NumberAt(bytes, s + 5),
              sequenceNumber |-> bytes[s + 7],
              prefix |-> SubSeq(bytes, s + 9, t - 1),
              sourceLogicalAddress |-> bytes[t],
              payload |-> SubSeq(bytes, t + 1, TrailerAt(bytes) - 1)]}

-----------------------------------------------------------------------------
(* constructAckForPacket(): `a' is the packet object the acknowledgement   *)
(* is built in, which keeps whatever is not set here.                      *)
AckType(type) ==
    CASE type \in {ControlPacketOpenCommand, ControlPacketCloseCommand} -> ControlAckPacket
      [] type = DataPacket -> DataAckPacket
      [] type = HeartBeatPacket -> HeartBeatAckPacket
      [] type = FlowControlPacket -> FlowControlPacket

\* Faulty variant: the acknowledgement goes out by the way the packet came.
ConstructAckByTheSameWay(a, p) ==
    IF IsAckPacket(p) THEN a
    ELSE [p EXCEPT !.destinationLogicalAddress = p.sourceLogicalAddress,
                   !.secondaryHeaderFlag = 0, !.sequenceFlags = CompleteSegment,
                   !.packetType = AckType(p.packetType),
                   !.prefix = <<>>, !.sourceLogicalAddress = p.destinationLogicalAddress,
                   !.payload = <<>>]

ConstructAckForPacket(a, p) ==
    IF IsAckPacket(p) THEN a
    ELSE [p EXCEPT !.destinationSpaceWireAddress = p.prefix,
                   !.destinationLogicalAddress = p.sourceLogicalAddress,
                   !.secondaryHeaderFlag = 0, !.sequenceFlags = CompleteSegment,
                   !.packetType = AckType(p.packetType),
                   !.prefix = <<>>, !.sourceLogicalAddress = p.destinationLogicalAddress,
                   !.payload = <<>>]

(* ... with the MASN, which "HeartBeat Ack shall not carry".               *)
ConstructAckForPacketWithFlowControl(a, p, masn) ==
    LET ack == ConstructAckForPacket(a, p)
    IN IF ack.packetType \in {DataAckPacket, ControlAckPacket}
       THEN SetPayload(ack, <<masn>>) ELSE ack
=============================================================================
