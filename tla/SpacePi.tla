------------------------------- MODULE SpacePi -------------------------------
(***************************************************************************)
(* SpaceWireIFOverSPI and SpaceWireSpacePiModule: SpaceWire through the    *)
(* FPGA of a SpacePi board, which the computer talks to over one SPI bus.  *)
(* The FPGA has room for one packet to send and one received.  Threads     *)
(* that send and the one thread that receives share the bus under a mutex, *)
(* a default pthread one, and receive() polls the interrupt line outside   *)
(* of it.  A packet is a value; what matters of its bytes is whether the   *)
(* module's buffer holds them.                                             *)
(***************************************************************************)
EXTENDS Naturals, Sequences, SequencesExt

CONSTANTS Writers, Reader,   \* the threads that call send(), the one that calls receive()
          SpiPackets,        \* what is sent
          TooLong,           \* those longer than 2046 bytes
          FarEnds,           \* how packets that arrive may end, "EOP" or "EEP"
          MaxSpiCalls,       \* bound: calls of each thread
          MaxSpiArrivals,    \* bound: packets that arrive
          MaxSpiOpens        \* bound: calls of open()

Nobody == "nobody"
SpiThreads == Writers \cup {Reader}

ASSUME SpacePiAssumption ==
    /\ Reader \notin Writers /\ Nobody \notin SpiThreads
    /\ TooLong \subseteq SpiPackets
    /\ FarEnds \subseteq {"EOP", "EEP"}
    /\ MaxSpiCalls \in [SpiThreads -> Nat] /\ MaxSpiArrivals \in Nat /\ MaxSpiOpens \in Nat

VARIABLES
    spiState,      \* state of the SpaceWireIF: "Closed" or "Opened"
    spiMutex,      \* who has locked it
    spiPlace,      \* where each thread is in its call
    spiRequest,    \* the packet each thread sends
    rxStatus,      \* the end of the packet, as receive() read it from the status
    txBuffer, rxBuffer,     \* the FPGA's buffers: no packet or one
    spiCalls, spiOpens,
    \* History: what was written to be sent, and has left; what arrived, and was given out;
    \* whether a send() has found the buffer taken since open().
    accepted, left, arrived, givenOut, refusedSend

fpgaBuffers == <<txBuffer, rxBuffer, accepted, left, arrived>>
spiHost     == <<spiState, spiMutex, spiPlace, spiRequest, rxStatus, spiCalls, spiOpens, givenOut,
                 refusedSend>>
spiVars     == <<spiHost, fpgaBuffers>>

Garbage == "garbage"

SpiInit ==
    /\ spiState = "Closed" /\ spiMutex = Nobody
    /\ spiPlace = [t \in SpiThreads |-> "idle"]
    /\ spiRequest = [t \in Writers |-> Garbage]
    /\ rxStatus = "EOP"
    /\ txBuffer = <<>> /\ rxBuffer = <<>>
    /\ spiCalls = [t \in SpiThreads |-> 0] /\ spiOpens = 0
    /\ accepted = <<>> /\ left = <<>> /\ arrived = <<>> /\ givenOut = <<>>
    /\ refusedSend = FALSE

Quiet == \A t \in SpiThreads : spiPlace[t] = "idle"

-----------------------------------------------------------------------------
(* open() and close()                                                      *)

\* A board that does not answer leaves the interface Closed, without an exception.
OpenSpi ==
    /\ spiState = "Closed" /\ spiOpens < MaxSpiOpens
    /\ spiOpens' = spiOpens + 1
    /\ \/ /\ spiState' = "Opened"
          /\ spiMutex' = Nobody
          /\ refusedSend' = FALSE
       \/ UNCHANGED <<spiState, spiMutex, refusedSend>>
    /\ UNCHANGED <<spiPlace, spiRequest, rxStatus, spiCalls, givenOut, fpgaBuffers>>

\* The module is deleted: the program closes when its threads have come back.
CloseSpi ==
    /\ spiState = "Opened" /\ Quiet
    /\ spiState' = "Closed"
    /\ UNCHANGED <<spiMutex, spiPlace, spiRequest, rxStatus, spiCalls, spiOpens, givenOut,
                   refusedSend, fpgaBuffers>>

-----------------------------------------------------------------------------
(* What both calls are made of.  The program calls them on an interface    *)
(* that is Opened: neither looks.                                          *)

BeginSpiCall(t, place) ==
    /\ spiState = "Opened" /\ spiPlace[t] = "idle"
    /\ spiCalls[t] < MaxSpiCalls[t]
    /\ spiCalls' = [spiCalls EXCEPT ![t] = @ + 1]
    /\ spiPlace' = [spiPlace EXCEPT ![t] = place]

Moves(t, from, to) ==
    /\ spiPlace[t] = from
    /\ spiPlace' = [spiPlace EXCEPT ![t] = to]

LockSpi(t, from, to) ==
    /\ Moves(t, from, to)
    /\ spiMutex = Nobody
    /\ spiMutex' = t

-----------------------------------------------------------------------------
(* send(): its result is dropped by SpaceWireIFOverSPI::send()             *)

BeginSpiSend(t) ==
    /\ BeginSpiCall(t, "lock")
    /\ \E p \in SpiPackets : spiRequest' = [spiRequest EXCEPT ![t] = p]
    /\ UNCHANGED <<spiState, spiMutex, rxStatus, spiOpens, givenOut, refusedSend, fpgaBuffers>>

LockToSendSpi(t) ==
    /\ LockSpi(t, "lock", "txStatus")
    /\ UNCHANGED <<spiState, spiRequest, rxStatus, spiCalls, spiOpens, givenOut, refusedSend,
                   fpgaBuffers>>

\* Faulty variant: the status is not looked at.
TxStatusIgnored(t) ==
    /\ Moves(t, "txStatus", "txBuffer")
    /\ UNCHANGED <<spiState, spiMutex, spiRequest, rxStatus, spiCalls, spiOpens, givenOut,
                   refusedSend, fpgaBuffers>>

\* "SpacePi TxBuffer is not empty": send() returns, and the mutex stays locked.
ReadTxStatus(t) ==
    /\ \/ /\ txBuffer = <<>>
          /\ Moves(t, "txStatus", "txBuffer")
          /\ UNCHANGED refusedSend
       \/ /\ txBuffer # <<>>
          /\ Moves(t, "txStatus", "idle")
          /\ refusedSend' = TRUE
    /\ UNCHANGED <<spiState, spiMutex, spiRequest, rxStatus, spiCalls, spiOpens, givenOut,
                   fpgaBuffers>>

\* What spi_cre_write_packet() makes of a packet: one that is too long is not copied.
Written(p) == IF p \in TooLong THEN Garbage ELSE p

WriteTxBuffer(t) ==
    /\ Moves(t, "txBuffer", "txCommand")
    /\ txBuffer' = <<Written(spiRequest[t])>>
    /\ UNCHANGED <<spiState, spiMutex, spiRequest, rxStatus, spiCalls, spiOpens, givenOut,
                   refusedSend, rxBuffer, accepted, left, arrived>>

CommandEOP(t) ==
    /\ Moves(t, "txCommand", "idle")
    /\ spiMutex' = Nobody
    /\ accepted' = Append(accepted, Written(spiRequest[t]))
    /\ spiRequest' = [spiRequest EXCEPT ![t] = Garbage]
    /\ UNCHANGED <<spiState, rxStatus, spiCalls, spiOpens, givenOut, refusedSend,
                   txBuffer, rxBuffer, left, arrived>>

-----------------------------------------------------------------------------
(* receive()                                                               *)

BeginSpiReceive(t) ==
    /\ BeginSpiCall(t, "polls")
    /\ UNCHANGED <<spiState, spiMutex, spiRequest, rxStatus, spiOpens, givenOut, refusedSend,
                   fpgaBuffers>>

\* The line is read outside the mutex, and the clock too: no timeout ends the
\* wait for the mutex.
PollInterrupt(t) ==
    /\ rxBuffer # <<>>
    /\ Moves(t, "polls", "rxLock")
    /\ UNCHANGED <<spiState, spiMutex, spiRequest, rxStatus, spiCalls, spiOpens, givenOut,
                   refusedSend, fpgaBuffers>>

SpiTimesOut(t) ==
    /\ Moves(t, "polls", "idle")
    /\ UNCHANGED <<spiState, spiMutex, spiRequest, rxStatus, spiCalls, spiOpens, givenOut,
                   refusedSend, fpgaBuffers>>

LockToReceive(t) ==
    /\ LockSpi(t, "rxLock", "rxStatus")
    /\ UNCHANGED <<spiState, spiRequest, rxStatus, spiCalls, spiOpens, givenOut, refusedSend,
                   fpgaBuffers>>

ReadRxStatus(t) ==
    /\ Moves(t, "rxStatus", "rxBuffer")
    /\ rxStatus' = Head(rxBuffer).end
    /\ UNCHANGED <<spiState, spiMutex, spiRequest, spiCalls, spiOpens, givenOut, refusedSend,
                   fpgaBuffers>>

\* "Invalid Packet Received!!": a packet with an EEP is not read, and receive()
\* gives out the buffer as it is, 2056 bytes of it.
ReadRxBuffer(t) ==
    /\ Moves(t, "rxBuffer", "rxClear")
    /\ givenOut' = Append(givenOut, IF rxStatus = "EOP" THEN Head(rxBuffer).packet ELSE Garbage)
    /\ UNCHANGED <<spiState, spiMutex, spiRequest, rxStatus, spiCalls, spiOpens, refusedSend,
                   fpgaBuffers>>

ClearInterrupt(t) ==
    /\ Moves(t, "rxClear", "idle")
    /\ rxBuffer' = <<>>
    /\ spiMutex' = Nobody
    /\ rxStatus' = "EOP"
    /\ UNCHANGED <<spiState, spiRequest, spiCalls, spiOpens, givenOut, refusedSend,
                   txBuffer, accepted, left, arrived>>

-----------------------------------------------------------------------------
(* The FPGA: it sends what it is told to, and takes a packet when it has   *)
(* room.                                                                   *)

FPGASends ==
    /\ txBuffer # <<>>
    /\ \A t \in Writers : spiPlace[t] # "txCommand"
    /\ left' = left \o txBuffer
    /\ txBuffer' = <<>>
    /\ UNCHANGED <<spiHost, rxBuffer, accepted, arrived>>

FPGAReceives ==
    /\ rxBuffer = <<>> /\ Len(arrived) < MaxSpiArrivals
    /\ \E p \in SpiPackets \ TooLong, end \in FarEnds :
          /\ rxBuffer' = <<[packet |-> p, end |-> end]>>
          /\ arrived' = arrived \o rxBuffer'
    /\ UNCHANGED <<spiHost, txBuffer, accepted, left>>

-----------------------------------------------------------------------------
SendSpiStep(t) ==
    LockToSendSpi(t) \/ ReadTxStatus(t) \/ WriteTxBuffer(t) \/ CommandEOP(t)
ReceiveSpiStep(t) ==
    \/ PollInterrupt(t) \/ SpiTimesOut(t)
    \/ LockToReceive(t) \/ ReadRxStatus(t) \/ ReadRxBuffer(t) \/ ClearInterrupt(t)

SpiNext ==
    \/ OpenSpi \/ CloseSpi \/ FPGASends \/ FPGAReceives
    \/ \E t \in Writers : BeginSpiSend(t) \/ SendSpiStep(t)
    \/ BeginSpiReceive(Reader) \/ ReceiveSpiStep(Reader)

(* Every thread that can go on goes on.                                    *)
SpiFairness ==
    /\ \A t \in Writers : WF_spiVars(SendSpiStep(t))
    /\ WF_spiVars(ReceiveSpiStep(Reader))

SpiSpec == SpiInit /\ [][SpiNext]_spiVars /\ SpiFairness

-----------------------------------------------------------------------------
(* Properties                                                              *)

OnTheBus == {"txStatus", "txBuffer", "txCommand", "rxStatus", "rxBuffer", "rxClear"}

SpiTypeOK ==
    /\ spiState \in {"Closed", "Opened"}
    /\ spiMutex \in SpiThreads \cup {Nobody}
    /\ spiPlace \in [SpiThreads -> OnTheBus \cup {"idle", "lock", "polls", "rxLock"}]
    /\ Len(txBuffer) <= 1 /\ Len(rxBuffer) <= 1
    /\ \A t \in SpiThreads : spiPlace[t] \in OnTheBus => spiMutex = t

\* What send() has put into the FPGA leaves it in that order and once, and none
\* is overwritten by the next; what comes out of receive() are the packets that
\* arrived, in order and once, except that one with an EEP gives garbage.
PacketsCrossTheBoard ==
    LET written == IF \E t \in Writers : spiPlace[t] = "txCommand" THEN <<>> ELSE txBuffer
        sure(e) == IF e.end = "EOP" THEN e.packet ELSE Garbage
    IN /\ accepted = left \o written
       /\ IsPrefix(givenOut, [i \in DOMAIN arrived |-> sure(arrived[i])])
       /\ Len(arrived) <= Len(givenOut) + Len(rxBuffer)

\* One thread at a time is on the bus (SpaceWireSpacePiModule.hh:140-186, 240-280), and with
\* that no packet is overwritten, repeated or lost on its way through the FPGA's buffers.
SpiInv == SpiTypeOK /\ PacketsCrossTheBoard

\* send() and receive() come back, whoever else uses the bus: but once a send()
\* has found the FPGA's buffer taken, and left the mutex locked, only closing the
\* interface and opening it again helps, and a thread that waits never gets there.
SpiCallsReturn ==
    \A t \in SpiThreads : spiPlace[t] # "idle" ~> (spiPlace[t] = "idle" \/ refusedSend)
=============================================================================
