------------------------------ MODULE SpaceWireR ------------------------------
(***************************************************************************)
(* One SpaceWire-R channel: the SpaceWireRTransmitTEP with the application *)
(* thread that calls it and its run() thread, the SpaceWireRReceiveTEP on  *)
(* the other node with its run() thread and its application, and the link  *)
(* between the two.  A direction of the link is one FIFO: packets on their *)
(* way, followed by those the SpaceWireREngine has already pushed to the   *)
(* end point.  The transmitter may emit heart beats; a failing SpaceWireIF *)
(* is the subject of SpaceWireREngine.                                     *)
(***************************************************************************)
EXTENDS SlidingWindow, Sequences, FiniteSets, SequencesExt

CONSTANTS Messages,     \* how many segments each message has that is sent
          MaxRetries,   \* maxRetryCount
          FlowControl,  \* enableFlowControl() was called on both end points
          InitialMASN,  \* what the uninitialised maximumAcceptableSequenceNumber can hold
          InitialFlags, \* what packetHasBeenSent and packetWasAcknowledged can hold
          AppCloses,    \* the sending application may call close()
          MaxOpens,     \* bound: calls of open()
          MaxHeartBeats, \* bound: heart beats emitted
          MaxLosses,    \* bound: packets lost
          LossyTypes,   \* the types of packet that may be lost
          Delays        \* what may be slow, see AllDelays

\* lateAck: a wait or retry timer may expire although an answer is on its way;
\* earlyWake: the sender, woken when the packet is marked acknowledged, runs
\* before the rest of the acknowledgement is processed; slowMark: an answer may
\* be processed before the packet has been marked as sent; sendTimeout: the
\* timeout of send() may be shorter than the recovery from a loss.
AllDelays == {"lateAck", "earlyWake", "slowMark", "sendTimeout"}

PacketTypes == {"Open", "Close", "Data", "HeartBeat", "Blank"}
AckTypes    == {"ControlAck", "DataAck", "HeartBeatAck"}
HeartBeats  == {"HeartBeat", "HeartBeatAck"}

ASSUME ChannelAssumption ==
    /\ Messages \in Seq(Nat \ {0})
    /\ MaxRetries \in Nat
    /\ FlowControl \in BOOLEAN
    /\ InitialMASN \subseteq SN
    /\ InitialFlags \subseteq BOOLEAN
    /\ AppCloses \in BOOLEAN
    /\ MaxOpens \in Nat
    /\ MaxHeartBeats \in Nat
    /\ MaxLosses \in Nat
    /\ LossyTypes \subseteq PacketTypes \cup AckTypes
    /\ Delays \subseteq AllDelays

VARIABLES
    \* the sending application and the SpaceWireRTransmitTEP
    tpc,          \* where the application's thread is
    message,      \* how many calls of send() were made; the last sends this message
    segment,      \* how many of its segments have been sent
    opens,        \* calls of open()
    tstate,       \* state
    sn,           \* sequenceNumber
    outstanding,  \* nOfOutstandingPackets
    slots,        \* slidingWindowBuffer
    sent,         \* packetHasBeenSent
    acked,        \* packetWasAcknowledged
    retries,      \* retryCountsForSequenceNumber
    from,         \* slidingWindowFrom
    masn,         \* maximumAcceptableSequenceNumber
    masnLapped,   \* masnGuardBit_true_if_MASNLapped_SNNotLappedYet
    openAcked,    \* openCommandAcknowledged
    closeAcked,   \* closeCommandAcknowledged
    ackInHand,    \* the acknowledgement processAckPacket() is working on
    beats,        \* heart beats emitted
    beatDue,      \* HeartBeatTimer has found the channel open and is about to emit one
    consuming,    \* while Closing: run() is still in the loop of consumeReceivedPackets()
    \* the SpaceWireRReceiveTEP and its application
    rpc,          \* where its run() thread is
    rstate,       \* state
    rbuffer,      \* receiveSlidingWindowBuffer
    rfrom,        \* receiveSlidingWindowFrom
    hasReceivedDataPacket,
    current,      \* currentApplicationData; not empty while isReceivingSegmentedApplicationData
    received,     \* receivedApplicationData
    delivered,    \* messages receive() returned
    released,     \* segments the receive window let through
    \* the link
    toR, toT,     \* packets on their way to the receiver, acknowledgements to the transmitter
    losses        \* packets lost so far

appVars    == <<tpc, message, segment, opens>>
windowVars == <<slots, sent, acked, retries, from>>
masnVars   == <<masn, masnLapped>>
ackVars    == <<openAcked, closeAcked, ackInHand, consuming>>
beatVars   == <<beats, beatDue>>
tVars == <<appVars, tstate, sn, outstanding, windowVars, masnVars, ackVars, beatVars>>
dataVars   == <<hasReceivedDataPacket, current, received, released>>
rVars == <<rpc, rstate, rbuffer, rfrom, dataVars, delivered>>
linkVars == <<toR, toT, losses>>
vars == <<tVars, rVars, linkVars>>

NoSegment == <<0, 0>>
Segments == UNION {{<<m, j>> : j \in 1 .. Messages[m]} : m \in 1 .. Len(Messages)}
Flags    == {"Complete", "First", "Continued", "Last"}

Packet(type, n) == [type |-> type, sn |-> n, flag |-> "Complete", seg |-> NoSegment]
Packets   == [type : PacketTypes, sn : SN, flag : Flags, seg : Segments \cup {NoSegment}]
NoMASN    == -1
Acks      == [type : AckTypes, sn : SN, masn : SN \cup {NoMASN}]
NoPacket  == Packet("Blank", -1)  \* a NULL pointer
NoAck     == [type |-> "DataAck", sn |-> -1, masn |-> -1]

\* Sequence flags of segment j of message m.
FlagOf(m, j) ==
    CASE Messages[m] = 1 -> "Complete"
      [] Messages[m] > 1 /\ j = 1 -> "First"
      [] Messages[m] > 1 /\ j = Messages[m] -> "Last"
      [] OTHER -> "Continued"

DataPacket(n, m, j) ==
    [type |-> "Data", sn |-> n, flag |-> FlagOf(m, j), seg |-> <<m, j>>]

\* constructAckForPacket(), with or without the MASN
AckFor(p) ==
    [type |-> CASE p.type = "Data" -> "DataAck"
                [] p.type = "HeartBeat" -> "HeartBeatAck"
                [] OTHER -> "ControlAck",
     sn   |-> p.sn,
     masn |-> IF FlowControl /\ p.type # "HeartBeat"
              THEN MaximumAcceptableSequenceNumber(rfrom) ELSE NoMASN]

Init ==
    /\ tpc = "idle" /\ message = 0 /\ segment = 0 /\ opens = 0
    /\ tstate = "Closed" /\ sn = 0 /\ outstanding = 0
    /\ slots = [n \in SN |-> Packet("Blank", 0)]
    /\ sent \in [SN -> InitialFlags]
    /\ acked \in [SN -> InitialFlags]
    /\ retries = [n \in SN |-> 0]
    /\ from = 0
    /\ beats = 0 /\ beatDue = FALSE
    /\ masn \in InitialMASN /\ masnLapped = FALSE
    /\ openAcked = FALSE /\ closeAcked = FALSE /\ ackInHand = NoAck /\ consuming = FALSE
    /\ rpc = "consume" /\ rstate = "Closed"
    /\ rbuffer = [n \in SN |-> NoPacket]
    /\ rfrom = 0
    /\ hasReceivedDataPacket = FALSE /\ current = <<>> /\ received = <<>>
    /\ delivered = <<>> /\ released = <<>>
    /\ toR = <<>> /\ toT = <<>> /\ losses = 0

-----------------------------------------------------------------------------
(* The link                                                                *)

Lose(type) == /\ type \in LossyTypes
              /\ losses < MaxLosses
              /\ losses' = losses + 1

SendToR(p) == \/ toR' = Append(toR, p) /\ UNCHANGED losses
              \/ Lose(p.type) /\ UNCHANGED toR

SendToT(a) == \/ toT' = Append(toT, a) /\ UNCHANGED losses
              \/ Lose(a.type) /\ UNCHANGED toT

\* An answer to packet n may still come.
InFlight(n) ==
    LET about(p) == p.sn = n /\ p.type \notin HeartBeats
    IN \/ \E i \in DOMAIN toR : about(toR[i])
       \/ \E i \in DOMAIN toT : about(toT[i])
       \/ about(ackInHand)

-----------------------------------------------------------------------------
(* The sending application's thread                                        *)

\* malfunctioningTransportChannel() closes the channel, deregisters the end
\* point and reads through a NULL pointer: the process dies.
Malfunction == tpc' = "crashed" /\ tstate' = "Closed"

Open ==
    /\ tpc = "idle"
    /\ tstate \in {"Closed", "Enabled"}
    /\ opens < MaxOpens
    /\ opens' = opens + 1
    /\ sn' = 0
    /\ outstanding' = 1
    /\ retries' = [n \in SN |-> 0]
    /\ openAcked' = FALSE
    /\ closeAcked' = FALSE
    /\ consuming' = FALSE
    /\ \/ /\ slots[0] # NoPacket
          /\ slots' = [slots EXCEPT ![0] = Packet("Open", 0)]
          /\ tstate' = "Enabled"
          /\ tpc' = "opening"
       \/ slots[0] = NoPacket /\ Malfunction /\ UNCHANGED slots
    /\ UNCHANGED <<message, segment, sent, acked, from, masnVars, ackInHand,
                   beatVars, rVars, linkVars>>

SendOpenCommand ==
    /\ tpc = "opening"
    /\ SendToR(slots[0])
    /\ tpc' = "openSent"
    /\ UNCHANGED <<message, segment, opens, tstate, sn, outstanding, windowVars, masnVars,
                   ackVars, beatVars, rVars, toT>>

\* conditionForSendWait.wait() in the loop of sendOpenCommand()
OpenWaitMayEnd ==
    \/ openAcked
    \/ "lateAck" \in Delays
    \/ "earlyWake" \in Delays /\ ackInHand # NoAck
    \/ ~InFlight(0)

\* The retry is counted, and may be one too many, before the acknowledgement is
\* looked at.
OpenWaitEnds ==
    /\ tpc = "openWait"
    /\ OpenWaitMayEnd
    /\ retries' = [retries EXCEPT ![0] = @ + 1]
    /\ \/ retries[0] + 1 > MaxRetries /\ tpc' = "idle" /\ UNCHANGED <<sn, tstate>>
       \/ /\ retries[0] + 1 <= MaxRetries
          /\ ~openAcked
          /\ tpc' = "opening"
          /\ UNCHANGED <<sn, tstate>>
       \/ /\ retries[0] + 1 <= MaxRetries
          /\ openAcked
          /\ tpc' = "idle"
          /\ sn' = 1
          /\ tstate' = "Open"
    /\ UNCHANGED <<message, segment, opens, outstanding, slots, sent, acked, from, masnVars,
                   ackVars, beatVars, rVars, linkVars>>

Send ==
    /\ tpc = "idle"
    /\ tstate = "Open"
    /\ message < Len(Messages)
    /\ message' = message + 1
    /\ segment' = 0
    /\ outstanding' = 0
    /\ tpc' = "sending"
    /\ UNCHANGED <<opens, tstate, sn, windowVars, masnVars, ackVars, beatVars, rVars, linkVars>>

MasnAllowsToSend == masnLapped \/ sn <= masn

\* One pass of the loop of send() up to the transmission; the run() thread can
\* meanwhile only widen the window.
SendSegment ==
    /\ tpc = "sending"
    /\ FlowControl => MasnAllowsToSend
    /\ InsideForwardSlidingWindow(from, sn)
    /\ slots[sn] # NoPacket
    /\ segment' = segment + 1
    /\ slots' = [slots EXCEPT ![sn] = DataPacket(sn, message, segment + 1)]
    /\ sn' = Wrap(sn + 1)
    /\ masnLapped' = IF sn' = 0 THEN ~masnLapped ELSE masnLapped
    /\ \/ /\ outstanding < K
          /\ outstanding' = outstanding + 1
          /\ SendToR(DataPacket(sn, message, segment + 1))
          /\ tpc' = "segmentSent"
          /\ UNCHANGED tstate
       \/ outstanding >= K /\ Malfunction /\ UNCHANGED <<outstanding, toR, losses>>
    /\ UNCHANGED <<message, opens, sent, acked, retries, from, masn, ackVars,
                   beatVars, rVars, toT>>

\* packetHasBeenSent[...] = true comes after sendPacket() has returned.
Marking(n) == \/ tpc \in {"openSent", "closeSent"} /\ n = 0
              \/ tpc = "segmentSent" /\ n = Wrap(sn - 1)

MarkSent ==
    /\ \E n \in SN : Marking(n) /\ sent' = [sent EXCEPT ![n] = TRUE]
    /\ tpc' = CASE tpc = "openSent" -> "openWait"
                [] tpc = "closeSent" -> "closeWait"
                [] OTHER -> IF segment = Messages[message] THEN "waiting" ELSE "sending"
    /\ UNCHANGED <<message, segment, opens, tstate, sn, outstanding, slots, acked, retries, from,
                   masnVars, ackVars, beatVars, rVars, linkVars>>

SendTimesOut ==
    /\ tpc = "sending"
    /\ "sendTimeout" \in Delays
    /\ Malfunction
    /\ UNCHANGED <<message, segment, opens, sn, outstanding, windowVars, masnVars, ackVars,
                   beatVars, rVars, linkVars>>

RetryTimerExpired(n) ==
    /\ n \in Numbers(from, K)
    /\ sent[n]
    /\ ~acked[n]
    /\ "lateAck" \in Delays \/ ~InFlight(n)

\* The window is gone through from its start, in one locked pass, and all counters run
\* alike: a packet has been retried before one that was sent after it.  (The count of slot
\* 0 may hold the tries of open(), and a heart beat starts its counter anew.)
RetriedInOrder(n) ==
    \/ n = 0
    \/ \A m \in Numbers(from, Wrap(n - from)) :
           sent[m] /\ ~acked[m] /\ (m # 0 \/ beats = 0) => retries[m] > retries[n]

\* checkRetryTimerThenRetry(), one packet at a time, in send() or before a heart beat
Retry(n) ==
    /\ tpc \in {"sending", "waiting"} \/ (beatDue /\ tpc \notin {"segmentSent", "crashed"})
    /\ RetryTimerExpired(n)
    /\ RetriedInOrder(n)
    /\ retries' = [retries EXCEPT ![n] = @ + 1]
    /\ \/ /\ retries[n] + 1 <= MaxRetries
          /\ SendToR([slots[n] EXCEPT !.sn = n])
          /\ UNCHANGED <<tpc, tstate>>
       \/ retries[n] + 1 > MaxRetries /\ Malfunction /\ UNCHANGED <<toR, losses>>
    /\ UNCHANGED <<message, segment, opens, sn, outstanding, slots, sent, acked, from, masnVars,
                   ackVars, beatVars, rVars, toT>>

SendReturns ==
    /\ tpc = "waiting"
    /\ outstanding = 0
    /\ tpc' = "idle"
    /\ UNCHANGED <<message, segment, opens, tstate, sn, outstanding, windowVars, masnVars,
                   ackVars, beatVars, rVars, linkVars>>

\* close() of a channel that is not closed sends a Close command in whatever slot
\* comes next, numbered 0.  run() does nothing while Closing, unless it is still
\* in the loop that consumes packets.
Close ==
    /\ tpc = "idle"
    /\ AppCloses
    /\ tstate \in {"Enabled", "Open"}
    /\ \/ /\ InsideForwardSlidingWindow(from, sn)
          /\ slots[sn] # NoPacket
          /\ slots' = [slots EXCEPT ![sn] = Packet("Close", 0)]
          /\ tstate' = "Closing"
          /\ tpc' = "closing"
       \/ /\ InsideForwardSlidingWindow(from, sn) => slots[sn] = NoPacket
          /\ Malfunction
          /\ UNCHANGED slots
    /\ sn' = 0
    /\ closeAcked' = FALSE
    /\ consuming' \in BOOLEAN
    /\ UNCHANGED <<message, segment, opens, outstanding, sent, acked, retries, from, masnVars,
                   openAcked, ackInHand, beatVars, rVars, linkVars>>

SendCloseCommand ==
    /\ tpc = "closing"
    /\ SendToR(Packet("Close", 0))
    /\ tpc' = "closeSent"
    /\ UNCHANGED <<message, segment, opens, tstate, sn, outstanding, windowVars, masnVars,
                   ackVars, beatVars, rVars, toT>>

\* The wait is bounded by 500 ms; hardly ever is anybody there to end it sooner.
CloseWaitEnds ==
    /\ tpc = "closeWait"
    /\ retries' = [retries EXCEPT ![0] = @ + 1]
    /\ tpc' = IF retries[0] + 1 > MaxRetries \/ closeAcked THEN "closed" ELSE "closing"
    /\ UNCHANGED <<message, segment, opens, tstate, sn, outstanding, slots, sent, acked, from,
                   masnVars, ackVars, beatVars, rVars, linkVars>>

\* The buffer is emptied, the packets are not put back.
InitialiseSlidingWindow ==
    /\ tpc' = "idle"
    /\ tstate' = "Closed"
    /\ slots' = [n \in SN |-> NoPacket]
    /\ from' = 0
    /\ retries' = [n \in SN |-> 0]
    /\ openAcked' = FALSE
    /\ closeAcked' = FALSE
    /\ UNCHANGED <<message, segment, opens, sn, outstanding, sent, acked, masnVars, ackInHand,
                   consuming, beatVars, rVars, linkVars>>

CloseReturns == tpc = "closed" /\ InitialiseSlidingWindow

\* close() of a channel that is not open still empties the buffer.
CloseClosedChannel ==
    /\ tpc = "idle"
    /\ AppCloses
    /\ tstate = "Closed"
    /\ InitialiseSlidingWindow

-----------------------------------------------------------------------------
(* The HeartBeatTimer's thread                                             *)

HeartBeatDue ==
    /\ tstate = "Open" /\ tpc # "crashed"
    /\ ~beatDue
    /\ beats < MaxHeartBeats
    /\ beatDue' = TRUE
    /\ UNCHANGED <<appVars, tstate, sn, outstanding, windowVars, masnVars, ackVars, beats, rVars,
                   linkVars>>

\* emitHeartBeatPacket(): the mutex is free unless send() runs.  The packet, numbered
\* 0, is written into the slot that comes next; no slot, and the exception ends the
\* process.  As no packet is outstanding nothing is waited for.
EmitHeartBeat ==
    /\ beatDue
    /\ tpc \notin {"sending", "segmentSent", "waiting", "crashed"}
    /\ beatDue' = FALSE
    /\ beats' = beats + 1
    /\ LET room == InsideForwardSlidingWindow(from, sn) /\ slots[sn] # NoPacket IN
       \/ /\ room
          /\ slots' = [slots EXCEPT ![sn] = Packet("HeartBeat", 0)]
          /\ outstanding' = 0
          /\ SendToR(Packet("HeartBeat", 0))
          /\ UNCHANGED tpc
       \/ /\ ~room
          /\ tpc' = "crashed"
          /\ UNCHANGED <<slots, outstanding, toR, losses>>
    /\ UNCHANGED <<message, segment, opens, tstate, sn, sent, acked, retries, from, masnVars,
                   ackVars, rVars, toT>>

-----------------------------------------------------------------------------
(* The run() thread of the SpaceWireRTransmitTEP: processAckPacket()       *)

\* Faulty variant: the call is missing.
DecrementForgotten == UNCHANGED <<outstanding, tpc, tstate>>

\* Faulty variant: the last outstanding packet counts as none.
DecrementOffByOne ==
    \/ outstanding > 1 /\ outstanding' = outstanding - 1 /\ UNCHANGED <<tpc, tstate>>
    \/ outstanding <= 1 /\ Malfunction /\ UNCHANGED outstanding

\* Faulty variant: one acknowledgement settles everything.
DecrementToZero == outstanding' = 0 /\ UNCHANGED <<tpc, tstate>>

DecrementNOfOutstandingPackets ==
    \/ outstanding # 0 /\ outstanding' = outstanding - 1 /\ UNCHANGED <<tpc, tstate>>
    \/ outstanding = 0 /\ Malfunction /\ UNCHANGED outstanding

\* Up to the signal at the end of decrementNOfOutstandingPackets().
TakeAck ==
    /\ tpc # "crashed"
    /\ ackInHand = NoAck
    /\ toT # <<>>
    /\ tstate \in {"Enabled", "Open"} \/ consuming
    /\ "slowMark" \in Delays \/ ~Marking(Head(toT).sn)
    /\ ackInHand' = Head(toT)
    /\ toT' = Tail(toT)
    /\ LET n == Head(toT).sn IN
       \/ ~sent[n] /\ UNCHANGED <<acked, outstanding, tpc, tstate>>
       \/ /\ sent[n]
          /\ acked' = [acked EXCEPT ![n] = TRUE]
          /\ DecrementNOfOutstandingPackets
    /\ UNCHANGED <<message, segment, opens, sn, slots, sent, retries, from, masnVars, openAcked,
                   closeAcked, consuming, beatVars, rVars, toR, losses>>

\* Faulty variant: the slots that were passed stay marked as acknowledged.
SlideKeepsAcked ==
    LET k      == RunLength(from, {n \in SN : sent[n] /\ acked[n]})
        passed == Numbers(from, k)
    IN /\ sent' = [n \in SN |-> sent[n] /\ n \notin passed]
       /\ retries' = [n \in SN |-> IF n \in passed THEN 0 ELSE retries[n]]
       /\ from' = Wrap(from + k)
       /\ UNCHANGED acked

SlideSlidingWindow ==
    LET k      == RunLength(from, {n \in SN : sent[n] /\ acked[n]})
        passed == Numbers(from, k)
    IN /\ sent' = [n \in SN |-> sent[n] /\ n \notin passed]
       /\ acked' = [n \in SN |-> acked[n] /\ n \notin passed]
       /\ retries' = [n \in SN |-> IF n \in passed THEN 0 ELSE retries[n]]
       /\ from' = Wrap(from + k)

UpdateMaximumAcceptableSequenceNumber(newMASN) ==
    /\ masn' = newMASN
    /\ masnLapped' = IF newMASN < masn THEN ~masnLapped ELSE masnLapped

FinishAck ==
    /\ tpc # "crashed"
    /\ ackInHand # NoAck
    /\ LET a == ackInHand
           Answers(type) == a.type = "ControlAck" /\ slots[a.sn].type = type
           updates == /\ a.type = "ControlAck" => slots[a.sn] # NoPacket
                      /\ FlowControl => a.masn # NoMASN
       IN \/ /\ updates
             /\ openAcked' = (openAcked \/ Answers("Open"))
             /\ closeAcked' = (closeAcked \/ Answers("Close"))
             /\ IF FlowControl THEN UpdateMaximumAcceptableSequenceNumber(a.masn)
                               ELSE UNCHANGED masnVars
             /\ SlideSlidingWindow
             /\ UNCHANGED <<tpc, tstate>>
          \/ /\ ~updates
             /\ Malfunction
             /\ UNCHANGED <<openAcked, closeAcked, masnVars, sent, acked, retries, from>>
    /\ ackInHand' = NoAck
    /\ consuming' \in {consuming, FALSE}
    /\ UNCHANGED <<message, segment, opens, sn, outstanding, slots, beatVars, rVars, linkVars>>

\* discardReceivedPackets()
TransmitterDiscards ==
    /\ tpc # "crashed"
    /\ tstate = "Closed"
    /\ ~consuming
    /\ ackInHand = NoAck
    /\ toT # <<>>
    /\ toT' = Tail(toT)
    /\ UNCHANGED <<tVars, rVars, toR, losses>>

-----------------------------------------------------------------------------
(* The SpaceWireRReceiveTEP                                                *)

ReceiverOpen ==
    /\ rpc = "consume"
    /\ rstate = "Closed"
    /\ rstate' = "Enabled"
    /\ UNCHANGED <<tVars, rpc, rbuffer, rfrom, dataVars, delivered, linkVars>>

\* Not opened yet, or stopped and no longer known to the SpaceWireREngine.
ReceiverDiscards ==
    /\ rstate = "Closed"
    /\ toR # <<>>
    /\ toR' = Tail(toR)
    /\ UNCHANGED <<tVars, rVars, toT, losses>>

\* Faulty variant: the message is handed over before its last segment is appended.
CompleteWithoutLast(data, p) ==
    [data EXCEPT !.received = Append(@, data.current),
                 !.current = <<>>, !.segments = Append(@, p.seg)]

CompleteServiceDataUnit(data, p) ==
    [data EXCEPT !.received = Append(@, Append(data.current, p.seg)),
                 !.current = <<>>, !.segments = Append(@, p.seg)]

\* reconstructApplicationData(): data is what the segments so far amount to.
Reconstruct(data, p) ==
    LET assembling == data.current # <<>> IN
    CASE p.type # "Data" -> data
      [] p.type = "Data" /\ ~assembling /\ p.flag = "First" ->
            [data EXCEPT !.current = <<p.seg>>, !.segments = Append(@, p.seg)]
      [] p.type = "Data" /\ assembling /\ p.flag = "Continued" ->
            [data EXCEPT !.current = Append(@, p.seg), !.segments = Append(@, p.seg)]
      [] p.type = "Data" /\ p.flag = (IF assembling THEN "Last" ELSE "Complete") ->
            CompleteServiceDataUnit(data, p)
      [] OTHER -> [data EXCEPT !.malfunction = TRUE]

\* slideReceiveSlidingWindow() once buffer holds the new packet; the end point is
\* in state unless the segments do not fit together.
SlideReceiveSlidingWindow(buffer, state) ==
    LET k == RunLength(rfrom, {n \in SN : buffer[n] # NoPacket})
        after[j \in 0 .. k] ==
            IF j = 0 THEN [current |-> current, received |-> received, segments |-> <<>>,
                           malfunction |-> FALSE]
                     ELSE Reconstruct(after[j - 1], buffer[Wrap(rfrom + j - 1)])
        data == after[k]
    IN /\ rbuffer' = [n \in SN |-> IF n \in Numbers(rfrom, k) THEN NoPacket ELSE buffer[n]]
       /\ rfrom' = Wrap(rfrom + k)
       /\ current' = data.current
       /\ received' = data.received
       /\ released' = released \o data.segments
       /\ hasReceivedDataPacket' =
             (hasReceivedDataPacket \/ \E n \in Numbers(rfrom, k) : buffer[n].type = "Data")
       /\ rstate' = IF data.malfunction THEN "Closing" ELSE state

\* The head of the queue when consumeReceivedPackets() takes it: in any state but
\* Closed, for a batch goes on after the end point has moved to Closing.
Consume(type) ==
    /\ rpc = "consume"
    /\ rstate # "Closed"
    /\ toR # <<>>
    /\ Head(toR).type = type
    /\ toR' = Tail(toR)
    /\ UNCHANGED <<tVars, rpc, delivered>>

\* processDataPacket(): the acknowledgement goes out before the window slides.
ReceiveData ==
    /\ Consume("Data")
    /\ LET p == Head(toR) IN
       \/ /\ InsideForwardReceiveSlidingWindow(rfrom, p.sn)
          /\ SendToT(AckFor(p))
          /\ \/ /\ rbuffer[p.sn] = NoPacket
                /\ SlideReceiveSlidingWindow([rbuffer EXCEPT ![p.sn] = p], rstate)
             \/ rbuffer[p.sn] # NoPacket /\ UNCHANGED <<rstate, rbuffer, rfrom, dataVars>>
       \/ /\ ~InsideForwardReceiveSlidingWindow(rfrom, p.sn)
          /\ InsideBackwardReceiveSlidingWindow(rfrom, p.sn)
          /\ SendToT(AckFor(p))
          /\ UNCHANGED <<rstate, rbuffer, rfrom, dataVars>>
       \/ /\ ~InsideForwardReceiveSlidingWindow(rfrom, p.sn)
          /\ ~InsideBackwardReceiveSlidingWindow(rfrom, p.sn)
          /\ rstate' = "Closing"
          /\ UNCHANGED <<rbuffer, rfrom, dataVars, toT, losses>>

ReceiveOpenCommand ==
    /\ Consume("Open")
    /\ LET p == Head(toR) IN
       \/ /\ rstate = "Enabled"
          /\ ~hasReceivedDataPacket
          /\ SendToT(AckFor(p))
          /\ SlideReceiveSlidingWindow([rbuffer EXCEPT ![p.sn] = p], "Open")
       \/ /\ rstate # "Enabled" \/ hasReceivedDataPacket
          /\ rstate' = "Closing"
          /\ UNCHANGED <<rbuffer, rfrom, dataVars, toT, losses>>

ReceiveHeartBeat ==
    /\ Consume("HeartBeat")
    /\ SendToT(AckFor(Head(toR)))
    /\ UNCHANGED <<rstate, rbuffer, rfrom, dataVars>>

ReceiveCloseCommand ==
    /\ Consume("Close")
    /\ SendToT(AckFor(Head(toR)))
    /\ rstate' = "Closing"
    /\ UNCHANGED <<rbuffer, rfrom, dataVars>>

\* run() notices the state once the batch is over.
StartClosing ==
    /\ rpc = "consume"
    /\ rstate = "Closing"
    /\ rpc' = "drain"
    /\ UNCHANGED <<tVars, rstate, rbuffer, rfrom, dataVars, delivered, linkVars>>

\* In Closing everything but a Close command is thrown away.
Drain ==
    /\ rpc = "drain"
    /\ toR # <<>>
    /\ toR' = Tail(toR)
    /\ \/ Head(toR).type = "Close" /\ SendToT(AckFor(Head(toR)))
       \/ Head(toR).type # "Close" /\ UNCHANGED <<toT, losses>>
    /\ UNCHANGED <<tVars, rVars>>

DrainEnds ==
    /\ rpc = "drain"
    /\ rpc' = "linger"
    /\ UNCHANGED <<tVars, rstate, rbuffer, rfrom, dataVars, delivered, linkVars>>

\* closed(): received messages that nobody fetched are deleted, the thread stops.
ReceiverClosed ==
    /\ rpc = "linger"
    /\ rpc' = "stopped"
    /\ rstate' = "Closed"
    /\ rbuffer' = [n \in SN |-> NoPacket]
    /\ rfrom' = 0
    /\ hasReceivedDataPacket' = FALSE
    /\ received' = <<>>
    /\ UNCHANGED <<tVars, current, released, delivered, linkVars>>

\* receive(): a call that found the channel Open may return after it is not.
Receive ==
    /\ rstate \in {"Open", "Closing"}
    /\ received # <<>>
    /\ delivered' = Append(delivered, Head(received))
    /\ received' = Tail(received)
    /\ UNCHANGED <<tVars, rpc, rstate, rbuffer, rfrom, hasReceivedDataPacket, current, released,
                   linkVars>>

-----------------------------------------------------------------------------
\* The application's thread inside a call, and the two run() threads
CallStep ==
    \/ SendOpenCommand \/ OpenWaitEnds
    \/ SendSegment \/ MarkSent \/ SendTimesOut \/ SendReturns
    \/ \E n \in SN : Retry(n)
    \/ SendCloseCommand \/ CloseWaitEnds \/ CloseReturns

HeartBeatRun == HeartBeatDue \/ EmitHeartBeat

TransmitterRun == TakeAck \/ FinishAck \/ TransmitterDiscards

ReceiverRun ==
    \/ ReceiverDiscards \/ ReceiveData \/ ReceiveOpenCommand \/ ReceiveCloseCommand
    \/ ReceiveHeartBeat
    \/ StartClosing \/ Drain \/ DrainEnds \/ ReceiverClosed

Next ==
    \/ Open \/ Send \/ Close \/ CloseClosedChannel \/ CallStep
    \/ TransmitterRun \/ HeartBeatRun
    \/ ReceiverOpen \/ Receive \/ ReceiverRun

Spec == Init /\ [][Next]_vars

FairSpec == Spec /\ WF_vars(CallStep) /\ WF_vars(TransmitterRun) /\ WF_vars(ReceiverRun)

-----------------------------------------------------------------------------
(* Properties                                                              *)

\* What the theorems ask of an instance: one life of a channel in which an acknowledgement
\* can be told from another.  open() is called once, no heart beats are sent, the flags of the
\* send window start as FALSE, and no answer is processed before its packet has been marked
\* as sent.
PlainChannel ==
    /\ MaxOpens <= 1
    /\ MaxHeartBeats = 0
    /\ InitialFlags \subseteq {FALSE}
    /\ "slowMark" \notin Delays

TypeOK ==
    /\ tpc \in {"idle", "opening", "openSent", "openWait", "sending", "segmentSent", "waiting",
               "closing", "closeSent", "closeWait", "closed", "crashed"}
    /\ message \in 0 .. Len(Messages)
    /\ segment \in Nat /\ (message > 0 => segment <= Messages[message])
    /\ opens \in 0 .. MaxOpens
    /\ tstate \in {"Closed", "Enabled", "Open", "Closing"}
    /\ sn \in SN /\ outstanding \in 0 .. K
    /\ slots \in [SN -> Packets \cup {NoPacket}]
    /\ sent \in [SN -> BOOLEAN] /\ acked \in [SN -> BOOLEAN]
    /\ retries \in [SN -> Nat]
    /\ from \in SN
    /\ beats \in 0 .. MaxHeartBeats /\ beatDue \in BOOLEAN
    /\ masn \in SN /\ masnLapped \in BOOLEAN
    /\ openAcked \in BOOLEAN /\ closeAcked \in BOOLEAN /\ consuming \in BOOLEAN
    /\ ackInHand \in Acks \cup {NoAck}
    /\ rpc \in {"consume", "drain", "linger", "stopped"}
    /\ rstate \in {"Closed", "Enabled", "Open", "Closing"}
    /\ rbuffer \in [SN -> Packets \cup {NoPacket}]
    /\ rfrom \in SN
    /\ hasReceivedDataPacket \in BOOLEAN
    /\ current \in Seq(Segments)
    /\ received \in Seq(Seq(Segments)) /\ delivered \in Seq(Seq(Segments))
    /\ released \in Seq(Segments)
    /\ toR \in Seq(Packets) /\ toT \in Seq(Acks)
    /\ losses \in 0 .. MaxLosses

SegmentsOf(m, n) == [j \in 1 .. n |-> <<m, j>>]

\* The segments handed to the channel so far, in order.
Given == FlattenSeq([m \in 1 .. message |->
                        SegmentsOf(m, IF m = message THEN segment ELSE Messages[m])])

\* The windows, acknowledgements and retries of the two end points
\* (SpaceWireRTransmitTEP.hh:390-518, SpaceWireRReceiveTEP.hh:502-578) amount to a
\* stream: whatever is lost, late or sent again, the segments come out in order and once.
Stream == INSTANCE SegmentStream WITH given <- Given, out <- released
StreamSpec == Stream!Spec

\* reconstructApplicationData() (SpaceWireRReceiveTEP.hh:581-669) gives back the messages
\* passed to send(), whole and in order; those a closing receiver deletes were not fetched.
MessagesIntact ==
    IsPrefix(delivered \o received,
             [m \in 1 .. message |-> SegmentsOf(m, Messages[m])])

Accepted == {released[i] : i \in DOMAIN released} \cup {rbuffer[n].seg : n \in SN}

\* The transmitter believes a segment acknowledged (SpaceWireRTransmitTEP.hh:363-366) only if
\* the receiver has it, even where the sequence numbers have come round.  (Once close() is
\* called nothing relies on the flags: Close is numbered 0, and the run loop can still take its
\* acknowledgement for that of slot 0.)
AckedWasReceived ==
    rpc # "stopped" /\ tstate = "Open" =>
        \A n \in SN : sent[n] /\ acked[n] /\ slots[n].type = "Data" => slots[n].seg \in Accepted

\* The invariant of the channel: its state is well formed (SpaceWireRTEP.hh:50-130), and the
\* transmitter frees no slot (SpaceWireRTransmitTEP.hh:363-379) the receiver still needs.
ChannelInv == TypeOK /\ AckedWasReceived

\* No data packet, however late, falls outside both windows of the receiver and so closes it
\* (SpaceWireRReceiveTEP.hh:537-554).
DataNeverClosesReceiver == [][ReceiveData => rstate' = rstate]_vars

\* nOfOutstandingPackets, which send() relies on to know that it is done, is the number of
\* packets in the window that are not acknowledged (SpaceWireRTEP.hh:629-656).
OutstandingExact ==
    tpc \in {"sending", "segmentSent", "waiting"} =>
        outstanding = Cardinality({n \in Numbers(from, K) : (sent[n] \/ Marking(n)) /\ ~acked[n]})

\* send() returns after "all sent packets were acknowledged" (SpaceWireRTransmitTEP.hh:503):
\* the receiver has released every segment of the message.
ReturnsWhenReceived ==
    SendReturns /\ rpc # "stopped" =>
        \A j \in 1 .. Messages[message] : <<message, j>> \in Accepted
SendReturnsReceived == [][ReturnsWhenReceived]_vars

\* As long as fewer packets are lost than the retries allow and the acknowledgement of Open is
\* not among them, the receiver declares no malfunction (SpaceWireRReceiveTEP.hh:714), and the
\* transmitter ends (SpaceWireRTransmitTEP.hh:149) in one way only: a heart beat finds the
\* window full, because send() has returned between the two halves of processAckPacket()
\* (SpaceWireRTransmitTEP.hh:365-380), and its exception is caught by nobody
\* (SpaceWireRTEP.hh:822-824).
GivesUpOnlyForHeartBeat ==
    /\ rstate' # "Closing"
    /\ tpc # "crashed" /\ tpc' = "crashed" =>
          EmitHeartBeat /\ ackInHand # NoAck /\ Wrap(sn - from) = K

\* An Open command is refused because "one or more Data packet have been received"
\* (SpaceWireRReceiveTEP.hh:409).
OpenRefusedOnlyAfterData ==
    [][ReceiveOpenCommand /\ rstate' = "Closing" => hasReceivedDataPacket]_vars

\* With flow control send() "should wait until masn becomes larger than n"
\* (SpaceWireRTransmitTEP.hh:571): a segment is sent only if its number is not beyond the
\* last MASN received; windows are narrower than half the numbers, so this is exact.
SendsUpToMASN == SendSegment => Wrap(masn - sn) < K
SendsOnlyUpToMASN == [][SendsUpToMASN]_vars

\* send() (SpaceWireRTransmitTEP.hh:390) comes to its end, with the channel still open.
SendCompletes == (tpc = "sending") ~> (tpc = "idle" /\ tstate = "Open")

\* Every call returns or gives the channel up (SpaceWireRTransmitTEP.hh:94-124, 390-518),
\* whatever is lost or late: nothing waits for an acknowledgement that cannot come.
EveryCallEnds == (tpc # "idle") ~> (tpc \in {"idle", "crashed"})

\* close() repeats the Close command (SpaceWireRTransmitTEP.hh:653-662): an open receiver gets
\* to its end, if one packet is lost and open() has left a second try.
CloseReachesReceiver ==
    (tpc = "closing" /\ rstate = "Open" /\ retries[0] < MaxRetries) ~> (rpc = "stopped")
=============================================================================
