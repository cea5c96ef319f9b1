------------------------------- MODULE SSDTP -------------------------------
(***************************************************************************)
(* SpaceWireSSDTPModule and the calls SpaceWireIFOverTCP makes of it:      *)
(* SpaceWire packets and time codes framed over a TCP stream.  Threads of  *)
(* one end send, threads of the other end receive.  A frame is a flag, a   *)
(* reserved byte, a size and a body; TCP delivers bytes in any pieces, and *)
(* a wait for bytes may time out at any point.                             *)
(***************************************************************************)
EXTENDS Integers, Sequences, SequencesExt, FiniteSets

CONSTANTS Senders, Receivers,
          SendRequests,   \* [call, data, eop] or [call, code]
          ReceiveCalls,   \* subset of {"pointer", "value"}
          MaxSendCalls,       \* bound: calls of a sender
          MaxLeaks,       \* bound: no more calls that leave a lock from here on
          LengthOfSizePart,
          MayBreak,       \* the TCP connection may break
          MayCancel       \* close() or cancelReceive() may be called

ASSUME SSDTPAssumption ==
    /\ LengthOfSizePart \in Nat \ {0} /\ MaxSendCalls \in Nat /\ MaxLeaks \in Nat
    /\ ReceiveCalls \subseteq {"pointer", "value"} /\ "nobody" \notin Senders \cup Receivers
    /\ MayBreak \in BOOLEAN /\ MayCancel \in BOOLEAN

DataFlag_Complete_EOP    == 0
DataFlag_Complete_EEP    == 1
DataFlag_Flagmented      == 2
ControlFlag_SendTimeCode == 48
ControlFlag_GotTimeCode  == 49
DataFlags    == {DataFlag_Complete_EOP, DataFlag_Complete_EEP, DataFlag_Flagmented}
TimeCodeFlags == {ControlFlag_SendTimeCode, ControlFlag_GotTimeCode}

VARIABLES
    stream,        \* bytes sent and not yet received
    tcpBroken,     \* the connection is lost
    sendmutex,     \* recursive: [holder, count]
    sendPlace, sendRequest, sendOutcome, sendsMade,
    receivemutex,
    receivePlace, receiveCall, receiveOutcome,
    rheader,       \* the bytes of the header that have come
    flagmentSize,  \* bytes of the body still to come
    receivebuffer, \* the fragments so far
    ssdtpClosed, receiveCanceled,
    internalTimecode,
    \* History: what was sent, what was received, what was dropped half read.
    openFragments, packetsSent, packetsReceived, codesSent, codesReceived, bytesLost

sendVars    == <<sendmutex, sendPlace, sendRequest, sendOutcome, sendsMade, openFragments,
                 packetsSent, codesSent>>
receiveVars == <<receivemutex, receivePlace, receiveCall, receiveOutcome, rheader, flagmentSize,
                 receivebuffer, internalTimecode, packetsReceived, codesReceived, bytesLost>>
ssdtpVars   == <<stream, tcpBroken, ssdtpClosed, receiveCanceled, sendVars, receiveVars>>

Free == [holder |-> "nobody", count |-> 0]

SSDTPInit ==
    /\ stream = <<>> /\ tcpBroken = FALSE
    /\ ssdtpClosed = FALSE /\ receiveCanceled = FALSE
    /\ sendmutex = Free /\ receivemutex = Free
    /\ sendPlace = [s \in Senders |-> "idle"]
    /\ sendRequest = [s \in Senders |-> [call |-> "none"]]
    /\ sendOutcome = [s \in Senders |-> "none"]
    /\ sendsMade = [s \in Senders |-> 0]
    /\ receivePlace = [r \in Receivers |-> "idle"]
    /\ receiveCall = [r \in Receivers |-> "none"]
    /\ receiveOutcome = [r \in Receivers |-> "none"]
    /\ rheader = <<>> /\ flagmentSize = 0 /\ receivebuffer = <<>>
    /\ internalTimecode = 0
    /\ openFragments = <<>> /\ packetsSent = <<>> /\ packetsReceived = <<>>
    /\ codesSent = <<>> /\ codesReceived = <<>> /\ bytesLost = FALSE

\* CxxUtilities::Mutex can be locked again by the thread that holds it, as
\* RMAPEngine::resolveTransaction() does.
Lockable(m, t)  == m.holder \in {"nobody", t}
LockedBy(m, t, n) == [holder |-> t, count |-> m.count + n]
Unlocked(m, n)  == IF m.count <= n THEN Free ELSE [m EXCEPT !.count = @ - n]

-----------------------------------------------------------------------------
(* Sending                                                                 *)

\* The bytes of the size, its last one first, by repeated division.
Quotients(n) ==
    LET rest[j \in 0 .. LengthOfSizePart] == IF j = 0 THEN n ELSE rest[j - 1] \div 256
    IN  rest
SizePart(n)  == [i \in 1 .. LengthOfSizePart |-> Quotients(n)[LengthOfSizePart - i] % 256]
EOPFlag(eop) == CASE eop = "EOP" -> DataFlag_Complete_EOP
                  [] eop = "EEP" -> DataFlag_Complete_EEP
                  [] eop = "Continued" -> DataFlag_Flagmented
Header(flag, n) == <<flag, 0>> \o SizePart(n)
ControlFrame(code) == Header(ControlFlag_SendTimeCode, 2) \o <<code, 0>>

\* Requests are bytes with an end, as long as the size part can say, or a time code.
ASSUME SSDTPRequestAssumption ==
    \A q \in SendRequests :
        \/ q.call = "timecode" /\ q.code \in 0 .. 255
        \/ /\ q.call \in {"vector", "reference", "pointer"}
           /\ q.data \in Seq(0 .. 255) /\ q.eop \in {"EOP", "EEP", "Continued"}
           /\ Quotients(Len(q.data))[LengthOfSizePart] = 0

\* How many times send(vector&) and the send() it calls have locked the mutex.
Locks(request) == IF request.call = "reference" THEN 2 ELSE 1

BeginSend(s) ==
    /\ sendPlace[s] = "idle" /\ sendsMade[s] < MaxSendCalls
    /\ sendsMade' = [sendsMade EXCEPT ![s] = @ + 1]
    /\ \E q \in SendRequests : sendRequest' = [sendRequest EXCEPT ![s] = q]
    /\ sendPlace' = [sendPlace EXCEPT ![s] = "lock"]
    /\ UNCHANGED <<stream, tcpBroken, ssdtpClosed, receiveCanceled, receiveVars, sendmutex,
                   sendOutcome, openFragments, packetsSent, codesSent>>

SendReturn(s, how, n) ==
    /\ sendPlace' = [sendPlace EXCEPT ![s] = "idle"]
    /\ sendOutcome' = [sendOutcome EXCEPT ![s] = how]
    /\ sendmutex' = Unlocked(sendmutex, n)

\* A data packet of a module that is closed is dropped without a word.
LockSend(s) ==
    /\ sendPlace[s] = "lock" /\ Lockable(sendmutex, s)
    /\ IF ssdtpClosed /\ sendRequest[s].call # "timecode"
       THEN /\ sendPlace' = [sendPlace EXCEPT ![s] = "idle"]
            /\ sendOutcome' = [sendOutcome EXCEPT ![s] = "dropped"]
            /\ UNCHANGED sendmutex
       ELSE /\ sendmutex' = LockedBy(sendmutex, s, Locks(sendRequest[s]))
            /\ sendPlace' = [sendPlace EXCEPT ![s] = "header"]
            /\ UNCHANGED sendOutcome
    /\ UNCHANGED <<stream, tcpBroken, ssdtpClosed, receiveCanceled, receiveVars, sendRequest,
                   sendsMade, openFragments, packetsSent, codesSent>>

\* History: a data frame is complete on the stream.
FrameSent(q) ==
    LET whole == openFragments \o q.data IN
      IF q.eop = "Continued"
      THEN openFragments' = whole /\ UNCHANGED packetsSent
      ELSE /\ openFragments' = <<>>
           /\ packetsSent' = IF whole = <<>> THEN packetsSent
                             ELSE Append(packetsSent, [data |-> whole, eop |-> q.eop])

SendFrame(s) ==
    LET q == sendRequest[s] IN
      IF q.call = "timecode"
      THEN /\ stream' = stream \o ControlFrame(q.code)
           /\ codesSent' = Append(codesSent, q.code)
           /\ UNCHANGED <<openFragments, packetsSent>>
      ELSE /\ stream' = stream \o Header(EOPFlag(q.eop), Len(q.data))
           /\ IF q.data = <<>> THEN FrameSent(q) ELSE UNCHANGED <<openFragments, packetsSent>>
           /\ UNCHANGED codesSent

\* Faulty variant: the mutex guards the header only.
SendHeaderUnlocks(s) ==
    /\ sendPlace[s] = "header" /\ ~tcpBroken
    /\ SendFrame(s)
    /\ IF sendRequest[s].call = "timecode"
       THEN SendReturn(s, "ok", 1)
       ELSE /\ sendPlace' = [sendPlace EXCEPT ![s] = "data"]
            /\ sendmutex' = Free
            /\ UNCHANGED sendOutcome
    /\ UNCHANGED <<tcpBroken, ssdtpClosed, receiveCanceled, receiveVars, sendRequest, sendsMade>>

\* sendTimeCode() sends its frame at once, send() its header and then its data.
SendHeader(s) ==
    /\ sendPlace[s] = "header" /\ ~tcpBroken
    /\ SendFrame(s)
    /\ IF sendRequest[s].call = "timecode"
       THEN SendReturn(s, "ok", 1)
       ELSE /\ sendPlace' = [sendPlace EXCEPT ![s] = "data"]
            /\ UNCHANGED <<sendmutex, sendOutcome>>
    /\ UNCHANGED <<tcpBroken, ssdtpClosed, receiveCanceled, receiveVars, sendRequest, sendsMade>>

\* A vector without data has no first element: at(0) throws.
DataThrows(q) == q.call \in {"vector", "reference"} /\ q.data = <<>>

SendData(s) ==
    /\ sendPlace[s] = "data" /\ ~tcpBroken /\ ~DataThrows(sendRequest[s])
    /\ stream' = stream \o sendRequest[s].data
    /\ SendReturn(s, "ok", Locks(sendRequest[s]))
    /\ IF sendRequest[s].data # <<>> THEN FrameSent(sendRequest[s])
       ELSE UNCHANGED <<openFragments, packetsSent>>
    /\ UNCHANGED <<tcpBroken, ssdtpClosed, receiveCanceled, receiveVars, sendRequest, sendsMade,
                   codesSent>>

SendMayFail(s) ==
    \/ sendPlace[s] \in {"header", "data"} /\ tcpBroken
    \/ sendPlace[s] = "data" /\ DataThrows(sendRequest[s])

\* Faulty variant: the exception leaves send() with the mutex locked.
SendThrowsLocked(s) ==
    /\ SendMayFail(s)
    /\ SendReturn(s, "Disconnected", 0)
    /\ UNCHANGED <<stream, tcpBroken, ssdtpClosed, receiveCanceled, receiveVars, sendRequest,
                   sendsMade, openFragments, packetsSent, codesSent>>

\* The inner send() unlocks once and throws: send(vector&) keeps its own lock.
SendThrows(s) ==
    /\ SendMayFail(s)
    /\ SendReturn(s, "Disconnected", 1)
    /\ UNCHANGED <<stream, tcpBroken, ssdtpClosed, receiveCanceled, receiveVars, sendRequest,
                   sendsMade, openFragments, packetsSent, codesSent>>

-----------------------------------------------------------------------------
(* Receiving                                                               *)

receiveUnchanged == <<sendVars, ssdtpClosed, tcpBroken>>

BeginReceive(r) ==
    /\ receivePlace[r] = "idle"
    /\ \E c \in ReceiveCalls :
          /\ ssdtpClosed \/ c = "value" => receivemutex.count < MaxLeaks
          /\ receiveCall' = [receiveCall EXCEPT ![r] = c]
    /\ receivePlace' = [receivePlace EXCEPT ![r] = "lock"]
    /\ receiveOutcome' = [receiveOutcome EXCEPT ![r] = "none"]
    /\ UNCHANGED <<receiveUnchanged, stream, receiveCanceled, receivemutex, rheader, flagmentSize,
                   receivebuffer, internalTimecode, packetsReceived, codesReceived, bytesLost>>

\* receive() by value looks at `closed` before it calls the other receive().
LockReceive(r) ==
    /\ receivePlace[r] = "lock" /\ Lockable(receivemutex, r)
    /\ IF ssdtpClosed /\ receiveCall[r] = "value"
       THEN /\ receivePlace' = [receivePlace EXCEPT ![r] = "idle"]
            /\ receiveOutcome' = [receiveOutcome EXCEPT ![r] = "nothing"]
            /\ UNCHANGED <<receivemutex, rheader, receivebuffer>>
       ELSE /\ receivemutex' = LockedBy(receivemutex, r, IF receiveCall[r] = "value" THEN 2 ELSE 1)
            /\ receivePlace' = [receivePlace EXCEPT ![r] = "check"]
            /\ rheader' = <<>> /\ receivebuffer' = <<>>
            /\ UNCHANGED receiveOutcome
    /\ UNCHANGED <<receiveUnchanged, stream, receiveCanceled, receiveCall, flagmentSize,
                   internalTimecode, packetsReceived, codesReceived, bytesLost>>

\* receive() ends with `how`; it and, by value, its caller give up locks.
ReceiveReturn(r, how, unlocks) ==
    /\ receivePlace' = [receivePlace EXCEPT ![r] = "idle"]
    /\ receiveOutcome' = [receiveOutcome EXCEPT ![r] = how]
    /\ receivemutex' = Unlocked(receivemutex, unlocks)

\* Faulty variant: the lock is given back, but receiveCanceled is not.
CheckCanceledForever(r) ==
    /\ receivePlace[r] = "check"
    /\ IF ssdtpClosed \/ receiveCanceled
       THEN /\ ReceiveReturn(r, "nothing", IF receiveCall[r] = "value" THEN 2 ELSE 1)
            /\ bytesLost' = (bytesLost \/ rheader \o receivebuffer # <<>>)
       ELSE /\ receivePlace' = [receivePlace EXCEPT ![r] = "header"]
            /\ UNCHANGED <<receivemutex, receiveOutcome, bytesLost>>
    /\ UNCHANGED <<receiveUnchanged, stream, receiveCanceled, receiveCall, rheader, flagmentSize,
                   receivebuffer, internalTimecode, packetsReceived, codesReceived>>

\* Before each piece of a header: closed or cancelled, receive() returns 0 and
\* its mutex stays locked (the caller of receive() by value unlocks once).
CheckCanceled(r) ==
    /\ receivePlace[r] = "check"
    /\ IF ssdtpClosed \/ receiveCanceled
       THEN /\ ReceiveReturn(r, "nothing", IF receiveCall[r] = "value" THEN 1 ELSE 0)
            /\ receiveCanceled' = (ssdtpClosed /\ receiveCanceled)
            /\ bytesLost' = (bytesLost \/ rheader \o receivebuffer # <<>>)
       ELSE /\ receivePlace' = [receivePlace EXCEPT ![r] = "header"]
            /\ UNCHANGED <<receivemutex, receiveOutcome, receiveCanceled, bytesLost>>
    /\ UNCHANGED <<receiveUnchanged, stream, receiveCall, rheader, flagmentSize, receivebuffer,
                   internalTimecode, packetsReceived, codesReceived>>

HeaderLength == 2 + LengthOfSizePart
SizeRead(h) ==
    LET size[i \in 0 .. LengthOfSizePart] == IF i = 0 THEN 0 ELSE size[i - 1] * 256 + h[2 + i]
    IN  size
HeaderSize(h) == SizeRead(h)[LengthOfSizePart]
Unread(n)     == SubSeq(stream, n + 1, Len(stream))
EndOfPacket(flag) == IF flag = DataFlag_Complete_EOP THEN "EOP" ELSE "EEP"

\* The frame whose header is h is complete and the buffer holds `bytes`.
\* Packets without data are passed over; fragments wait for more.
FrameEnds(r, h, bytes) ==
    /\ receivebuffer' = bytes
    /\ flagmentSize' = 0
    /\ rheader' = <<>>
    /\ IF h[1] = DataFlag_Flagmented \/ bytes = <<>>
       THEN /\ receivePlace' = [receivePlace EXCEPT ![r] = "check"]
            /\ UNCHANGED <<receivemutex, receiveOutcome, packetsReceived>>
       ELSE /\ ReceiveReturn(r, "packet", IF receiveCall[r] = "value" THEN 2 ELSE 1)
            /\ packetsReceived' =
                   Append(packetsReceived, [data |-> bytes, eop |-> EndOfPacket(h[1])])

\* datasocket->receive() gives at least one byte and at most those asked for.
ReceiveHeader(r) ==
    /\ receivePlace[r] = "header"
    /\ \E n \in 1 .. HeaderLength - Len(rheader) :
         LET h == rheader \o SubSeq(stream, 1, n) IN
           /\ n <= Len(stream)
           /\ stream' = Unread(n)
           /\ CASE Len(h) < HeaderLength ->
                     /\ rheader' = h
                     /\ receivePlace' = [receivePlace EXCEPT ![r] = "check"]
                     /\ UNCHANGED <<receivemutex, receiveOutcome, flagmentSize, receivebuffer,
                                    packetsReceived>>
                [] Len(h) = HeaderLength /\ h[1] \in DataFlags /\ HeaderSize(h) = 0 ->
                     FrameEnds(r, h, receivebuffer)
                [] Len(h) = HeaderLength /\ h[1] \in DataFlags /\ HeaderSize(h) # 0 ->
                     /\ rheader' = h
                     /\ flagmentSize' = HeaderSize(h)
                     /\ receivePlace' = [receivePlace EXCEPT ![r] = "data"]
                     /\ UNCHANGED <<receivemutex, receiveOutcome, receivebuffer, packetsReceived>>
                [] Len(h) = HeaderLength /\ h[1] \in TimeCodeFlags ->
                     /\ rheader' = h
                     /\ flagmentSize' = 2
                     /\ receivePlace' = [receivePlace EXCEPT ![r] = "timecode"]
                     /\ UNCHANGED <<receivemutex, receiveOutcome, receivebuffer, packetsReceived>>
                [] OTHER ->
                     /\ ReceiveReturn(r, "TCPSocketError", 1)
                     /\ rheader' = <<>> /\ flagmentSize' = 0
                     /\ UNCHANGED <<receivebuffer, packetsReceived>>
    /\ UNCHANGED <<receiveUnchanged, receiveCanceled, receiveCall, internalTimecode, codesReceived,
                   bytesLost>>

ReceiveData(r) ==
    /\ receivePlace[r] = "data"
    /\ \E n \in 1 .. flagmentSize :
         LET bytes == receivebuffer \o SubSeq(stream, 1, n) IN
           /\ n <= Len(stream)
           /\ stream' = Unread(n)
           /\ IF n < flagmentSize
              THEN /\ receivebuffer' = bytes
                   /\ flagmentSize' = flagmentSize - n
                   /\ UNCHANGED <<receivePlace, receivemutex, receiveOutcome, rheader,
                                  packetsReceived>>
              ELSE FrameEnds(r, rheader, bytes)
    /\ UNCHANGED <<receiveUnchanged, receiveCanceled, receiveCall, internalTimecode, codesReceived,
                   bytesLost>>

\* A time code between two fragments leaves the fragments alone.
ReceiveTimeCode(r) ==
    /\ receivePlace[r] = "timecode"
    /\ \E n \in 1 .. flagmentSize :
         /\ n <= Len(stream)
         /\ stream' = Unread(n)
         /\ flagmentSize' = flagmentSize - n
         /\ internalTimecode' = IF flagmentSize = 2 THEN stream[1] ELSE internalTimecode
         /\ IF n < flagmentSize
            THEN UNCHANGED <<receivePlace, codesReceived, rheader>>
            ELSE /\ receivePlace' = [receivePlace EXCEPT ![r] = "check"]
                 /\ codesReceived' = Append(codesReceived, internalTimecode')
                 /\ rheader' = <<>>
    /\ UNCHANGED <<receiveUnchanged, receiveCanceled, receiveCall, receivemutex, receiveOutcome,
                   receivebuffer, packetsReceived, bytesLost>>

\* A timeout while a header is awaited ends receive(), and what has come of the
\* packet is lost.  In a body it is retried; in a time code it counts as an error.
ReceiveTimesOut(r) ==
    /\ receivePlace[r] \in {"header", "timecode"}
    /\ ReceiveReturn(r, IF receivePlace[r] = "header" THEN "Timeout" ELSE "TCPSocketError", 1)
    /\ rheader' = <<>> /\ flagmentSize' = 0
    /\ bytesLost' = (bytesLost \/ rheader \o receivebuffer # <<>>)
    /\ UNCHANGED <<receiveUnchanged, stream, receiveCanceled, receiveCall, receivebuffer,
                   internalTimecode, packetsReceived, codesReceived>>

\* The connection is lost: in the body of a packet the process exits.
ReceiveFails(r) ==
    /\ tcpBroken /\ stream = <<>>
    /\ \/ /\ receivePlace[r] \in {"header", "timecode"}
          /\ ReceiveReturn(r, IF receivePlace[r] = "header" THEN "Disconnected"
                              ELSE "TCPSocketError", 1)
          /\ bytesLost' = TRUE
       \/ /\ receivePlace[r] = "data"
          /\ receivePlace' = [receivePlace EXCEPT ![r] = "exited"]
          /\ UNCHANGED <<receiveOutcome, receivemutex, bytesLost>>
    /\ rheader' = <<>> /\ flagmentSize' = 0
    /\ UNCHANGED <<receiveUnchanged, stream, receiveCanceled, receiveCall, receivebuffer,
                   internalTimecode, packetsReceived, codesReceived>>

-----------------------------------------------------------------------------
BreakConnection ==
    /\ MayBreak /\ ~tcpBroken
    /\ tcpBroken' = TRUE
    /\ UNCHANGED <<stream, ssdtpClosed, receiveCanceled, sendVars, receiveVars>>

CloseModule ==
    /\ MayCancel /\ ~ssdtpClosed
    /\ ssdtpClosed' = TRUE
    /\ UNCHANGED <<stream, tcpBroken, receiveCanceled, sendVars, receiveVars>>

CancelReceive ==
    /\ MayCancel /\ ~receiveCanceled /\ receivemutex.count < MaxLeaks
    /\ receiveCanceled' = TRUE
    /\ UNCHANGED <<stream, tcpBroken, ssdtpClosed, sendVars, receiveVars>>

SendGoesOn(s)  == LockSend(s) \/ SendHeader(s) \/ SendData(s) \/ SendThrows(s)
ReadStep(r)    == ReceiveHeader(r) \/ ReceiveData(r) \/ ReceiveTimeCode(r)
ReceiveStep(r) == BeginReceive(r) \/ LockReceive(r) \/ CheckCanceled(r) \/ ReadStep(r)

SSDTPNext ==
    \/ \E s \in Senders : BeginSend(s) \/ SendGoesOn(s)
    \/ \E r \in Receivers : ReceiveStep(r) \/ ReceiveTimesOut(r) \/ ReceiveFails(r)
    \/ BreakConnection \/ CloseModule \/ CancelReceive


\* A thread goes on; a call is made again after it has timed out, as RMAPEngine
\* does; bytes that were sent come before some timeout.
SSDTPFairness ==
    /\ \A s \in Senders : WF_ssdtpVars(SendGoesOn(s))
    /\ \A r \in Receivers : WF_ssdtpVars(ReceiveStep(r)) /\ SF_ssdtpVars(ReadStep(r))

SSDTPSpec == SSDTPInit /\ [][SSDTPNext]_ssdtpVars /\ SSDTPFairness

-----------------------------------------------------------------------------
(* Properties                                                              *)

Mutexes(T) == [holder : T \cup {"nobody"}, count : Nat]

SSDTPTypeOK ==
    /\ stream \in Seq(0 .. 255)
    /\ sendmutex \in Mutexes(Senders) /\ receivemutex \in Mutexes(Receivers)
    /\ sendPlace \in [Senders -> {"idle", "lock", "header", "data"}]
    /\ receivePlace \in [Receivers -> {"idle", "lock", "check", "header", "data", "timecode",
                                       "exited"}]
    /\ rheader \in Seq(0 .. 255) /\ Len(rheader) <= HeaderLength /\ flagmentSize \in Nat
    /\ \A s \in Senders : sendPlace[s] \in {"header", "data"} => sendmutex.holder = s
    /\ \A r \in Receivers : receivePlace[r] \in {"check", "header", "data", "timecode", "exited"}
          => receivemutex.holder = r

\* The packets that receive() gives out are those that were sent, whole, each
\* once and in order, whatever pieces TCP made of them and whatever time codes
\* came in between: until a timeout or a cancellation drops half a packet.
PacketsArriveWhole == bytesLost \/ IsPrefix(packetsReceived, packetsSent)

\* The time codes that reach the action are those that were sent, in order.
TimeCodesArriveInOrder == bytesLost \/ IsPrefix(codesReceived, codesSent)

\* The framing loses, repeats and mixes nothing that send() put into the stream
\* (SpaceWireSSDTPModule.hh:172-250) until receive() (271-456) drops part of a header, and
\* each half of the stream has one user at a time.
SSDTPInv == SSDTPTypeOK /\ PacketsArriveWhole /\ TimeCodesArriveInOrder

\* A call that ends has given back every lock it took, on each of its ways out,
\* except a send(vector&) that fails, a receive() that finds the module closed or
\* cancelled, and a receive() by value that throws.
CallsGiveBackTheirLocks ==
    [][/\ \A s \in Senders :
            sendPlace[s] \in {"header", "data"} /\ sendPlace'[s] = "idle"
            /\ ~(sendRequest[s].call = "reference" /\ sendOutcome'[s] = "Disconnected")
            => sendmutex'.count = sendmutex.count - Locks(sendRequest[s])
       /\ \A r \in Receivers :
            receivePlace[r] \in {"check", "header", "data", "timecode"}
            /\ receivePlace'[r] = "idle"
            /\ receiveOutcome'[r] # "nothing"
            /\ (receiveCall[r] = "pointer" \/ receiveOutcome'[r] = "packet")
            => receivemutex'.count =
                 receivemutex.count - (IF receiveCall[r] = "value" THEN 2 ELSE 1)]_ssdtpVars

\* What was sent is received, also after receive() has timed out or was
\* cancelled, if no half packet is dropped and the connection stays up.
SentPacketsArrive ==
    \A k \in 1 .. Cardinality(Senders) * MaxSendCalls :
        (Len(packetsSent) >= k) ~> (Len(packetsReceived) >= k \/ bytesLost \/ tcpBroken \/ ssdtpClosed)

=============================================================================
