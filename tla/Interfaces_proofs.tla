-------------------------- MODULE Interfaces_proofs --------------------------
(***************************************************************************)
(* Theorems about the three parts that several threads share.  SSDTP: who  *)
(* uses each half of the stream, which locks the calls give back, and that *)
(* what is received is what was sent, in order, for any number of threads  *)
(* and any requests.  SpacePi: who works on the bus and what becomes of    *)
(* the packets, for any number of threads that send, any packets, and any  *)
(* number of calls.  SpaceWireREngine: its tables, threads and queues, and *)
(* the way of its acknowledgements byte by byte, for any transport end     *)
(* points and any packets of the other nodes.                              *)
(***************************************************************************)
EXTENDS SSDTP, SpacePi, SpaceWireREngine, CommonLemmas

-----------------------------------------------------------------------------
(* SSDTP                                                                   *)

USE SSDTPAssumption

-----------------------------------------------------------------------------
(* The inductive invariant: a thread that is past its lock holds the mutex *)
(* as often as the call has locked it.                                     *)
Held(m, t, n) == m.holder = t /\ m.count >= n
ReceiveLocks(call) == IF call = "value" THEN 2 ELSE 1

SendLocksInv ==
    /\ sendmutex \in [holder : Senders \cup {"nobody"}, count : Nat]
    /\ sendPlace \in [Senders -> {"idle", "lock", "header", "data"}]
    /\ DOMAIN sendRequest = Senders /\ DOMAIN sendOutcome = Senders
    /\ \A s \in Senders :
          sendPlace[s] \in {"header", "data"} => Held(sendmutex, s, Locks(sendRequest[s]))

ReceiveLocksInv ==
    /\ receivemutex \in [holder : Receivers \cup {"nobody"}, count : Nat]
    /\ receivePlace \in [Receivers -> {"idle", "lock", "check", "header", "data", "timecode",
                                       "exited"}]
    /\ DOMAIN receiveCall = Receivers /\ DOMAIN receiveOutcome = Receivers
    /\ \A r \in Receivers :
          receivePlace[r] \in {"check", "header", "data", "timecode", "exited"}
            => Held(receivemutex, r, ReceiveLocks(receiveCall[r]))

LocksInv == SendLocksInv /\ ReceiveLocksInv

\* What the mutex of a thread t is like after it has locked or unlocked.
LEMMA MutexSteps ==
    ASSUME NEW T, "nobody" \notin T, NEW m \in [holder : T \cup {"nobody"}, count : Nat],
           NEW t \in T, NEW n \in {0, 1, 2}
    PROVE  /\ LockedBy(m, t, n) \in [holder : T \cup {"nobody"}, count : Nat]
           /\ LockedBy(m, t, n).holder = t /\ LockedBy(m, t, n).count = m.count + n
           /\ Unlocked(m, n) \in [holder : T \cup {"nobody"}, count : Nat]
           /\ m.count >= n => Unlocked(m, n).count = m.count - n
  BY DEF LockedBy, Unlocked, Free

-----------------------------------------------------------------------------
(* The steps of a sender.                                                  *)

\* A sender leaves the receiving half alone, and takes or gives its own locks.
LEMMA SenderSteps ==
    ASSUME SendLocksInv, NEW s \in Senders, BeginSend(s) \/ SendGoesOn(s)
    PROVE  SendLocksInv'
  <1> USE DEF SendLocksInv
  <1>1. CASE BeginSend(s)
    BY <1>1 DEF BeginSend, Held
  <1>2. CASE LockSend(s)
    <2>1. CASE ssdtpClosed /\ sendRequest[s].call # "timecode"
      BY <1>2, <2>1 DEF LockSend, Held
    <2>2. CASE ~(ssdtpClosed /\ sendRequest[s].call # "timecode")
      <3>1. Locks(sendRequest[s]) \in {0, 1, 2}
        BY DEF Locks
      <3>2. /\ sendmutex' = LockedBy(sendmutex, s, Locks(sendRequest[s]))
            /\ sendPlace' = [sendPlace EXCEPT ![s] = "header"]
            /\ UNCHANGED <<sendRequest, sendOutcome>> /\ Lockable(sendmutex, s)
        BY <1>2, <2>2 DEF LockSend
      <3>3. /\ sendmutex' \in [holder : Senders \cup {"nobody"}, count : Nat]
            /\ Held(sendmutex', s, Locks(sendRequest[s]))
        BY <3>1, <3>2, MutexSteps DEF Held
      <3>4. \A u \in Senders : u # s => sendPlace[u] \notin {"header", "data"}
        BY <3>2 DEF Lockable, Held
      <3>5. QED BY <3>2, <3>3, <3>4
    <2>3. QED BY <2>1, <2>2
  <1>3. CASE \E how \in {"ok", "Disconnected"}, n \in {0, 1, 2} :
                /\ SendReturn(s, how, n) /\ UNCHANGED sendRequest
                /\ sendPlace[s] \in {"header", "data"}
    <2>1. PICK how \in {"ok", "Disconnected"}, n \in {0, 1, 2} :
              /\ SendReturn(s, how, n) /\ UNCHANGED sendRequest
              /\ sendPlace[s] \in {"header", "data"}
      BY <1>3
    <2>2. sendmutex' \in [holder : Senders \cup {"nobody"}, count : Nat]
      BY <2>1, MutexSteps DEF SendReturn
    <2>3. \A u \in Senders : u # s => sendPlace[u] \notin {"header", "data"}
      BY <2>1 DEF Held
    <2>4. QED BY <2>1, <2>2, <2>3 DEF SendReturn
  <1>4. CASE SendHeader(s)
    <2>1. CASE sendRequest[s].call = "timecode"
      BY <1>3, <1>4, <2>1 DEF SendHeader
    <2>2. CASE sendRequest[s].call # "timecode"
      BY <1>4, <2>2 DEF SendHeader
    <2>3. QED BY <2>1, <2>2
  <1>5. CASE SendData(s) \/ SendThrows(s)
    <2>1. Locks(sendRequest[s]) \in {0, 1, 2}
      BY DEF Locks
    <2>2. QED BY <1>3, <1>5, <2>1 DEF SendData, SendThrows, SendMayFail
  <1>6. QED BY <1>1, <1>2, <1>4, <1>5 DEF SendGoesOn

-----------------------------------------------------------------------------
(* The steps of a receiver.                                                *)

\* How a call of receive() goes on: it stays, moves on with its locks, or ends.
ReceiverGoes(r) ==
    \/ UNCHANGED <<receivePlace, receivemutex, receiveOutcome>>
    \/ /\ \E p \in {"check", "header", "data", "timecode", "exited"} :
              receivePlace' = [receivePlace EXCEPT ![r] = p]
       /\ UNCHANGED <<receivemutex, receiveOutcome>>
    \/ ReceiveReturn(r, "nothing", 0) \/ ReceiveReturn(r, "nothing", 1)
    \/ \E how \in {"TCPSocketError", "Timeout", "Disconnected"} : ReceiveReturn(r, how, 1)
    \/ ReceiveReturn(r, "packet", ReceiveLocks(receiveCall[r]))

\* Every step of receive() past its lock is one of these; by value only a packet
\* gives both locks back.
LEMMA ReceiverStepsGo ==
    ASSUME NEW r \in Receivers,
           CheckCanceled(r) \/ ReadStep(r) \/ ReceiveTimesOut(r) \/ ReceiveFails(r)
    PROVE  /\ ReceiverGoes(r) /\ UNCHANGED <<receiveCall, sendVars>>
           /\ receivePlace[r] \in {"check", "header", "data", "timecode"}
  <1>1. CASE CheckCanceled(r)
    BY <1>1 DEF CheckCanceled, ReceiverGoes, receiveUnchanged
  <1>2. CASE ReceiveHeader(r)
    <2>1. UNCHANGED <<receiveCall, sendVars>> /\ receivePlace[r] = "header"
      BY <1>2 DEF ReceiveHeader, receiveUnchanged
    <2>2. PICK n \in 1 .. HeaderLength - Len(rheader) :
            LET h == rheader \o SubSeq(stream, 1, n) IN
            \/ /\ receivePlace' = [receivePlace EXCEPT ![r] = "check"]
               /\ UNCHANGED <<receivemutex, receiveOutcome>>
            \/ FrameEnds(r, h, receivebuffer)
            \/ /\ receivePlace' = [receivePlace EXCEPT ![r] = "data"]
               /\ UNCHANGED <<receivemutex, receiveOutcome>>
            \/ /\ receivePlace' = [receivePlace EXCEPT ![r] = "timecode"]
               /\ UNCHANGED <<receivemutex, receiveOutcome>>
            \/ ReceiveReturn(r, "TCPSocketError", 1)
      <3>1. PICK n \in 1 .. HeaderLength - Len(rheader) :
              LET h == rheader \o SubSeq(stream, 1, n) IN
              CASE Len(h) < HeaderLength ->
                     /\ receivePlace' = [receivePlace EXCEPT ![r] = "check"]
                     /\ UNCHANGED <<receivemutex, receiveOutcome>>
                [] Len(h) = HeaderLength /\ h[1] \in DataFlags /\ HeaderSize(h) = 0 ->
                     FrameEnds(r, h, receivebuffer)
                [] Len(h) = HeaderLength /\ h[1] \in DataFlags /\ HeaderSize(h) # 0 ->
                     /\ receivePlace' = [receivePlace EXCEPT ![r] = "data"]
                     /\ UNCHANGED <<receivemutex, receiveOutcome>>
                [] Len(h) = HeaderLength /\ h[1] \in TimeCodeFlags ->
                     /\ receivePlace' = [receivePlace EXCEPT ![r] = "timecode"]
                     /\ UNCHANGED <<receivemutex, receiveOutcome>>
                [] OTHER -> ReceiveReturn(r, "TCPSocketError", 1)
        BY <1>2 DEF ReceiveHeader
      <3>2. QED BY <3>1
    <2>3. QED BY <2>1, <2>2 DEF FrameEnds, ReceiverGoes, ReceiveLocks
  <1>3. CASE ReceiveData(r)
    <2>1. UNCHANGED <<receiveCall, sendVars>> /\ receivePlace[r] = "data"
      BY <1>3 DEF ReceiveData, receiveUnchanged
    <2>2. \/ UNCHANGED <<receivePlace, receivemutex, receiveOutcome>>
          \/ \E bytes : FrameEnds(r, rheader, bytes)
      BY <1>3 DEF ReceiveData
    <2>3. QED BY <2>1, <2>2 DEF FrameEnds, ReceiverGoes, ReceiveLocks
  <1>4. CASE ReceiveTimeCode(r)
    BY <1>4 DEF ReceiveTimeCode, ReceiverGoes, receiveUnchanged
  <1>5. CASE ReceiveTimesOut(r)
    BY <1>5 DEF ReceiveTimesOut, ReceiverGoes, receiveUnchanged
  <1>6. CASE ReceiveFails(r)
    BY <1>6 DEF ReceiveFails, ReceiverGoes, receiveUnchanged
  <1>7. QED BY <1>1, <1>2, <1>3, <1>4, <1>5, <1>6 DEF ReadStep

\* A receiver takes or gives its own locks.
LEMMA ReceiverSteps ==
    ASSUME ReceiveLocksInv, NEW r \in Receivers,
           ReceiveStep(r) \/ ReceiveTimesOut(r) \/ ReceiveFails(r)
    PROVE  ReceiveLocksInv'
  <1> USE DEF ReceiveLocksInv
  <1>1. CASE BeginReceive(r)
    BY <1>1 DEF BeginReceive, Held
  <1>2. CASE LockReceive(r)
    <2>1. CASE ssdtpClosed /\ receiveCall[r] = "value"
      BY <1>2, <2>1 DEF LockReceive, Held
    <2>2. CASE ~(ssdtpClosed /\ receiveCall[r] = "value")
      <3>1. ReceiveLocks(receiveCall[r]) \in {0, 1, 2}
        BY DEF ReceiveLocks
      <3>2. /\ receivemutex' = LockedBy(receivemutex, r, ReceiveLocks(receiveCall[r]))
            /\ receivePlace' = [receivePlace EXCEPT ![r] = "check"]
            /\ UNCHANGED <<receiveCall, receiveOutcome>> /\ Lockable(receivemutex, r)
        BY <1>2, <2>2 DEF LockReceive, ReceiveLocks
      <3>3. /\ receivemutex' \in [holder : Receivers \cup {"nobody"}, count : Nat]
            /\ Held(receivemutex', r, ReceiveLocks(receiveCall[r]))
        BY <3>1, <3>2, MutexSteps DEF Held
      <3>4. \A u \in Receivers : u # r => receivePlace[u] \notin {"check", "header", "data",
                                                                  "timecode", "exited"}
        BY <3>2 DEF Lockable, Held
      <3>5. QED BY <3>2, <3>3, <3>4
    <2>3. QED BY <2>1, <2>2
  <1>3. CASE CheckCanceled(r) \/ ReadStep(r) \/ ReceiveTimesOut(r) \/ ReceiveFails(r)
    <2>1. /\ ReceiverGoes(r) /\ receiveCall' = receiveCall
          /\ receivePlace[r] \in {"check", "header", "data", "timecode"}
      BY <1>3, ReceiverStepsGo
    <2>2. CASE UNCHANGED <<receivePlace, receivemutex, receiveOutcome>>
      BY <2>1, <2>2
    <2>3. CASE /\ \E p \in {"check", "header", "data", "timecode", "exited"} :
                     receivePlace' = [receivePlace EXCEPT ![r] = p]
               /\ UNCHANGED <<receivemutex, receiveOutcome>>
      BY <2>1, <2>3
    <2>4. ASSUME NEW how, NEW n \in {0, 1, 2}, ReceiveReturn(r, how, n)
          PROVE  ReceiveLocksInv'
      <3>1. receivemutex' \in [holder : Receivers \cup {"nobody"}, count : Nat]
        BY <2>4, MutexSteps DEF ReceiveReturn
      <3>2. \A u \in Receivers : u # r => receivePlace[u] \notin {"check", "header", "data",
                                                                  "timecode", "exited"}
        BY <2>1 DEF Held
      <3>3. QED BY <2>1, <2>4, <3>1, <3>2 DEF ReceiveReturn
    <2>5. ReceiveLocks(receiveCall[r]) \in {0, 1, 2}
      BY DEF ReceiveLocks
    <2>6. QED
      <3> HIDE DEF ReceiveLocksInv
      <3>1. QED BY <2>1, <2>2, <2>3, <2>4, <2>5 DEF ReceiverGoes
  <1>4. QED BY <1>1, <1>2, <1>3 DEF ReceiveStep

-----------------------------------------------------------------------------
\* Each half of the stream has one user at a time, which holds the mutex as
\* often as its call has locked it, however calls fail, time out or are
\* cancelled, and though some of them leave a lock behind.
THEOREM OneUserOfEachHalf == SSDTPSpec => []LocksInv
  <1>1. SSDTPInit => LocksInv
    BY DEF SSDTPInit, LocksInv, SendLocksInv, ReceiveLocksInv, Free
  <1>2. LocksInv /\ [SSDTPNext]_ssdtpVars => LocksInv'
    <2> SUFFICES ASSUME LocksInv, [SSDTPNext]_ssdtpVars
                 PROVE  LocksInv'
      OBVIOUS
    <2> USE DEF LocksInv
    <2>1. CASE \E s \in Senders : BeginSend(s) \/ SendGoesOn(s)
      <3>1. UNCHANGED receiveVars
        BY <2>1 DEF BeginSend, SendGoesOn, LockSend, SendHeader, SendData, SendThrows
      <3>2. ReceiveLocksInv'
        BY <3>1 DEF receiveVars, ReceiveLocksInv, Held
      <3>3. QED BY <2>1, <3>2, SenderSteps
    <2>2. CASE \E r \in Receivers : ReceiveStep(r) \/ ReceiveTimesOut(r) \/ ReceiveFails(r)
      <3>1. UNCHANGED sendVars
        BY <2>2 DEF ReceiveStep, BeginReceive, LockReceive, CheckCanceled, ReadStep,
                    ReceiveHeader, ReceiveData, ReceiveTimeCode, ReceiveTimesOut, ReceiveFails,
                    receiveUnchanged
      <3>2. SendLocksInv'
        BY <3>1 DEF sendVars, SendLocksInv, Held
      <3>3. QED BY <2>2, <3>2, ReceiverSteps
    <2>3. CASE UNCHANGED <<sendVars, receiveVars>>
      BY <2>3 DEF sendVars, receiveVars, SendLocksInv, ReceiveLocksInv, Held
    <2>4. QED
      BY <2>1, <2>2, <2>3 DEF SSDTPNext, BreakConnection, CloseModule, CancelReceive, ssdtpVars
  <1>3. QED BY <1>1, <1>2, PTL DEF SSDTPSpec

\* A call that ends has given back every lock it took, on each of its ways out,
\* except a send(vector&) that fails, a receive() that finds the module closed
\* or cancelled, and a receive() by value that throws.
THEOREM LocksAreGivenBack == SSDTPSpec => CallsGiveBackTheirLocks
  <1> DEFINE SenderGivesBack(s) ==
               sendPlace[s] \in {"header", "data"} /\ sendPlace'[s] = "idle"
               /\ ~(sendRequest[s].call = "reference" /\ sendOutcome'[s] = "Disconnected")
               => sendmutex'.count = sendmutex.count - Locks(sendRequest[s])
             ReceiverGivesBack(r) ==
               receivePlace[r] \in {"check", "header", "data", "timecode"}
               /\ receivePlace'[r] = "idle"
               /\ receiveOutcome'[r] # "nothing"
               /\ (receiveCall[r] = "pointer" \/ receiveOutcome'[r] = "packet")
               => receivemutex'.count =
                    receivemutex.count - (IF receiveCall[r] = "value" THEN 2 ELSE 1)
             GiveBack == /\ \A s \in Senders : SenderGivesBack(s)
                         /\ \A r \in Receivers : ReceiverGivesBack(r)
  <1>1. LocksInv /\ [SSDTPNext]_ssdtpVars => [GiveBack]_ssdtpVars
    <2> SUFFICES ASSUME LocksInv, SSDTPNext
                 PROVE  GiveBack
      OBVIOUS
    <2>1. ASSUME NEW s \in Senders, BeginSend(s) \/ SendGoesOn(s)
          PROVE  GiveBack
      <3>1. UNCHANGED receiveVars
        BY <2>1 DEF BeginSend, SendGoesOn, LockSend, SendHeader, SendData, SendThrows
      <3>2. \A r \in Receivers : ReceiverGivesBack(r)
        BY <3>1 DEF receiveVars
      <3>3. \A u \in Senders : u # s => SenderGivesBack(u)
        BY <2>1 DEF BeginSend, SendGoesOn, LockSend, SendHeader, SendData, SendThrows,
                    SendReturn, LocksInv, SendLocksInv
      <3>4. SenderGivesBack(s)
        <4> SUFFICES ASSUME sendPlace[s] \in {"header", "data"}, sendPlace'[s] = "idle",
                            ~(sendRequest[s].call = "reference"
                              /\ sendOutcome'[s] = "Disconnected")
                     PROVE  sendmutex'.count = sendmutex.count - Locks(sendRequest[s])
          OBVIOUS
        <4>1. /\ sendmutex \in [holder : Senders \cup {"nobody"}, count : Nat]
              /\ sendmutex.count >= Locks(sendRequest[s]) /\ Locks(sendRequest[s]) \in {0, 1, 2}
              /\ s \in DOMAIN sendOutcome /\ s \in DOMAIN sendPlace
          BY DEF LocksInv, SendLocksInv, Held, Locks
        <4>2. PICK how : SendReturn(s, how, Locks(sendRequest[s]))
          <5>1. CASE SendHeader(s)
            BY <4>1, <5>1 DEF SendHeader, Locks
          <5>2. CASE SendData(s)
            BY <5>2 DEF SendData
          <5>3. CASE SendThrows(s)
            BY <4>1, <5>3 DEF SendThrows, SendReturn, Locks
          <5>4. QED BY <2>1, <5>1, <5>2, <5>3 DEF SendGoesOn, BeginSend, LockSend
        <4>3. QED BY <4>1, <4>2, MutexSteps DEF SendReturn
      <3>5. QED BY <3>2, <3>3, <3>4
    <2>2. ASSUME NEW r \in Receivers,
                 ReceiveStep(r) \/ ReceiveTimesOut(r) \/ ReceiveFails(r)
          PROVE  GiveBack
      <3>1. CASE BeginReceive(r) \/ LockReceive(r)
        BY <3>1 DEF BeginReceive, LockReceive, receiveUnchanged, sendVars, LocksInv,
                    ReceiveLocksInv
      <3>2. CASE CheckCanceled(r) \/ ReadStep(r) \/ ReceiveTimesOut(r) \/ ReceiveFails(r)
        <4>1. /\ ReceiverGoes(r) /\ UNCHANGED sendVars
              /\ receivePlace[r] \in {"check", "header", "data", "timecode"}
          BY <3>2, ReceiverStepsGo
        <4>2. \A s \in Senders : SenderGivesBack(s)
          BY <4>1 DEF sendVars
        <4>3. \A u \in Receivers : u # r => ReceiverGivesBack(u)
          BY <4>1 DEF ReceiverGoes, ReceiveReturn, LocksInv, ReceiveLocksInv
        <4>4. ReceiverGivesBack(r)
          <5>1. /\ receivemutex \in [holder : Receivers \cup {"nobody"}, count : Nat]
                /\ receivemutex.count >= ReceiveLocks(receiveCall[r])
                /\ ReceiveLocks(receiveCall[r]) \in {0, 1, 2}
                /\ r \in DOMAIN receiveOutcome /\ r \in DOMAIN receivePlace
            BY <4>1 DEF LocksInv, ReceiveLocksInv, Held, ReceiveLocks
          <5>2. CASE ReceiveReturn(r, "nothing", 0) \/ ReceiveReturn(r, "nothing", 1)
            BY <5>1, <5>2 DEF ReceiveReturn
          <5>3. CASE \E how \in {"TCPSocketError", "Timeout", "Disconnected"} :
                        ReceiveReturn(r, how, 1)
            BY <5>1, <5>3, MutexSteps DEF ReceiveReturn, ReceiveLocks
          <5>4. CASE ReceiveReturn(r, "packet", ReceiveLocks(receiveCall[r]))
            <6>1. receivemutex'.count = receivemutex.count - ReceiveLocks(receiveCall[r])
              BY <5>1, <5>4, MutexSteps DEF ReceiveReturn
            <6>2. QED BY <6>1 DEF ReceiveLocks
          <5>5. CASE receivePlace'[r] # "idle"
            BY <5>5
          <5>6. QED BY <4>1, <5>1, <5>2, <5>3, <5>4, <5>5 DEF ReceiverGoes
        <4>5. QED BY <4>2, <4>3, <4>4
      <3>3. QED BY <2>2, <3>1, <3>2 DEF ReceiveStep
    <2>3. CASE BreakConnection \/ CloseModule \/ CancelReceive
      BY <2>3 DEF BreakConnection, CloseModule, CancelReceive, sendVars, receiveVars
    <2>4. QED BY <2>1, <2>2, <2>3 DEF SSDTPNext
  <1>2. QED BY <1>1, OneUserOfEachHalf, PTL DEF SSDTPSpec, CallsGiveBackTheirLocks

-----------------------------------------------------------------------------
(* The size part of a header.                                              *)

\* What a loop of n turns has come to after each of them: it starts with a, and
\* each turn makes a number of the number before it.
LoopOf(f, n, a, g) ==
    /\ f \in [0 .. n -> Nat]
    /\ \A j \in 0 .. n : f[j] = IF j = 0 THEN a ELSE g[<<f[j - 1], j>>]

\* A loop defines its function.
LEMMA LoopDefines ==
    ASSUME NEW n \in Nat, NEW a \in Nat, NEW g \in [Nat \X Nat -> Nat]
    PROVE  \E f : LoopOf(f, n, a, g)
  <1> DEFINE G(f, m) == f = [j \in 0 .. m |-> IF j = 0 THEN a ELSE g[<<f[j - 1], j>>]]
             T == {m \in Nat : \E f \in [0 .. m -> Nat] : G(f, m)}
  <1>1. 0 \in T
    <2> DEFINE h == [j \in 0 .. 0 |-> a]
    <2>1. h \in [0 .. 0 -> Nat] /\ \A j \in 0 .. 0 : j = 0
      OBVIOUS
    <2>2. G(h, 0)
      BY <2>1
    <2>3. QED BY <2>1, <2>2
  <1>2. ASSUME NEW m \in Nat, m \in T PROVE m + 1 \in T
    <2>1. PICK f \in [0 .. m -> Nat] : G(f, m)
      BY <1>2
    <2> DEFINE h == [j \in 0 .. m + 1 |-> IF j <= m THEN f[j] ELSE g[<<f[m], m + 1>>]]
    <2>2. h \in [0 .. m + 1 -> Nat]
      <3>1. f[m] \in Nat /\ <<f[m], m + 1>> \in Nat \X Nat
        OBVIOUS
      <3>2. g[<<f[m], m + 1>>] \in Nat
        BY <3>1
      <3>3. QED BY <3>2
    <2>3. \A j \in 0 .. m + 1 : h[j] = IF j = 0 THEN a ELSE g[<<h[j - 1], j>>]
      <3> SUFFICES ASSUME NEW j \in 0 .. m + 1
                   PROVE  h[j] = IF j = 0 THEN a ELSE g[<<h[j - 1], j>>]
        OBVIOUS
      <3>1. CASE j <= m
        <4>1. h[j] = f[j] /\ j \in 0 .. m
          BY <3>1
        <4>2. j # 0 => j - 1 \in 0 .. m + 1 /\ j - 1 <= m
          BY <3>1
        <4>3. j # 0 => h[j - 1] = f[j - 1]
          BY <4>2
        <4>4. f[j] = IF j = 0 THEN a ELSE g[<<f[j - 1], j>>]
          BY <2>1, <4>1
        <4>5. QED BY <4>1, <4>3, <4>4
      <3>2. CASE ~(j <= m)
        <4>1. j = m + 1 /\ j # 0 /\ j - 1 = m /\ m \in 0 .. m + 1
          BY <3>2
        <4>2. h[m] = f[m] /\ h[j] = g[<<f[m], m + 1>>]
          BY <3>2, <4>1
        <4>3. QED BY <4>1, <4>2
      <3>3. QED BY <3>1, <3>2
    <2>4. G(h, m + 1)
      BY <2>3
    <2> HIDE DEF h, G
    <2>5. QED BY <2>2, <2>4
  <1> HIDE DEF T
  <1>3. n \in T
    BY <1>1, <1>2, SetInductionOnNat
  <1>4. PICK f \in [0 .. n -> Nat] : G(f, n)
    BY <1>3 DEF T
  <1>5. \A j \in 0 .. n : f[j] = IF j = 0 THEN a ELSE g[<<f[j - 1], j>>]
    BY <1>4
  <1>6. QED BY <1>5 DEF LoopOf

\* The quotients of a number, one after the other.
LEMMA QuotientsOf ==
    ASSUME NEW n \in Nat
    PROVE  /\ Quotients(n) \in [0 .. LengthOfSizePart -> Nat]
           /\ Quotients(n)[0] = n
           /\ \A j \in 0 .. LengthOfSizePart - 1 : Quotients(n)[j + 1] = Quotients(n)[j] \div 256
  <1> DEFINE L == LengthOfSizePart
             g == [x \in Nat \X Nat |-> x[1] \div 256]
             G(f) == f = [j \in 0 .. L |-> IF j = 0 THEN n ELSE f[j - 1] \div 256]
             q == CHOOSE f : G(f)
  <1>1. \A x \in Nat : x \div 256 \in Nat
    OBVIOUS
  <1>2. g \in [Nat \X Nat -> Nat] /\ L \in Nat
    BY <1>1
  <1>3. PICK f : LoopOf(f, L, n, g)
    <2> HIDE DEF g, L
    <2>1. QED BY ONLY <1>2, n \in Nat, LoopDefines
  <1>4. G(f)
    <2>0. /\ f \in [0 .. L -> Nat]
          /\ \A j \in 0 .. L : f[j] = IF j = 0 THEN n ELSE g[<<f[j - 1], j>>]
      BY <1>3 DEF LoopOf
    <2>1. \A j \in 0 .. L : j # 0 => g[<<f[j - 1], j>>] = f[j - 1] \div 256
      <3> SUFFICES ASSUME NEW j \in 0 .. L, j # 0
                   PROVE  g[<<f[j - 1], j>>] = f[j - 1] \div 256
        OBVIOUS
      <3>1. j - 1 \in 0 .. L /\ j \in Nat
        OBVIOUS
      <3>2. f[j - 1] \in Nat
        BY <2>0, <3>1
      <3>3. QED BY <3>1, <3>2
    <2>2. f = [j \in 0 .. L |-> IF j = 0 THEN n ELSE f[j - 1] \div 256]
      <3> HIDE DEF g
      <3>1. \A j \in 0 .. L : f[j] = IF j = 0 THEN n ELSE f[j - 1] \div 256
        BY ONLY <2>0, <2>1
      <3>2. QED BY ONLY <2>0, <3>1
    <2>3. QED BY <2>2
  <1>5. G(q)
    <2> HIDE DEF G
    <2>1. QED BY <1>4
  <1>6. Quotients(n) = q
    BY DEF Quotients
  <1> HIDE DEF q
  <1>7. q = [j \in 0 .. L |-> IF j = 0 THEN n ELSE q[j - 1] \div 256]
    BY <1>5
  <1>8. q[0] = n /\ \A j \in 0 .. L - 1 : q[j + 1] = q[j] \div 256
    <2>1. q[0] = n
      BY <1>7
    <2>2. ASSUME NEW j \in 0 .. L - 1 PROVE q[j + 1] = q[j] \div 256
      <3>1. j + 1 \in 0 .. L /\ j + 1 # 0 /\ (j + 1) - 1 = j
        OBVIOUS
      <3>2. QED BY <1>7, <3>1
    <2>3. QED BY <2>1, <2>2
  <1> DEFINE T == {j \in Nat : j <= L => q[j] \in Nat}
  <1>9. 0 \in T
    BY <1>8
  <1>10. ASSUME NEW j \in Nat, j \in T PROVE j + 1 \in T
    <2> SUFFICES ASSUME j + 1 <= L PROVE q[j + 1] \in Nat
      OBVIOUS
    <2>1. j <= L /\ j \in 0 .. L - 1
      OBVIOUS
    <2>2. q[j] \in Nat
      BY <1>10, <2>1
    <2>3. QED BY <1>1, <1>8, <2>1, <2>2
  <1> HIDE DEF T
  <1>11. Nat \subseteq T
    BY <1>9, <1>10, SetInductionOnNat
  <1>12. \A j \in 0 .. L : q[j] \in Nat
    BY <1>11 DEF T
  <1>13. q \in [0 .. L -> Nat]
    BY <1>7, <1>12
  <1>14. QED BY <1>6, <1>8, <1>13

\* The size as it is read, byte by byte.
LEMMA SizeReadOf ==
    ASSUME NEW h \in Seq(Nat), Len(h) = HeaderLength
    PROVE  /\ SizeRead(h) \in [0 .. LengthOfSizePart -> Nat]
           /\ SizeRead(h)[0] = 0
           /\ \A i \in 0 .. LengthOfSizePart - 1 :
                 SizeRead(h)[i + 1] = SizeRead(h)[i] * 256 + h[3 + i]
  <1> DEFINE L == LengthOfSizePart
             b(i) == IF 2 + i \in 1 .. Len(h) THEN h[2 + i] ELSE 0
             g == [x \in Nat \X Nat |-> x[1] * 256 + b(x[2])]
             G(f) == f = [i \in 0 .. L |-> IF i = 0 THEN 0 ELSE f[i - 1] * 256 + h[2 + i]]
             q == CHOOSE f : G(f)
  <1>1. \A i \in Nat : b(i) \in Nat
    BY ElementOfSeq
  <1>2. g \in [Nat \X Nat -> Nat] /\ L \in Nat
    <2>1. \A x, y \in Nat : x * 256 + b(y) \in Nat
      BY <1>1
    <2> HIDE DEF b
    <2>2. QED BY <2>1
  <1>3. PICK f : LoopOf(f, L, 0, g)
    <2> HIDE DEF g, L
    <2>1. 0 \in Nat
      OBVIOUS
    <2>2. QED BY ONLY <1>2, <2>1, LoopDefines
  <1>4. \A i \in 1 .. L : b(i) = h[2 + i] /\ h[2 + i] \in Nat
    <2>1. \A i \in 1 .. L : 2 + i \in 1 .. Len(h)
      BY DEF HeaderLength
    <2>2. QED BY <1>1, <2>1
  <1>5. G(f)
    <2>0. /\ f \in [0 .. L -> Nat]
          /\ \A i \in 0 .. L : f[i] = IF i = 0 THEN 0 ELSE g[<<f[i - 1], i>>]
      BY <1>3 DEF LoopOf
    <2>1. \A i \in 0 .. L : i # 0 => g[<<f[i - 1], i>>] = f[i - 1] * 256 + h[2 + i]
      <3> SUFFICES ASSUME NEW i \in 0 .. L, i # 0
                   PROVE  g[<<f[i - 1], i>>] = f[i - 1] * 256 + h[2 + i]
        OBVIOUS
      <3>1. i - 1 \in 0 .. L /\ i \in Nat /\ i \in 1 .. L
        OBVIOUS
      <3>2. f[i - 1] \in Nat /\ b(i) = h[2 + i]
        BY <1>4, <2>0, <3>1
      <3> HIDE DEF b
      <3>3. QED BY <3>1, <3>2
    <2>2. \A i \in 0 .. L : f[i] = IF i = 0 THEN 0 ELSE f[i - 1] * 256 + h[2 + i]
      <3> HIDE DEF g
      <3>1. QED BY ONLY <2>0, <2>1
    <2>3. QED BY <2>0, <2>2
  <1>6. G(q)
    <2> HIDE DEF G
    <2>1. QED BY <1>5
  <1>7. SizeRead(h) = q
    BY DEF SizeRead
  <1> HIDE DEF q
  <1>8. q = [i \in 0 .. L |-> IF i = 0 THEN 0 ELSE q[i - 1] * 256 + h[2 + i]]
    BY <1>6
  <1>9. q[0] = 0 /\ \A i \in 0 .. L - 1 : q[i + 1] = q[i] * 256 + h[3 + i]
    <2>1. q[0] = 0
      BY <1>8
    <2>2. ASSUME NEW i \in 0 .. L - 1 PROVE q[i + 1] = q[i] * 256 + h[3 + i]
      <3>1. i + 1 \in 0 .. L /\ i + 1 # 0 /\ (i + 1) - 1 = i /\ 2 + (i + 1) = 3 + i
        OBVIOUS
      <3>2. q[i + 1] = IF i + 1 = 0 THEN 0 ELSE q[(i + 1) - 1] * 256 + h[2 + (i + 1)]
        BY ONLY <1>8, <3>1
      <3>3. QED BY ONLY <3>1, <3>2
    <2>3. QED BY <2>1, <2>2
  <1> DEFINE T == {i \in Nat : i <= L => q[i] \in Nat}
  <1>10. 0 \in T
    BY <1>9
  <1>11. ASSUME NEW i \in Nat, i \in T PROVE i + 1 \in T
    <2> SUFFICES ASSUME i + 1 <= L PROVE q[i + 1] \in Nat
      OBVIOUS
    <2>1. i <= L /\ i \in 0 .. L - 1 /\ i + 1 \in 1 .. L /\ 2 + (i + 1) = 3 + i
      OBVIOUS
    <2>2. q[i] \in Nat /\ h[3 + i] \in Nat
      BY <1>4, <1>11, <2>1
    <2>3. \A x, y \in Nat : x * 256 + y \in Nat
      OBVIOUS
    <2>4. q[i] * 256 + h[3 + i] \in Nat
      BY ONLY <2>2, <2>3
    <2>5. QED BY <1>9, <2>1, <2>4
  <1> HIDE DEF T
  <1>12. Nat \subseteq T
    BY <1>10, <1>11, SetInductionOnNat
  <1>13. \A i \in 0 .. L : q[i] \in Nat
    BY <1>12 DEF T
  <1>14. q \in [0 .. L -> Nat]
    BY <1>8, <1>13
  <1>15. QED BY <1>7, <1>9, <1>14

\* A size fits when nothing is left of it after as many divisions as it has bytes.
Fits(n) == n \in Nat /\ Quotients(n)[LengthOfSizePart] = 0

\* The size that is read from a header is the one that was written to it.
LEMMA SizeIsReadBack ==
    ASSUME NEW n, Fits(n), NEW h \in Seq(Nat), Len(h) = HeaderLength,
           \A i \in 1 .. LengthOfSizePart : h[2 + i] = SizePart(n)[i]
    PROVE  HeaderSize(h) = n
  <1> DEFINE L == LengthOfSizePart
             q == Quotients(n)
             s == SizeRead(h)
             T == {i \in Nat : i <= L => s[i] = q[L - i]}
  <1>1. q \in [0 .. L -> Nat] /\ q[0] = n /\ q[L] = 0 /\ n \in Nat
        /\ \A j \in 0 .. L - 1 : q[j + 1] = q[j] \div 256
    <2>1. n \in Nat /\ q[L] = 0
      BY DEF Fits
    <2>2. /\ Quotients(n) \in [0 .. LengthOfSizePart -> Nat] /\ Quotients(n)[0] = n
          /\ \A j \in 0 .. LengthOfSizePart - 1 :
                Quotients(n)[j + 1] = Quotients(n)[j] \div 256
      BY ONLY <2>1, QuotientsOf
    <2>3. QED BY <2>1, <2>2
  <1>2. s \in [0 .. L -> Nat] /\ s[0] = 0
        /\ \A i \in 0 .. L - 1 : s[i + 1] = s[i] * 256 + h[3 + i]
    <2>1. /\ SizeRead(h) \in [0 .. LengthOfSizePart -> Nat] /\ SizeRead(h)[0] = 0
          /\ \A i \in 0 .. LengthOfSizePart - 1 :
                SizeRead(h)[i + 1] = SizeRead(h)[i] * 256 + h[3 + i]
      BY ONLY h \in Seq(Nat), Len(h) = HeaderLength, SizeReadOf
    <2>2. QED BY <2>1
  <1>3. \A i \in 0 .. L - 1 : h[3 + i] = q[L - (i + 1)] % 256
    <2> SUFFICES ASSUME NEW i \in 0 .. L - 1 PROVE h[3 + i] = q[L - (i + 1)] % 256
      OBVIOUS
    <2>1. i + 1 \in 1 .. L /\ 2 + (i + 1) = 3 + i
      OBVIOUS
    <2>2. QED BY <2>1 DEF SizePart
  <1> HIDE DEF q, s
  <1>4. 0 \in T
    BY <1>1, <1>2
  <1>5. ASSUME NEW i \in Nat, i \in T PROVE i + 1 \in T
    <2> SUFFICES ASSUME i + 1 <= L PROVE s[i + 1] = q[L - (i + 1)]
      OBVIOUS
    <2>1. i \in 0 .. L - 1 /\ i <= L /\ L - (i + 1) \in 0 .. L - 1 /\ (L - (i + 1)) + 1 = L - i
      OBVIOUS
    <2>2. s[i] = q[L - i] /\ s[i + 1] = s[i] * 256 + h[3 + i]
      BY <1>2, <1>5, <2>1
    <2>3. PICK x \in Nat : x = q[L - (i + 1)]
      BY <1>1, <2>1
    <2>4. q[L - i] = x \div 256
      BY <1>1, <2>1, <2>3
    <2>5. h[3 + i] = x % 256
      BY <1>3, <2>1, <2>3
    <2>6. \A y \in Nat : (y \div 256) * 256 + (y % 256) = y
      OBVIOUS
    <2>7. QED BY ONLY <2>2, <2>3, <2>4, <2>5, <2>6
  <1> HIDE DEF T
  <1>6. L \in Nat
    OBVIOUS
  <1>7. L \in T
    BY <1>4, <1>5, <1>6, SetInductionOnNat
  <1>8. s[L] = q[L - L]
    BY <1>6, <1>7 DEF T
  <1>9. HeaderSize(h) = s[L]
    BY DEF HeaderSize, s
  <1>10. L - L = 0
    BY <1>6
  <1>11. QED BY <1>1, <1>8, <1>9, <1>10

\* Two is a size that fits.
LEMMA TwoFits == Fits(2)
  <1> DEFINE L == LengthOfSizePart
             q == Quotients(2)
             T == {j \in Nat : j + 1 <= L => q[j + 1] = 0}
  <1>1. q[0] = 2 /\ \A j \in 0 .. L - 1 : q[j + 1] = q[j] \div 256
    BY QuotientsOf
  <1> HIDE DEF q
  <1>2. 0 \in T
    <2>1. 0 \in 0 .. L - 1 /\ 0 + 1 = 1
      OBVIOUS
    <2>2. q[0 + 1] = 2 \div 256
      BY <1>1, <2>1
    <2>3. 2 \div 256 = 0
      OBVIOUS
    <2>4. QED BY <2>2, <2>3
  <1>3. ASSUME NEW j \in Nat, j \in T PROVE j + 1 \in T
    <2> SUFFICES ASSUME (j + 1) + 1 <= L PROVE q[(j + 1) + 1] = 0
      OBVIOUS
    <2>1. j + 1 <= L /\ j + 1 \in 0 .. L - 1
      OBVIOUS
    <2>2. q[j + 1] = 0
      BY <1>3, <2>1
    <2>3. q[(j + 1) + 1] = q[j + 1] \div 256
      BY <1>1, <2>1
    <2>4. QED BY <2>2, <2>3
  <1> HIDE DEF T
  <1>4. L - 1 \in Nat /\ (L - 1) + 1 = L
    OBVIOUS
  <1>5. L - 1 \in T
    BY <1>2, <1>3, <1>4, SetInductionOnNat
  <1>6. q[L] = 0
    BY <1>4, <1>5 DEF T
  <1>7. QED BY <1>6 DEF Fits, q

-----------------------------------------------------------------------------
(* What has been sent, and what of it has been received: the frames F that  *)
(* were ever put on the stream, and for each number of frames what they     *)
(* have come to, S.                                                         *)

Byte == 0 .. 255
SentPackets == [data : Seq(Byte), eop : {"EOP", "EEP"}]
SomeFrames == {f \in [flag : DataFlags \cup {ControlFlag_SendTimeCode}, body : Seq(Byte)] :
                 /\ Fits(Len(f.body))
                 /\ f.flag = ControlFlag_SendTimeCode => Len(f.body) = 2}
Sums == [at : Nat, packets : Seq(SentPackets), fragments : Seq(Byte), codes : Seq(Byte)]

FrameHeader(f) == Header(f.flag, Len(f.body))
FrameBytes(f) == FrameHeader(f) \o f.body
FrameLength(f) == HeaderLength + Len(f.body)

\* What t is when the frame f comes after s.
Follows(s, f, t) ==
    LET whole == s.fragments \o f.body IN
    /\ t.at = s.at + FrameLength(f)
    /\ f.flag = ControlFlag_SendTimeCode =>
         /\ t.codes = Append(s.codes, f.body[1])
         /\ t.packets = s.packets /\ t.fragments = s.fragments
    /\ f.flag # ControlFlag_SendTimeCode =>
         /\ t.codes = s.codes
         /\ f.flag = DataFlag_Flagmented => t.fragments = whole /\ t.packets = s.packets
         /\ f.flag # DataFlag_Flagmented =>
              /\ t.fragments = <<>>
              /\ whole = <<>> => t.packets = s.packets
              /\ whole # <<>> =>
                   t.packets = Append(s.packets, [data |-> whole, eop |-> EndOfPacket(f.flag)])

Goes(s, t) == s.at <= t.at /\ IsPrefix(s.packets, t.packets) /\ IsPrefix(s.codes, t.codes)

Past(F, S, n) ==
    /\ n \in Nat /\ F \in [Nat -> SomeFrames] /\ S \in [Nat -> Sums]
    /\ \A i \in Nat : i < n => Follows(S[i], F[i + 1], S[i + 1])
    /\ \A i, j \in Nat : i <= j /\ j <= n => Goes(S[i], S[j])

\* The stream holds what comes after position p of n frames, and of `out` bytes of one more.
OnStream(st, F, S, n, out, p) ==
    /\ Len(st) = S[n].at + out - p
    /\ \A i, j \in Nat :
          /\ i <= n /\ 1 <= j /\ (i < n => j <= FrameLength(F[i + 1])) /\ (i = n => j <= out)
          /\ S[i].at + j > p
          => st[S[i].at + j - p] = FrameBytes(F[i + 1])[j]

\* A thread in the data of a call has the rest of the frame whose header is out.
Carries(q, f) == q.call # "timecode" /\ f.body = q.data /\ f.flag = EOPFlag(q.eop)

SenderAt(F, S, n, out) ==
    /\ packetsSent = S[n].packets /\ openFragments = S[n].fragments /\ codesSent = S[n].codes
    /\ out \in {0, HeaderLength}
    /\ out = 0 => \A s \in Senders : sendPlace[s] = "data" => sendRequest[s].data = <<>>
    /\ out # 0 =>
         /\ F[n + 1].body # <<>> /\ F[n + 1].flag \in DataFlags
         /\ \/ tcpBroken
            \/ \E s \in Senders : sendPlace[s] = "data" /\ Carries(sendRequest[s], F[n + 1])

AtHeader(f, s, p) ==
    /\ p = s.at + Len(rheader) /\ Len(rheader) < HeaderLength
    /\ receivebuffer = s.fragments
    /\ \A j \in 1 .. Len(rheader) : rheader[j] = FrameBytes(f)[j]

AtData(f, s, p) ==
    /\ f.flag \in DataFlags /\ rheader = FrameHeader(f)
    /\ flagmentSize \in 1 .. Len(f.body)
    /\ p = s.at + HeaderLength + (Len(f.body) - flagmentSize)
    /\ receivebuffer = s.fragments \o SubSeq(f.body, 1, Len(f.body) - flagmentSize)

AtTimeCode(f, s, p) ==
    /\ f.flag = ControlFlag_SendTimeCode /\ rheader = FrameHeader(f)
    /\ flagmentSize \in 1 .. 2
    /\ p = s.at + HeaderLength + (2 - flagmentSize)
    /\ receivebuffer = s.fragments
    /\ flagmentSize = 1 => internalTimecode = f.body[1]

Resting == {"idle", "lock"}

\* k frames have been received, and p bytes; of the next frame what the place of a thread says.
ReceiverAt(F, S, k, p) ==
    /\ packetsReceived = S[k].packets /\ codesReceived = S[k].codes
    /\ (\A r \in Receivers : receivePlace[r] \in Resting) => p = S[k].at /\ S[k].fragments = <<>>
    /\ \A r \in Receivers :
         /\ receivePlace[r] \in {"check", "header"} => AtHeader(F[k + 1], S[k], p)
         /\ receivePlace[r] = "data" => AtData(F[k + 1], S[k], p)
         /\ receivePlace[r] = "timecode" => AtTimeCode(F[k + 1], S[k], p)

FramesInv ==
    bytesLost \/ \E F, S : \E n, k, p, out \in Nat :
        /\ Past(F, S, n) /\ k <= n /\ p <= S[n].at + out
        /\ OnStream(stream, F, S, n, out, p)
        /\ SenderAt(F, S, n, out) /\ ReceiverAt(F, S, k, p)

StreamTypes ==
    /\ stream \in Seq(Byte) /\ rheader \in Seq(Byte) /\ Len(rheader) <= HeaderLength
    /\ receivebuffer \in Seq(Byte) /\ flagmentSize \in Nat
    /\ \A s \in Senders : sendPlace[s] # "idle" => sendRequest[s] \in SendRequests
    /\ \A s \in Senders : sendPlace[s] = "data" => sendRequest[s].call # "timecode"

FramingInv == LocksInv /\ StreamTypes /\ FramesInv

-----------------------------------------------------------------------------
(* Frames.                                                                  *)

\* A sequence is a prefix of itself, and what comes after what comes after it
\* comes after it.
LEMMA PrefixOfItself ==
    ASSUME NEW A, NEW s \in Seq(A)
    PROVE  IsPrefix(s, s)
  <1>1. Len(s) \in Nat /\ SubSeq(s, 1, Len(s)) = s
    OBVIOUS
  <1>2. QED BY <1>1 DEF IsPrefix

\* A prefix of a prefix is a prefix.
LEMMA PrefixOfPrefix ==
    ASSUME NEW A, NEW s \in Seq(A), NEW t \in Seq(A), NEW u \in Seq(A),
           IsPrefix(s, t), IsPrefix(t, u)
    PROVE  IsPrefix(s, u)
  <1>1. Len(s) \in Nat /\ Len(t) \in Nat /\ Len(u) \in Nat /\ Len(s) <= Len(t) /\ Len(t) <= Len(u)
    BY DEF IsPrefix
  <1>2. s = SubSeq(t, 1, Len(s)) /\ t = SubSeq(u, 1, Len(t))
    BY DEF IsPrefix
  <1>3. \A i \in 1 .. Len(s) : s[i] = u[i]
    BY <1>1, <1>2
  <1>4. s = SubSeq(u, 1, Len(s))
    BY <1>1, <1>3
  <1>5. QED BY <1>1, <1>4 DEF IsPrefix

\* A sequence is a prefix of what it is with one more element.
LEMMA PrefixOfMore ==
    ASSUME NEW A, NEW s \in Seq(A), NEW e \in A
    PROVE  Append(s, e) \in Seq(A) /\ IsPrefix(s, Append(s, e))
  <1>1. /\ Append(s, e) \in Seq(A) /\ Len(s) \in Nat /\ Len(Append(s, e)) = Len(s) + 1
        /\ \A i \in 1 .. Len(s) : Append(s, e)[i] = s[i]
    OBVIOUS
  <1> DEFINE w == Append(s, e)
  <1> HIDE DEF w
  <1>2. w \in Seq(A) /\ Len(w) = Len(s) + 1 /\ \A i \in 1 .. Len(s) : w[i] = s[i]
    BY <1>1 DEF w
  <1>3. SubSeq(s, 1, Len(s)) = SubSeq(w, 1, Len(s))
    BY <1>1, <1>2
  <1>4. IsPrefix(s, w)
    BY <1>1, <1>2, <1>3 DEF IsPrefix
  <1>5. QED BY <1>1, <1>4 DEF w

\* A sequence that is another, and then one more.
Joined(x, a, b) ==
    /\ x = a \o b /\ Len(x) = Len(a) + Len(b)
    /\ \A i \in 1 .. Len(a) : x[i] = a[i]
    /\ \A i \in 1 .. Len(b) : x[Len(a) + i] = b[i]

\* Two sequences can be joined.
LEMMA TwoInARow ==
    ASSUME NEW A, NEW a \in Seq(A), NEW b \in Seq(A)
    PROVE  \E x \in Seq(A) : Joined(x, a, b)
  <1>1. /\ a \o b \in Seq(A) /\ Len(a \o b) = Len(a) + Len(b)
        /\ \A i \in 1 .. Len(a) : (a \o b)[i] = a[i]
        /\ \A i \in 1 .. Len(b) : (a \o b)[Len(a) + i] = b[i]
    BY OneAfterAnother
  <1>2. PICK x \in Seq(A) : x = a \o b
    BY ONLY <1>1
  <1>3. Joined(x, a, b)
    BY ONLY <1>1, <1>2 DEF Joined
  <1>4. QED BY ONLY <1>3

\* Of three sequences, it does not matter which two are joined first.
Associate(a, b, c) == (a \o b) \o c = a \o (b \o c)

\* Joining sequences is associative.
LEMMA ThreeInARow ==
    ASSUME NEW A, NEW a \in Seq(A), NEW b \in Seq(A), NEW c \in Seq(A)
    PROVE  Associate(a, b, c)
  <1>1. PICK la, lb, lc \in Nat : la = Len(a) /\ lb = Len(b) /\ lc = Len(c)
    OBVIOUS
  <1>2. PICK x \in Seq(A) : Joined(x, a, b)
    BY TwoInARow
  <1>3. PICK y \in Seq(A) : Joined(y, b, c)
    BY TwoInARow
  <1>4. PICK v \in Seq(A) : Joined(v, x, c)
    BY TwoInARow
  <1>5. PICK w \in Seq(A) : Joined(w, a, y)
    BY TwoInARow
  <1>6. /\ x = a \o b /\ Len(x) = la + lb
        /\ \A i \in 1 .. la : x[i] = a[i]
        /\ \A i \in 1 .. lb : x[la + i] = b[i]
    BY ONLY <1>1, <1>2 DEF Joined
  <1>7. /\ y = b \o c /\ Len(y) = lb + lc
        /\ \A i \in 1 .. lb : y[i] = b[i]
        /\ \A i \in 1 .. lc : y[lb + i] = c[i]
    BY ONLY <1>1, <1>3 DEF Joined
  <1>8. /\ v = x \o c /\ Len(v) = la + lb + lc
        /\ \A i \in 1 .. la + lb : v[i] = x[i]
        /\ \A i \in 1 .. lc : v[la + lb + i] = c[i]
    BY ONLY <1>1, <1>6, <1>4 DEF Joined
  <1>9. /\ w = a \o y /\ Len(w) = la + (lb + lc)
        /\ \A i \in 1 .. la : w[i] = a[i]
        /\ \A i \in 1 .. lb + lc : w[la + i] = y[i]
    BY ONLY <1>1, <1>7, <1>5 DEF Joined
  <1>10. Len(v) = Len(w)
    BY ONLY <1>8, <1>9, la \in Nat, lb \in Nat, lc \in Nat
  <1>11. ASSUME NEW i \in 1 .. la + lb + lc PROVE v[i] = w[i]
    <2>1. CASE i <= la
      <3>1. i \in 1 .. la /\ i \in 1 .. la + lb
        BY <2>1
      <3>2. QED BY ONLY <1>6, <1>8, <1>9, <3>1
    <2>2. CASE ~(i <= la) /\ i <= la + lb
      <3>1. PICK j \in Nat : j = i - la
        BY <2>2
      <3>2. j \in 1 .. lb /\ j \in 1 .. lb + lc /\ i = la + j /\ i \in 1 .. la + lb
        BY <2>2, <3>1
      <3>3. v[i] = x[i] /\ x[la + j] = b[j]
        BY ONLY <1>6, <1>8, <3>2
      <3>4. w[la + j] = y[j] /\ y[j] = b[j]
        BY ONLY <1>7, <1>9, <3>2
      <3>5. QED BY ONLY <3>2, <3>3, <3>4
    <2>3. CASE ~(i <= la + lb)
      <3>1. PICK j \in Nat : j = i - (la + lb)
        BY <2>3
      <3>2. j \in 1 .. lc /\ lb + j \in 1 .. lb + lc /\ i = la + lb + j /\ i = la + (lb + j)
        BY <2>3, <3>1
      <3>3. v[i] = c[j] /\ w[i] = c[j]
        BY ONLY <1>7, <1>8, <1>9, <3>2
      <3>4. QED BY ONLY <3>3
    <2>4. QED BY <2>1, <2>2, <2>3
  <1>12. v = w
    BY ONLY <1>8, <1>10, <1>11, v \in Seq(A), w \in Seq(A), SeqEqual
  <1>13. QED BY ONLY <1>6, <1>7, <1>8, <1>9, <1>12 DEF Associate

\* The bytes of a frame.
LEMMA FrameLayout ==
    ASSUME NEW f \in SomeFrames
    PROVE  /\ f.body \in Seq(Byte) /\ Len(f.body) \in Nat /\ HeaderLength \in Nat
              /\ 3 <= HeaderLength
           /\ FrameHeader(f) \in Seq(Byte) /\ Len(FrameHeader(f)) = HeaderLength
           /\ FrameHeader(f)[1] = f.flag
           /\ FrameBytes(f) \in Seq(Byte) /\ Len(FrameBytes(f)) = FrameLength(f)
           /\ \A j \in 1 .. HeaderLength : FrameBytes(f)[j] = FrameHeader(f)[j]
           /\ \A j \in 1 .. Len(f.body) : FrameBytes(f)[HeaderLength + j] = f.body[j]
           /\ HeaderSize(FrameHeader(f)) = Len(f.body)
  <1> DEFINE n == Len(f.body)
             L == LengthOfSizePart
  <1>1. /\ f.body \in Seq(Byte) /\ n \in Nat /\ L \in Nat /\ 1 <= L /\ HeaderLength = 2 + L
        /\ Fits(n) /\ f.flag \in Byte
    BY DEF SomeFrames, HeaderLength, Fits, DataFlags, DataFlag_Complete_EOP,
           DataFlag_Complete_EEP, DataFlag_Flagmented, ControlFlag_SendTimeCode, Byte
  <1>2. SizePart(n) \in Seq(Byte) /\ Len(SizePart(n)) = L
    <2>1. \A x \in Nat : x % 256 \in Byte
      BY DEF Byte
    <2>2. \A i \in 1 .. L : Quotients(n)[L - i] \in Nat
      <3>1. \A i \in 1 .. L : L - i \in 0 .. L
        BY <1>1
      <3>2. Quotients(n) \in [0 .. L -> Nat]
        BY <1>1, QuotientsOf
      <3>3. QED BY <3>1, <3>2
    <2>3. SizePart(n) = [i \in 1 .. L |-> Quotients(n)[L - i] % 256]
      BY DEF SizePart
    <2>4. SizePart(n) \in [1 .. L -> Byte]
      <3>1. \A i \in 1 .. L : Quotients(n)[L - i] % 256 \in Byte
        BY ONLY <2>1, <2>2
      <3>2. QED BY ONLY <2>3, <3>1
    <2>5. QED
      <3> HIDE DEF L
      <3>1. QED BY ONLY <1>1, <2>4
  <1>3. <<f.flag, 0>> \in Seq(Byte) /\ Len(<<f.flag, 0>>) = 2
    <2>1. 0 \in Byte
      BY DEF Byte
    <2>2. QED BY <1>1, <2>1
  <1>4. /\ FrameHeader(f) \in Seq(Byte) /\ Len(FrameHeader(f)) = HeaderLength
        /\ FrameHeader(f)[1] = f.flag
        /\ \A i \in 1 .. L : FrameHeader(f)[2 + i] = SizePart(n)[i]
    <2>1. PICK x, y \in Seq(Byte) :
              FrameHeader(f) = x \o y /\ x = <<f.flag, 0>> /\ y = SizePart(n)
      BY <1>2, <1>3 DEF FrameHeader, Header
    <2>2. Len(x) = 2 /\ x[1] = f.flag /\ Len(y) = L
      BY <1>2, <2>1
    <2> HIDE DEF L, n
    <2>3. /\ x \o y \in Seq(Byte) /\ Len(x \o y) = Len(x) + Len(y)
          /\ \A i \in 1 .. Len(x) : (x \o y)[i] = x[i]
          /\ \A i \in 1 .. Len(y) : (x \o y)[Len(x) + i] = y[i]
      BY ONLY OneAfterAnother
    <2>4. Len(x \o y) = 2 + L /\ \A i \in 1 .. L : (x \o y)[2 + i] = y[i]
      BY ONLY <2>2, <2>3
    <2>5. (x \o y)[1] = x[1]
      BY ONLY <2>2, <2>3
    <2>6. y = SizePart(n)
      BY <2>1
    <2>7. HeaderLength = 2 + L
      BY <1>1
    <2>8. FrameHeader(f) = x \o y
      BY <2>1
    <2>9. QED BY ONLY <2>2, <2>3, <2>4, <2>5, <2>6, <2>7, <2>8
  <1>5. HeaderSize(FrameHeader(f)) = n
    <2>1. FrameHeader(f) \in Seq(Nat)
      <3>1. Byte \subseteq Nat
        BY DEF Byte
      <3>2. QED BY ONLY <1>4, <3>1, SeqOverMore
    <2> HIDE DEF n
    <2>2. QED BY <1>1, <1>4, <2>1, SizeIsReadBack
  <1> DEFINE h == FrameHeader(f)
             b == f.body
  <1>6. FrameBytes(f) = h \o b
    BY DEF FrameBytes
  <1> HIDE DEF h, b, n, L
  <1>7. h \in Seq(Byte) /\ Len(h) = HeaderLength /\ b \in Seq(Byte) /\ n = Len(b)
        /\ HeaderLength \in Nat
    BY ONLY <1>1, <1>4 DEF h, b, n
  <1>8. h \o b \in Seq(Byte) /\ Len(h \o b) = HeaderLength + n
    BY ONLY <1>7, ConcatProperties
  <1>9. \A j \in 1 .. HeaderLength : (h \o b)[j] = h[j]
    BY ONLY <1>1, <1>7
  <1>10. \A j \in 1 .. n : (h \o b)[HeaderLength + j] = b[j]
    BY ONLY <1>1, <1>7
  <1>11. QED BY ONLY <1>1, <1>4, <1>5, <1>6, <1>8, <1>9, <1>10 DEF h, b, n, FrameLength

\* Bytes that are those of a header, from the first to the last, are the header.
LEMMA HeaderIsRead ==
    ASSUME NEW f \in SomeFrames, NEW h \in Seq(Byte), Len(h) = HeaderLength,
           \A j \in 1 .. Len(h) : h[j] = FrameBytes(f)[j]
    PROVE  h = FrameHeader(f)
  <1> DEFINE g == FrameHeader(f)
  <1>1. g \in Seq(Byte) /\ Len(g) = HeaderLength
        /\ \A j \in 1 .. HeaderLength : FrameBytes(f)[j] = g[j]
    BY FrameLayout
  <1> HIDE DEF g
  <1>2. \A j \in 1 .. Len(h) : h[j] = g[j]
    BY <1>1
  <1>3. h = g
    BY <1>1, <1>2, SeqEqual
  <1>4. QED BY <1>3 DEF g

-----------------------------------------------------------------------------
(* The stream grows at its end, and is read at its beginning.               *)

Agrees(F, S, G, U, n, out) ==
    /\ \A i \in Nat : i <= n => U[i] = S[i]
    /\ \A i \in Nat : 1 <= i /\ i <= n => G[i] = F[i]
    /\ out # 0 => G[n + 1] = F[n + 1]

\* Sums go on from one to the next.
LEMMA GoesOn ==
    ASSUME NEW s \in Sums, NEW t \in Sums, NEW u \in Sums, Goes(s, t), Goes(t, u)
    PROVE  Goes(s, u)
  <1>1. s.at \in Nat /\ t.at \in Nat /\ u.at \in Nat
    BY DEF Sums
  <1>2. s.packets \in Seq(SentPackets) /\ t.packets \in Seq(SentPackets)
        /\ u.packets \in Seq(SentPackets)
    BY DEF Sums
  <1>3. s.codes \in Seq(Byte) /\ t.codes \in Seq(Byte) /\ u.codes \in Seq(Byte)
    BY DEF Sums
  <1>4. IsPrefix(s.packets, u.packets)
    <2> HIDE DEF Byte
    <2>1. QED BY <1>2, PrefixOfPrefix DEF Goes
  <1>5. IsPrefix(s.codes, u.codes)
    <2>1. QED BY <1>3, PrefixOfPrefix DEF Goes
  <1>6. QED BY <1>1, <1>4, <1>5 DEF Goes

\* A byte of a frame comes before the end of all that is out.
LEMMA EndOfFrame ==
    ASSUME NEW F, NEW S, NEW n \in Nat, NEW out \in Nat, Past(F, S, n),
           NEW i \in Nat, NEW j \in Nat, i <= n, i < n => j <= FrameLength(F[i + 1]),
           i = n => j <= out
    PROVE  S[i].at + j <= S[n].at + out /\ (i < n => S[i].at + j <= S[n].at)
  <1>1. \A x \in Nat : S[x].at \in Nat
    BY DEF Past, Sums
  <1>2. CASE i = n
    BY <1>1, <1>2
  <1>3. CASE i < n
    <2>1. i + 1 \in Nat /\ i + 1 <= n
      BY <1>3
    <2>2. Goes(S[i + 1], S[n]) /\ Follows(S[i], F[i + 1], S[i + 1])
      BY <1>3, <2>1 DEF Past
    <2>3. j <= FrameLength(F[i + 1]) /\ FrameLength(F[i + 1]) \in Nat
      <3>1. F[i + 1] \in SomeFrames
        BY <2>1 DEF Past
      <3>2. QED BY <1>3, <3>1, FrameLayout DEF FrameLength
    <2>4. S[i + 1].at = S[i].at + FrameLength(F[i + 1]) /\ S[i + 1].at <= S[n].at
      BY <2>2 DEF Goes, Follows
    <2>5. S[i].at \in Nat /\ S[i + 1].at \in Nat /\ S[n].at \in Nat
      BY <1>1, <2>1
    <2>6. QED BY ONLY <2>3, <2>4, <2>5, j \in Nat, out \in Nat
  <1>4. QED BY <1>2, <1>3

\* Where a byte of a frame is on the stream.
LEMMA PlaceOnStream ==
    ASSUME NEW a \in Nat, NEW e \in Nat, NEW j \in Nat, NEW p \in Nat, NEW l \in Nat,
           l = e - p, a + j <= e, a + j > p
    PROVE  a + j - p \in 1 .. l
OBVIOUS

\* The bytes b are those of the frame f that come after the first `out`.
Continues(b, f, out) == \A j \in 1 .. Len(b) : b[j] = FrameBytes(f)[out + j]

\* More bytes of the frame that comes after n frames.
LEMMA StreamGrowsBy ==
    ASSUME NEW F, NEW S, NEW G, NEW n \in Nat, NEW out \in Nat, NEW p \in Nat,
           NEW st \in Seq(Byte),
           Past(F, S, n), p <= S[n].at + out, OnStream(st, F, S, n, out, p),
           G \in [Nat -> SomeFrames], Agrees(F, S, G, S, n, out),
           NEW b \in Seq(Byte),
           Continues(b, G[n + 1], out)
    PROVE  OnStream(st \o b, G, S, n, out + Len(b), p) /\ p <= S[n].at + (out + Len(b))
  <1> DEFINE w == st \o b
  <1>1. /\ Len(st) \in Nat /\ Len(b) \in Nat /\ Len(w) = Len(st) + Len(b)
        /\ \A x \in 1 .. Len(st) : w[x] = st[x]
        /\ \A x \in 1 .. Len(b) : w[Len(st) + x] = b[x]
    BY ConcatProperties
  <1>2. \A i \in Nat : S[i].at \in Nat
    BY DEF Past, Sums
  <1>3. Len(st) = S[n].at + out - p
    BY DEF OnStream
  <1>4. Len(w) = S[n].at + (out + Len(b)) - p
    BY <1>1, <1>2, <1>3
  <1> HIDE DEF w
  <1>5. ASSUME NEW i \in Nat, NEW j \in Nat, i <= n, 1 <= j, i < n => j <= FrameLength(G[i + 1]),
               i = n => j <= out + Len(b), S[i].at + j > p
        PROVE  w[S[i].at + j - p] = FrameBytes(G[i + 1])[j]
    <2>1. CASE i < n
      <3>1. G[i + 1] = F[i + 1] /\ i + 1 \in Nat /\ i + 1 <= n
        BY <2>1 DEF Agrees
      <3>2. st[S[i].at + j - p] = FrameBytes(F[i + 1])[j]
        BY <1>5, <2>1, <3>1 DEF OnStream
      <3>3. S[i].at + j <= S[n].at
        BY <1>5, <2>1, <3>1, EndOfFrame
      <3>4. S[i].at + j - p \in 1 .. Len(st)
        <4>1. S[i].at \in Nat /\ S[n].at \in Nat
          BY <1>2
        <4>2. PICK x, y \in Nat : x = S[i].at /\ y = S[n].at
          BY <4>1
        <4>3. x + j > p /\ x + j <= y + out /\ y + out \in Nat /\ Len(st) = (y + out) - p
          <5>1. x + j > p
            BY ONLY <1>5, <4>2
          <5>2. x + j <= y + out
            <6>1. x + j <= y
              BY ONLY <3>3, <4>2
            <6>2. QED BY ONLY <6>1, x \in Nat, j \in Nat, y \in Nat, out \in Nat
          <5>3. y + out \in Nat
            BY ONLY out \in Nat, y \in Nat
          <5>4. Len(st) = (y + out) - p
            BY ONLY <1>3, <4>2
          <5>5. QED BY ONLY <5>1, <5>2, <5>3, <5>4
        <4>4. x + j - p \in 1 .. Len(st)
          BY ONLY <1>1, <4>2, <4>3, j \in Nat, p \in Nat, PlaceOnStream
        <4>5. QED BY ONLY <4>2, <4>4
      <3>5. QED BY <1>1, <3>1, <3>2, <3>4
    <2>2. CASE i = n /\ j <= out
      <3>1. st[S[n].at + j - p] = FrameBytes(F[n + 1])[j]
        BY <1>5, <2>2 DEF OnStream
      <3>2. G[n + 1] = F[n + 1]
        BY <1>5, <2>2 DEF Agrees
      <3>3. S[n].at + j - p \in 1 .. Len(st)
        <4>1. PICK y \in Nat : y = S[n].at
          BY ONLY <1>2, n \in Nat
        <4>2. y + j > p /\ y + j <= y + out /\ y + out \in Nat /\ Len(st) = (y + out) - p
          <5>1. y + j > p
            BY ONLY <1>5, <2>2, <4>1
          <5>2. y + j <= y + out /\ y + out \in Nat
            BY ONLY <2>2, y \in Nat, j \in Nat, out \in Nat
          <5>3. Len(st) = (y + out) - p
            BY ONLY <1>3, <4>1
          <5>4. QED BY ONLY <5>1, <5>2, <5>3
        <4>3. y + j - p \in 1 .. Len(st)
          BY ONLY <1>1, <4>2, y \in Nat, j \in Nat, p \in Nat, PlaceOnStream
        <4>4. QED BY ONLY <4>1, <4>3
      <3>4. QED BY <1>1, <2>2, <3>1, <3>2, <3>3
    <2>3. CASE i = n /\ ~(j <= out)
      <3>1. PICK x \in 1 .. Len(b) : j = out + x
        <4>1. j - out \in 1 .. Len(b) /\ j = out + (j - out)
          <5>1. j <= out + Len(b) /\ Len(b) \in Nat /\ ~(j <= out)
            BY ONLY <1>1, <1>5, <2>3
          <5>2. QED BY ONLY <5>1, j \in Nat, out \in Nat
        <4>2. QED BY <4>1
      <3>2. S[n].at + j - p = Len(st) + x
        <4>1. PICK y \in Nat : y = S[n].at
          BY ONLY <1>2, n \in Nat
        <4>2. Len(st) = y + out - p
          BY ONLY <1>3, <4>1
        <4>3. y + j - p = Len(st) + x
          BY ONLY <3>1, <4>2, y \in Nat, out \in Nat, p \in Nat, x \in Nat
        <4>4. QED BY ONLY <4>1, <4>3
      <3>3. w[Len(st) + x] = b[x] /\ b[x] = FrameBytes(G[n + 1])[out + x]
        BY <1>1 DEF Continues
      <3>4. QED BY <2>3, <3>1, <3>2, <3>3
    <2>4. QED BY <1>5, <2>1, <2>2, <2>3
  <1>6. OnStream(w, G, S, n, out + Len(b), p)
    BY <1>4, <1>5 DEF OnStream
  <1>7. p <= S[n].at + (out + Len(b))
    BY <1>1, <1>2
  <1>8. QED BY <1>6, <1>7 DEF w

\* U has t as the sum after S[n].
NextSum(S, n, t, U) == U = [S EXCEPT ![n + 1] = t]

\* A frame all of whose bytes are out is one more frame.
LEMMA FrameIsOut ==
    ASSUME NEW F, NEW S, NEW U, NEW n \in Nat, NEW out \in Nat, NEW p \in Nat,
           NEW st \in Seq(Byte),
           Past(F, S, n), p <= S[n].at + out, OnStream(st, F, S, n, out, p),
           out = FrameLength(F[n + 1]), NEW t \in Sums, Follows(S[n], F[n + 1], t),
           NextSum(S, n, t, U), Goes(S[n], t)
    PROVE  /\ Past(F, U, n + 1) /\ p <= U[n + 1].at + 0
           /\ OnStream(st, F, U, n + 1, 0, p)
           /\ Agrees(F, S, F, U, n, 1) /\ U[n + 1] = t
  <1>1. /\ n + 1 \in Nat /\ U \in [Nat -> Sums] /\ U[n + 1] = t
        /\ \A i \in Nat : i <= n => U[i] = S[i]
    BY DEF Past, NextSum
  <1>2. \A i \in Nat : S[i].at \in Nat
    BY DEF Past, Sums
  <1>3. t.at = S[n].at + out
    BY DEF Follows
  <1>4. Past(F, U, n + 1)
    <2>1. ASSUME NEW i \in Nat, i < n + 1 PROVE Follows(U[i], F[i + 1], U[i + 1])
      <3>1. CASE i < n
        <4>1. i + 1 \in Nat /\ i + 1 <= n
          BY <3>1
        <4>2. U[i] = S[i] /\ U[i + 1] = S[i + 1]
          BY <1>1, <3>1, <4>1
        <4>3. Follows(S[i], F[i + 1], S[i + 1])
          BY <3>1 DEF Past
        <4>4. QED BY ONLY <4>2, <4>3
      <3>2. CASE i = n
        <4>1. U[i] = S[n] /\ U[i + 1] = t
          BY <1>1, <3>2
        <4>2. QED BY <3>2, <4>1
      <3>3. QED BY <2>1, <3>1, <3>2
    <2>2. ASSUME NEW i \in Nat, NEW j \in Nat, i <= j, j <= n + 1 PROVE Goes(U[i], U[j])
      <3>1. CASE j <= n
        <4>1. U[i] = S[i] /\ U[j] = S[j] /\ Goes(S[i], S[j])
          BY <1>1, <2>2, <3>1 DEF Past
        <4>2. QED BY <4>1
      <3>2. CASE j = n + 1 /\ i = n + 1
        <4>1. t.at \in Nat /\ t.packets \in Seq(SentPackets) /\ t.codes \in Seq(Byte)
          BY DEF Sums
        <4>2. Goes(t, t)
          BY <4>1, PrefixOfItself DEF Goes
        <4>3. QED BY <1>1, <3>2, <4>2
      <3>3. CASE j = n + 1 /\ i <= n
        <4>1. Goes(S[i], S[n])
          BY <3>3 DEF Past
        <4>2. S[i] \in Sums /\ S[n] \in Sums
          BY DEF Past
        <4>3. Goes(S[i], t)
          BY <4>1, <4>2, GoesOn
        <4>4. QED BY <1>1, <3>3, <4>3
      <3>4. QED BY <2>2, <3>1, <3>2, <3>3
    <2>3. QED BY <1>1, <2>1, <2>2 DEF Past
  <1>5. Len(st) = U[n + 1].at + 0 - p
    BY <1>1, <1>2, <1>3 DEF OnStream
  <1>6. ASSUME NEW i \in Nat, NEW j \in Nat, i <= n + 1, 1 <= j,
               i < n + 1 => j <= FrameLength(F[i + 1]), i = n + 1 => j <= 0, U[i].at + j > p
        PROVE  st[U[i].at + j - p] = FrameBytes(F[i + 1])[j]
    <2>1. i <= n /\ j <= FrameLength(F[i + 1])
      BY <1>6
    <2>2. U[i] = S[i]
      BY <1>1, <2>1
    <2>3. i = n => j <= out
      BY <2>1
    <2>4. QED BY <1>6, <2>1, <2>2, <2>3 DEF OnStream
  <1>7. OnStream(st, F, U, n + 1, 0, p)
    BY <1>5, <1>6 DEF OnStream
  <1>8. p <= U[n + 1].at + 0
    BY <1>1, <1>2, <1>3
  <1>9. QED BY <1>1, <1>4, <1>7, <1>8 DEF Agrees

\* The first m bytes are taken from the stream.
LEMMA StreamIsReadBy ==
    ASSUME NEW F, NEW S, NEW n \in Nat, NEW out \in Nat, NEW p \in Nat, NEW st \in Seq(Byte),
           Past(F, S, n), p <= S[n].at + out, OnStream(st, F, S, n, out, p),
           NEW m \in Nat, m <= Len(st)
    PROVE  /\ OnStream(SubSeq(st, m + 1, Len(st)), F, S, n, out, p + m)
           /\ p + m <= S[n].at + out
  <1> DEFINE w == SubSeq(st, m + 1, Len(st))
  <1>1. /\ Len(st) \in Nat /\ Len(w) = Len(st) - m
        /\ \A x \in 1 .. Len(st) - m : w[x] = st[m + x]
    <2>1. Len(st) \in Nat
      OBVIOUS
    <2>2. Len(w) = Len(st) - m
      BY <2>1
    <2>3. \A x \in 1 .. Len(st) - m : w[x] = st[m + x]
      BY <2>1
    <2>4. QED BY <2>1, <2>2, <2>3
  <1>2. \A i \in Nat : S[i].at \in Nat
    BY DEF Past, Sums
  <1>3. Len(st) = S[n].at + out - p
    BY DEF OnStream
  <1> HIDE DEF w
  <1>4. ASSUME NEW i \in Nat, NEW j \in Nat, i <= n, 1 <= j, i < n => j <= FrameLength(F[i + 1]),
               i = n => j <= out, S[i].at + j > p + m
        PROVE  w[S[i].at + j - (p + m)] = FrameBytes(F[i + 1])[j]
    <2>1. S[i].at + j > p /\ S[i].at + j - p = m + (S[i].at + j - (p + m))
      <3>1. PICK x \in Nat : x = S[i].at
        BY ONLY <1>2, i \in Nat
      <3>2. x + j > p + m
        BY ONLY <1>4, <3>1
      <3>3. x + j > p /\ x + j - p = m + (x + j - (p + m))
        BY ONLY <3>2, x \in Nat, j \in Nat, p \in Nat, m \in Nat
      <3>4. QED BY ONLY <3>1, <3>3
    <2>2. st[S[i].at + j - p] = FrameBytes(F[i + 1])[j]
      BY <1>4, <2>1 DEF OnStream
    <2>3. S[i].at + j <= S[n].at + out
      BY <1>2, <1>4, EndOfFrame
    <2>4. S[i].at + j - (p + m) \in 1 .. Len(st) - m
      <3>1. S[i].at \in Nat /\ S[n].at \in Nat
        BY <1>2
      <3>2. PICK x, y \in Nat : x = S[i].at /\ y = S[n].at
        BY <3>1
      <3>3. /\ x + j > p + m /\ x + j <= y + out /\ y + out \in Nat /\ Len(st) - m \in Nat
            /\ Len(st) - m = (y + out) - (p + m) /\ p + m \in Nat
        <4>1. x + j > p + m
          BY ONLY <1>4, <3>2
        <4>2. x + j <= y + out
          BY ONLY <2>3, <3>2
        <4>3. y + out \in Nat /\ p + m \in Nat
          BY ONLY out \in Nat, y \in Nat, p \in Nat, m \in Nat
        <4>4. Len(st) = (y + out) - p
          BY ONLY <1>3, <3>2
        <4>5. Len(st) \in Nat
          BY ONLY <1>1
        <4>6. Len(st) - m \in Nat /\ Len(st) - m = (y + out) - (p + m)
          BY ONLY <4>4, <4>5, m \in Nat, m <= Len(st), y \in Nat, out \in Nat, p \in Nat
        <4>7. QED BY ONLY <4>1, <4>2, <4>3, <4>6
      <3>4. x + j - (p + m) \in 1 .. Len(st) - m
        BY ONLY <3>2, <3>3, j \in Nat, PlaceOnStream
      <3>5. QED BY ONLY <3>2, <3>4
    <2>5. QED BY <1>1, <2>1, <2>2, <2>4
  <1>9. PICK y \in Nat : y = S[n].at
    BY <1>2
  <1>5. Len(w) = S[n].at + out - (p + m)
    <2>1. Len(w) = y + out - p - m
      BY ONLY <1>1, <1>3, <1>9
    <2>2. Len(w) = y + out - (p + m)
      BY ONLY <2>1, y \in Nat, out \in Nat, p \in Nat, m \in Nat
    <2>3. QED BY ONLY <1>9, <2>2
  <1>6. OnStream(w, F, S, n, out, p + m)
    BY <1>4, <1>5 DEF OnStream
  <1>7. p + m <= S[n].at + out
    <2>1. Len(st) \in Nat /\ Len(st) = y + out - p
      BY ONLY <1>1, <1>3, <1>9
    <2>2. p + m <= y + out
      BY ONLY <2>1, m <= Len(st), y \in Nat, out \in Nat, p \in Nat, m \in Nat
    <2>3. QED BY ONLY <1>9, <2>2
  <1>8. QED BY <1>6, <1>7 DEF w

-----------------------------------------------------------------------------
(* The steps of a sender.                                                   *)

\* The receiver is where it was, also when more frames are out.
LEMMA ReceiverKeeps ==
    ASSUME NEW F, NEW S, NEW G, NEW U, NEW n \in Nat, NEW k \in Nat, NEW p \in Nat,
           NEW out \in {0, HeaderLength},
           Past(F, S, n), k <= n, p <= S[n].at + out, ReceiverAt(F, S, k, p),
           Agrees(F, S, G, U, n, out), StreamTypes, UNCHANGED receiveVars
    PROVE  ReceiverAt(G, U, k, p)'
  <1>1. U[k] = S[k]
    BY DEF Agrees
  <1>2. UNCHANGED <<receivePlace, rheader, flagmentSize, receivebuffer, internalTimecode,
                    packetsReceived, codesReceived>>
    BY DEF receiveVars
  <1>3. F[k + 1] \in SomeFrames /\ k + 1 \in Nat /\ S[k].at \in Nat
    <2>1. k + 1 \in Nat /\ F \in [Nat -> SomeFrames] /\ S[k] \in Sums
      BY DEF Past
    <2>2. S[k].at \in Nat
      BY <2>1 DEF Sums
    <2>3. QED BY <2>1, <2>2
  <1>4. CASE k < n \/ out # 0
    <2>1. G[k + 1] = F[k + 1]
      <3>1. CASE k < n
        BY <1>3, <3>1 DEF Agrees
      <3>2. CASE k = n
        BY <1>4, <3>2 DEF Agrees
      <3>3. QED BY <3>1, <3>2
    <2>2. QED BY <1>1, <1>2, <2>1 DEF ReceiverAt, AtHeader, AtData, AtTimeCode
  <1>5. CASE k = n /\ out = 0
    <2>1. p <= S[k].at + 0 /\ HeaderLength \in Nat /\ 3 <= HeaderLength
      BY <1>5 DEF HeaderLength
    <2>2. \A r \in Receivers : receivePlace[r] # "data"
      <3> SUFFICES ASSUME NEW r \in Receivers, AtData(F[k + 1], S[k], p) PROVE FALSE
        BY DEF ReceiverAt
      <3>1. /\ flagmentSize \in 1 .. Len(F[k + 1].body)
            /\ p = S[k].at + HeaderLength + (Len(F[k + 1].body) - flagmentSize)
        BY DEF AtData
      <3>2. Len(F[k + 1].body) \in Nat
        BY <1>3, FrameLayout
      <3>3. PICK a, l \in Nat : a = S[k].at /\ l = Len(F[k + 1].body)
        BY <1>3, <3>2
      <3>4. flagmentSize \in 1 .. l /\ p = a + HeaderLength + (l - flagmentSize) /\ p <= a + 0
        BY ONLY <2>1, <3>1, <3>3
      <3>5. QED BY ONLY <2>1, <3>4, p \in Nat, a \in Nat, l \in Nat
    <2>3. \A r \in Receivers : receivePlace[r] # "timecode"
      <3> SUFFICES ASSUME NEW r \in Receivers, AtTimeCode(F[k + 1], S[k], p) PROVE FALSE
        BY DEF ReceiverAt
      <3>1. flagmentSize \in 1 .. 2 /\ p = S[k].at + HeaderLength + (2 - flagmentSize)
        BY DEF AtTimeCode
      <3>2. QED BY ONLY <1>3, <2>1, <3>1, p \in Nat
    <2>4. ASSUME NEW r \in Receivers, AtHeader(F[k + 1], S[k], p)
          PROVE  AtHeader(G[k + 1], U[k], p)'
      <3>1. Len(rheader) \in Nat /\ p = S[k].at + Len(rheader)
        BY <2>4 DEF AtHeader, StreamTypes
      <3>2. Len(rheader) = 0
        BY ONLY <1>3, <2>1, <3>1, p \in Nat
      <3>3. QED BY <1>1, <1>2, <2>4, <3>2 DEF AtHeader
    <2>5. QED BY <1>1, <1>2, <2>2, <2>3, <2>4 DEF ReceiverAt
  <1>6. QED BY <1>4, <1>5

\* The frames of the past are those of G too.
LEMMA PastOf ==
    ASSUME NEW F, NEW S, NEW G, NEW n \in Nat, NEW out, Past(F, S, n),
           G \in [Nat -> SomeFrames], Agrees(F, S, G, S, n, out)
    PROVE  Past(G, S, n)
  <1>1. \A i \in Nat : i < n => G[i + 1] = F[i + 1]
    <2> SUFFICES ASSUME NEW i \in Nat, i < n PROVE G[i + 1] = F[i + 1]
      OBVIOUS
    <2>1. i + 1 \in Nat /\ 1 <= i + 1 /\ i + 1 <= n
      OBVIOUS
    <2>2. QED BY <2>1 DEF Agrees
  <1>2. QED BY <1>1 DEF Past

\* No thread has the rest of a frame.
NothingHeld == \A s \in Senders : sendPlace[s] = "data" => sendRequest[s].data = <<>>

\* The last bytes of a frame go out.
LEMMA FrameGoesOut ==
    ASSUME NEW F, NEW S, NEW G, NEW n \in Nat, NEW k \in Nat, NEW p \in Nat,
           NEW out \in {0, HeaderLength}, StreamTypes,
           Past(F, S, n), k <= n, p <= S[n].at + out, OnStream(stream, F, S, n, out, p),
           ReceiverAt(F, S, k, p), UNCHANGED receiveVars,
           G \in [Nat -> SomeFrames], Agrees(F, S, G, S, n, out),
           NEW b \in Seq(Byte), Continues(b, G[n + 1], out),
           out + Len(b) = FrameLength(G[n + 1]), stream' = stream \o b,
           NEW t \in Sums, Follows(S[n], G[n + 1], t), Goes(S[n], t),
           packetsSent' = t.packets, openFragments' = t.fragments, codesSent' = t.codes,
           NothingHeld'
    PROVE  FramesInv'
  <1> DEFINE w == stream \o b
             o == out + Len(b)
             U == [S EXCEPT ![n + 1] = t]
  <1>1. out \in Nat /\ Len(b) \in Nat /\ o \in Nat /\ HeaderLength \in Nat
    BY DEF HeaderLength
  <1>2. w \in Seq(Byte) /\ stream \in Seq(Byte)
    BY ConcatProperties DEF StreamTypes
  <1>3. OnStream(w, G, S, n, o, p) /\ p <= S[n].at + o
    <2>1. Past(F, S, n) /\ p <= S[n].at + out /\ OnStream(stream, F, S, n, out, p)
          /\ G \in [Nat -> SomeFrames] /\ Agrees(F, S, G, S, n, out)
          /\ b \in Seq(Byte) /\ Continues(b, G[n + 1], out) /\ n \in Nat /\ p \in Nat
      OBVIOUS
    <2>2. QED BY ONLY <1>1, <1>2, <2>1, StreamGrowsBy DEF w, o
  <1>4. Past(G, S, n)
    BY PastOf
  <1>5. o = FrameLength(G[n + 1]) /\ NextSum(S, n, t, U)
    BY DEF NextSum
  <1>6. stream' = w
    OBVIOUS
  <1> HIDE DEF w, o, U
  <1>7. /\ Past(G, U, n + 1) /\ p <= U[n + 1].at + 0
        /\ OnStream(w, G, U, n + 1, 0, p)
        /\ Agrees(G, S, G, U, n, 1) /\ U[n + 1] = t
    <2>1. t \in Sums /\ Follows(S[n], G[n + 1], t) /\ Goes(S[n], t) /\ n \in Nat /\ p \in Nat
      OBVIOUS
    <2>2. QED BY ONLY <1>1, <1>2, <1>3, <1>4, <1>5, <2>1, FrameIsOut
  <1>8. Agrees(F, S, G, U, n, out)
    BY <1>7 DEF Agrees
  <1>9. ReceiverAt(G, U, k, p)'
    BY <1>8, ReceiverKeeps
  <1>10. SenderAt(G, U, n + 1, 0)'
    BY <1>7 DEF SenderAt, NothingHeld
  <1>11. k <= n + 1 /\ n + 1 \in Nat
    OBVIOUS
  <1>12. QED
    BY ONLY <1>6, <1>7, <1>9, <1>10, <1>11, k \in Nat, p \in Nat, 0 \in Nat DEF FramesInv

\* The thread s has the rest of the frame f.
HasRest(s, f) == sendPlace[s] = "data" /\ Carries(sendRequest[s], f)

\* The header of a frame that has a body goes out.
LEMMA HeaderGoesOut ==
    ASSUME NEW F, NEW S, NEW n \in Nat, NEW k \in Nat, NEW p \in Nat, StreamTypes,
           Past(F, S, n), k <= n, p <= S[n].at + 0, OnStream(stream, F, S, n, 0, p),
           ReceiverAt(F, S, k, p), UNCHANGED receiveVars,
           NEW f \in SomeFrames, f.body # <<>>, f.flag \in DataFlags,
           stream' = stream \o FrameHeader(f),
           packetsSent' = S[n].packets, openFragments' = S[n].fragments, codesSent' = S[n].codes,
           NEW s \in Senders, HasRest(s, f)'
    PROVE  FramesInv'
  <1> DEFINE G == [F EXCEPT ![n + 1] = f]
             b == FrameHeader(f)
             w == stream \o b
  <1>1. /\ G \in [Nat -> SomeFrames] /\ G[n + 1] = f /\ n + 1 \in Nat
        /\ Agrees(F, S, G, S, n, 0)
    BY DEF Agrees, Past
  <1>2. b \in Seq(Byte) /\ Len(b) = HeaderLength /\ HeaderLength \in Nat /\ HeaderLength # 0
        /\ \A j \in 1 .. Len(b) : b[j] = FrameBytes(f)[j]
    BY FrameLayout
  <1>3. w \in Seq(Byte) /\ stream \in Seq(Byte) /\ 0 \in Nat
    BY <1>2, ConcatProperties DEF StreamTypes
  <1>4. stream' = w
    OBVIOUS
  <1> HIDE DEF G, b
  <1>5. Continues(b, G[n + 1], 0)
    <2>1. \A j \in 1 .. Len(b) : b[j] = FrameBytes(G[n + 1])[0 + j]
      BY <1>1, <1>2
    <2>2. QED BY <2>1 DEF Continues
  <1>6. OnStream(w, G, S, n, 0 + Len(b), p) /\ p <= S[n].at + (0 + Len(b))
    <2>1. Past(F, S, n) /\ p <= S[n].at + 0 /\ OnStream(stream, F, S, n, 0, p)
          /\ n \in Nat /\ p \in Nat
      OBVIOUS
    <2>2. QED BY ONLY <1>1, <1>2, <1>3, <1>5, <2>1, StreamGrowsBy DEF w
  <1>7. 0 + Len(b) = HeaderLength
    BY <1>2
  <1> HIDE DEF w
  <1>8. Past(G, S, n)
    BY <1>1, PastOf
  <1>9. ReceiverAt(G, S, k, p)'
    BY <1>1, ReceiverKeeps
  <1>10. SenderAt(G, S, n, HeaderLength)'
    BY <1>1, <1>2 DEF SenderAt, HasRest
  <1>11. OnStream(w, G, S, n, HeaderLength, p) /\ p <= S[n].at + HeaderLength
    BY <1>6, <1>7
  <1>12. QED
    BY ONLY <1>2, <1>4, <1>8, <1>9, <1>10, <1>11, n \in Nat, k \in Nat, p \in Nat, k <= n
       DEF FramesInv

\* The frame of a request.
FrameOf(q) == IF q.call = "timecode"
              THEN [flag |-> ControlFlag_SendTimeCode, body |-> <<q.code, 0>>]
              ELSE [flag |-> EOPFlag(q.eop), body |-> q.data]

\* Every request that send() takes has a frame.
LEMMA FrameOfRequest ==
    ASSUME NEW q \in SendRequests
    PROVE  /\ FrameOf(q) \in SomeFrames
           /\ q.call = "timecode" => q.code \in Byte
           /\ q.call # "timecode" =>
                /\ q.data \in Seq(Byte) /\ q.eop \in {"EOP", "EEP", "Continued"}
                /\ EOPFlag(q.eop) \in DataFlags
                /\ EOPFlag(q.eop) = DataFlag_Flagmented <=> q.eop = "Continued"
                /\ q.eop # "Continued" => EndOfPacket(EOPFlag(q.eop)) = q.eop
  <1> USE DEF DataFlags, DataFlag_Complete_EOP, DataFlag_Complete_EEP, DataFlag_Flagmented,
              ControlFlag_SendTimeCode
  <1>1. CASE q.call = "timecode"
    <2>1. q.code \in Byte /\ 0 \in Byte
      <3>1. q.call # "vector" /\ q.call # "reference" /\ q.call # "pointer"
        BY <1>1
      <3>2. q.code \in 0 .. 255
        BY <3>1, SSDTPRequestAssumption
      <3>3. QED BY <3>2 DEF Byte
    <2>2. <<q.code, 0>> \in Seq(Byte) /\ Len(<<q.code, 0>>) = 2
      BY <2>1
    <2>3. Fits(2)
      BY TwoFits
    <2>4. QED BY <1>1, <2>1, <2>2, <2>3 DEF FrameOf, SomeFrames
  <1>2. CASE q.call # "timecode"
    <2>1. /\ q.data \in Seq(Byte) /\ q.eop \in {"EOP", "EEP", "Continued"}
          /\ Quotients(Len(q.data))[LengthOfSizePart] = 0
      BY <1>2, SSDTPRequestAssumption DEF Byte
    <2>2. Fits(Len(q.data))
      BY <2>1 DEF Fits
    <2>3. /\ EOPFlag(q.eop) \in DataFlags
          /\ EOPFlag(q.eop) = DataFlag_Flagmented <=> q.eop = "Continued"
          /\ q.eop # "Continued" => EndOfPacket(EOPFlag(q.eop)) = q.eop
      BY <2>1 DEF EOPFlag, EndOfPacket
    <2>4. EOPFlag(q.eop) # ControlFlag_SendTimeCode
      BY <2>3
    <2>5. QED
      <3> HIDE DEF DataFlags, ControlFlag_SendTimeCode
      <3>1. QED BY <1>2, <2>1, <2>2, <2>3, <2>4 DEF FrameOf, SomeFrames
  <1>3. QED BY <1>1, <1>2

\* What has been sent when a data frame is complete.
LEMMA DataFrameSums ==
    ASSUME NEW s \in Sums, NEW q \in SendRequests, q.call # "timecode",
           packetsSent = s.packets, openFragments = s.fragments, codesSent = s.codes,
           FrameSent(q), codesSent' = codesSent
    PROVE  \E t \in Sums : /\ Follows(s, FrameOf(q), t) /\ Goes(s, t)
                           /\ packetsSent' = t.packets /\ openFragments' = t.fragments
                           /\ codesSent' = t.codes
  <1> DEFINE f == FrameOf(q)
             whole == s.fragments \o q.data
  <1>1. f \in SomeFrames /\ f.flag = EOPFlag(q.eop) /\ f.body = q.data
    BY FrameOfRequest DEF FrameOf
  <1>2. /\ q.data \in Seq(Byte) /\ q.eop \in {"EOP", "EEP", "Continued"}
        /\ f.flag \in DataFlags /\ f.flag # ControlFlag_SendTimeCode
        /\ f.flag = DataFlag_Flagmented <=> q.eop = "Continued"
        /\ q.eop # "Continued" => EndOfPacket(f.flag) = q.eop
    BY <1>1, FrameOfRequest DEF DataFlags, DataFlag_Complete_EOP, DataFlag_Complete_EEP,
                                DataFlag_Flagmented, ControlFlag_SendTimeCode
  <1>3. s.at \in Nat /\ s.packets \in Seq(SentPackets) /\ s.fragments \in Seq(Byte)
        /\ s.codes \in Seq(Byte)
    BY DEF Sums
  <1>4. whole \in Seq(Byte)
    BY <1>2, <1>3, ConcatProperties
  <1>5. FrameLength(f) \in Nat
    BY <1>1, FrameLayout DEF FrameLength
  <1> HIDE DEF f, whole
  <1>6. CASE q.eop = "Continued"
    <2>1. openFragments' = whole /\ packetsSent' = s.packets
      BY <1>6 DEF FrameSent, whole
    <2>2. PICK t : t = [at |-> s.at + FrameLength(f), packets |-> s.packets,
            fragments |-> whole, codes |-> s.codes]
      OBVIOUS
    <2>3. t \in Sums /\ t.at = s.at + FrameLength(f) /\ t.packets = s.packets
          /\ t.fragments = whole /\ t.codes = s.codes
      BY <1>3, <1>4, <1>5, <2>2 DEF Sums
    <2>4. Follows(s, f, t)
      BY <1>1, <1>2, <1>6, <2>3 DEF Follows, whole
    <2>5. Goes(s, t)
      BY <1>3, <1>5, <2>3, PrefixOfItself DEF Goes
    <2>6. QED BY <2>1, <2>3, <2>4, <2>5 DEF f
  <1>7. CASE q.eop # "Continued" /\ whole = <<>>
    <2>1. openFragments' = <<>> /\ packetsSent' = s.packets
      BY <1>7 DEF FrameSent, whole
    <2>2. PICK t : t = [at |-> s.at + FrameLength(f), packets |-> s.packets,
            fragments |-> <<>>, codes |-> s.codes]
      OBVIOUS
    <2>3. t \in Sums /\ t.at = s.at + FrameLength(f) /\ t.packets = s.packets
          /\ t.fragments = <<>> /\ t.codes = s.codes
      BY <1>3, <1>5, <2>2 DEF Sums
    <2>4. Follows(s, f, t)
      BY <1>1, <1>2, <1>7, <2>3 DEF Follows, whole
    <2>5. Goes(s, t)
      BY <1>3, <1>5, <2>3, PrefixOfItself DEF Goes
    <2>6. QED BY <2>1, <2>3, <2>4, <2>5 DEF f
  <1>8. CASE q.eop # "Continued" /\ whole # <<>>
    <2>0. PICK e : e = [data |-> whole, eop |-> q.eop]
      OBVIOUS
    <2>1. openFragments' = <<>> /\ packetsSent' = Append(s.packets, e)
      BY <1>8, <2>0 DEF FrameSent, whole
    <2>2. e \in SentPackets
      BY <1>2, <1>4, <1>8, <2>0 DEF SentPackets
    <2>3. Append(s.packets, e) \in Seq(SentPackets) /\ IsPrefix(s.packets, Append(s.packets, e))
      <3> HIDE DEF SentPackets
      <3>1. QED BY <1>3, <2>2, PrefixOfMore
    <2>4. PICK t : t = [at |-> s.at + FrameLength(f), packets |-> Append(s.packets, e),
            fragments |-> <<>>, codes |-> s.codes]
      OBVIOUS
    <2>5. t \in Sums /\ t.at = s.at + FrameLength(f) /\ t.packets = Append(s.packets, e)
          /\ t.fragments = <<>> /\ t.codes = s.codes
      BY <1>3, <1>5, <2>3, <2>4 DEF Sums
    <2>6. Follows(s, f, t)
      BY <1>1, <1>2, <1>8, <2>0, <2>5 DEF Follows, whole
    <2>7. Goes(s, t)
      BY <1>3, <1>5, <2>3, <2>5, PrefixOfItself DEF Goes
    <2>8. QED BY <1>3, <2>1, <2>5, <2>6, <2>7 DEF f
  <1>9. QED BY <1>6, <1>7, <1>8

\* What has been sent when a time code is.
LEMMA TimeCodeSums ==
    ASSUME NEW s \in Sums, NEW q \in SendRequests, q.call = "timecode",
           packetsSent' = s.packets, openFragments' = s.fragments,
           codesSent' = Append(s.codes, q.code)
    PROVE  \E t \in Sums : /\ Follows(s, FrameOf(q), t) /\ Goes(s, t)
                           /\ packetsSent' = t.packets /\ openFragments' = t.fragments
                           /\ codesSent' = t.codes
  <1> DEFINE f == FrameOf(q)
  <1>1. f \in SomeFrames /\ f.flag = ControlFlag_SendTimeCode /\ f.body[1] = q.code
        /\ q.code \in Byte
    BY FrameOfRequest DEF FrameOf
  <1>2. FrameLength(f) \in Nat
    BY <1>1, FrameLayout DEF FrameLength
  <1> HIDE DEF f
  <1>3. s.at \in Nat /\ s.packets \in Seq(SentPackets) /\ s.fragments \in Seq(Byte)
        /\ s.codes \in Seq(Byte)
    BY DEF Sums
  <1>4. Append(s.codes, q.code) \in Seq(Byte) /\ IsPrefix(s.codes, Append(s.codes, q.code))
    BY <1>1, <1>3, PrefixOfMore
  <1>5. PICK t : t = [at |-> s.at + FrameLength(f), packets |-> s.packets,
          fragments |-> s.fragments,
                      codes |-> Append(s.codes, q.code)]
    OBVIOUS
  <1>6. t \in Sums /\ t.at = s.at + FrameLength(f) /\ t.packets = s.packets
        /\ t.fragments = s.fragments
        /\ t.codes = Append(s.codes, q.code)
    BY <1>2, <1>3, <1>4, <1>5 DEF Sums
  <1>7. Follows(s, f, t)
    BY <1>1, <1>6 DEF Follows
  <1>8. Goes(s, t)
    BY <1>2, <1>3, <1>4, <1>6, PrefixOfItself DEF Goes
  <1>9. QED BY <1>6, <1>7, <1>8 DEF f

\* The frames, sums and numbers that FramesInv speaks of.
Framed(F, S, n, k, p, out) ==
    /\ Past(F, S, n) /\ k <= n /\ p <= S[n].at + out
    /\ OnStream(stream, F, S, n, out, p)
    /\ SenderAt(F, S, n, out) /\ ReceiverAt(F, S, k, p)

\* A step that puts nothing on the stream and leaves a thread there that has
\* the rest of a frame, unless the connection is lost.
LEMMA SenderStays ==
    ASSUME FramesInv, UNCHANGED <<stream, receiveVars, packetsSent, openFragments, codesSent>>,
           tcpBroken => tcpBroken',
           \A u \in Senders :
              sendPlace'[u] = "data" => sendPlace[u] = "data" /\ sendRequest'[u] = sendRequest[u],
           \A u \in Senders :
              sendPlace[u] = "data" /\ sendRequest[u].data # <<>> /\ ~tcpBroken'
                => sendPlace'[u] = "data" /\ sendRequest'[u] = sendRequest[u]
    PROVE  FramesInv'
  <1>1. UNCHANGED <<receivePlace, rheader, flagmentSize, receivebuffer, internalTimecode,
                    packetsReceived, codesReceived, bytesLost>>
    BY DEF receiveVars
  <1>2. CASE bytesLost
    BY <1>1, <1>2 DEF FramesInv
  <1>3. CASE ~bytesLost
    <2>1. PICK F, S : \E n, k, p, out \in Nat : Framed(F, S, n, k, p, out)
      BY <1>3 DEF FramesInv, Framed
    <2>2. PICK n, k, p, out \in Nat : Framed(F, S, n, k, p, out)
      BY <2>1
    <2>3. ReceiverAt(F, S, k, p)'
      BY <1>1, <2>2 DEF Framed, ReceiverAt, AtHeader, AtData, AtTimeCode
    <2>4. SenderAt(F, S, n, out)'
      <3>1. SenderAt(F, S, n, out)
        BY <2>2 DEF Framed
      <3>2. CASE out = 0
        BY <3>1, <3>2 DEF SenderAt
      <3>3. CASE out # 0
        <4>1. /\ F[n + 1].body # <<>> /\ F[n + 1].flag \in DataFlags /\ out = HeaderLength
              /\ \/ tcpBroken
                 \/ \E s \in Senders : sendPlace[s] = "data" /\ Carries(sendRequest[s], F[n + 1])
          BY <3>1, <3>3 DEF SenderAt
        <4>2. \/ tcpBroken'
              \/ \E s \in Senders : sendPlace'[s] = "data" /\ Carries(sendRequest'[s], F[n + 1])
          <5>1. CASE tcpBroken
            BY <5>1
          <5>2. CASE ~tcpBroken'
            <6>1. PICK s \in Senders : sendPlace[s] = "data" /\ Carries(sendRequest[s], F[n + 1])
              BY <4>1, <5>2
            <6>2. sendRequest[s].data # <<>>
              BY <4>1, <6>1 DEF Carries
            <6>3. QED BY <5>2, <6>1, <6>2
          <5>3. QED BY <5>1, <5>2
        <4>3. QED BY <3>1, <3>3, <4>1, <4>2 DEF SenderAt
      <3>4. QED BY <3>2, <3>3
    <2>5. OnStream(stream', F, S, n, out, p)
      BY <2>2 DEF Framed
    <2>6. Past(F, S, n) /\ k <= n /\ p <= S[n].at + out
      BY <2>2 DEF Framed
    <2>7. QED BY ONLY <2>2, <2>3, <2>4, <2>5, <2>6 DEF FramesInv
  <1>4. QED BY <1>2, <1>3

\* send() puts its header on the stream, and sendTimeCode() its frame.
LEMMA SendHeaderFrames ==
    ASSUME FramingInv, NEW s \in Senders, SendHeader(s)
    PROVE  FramesInv' /\ StreamTypes'
  <1> DEFINE q == sendRequest[s]
             f == FrameOf(q)
  <1>1. /\ sendPlace[s] = "header" /\ ~tcpBroken /\ SendFrame(s)
        /\ UNCHANGED <<receiveVars, sendRequest, tcpBroken>>
        /\ q.call = "timecode" => sendPlace' = [sendPlace EXCEPT ![s] = "idle"]
        /\ q.call # "timecode" => sendPlace' = [sendPlace EXCEPT ![s] = "data"]
    BY DEF SendHeader, SendReturn
  <1>2. /\ sendPlace \in [Senders -> {"idle", "lock", "header", "data"}]
        /\ \A u \in Senders : u # s => sendPlace[u] \notin {"header", "data"}
    BY <1>1 DEF FramingInv, LocksInv, SendLocksInv, Held
  <1>3. q \in SendRequests /\ stream \in Seq(Byte) /\ StreamTypes
    BY <1>1 DEF FramingInv, StreamTypes
  <1>4. f \in SomeFrames
    BY <1>3, FrameOfRequest
  <1>5. /\ q.call = "timecode" => stream' = stream \o FrameBytes(f)
           /\ codesSent' = Append(codesSent, q.code)
                                  /\ UNCHANGED <<packetsSent, openFragments>>
        /\ q.call # "timecode" =>
             /\ stream' = stream \o FrameHeader(f) /\ codesSent' = codesSent
             /\ q.data = <<>> => FrameSent(q)
             /\ q.data # <<>> => UNCHANGED <<packetsSent, openFragments>>
    <2>1. CASE q.call = "timecode"
      <3>1. Len(<<q.code, 0>>) = 2
        OBVIOUS
      <3>2. FrameBytes(f) = ControlFrame(q.code)
        BY <2>1, <3>1 DEF FrameOf, FrameBytes, FrameHeader, ControlFrame
      <3>3. QED BY <1>1, <2>1, <3>2 DEF SendFrame
    <2>2. CASE q.call # "timecode"
      <3>1. FrameHeader(f) = Header(EOPFlag(q.eop), Len(q.data))
        BY <2>2 DEF FrameOf, FrameHeader
      <3>2. QED BY <1>1, <2>2, <3>1 DEF SendFrame
    <2>3. QED BY <2>1, <2>2
  <1>6. /\ FrameHeader(f) \in Seq(Byte) /\ FrameBytes(f) \in Seq(Byte)
        /\ Len(FrameBytes(f)) = FrameLength(f)
        /\ Continues(FrameBytes(f), f, 0)
        /\ q.call # "timecode" /\ q.data = <<>> => FrameHeader(f) = FrameBytes(f)
    <2>1. /\ FrameHeader(f) \in Seq(Byte) /\ FrameBytes(f) \in Seq(Byte)
          /\ Len(FrameBytes(f)) = FrameLength(f)
      BY <1>4, FrameLayout
    <2>2. Continues(FrameBytes(f), f, 0)
      BY <2>1 DEF Continues
    <2>3. ASSUME q.call # "timecode", q.data = <<>> PROVE FrameHeader(f) = FrameBytes(f)
      <3>1. f.body = <<>>
        BY <2>3 DEF FrameOf
      <3>2. PICK h \in Seq(Byte) : h = FrameHeader(f)
        BY <2>1
      <3>3. h \o <<>> = h
        OBVIOUS
      <3>4. QED BY <3>1, <3>2, <3>3 DEF FrameBytes
    <2>4. QED BY <2>1, <2>2, <2>3
  <1>7. StreamTypes'
    <2>1. \A b \in Seq(Byte) : stream \o b \in Seq(Byte)
      BY <1>3, ConcatProperties
    <2>2. stream' \in Seq(Byte)
      BY <1>5, <1>6, <2>1
    <2>3. \A u \in Senders : sendPlace'[u] # "idle" => sendRequest'[u] \in SendRequests
      BY <1>1, <1>2, <1>3 DEF StreamTypes
    <2>4. UNCHANGED <<rheader, receivebuffer, flagmentSize>>
      BY <1>1 DEF receiveVars
    <2>5. \A u \in Senders : sendPlace'[u] = "data" => sendRequest'[u].call # "timecode"
      BY <1>1, <1>2, <1>3 DEF StreamTypes
    <2>6. QED BY <1>3, <2>2, <2>3, <2>4, <2>5 DEF StreamTypes
  <1>8. bytesLost' = bytesLost
    BY <1>1 DEF receiveVars
  <1>9. CASE bytesLost
    <2>1. FramesInv'
      BY ONLY <1>8, <1>9 DEF FramesInv
    <2>2. QED BY ONLY <1>7, <2>1
  <1>10. CASE ~bytesLost
    <2>1. PICK F, S : \E n, k, p, out \in Nat : Framed(F, S, n, k, p, out)
      BY <1>10 DEF FramingInv, FramesInv, Framed
    <2>2. PICK n, k, p, out \in Nat : Framed(F, S, n, k, p, out)
      BY <2>1
    <2>3. SenderAt(F, S, n, out)
      BY <2>2 DEF Framed
    <2>4. out = 0
      <3> SUFFICES ASSUME out # 0 PROVE FALSE
        OBVIOUS
      <3>1. PICK u \in Senders : sendPlace[u] = "data"
        BY <1>1, <2>3 DEF SenderAt
      <3>2. QED BY <1>1, <1>2, <3>1
    <2>5. Past(F, S, n) /\ k <= n /\ p <= S[n].at + 0 /\ OnStream(stream, F, S, n, 0, p)
          /\ ReceiverAt(F, S, k, p)
      BY <2>2, <2>4 DEF Framed
    <2>6. packetsSent = S[n].packets /\ openFragments = S[n].fragments /\ codesSent = S[n].codes
      BY <2>3 DEF SenderAt
    <2>7. S[n] \in Sums /\ F \in [Nat -> SomeFrames]
      BY <2>5 DEF Past
    <2>8. CASE q.call # "timecode" /\ q.data # <<>>
      <3>1. f.body # <<>> /\ f.flag \in DataFlags /\ Carries(sendRequest'[s], f)
            /\ sendPlace'[s] = "data"
        <4>1. f = [flag |-> EOPFlag(q.eop), body |-> q.data]
          BY <2>8 DEF FrameOf
        <4>2. EOPFlag(q.eop) \in DataFlags
          BY <1>3, <2>8, FrameOfRequest
        <4>3. sendRequest'[s] = q /\ sendPlace'[s] = "data"
          BY <1>1, <1>2, <2>8
        <4>4. QED BY <2>8, <4>1, <4>2, <4>3 DEF Carries
      <3>2. stream' = stream \o FrameHeader(f) /\ UNCHANGED receiveVars
            /\ packetsSent' = S[n].packets /\ openFragments' = S[n].fragments
               /\ codesSent' = S[n].codes
        BY <1>1, <1>5, <2>6, <2>8
      <3>3. PICK g \in SomeFrames : g = f
        BY <1>4
      <3> HIDE DEF f
      <3>4. g.body # <<>> /\ g.flag \in DataFlags /\ HasRest(s, g)'
            /\ stream' = stream \o FrameHeader(g)
        BY ONLY <3>1, <3>2, <3>3 DEF HasRest
      <3>5. QED
        BY ONLY SSDTPAssumption, s \in Senders, n \in Nat, k \in Nat, p \in Nat,
                g \in SomeFrames, <1>3, <1>7, <2>5, <3>2, <3>4, HeaderGoesOut
    <2>9. CASE ~(q.call # "timecode" /\ q.data # <<>>)
      <3>1. PICK t \in Sums : /\ Follows(S[n], f, t) /\ Goes(S[n], t)
                              /\ packetsSent' = t.packets /\ openFragments' = t.fragments
                              /\ codesSent' = t.codes
        <4>1. CASE q.call = "timecode"
          BY <1>3, <1>5, <2>6, <2>7, <4>1, TimeCodeSums
        <4>2. CASE q.call # "timecode"
          BY <1>3, <1>5, <2>6, <2>7, <2>9, <4>2, DataFrameSums
        <4>3. QED BY <4>1, <4>2
      <3>2. stream' = stream \o FrameBytes(f)
        BY <1>5, <1>6, <2>9
      <3>3. NothingHeld'
        BY <1>1, <1>2, <2>9 DEF NothingHeld
      <3>4. PICK G : G = [F EXCEPT ![n + 1] = f]
        OBVIOUS
      <3> HIDE DEF f
      <3>5. G \in [Nat -> SomeFrames] /\ G[n + 1] = f /\ Agrees(F, S, G, S, n, 0)
        BY <1>4, <2>7, <3>4 DEF Agrees
      <3>6. PICK b \in Seq(Byte) : b = FrameBytes(f)
        BY <1>6
      <3>7. Continues(b, G[n + 1], 0) /\ 0 + Len(b) = FrameLength(G[n + 1])
            /\ stream' = stream \o b
            /\ Follows(S[n], G[n + 1], t)
        <4>1. 0 + Len(b) = Len(b)
          OBVIOUS
        <4>2. QED BY <1>6, <3>1, <3>2, <3>5, <3>6, <4>1
      <3>8. PICK z \in {0, HeaderLength} : z = 0
        OBVIOUS
      <3>9. Goes(S[n], t) /\ packetsSent' = t.packets /\ openFragments' = t.fragments
            /\ codesSent' = t.codes
        BY <3>1
      <3>10. /\ p <= S[n].at + z /\ OnStream(stream, F, S, n, z, p) /\ Agrees(F, S, G, S, n, z)
             /\ Continues(b, G[n + 1], z) /\ z + Len(b) = FrameLength(G[n + 1])
                /\ UNCHANGED receiveVars
        BY <1>1, <2>5, <3>5, <3>7, <3>8
      <3>11. QED
        BY ONLY SSDTPAssumption, n \in Nat, k \in Nat, p \in Nat, t \in Sums, b \in Seq(Byte),
                z \in {0, HeaderLength}, <1>3, <1>7, <2>5, <3>3, <3>5, <3>7, <3>9, <3>10,
                  FrameGoesOut
    <2>10. QED BY <2>8, <2>9
  <1>11. QED BY <1>7, <1>9, <1>10

\* send() puts its data on the stream.
LEMMA SendDataFrames ==
    ASSUME FramingInv, NEW s \in Senders, SendData(s)
    PROVE  FramesInv' /\ StreamTypes'
  <1> DEFINE q == sendRequest[s]
  <1>1. /\ sendPlace[s] = "data" /\ ~tcpBroken /\ stream' = stream \o q.data
        /\ UNCHANGED <<receiveVars, sendRequest, tcpBroken, codesSent>>
        /\ sendPlace' = [sendPlace EXCEPT ![s] = "idle"]
        /\ q.data # <<>> => FrameSent(q)
        /\ q.data = <<>> => UNCHANGED <<packetsSent, openFragments>>
    BY DEF SendData, SendReturn
  <1>2. /\ sendPlace \in [Senders -> {"idle", "lock", "header", "data"}]
        /\ \A u \in Senders : u # s => sendPlace[u] \notin {"header", "data"}
    BY <1>1 DEF FramingInv, LocksInv, SendLocksInv, Held
  <1>3. q \in SendRequests /\ stream \in Seq(Byte) /\ StreamTypes /\ FramesInv
    BY <1>1 DEF FramingInv, StreamTypes
  <1>4. UNCHANGED <<rheader, receivebuffer, flagmentSize, bytesLost>>
    BY <1>1 DEF receiveVars
  <1>5. q.call # "timecode" /\ q.data \in Seq(Byte)
    <2>1. q.call # "timecode"
      BY <1>1, <1>3 DEF StreamTypes
    <2>2. QED BY <1>3, <2>1, FrameOfRequest
  <1>6. StreamTypes'
    <2>1. stream' \in Seq(Byte)
      BY <1>1, <1>3, <1>5, ConcatProperties
    <2>2. \A u \in Senders :
             /\ sendPlace'[u] # "idle" => sendRequest'[u] \in SendRequests
             /\ sendPlace'[u] = "data" => sendRequest'[u].call # "timecode"
      BY <1>1, <1>2, <1>3 DEF StreamTypes
    <2>3. QED BY <1>3, <1>4, <2>1, <2>2 DEF StreamTypes
  <1>7. CASE q.data = <<>>
    <2>1. stream' = stream
      <3>1. stream \o <<>> = stream
        BY <1>3
      <3>2. QED BY <1>1, <1>7, <3>1
    <2>2. UNCHANGED <<stream, receiveVars, packetsSent, openFragments, codesSent>>
          /\ tcpBroken' = tcpBroken
      BY <1>1, <1>7, <2>1
    <2>3. \A u \in Senders :
             /\ sendPlace'[u] = "data" => sendPlace[u] = "data"
                /\ sendRequest'[u] = sendRequest[u]
             /\ sendPlace[u] = "data" /\ sendRequest[u].data # <<>>
                  => sendPlace'[u] = "data" /\ sendRequest'[u] = sendRequest[u]
      BY <1>1, <1>2, <1>7
    <2>4. FramesInv'
      BY <1>3, <2>2, <2>3, SenderStays
    <2>5. QED BY <1>6, <2>4
  <1>8. CASE bytesLost
    BY <1>4, <1>6, <1>8 DEF FramesInv
  <1>9. CASE q.data # <<>> /\ ~bytesLost
    <2>1. PICK F, S : \E n, k, p, out \in Nat : Framed(F, S, n, k, p, out)
      BY <1>3, <1>9 DEF FramesInv, Framed
    <2>2. PICK n, k, p, out \in Nat : Framed(F, S, n, k, p, out)
      BY <2>1
    <2>3. SenderAt(F, S, n, out)
      BY <2>2 DEF Framed
    <2>4. out # 0 /\ out = HeaderLength /\ out \in {0, HeaderLength}
      BY <1>1, <1>9, <2>3 DEF SenderAt
    <2>5. Carries(q, F[n + 1])
      BY <1>1, <1>2, <2>3, <2>4 DEF SenderAt
    <2>6. /\ Past(F, S, n) /\ k <= n /\ p <= S[n].at + out /\ OnStream(stream, F, S, n, out, p)
          /\ ReceiverAt(F, S, k, p)
      BY <2>2 DEF Framed
    <2>7. packetsSent = S[n].packets /\ openFragments = S[n].fragments /\ codesSent = S[n].codes
      BY <2>3 DEF SenderAt
    <2>8. S[n] \in Sums /\ F \in [Nat -> SomeFrames] /\ F[n + 1] \in SomeFrames
      BY <2>6 DEF Past
    <2>9. F[n + 1].body = q.data /\ F[n + 1].flag = EOPFlag(q.eop)
      BY <2>5 DEF Carries
    <2>10. PICK t \in Sums : /\ Follows(S[n], F[n + 1], t) /\ Goes(S[n], t)
                             /\ packetsSent' = t.packets /\ openFragments' = t.fragments
                             /\ codesSent' = t.codes
      <3>1. PICK t \in Sums : /\ Follows(S[n], FrameOf(q), t) /\ Goes(S[n], t)
                              /\ packetsSent' = t.packets /\ openFragments' = t.fragments
                              /\ codesSent' = t.codes
        BY <1>1, <1>3, <1>5, <1>9, <2>7, <2>8, DataFrameSums
      <3>2. FrameOf(q).body = F[n + 1].body /\ FrameOf(q).flag = F[n + 1].flag
        BY <1>5, <2>9 DEF FrameOf
      <3>3. Follows(S[n], F[n + 1], t)
        BY <3>1, <3>2 DEF Follows, FrameLength
      <3>4. QED BY <3>1, <3>3
    <2>11. PICK b \in Seq(Byte) : b = q.data
      BY <1>5
    <2>12. Continues(b, F[n + 1], out) /\ out + Len(b) = FrameLength(F[n + 1])
      <3>1. PICK g \in SomeFrames : g = F[n + 1]
        BY <2>8
      <3>2. /\ HeaderLength \in Nat /\ g.body = b
            /\ \A j \in 1 .. Len(g.body) : FrameBytes(g)[HeaderLength + j] = g.body[j]
        BY <2>9, <2>11, <3>1, FrameLayout
      <3>3. Continues(b, g, HeaderLength)
        BY ONLY <3>2 DEF Continues
      <3>4. FrameLength(g) = HeaderLength + Len(b)
        BY ONLY <3>2 DEF FrameLength
      <3>5. QED BY ONLY <2>4, <3>1, <3>3, <3>4
    <2>13. Agrees(F, S, F, S, n, out)
      BY DEF Agrees
    <2>14. NothingHeld'
      BY <1>1, <1>2 DEF NothingHeld
    <2>15. stream' = stream \o b /\ UNCHANGED receiveVars
      BY <1>1, <2>11
    <2>16. FramesInv'
      BY ONLY SSDTPAssumption, n \in Nat, k \in Nat, p \in Nat, t \in Sums, b \in Seq(Byte),
              <1>3, <2>4, <2>6, <2>8, <2>10, <2>12, <2>13, <2>14, <2>15, FrameGoesOut
    <2>17. QED BY <1>6, <2>16
  <1>10. QED BY <1>7, <1>8, <1>9

\* Every step of a sender.
LEMMA SenderFrames ==
    ASSUME FramingInv, NEW s \in Senders, BeginSend(s) \/ SendGoesOn(s)
    PROVE  FramesInv' /\ StreamTypes'
  <1>1. CASE SendHeader(s)
    BY <1>1, SendHeaderFrames
  <1>2. CASE SendData(s)
    BY <1>2, SendDataFrames
  <1>3. CASE BeginSend(s) \/ LockSend(s) \/ SendThrows(s)
    <2>1. StreamTypes /\ FramesInv /\ SendLocksInv
      BY DEF FramingInv, LocksInv
    <2>2. /\ UNCHANGED <<stream, receiveVars, packetsSent, openFragments, codesSent, tcpBroken>>
          /\ \A u \in Senders : u # s => sendPlace'[u] = sendPlace[u]
             /\ sendRequest'[u] = sendRequest[u]
      BY <1>3, <2>1 DEF BeginSend, LockSend, SendThrows, SendReturn, SendLocksInv
    <2>3. sendPlace'[s] # "data"
      BY <1>3, <2>1 DEF BeginSend, LockSend, SendThrows, SendReturn, SendLocksInv
    <2>4. sendPlace[s] = "data" => tcpBroken' \/ sendRequest[s].data = <<>>
      BY <1>3, <2>1 DEF BeginSend, LockSend, SendThrows, SendMayFail, DataThrows
    <2>5. sendPlace'[s] # "idle" => sendRequest'[s] \in SendRequests
      BY <1>3, <2>1 DEF BeginSend, LockSend, SendThrows, SendReturn, SendLocksInv, StreamTypes
    <2>6. UNCHANGED <<rheader, receivebuffer, flagmentSize>>
      BY <2>2 DEF receiveVars
    <2>7. StreamTypes'
      BY <2>1, <2>2, <2>3, <2>5, <2>6 DEF StreamTypes
    <2>8. FramesInv'
      BY <2>1, <2>2, <2>3, <2>4, SenderStays
    <2>9. QED BY <2>7, <2>8
  <1>4. QED BY <1>1, <1>2, <1>3 DEF SendGoesOn

-----------------------------------------------------------------------------
(* The steps of a receiver.                                                 *)

\* While one thread is in receive(), the others rest.
LEMMA OthersRest ==
    ASSUME ReceiveLocksInv, NEW r \in Receivers, receivePlace[r] \notin Resting
    PROVE  \A u \in Receivers : u # r => receivePlace[u] \in Resting
  BY DEF ReceiveLocksInv, Held, Resting

\* A thread goes to the place x while the others rest.
LEMMA ReceiverMoves ==
    ASSUME NEW F, NEW S, NEW k \in Nat, NEW q \in Nat, NEW r \in Receivers, NEW x,
           ReceiveLocksInv, \A u \in Receivers : u # r => receivePlace[u] \in Resting,
           receivePlace' = [receivePlace EXCEPT ![r] = x],
           packetsReceived' = S[k].packets, codesReceived' = S[k].codes,
           x \in Resting => q = S[k].at /\ S[k].fragments = <<>>,
           x \in {"check", "header"} => AtHeader(F[k + 1], S[k], q)',
           x = "data" => AtData(F[k + 1], S[k], q)',
           x = "timecode" => AtTimeCode(F[k + 1], S[k], q)'
    PROVE  ReceiverAt(F, S, k, q)'
  <1>1. receivePlace'[r] = x /\ \A u \in Receivers : u # r => receivePlace'[u] \in Resting
    BY DEF ReceiveLocksInv
  <1>2. (\A u \in Receivers : receivePlace'[u] \in Resting)
          => q = S[k].at /\ S[k].fragments = <<>>
    BY <1>1
  <1>3. \A u \in Receivers :
           /\ receivePlace'[u] \in {"check", "header"} => AtHeader(F[k + 1], S[k], q)'
           /\ receivePlace'[u] = "data" => AtData(F[k + 1], S[k], q)'
           /\ receivePlace'[u] = "timecode" => AtTimeCode(F[k + 1], S[k], q)'
    BY <1>1 DEF Resting
  <1>4. QED BY <1>2, <1>3 DEF ReceiverAt

\* The sender's side stands while a receiver takes m bytes.
LEMMA ReceiverGoesOn ==
    ASSUME NEW F, NEW S, NEW n \in Nat, NEW k \in Nat, NEW p \in Nat, NEW out \in Nat,
           Framed(F, S, n, k, p, out), StreamTypes, NEW l \in Nat, l <= n,
           NEW m \in Nat, m <= Len(stream), stream' = Unread(m),
           UNCHANGED <<sendVars, tcpBroken>>,
           ReceiverAt(F, S, l, p + m)'
    PROVE  FramesInv'
  <1>1. Past(F, S, n) /\ p <= S[n].at + out /\ OnStream(stream, F, S, n, out, p)
        /\ SenderAt(F, S, n, out)
    BY DEF Framed
  <1>2. stream \in Seq(Byte)
    BY DEF StreamTypes
  <1>3. OnStream(stream', F, S, n, out, p + m) /\ p + m <= S[n].at + out
    BY <1>1, <1>2, StreamIsReadBy DEF Unread
  <1>4. SenderAt(F, S, n, out)'
    BY <1>1 DEF SenderAt, sendVars
  <1>5. p + m \in Nat
    OBVIOUS
  <1>6. QED
    BY ONLY <1>1, <1>3, <1>4, <1>5, ReceiverAt(F, S, l, p + m)', l \in Nat, l <= n, n \in Nat,
       out \in Nat DEF FramesInv

\* Nor does it move when a receiver takes none.
LEMMA ReceiverStands ==
    ASSUME NEW F, NEW S, NEW n \in Nat, NEW k \in Nat, NEW p \in Nat, NEW out \in Nat,
           Framed(F, S, n, k, p, out), UNCHANGED <<stream, sendVars, tcpBroken>>,
           ReceiverAt(F, S, k, p)'
    PROVE  FramesInv'
  <1>1. /\ Past(F, S, n) /\ p <= S[n].at + out /\ k <= n
        /\ OnStream(stream, F, S, n, out, p) /\ SenderAt(F, S, n, out)
    BY DEF Framed
  <1>2. OnStream(stream', F, S, n, out, p)
    BY <1>1
  <1>3. SenderAt(F, S, n, out)'
    BY <1>1 DEF SenderAt, sendVars
  <1>4. QED
    BY ONLY <1>1, <1>2, <1>3, ReceiverAt(F, S, k, p)', p \in Nat, k \in Nat, n \in Nat,
       out \in Nat DEF FramesInv

\* Past its header, a frame that still gives bytes is out as a whole.
LEMMA BodyIsOut ==
    ASSUME NEW F, NEW S, NEW n \in Nat, NEW k \in Nat, NEW p \in Nat, NEW out \in Nat,
           Framed(F, S, n, k, p, out), NEW d \in Nat, p = S[k].at + HeaderLength + d,
           NEW m \in Nat, 1 <= m, m <= Len(stream)
    PROVE  k < n
  <1> SUFFICES ASSUME ~(k < n) PROVE FALSE
    OBVIOUS
  <1>1. k = n /\ out \in {0, HeaderLength} /\ Len(stream) = S[n].at + out - p
    BY DEF Framed, SenderAt, OnStream
  <1>2. S[n].at \in Nat
    BY DEF Framed, Past, Sums
  <1>3. HeaderLength \in Nat
    BY DEF HeaderLength
  <1>4. PICK a \in Nat : a = S[n].at
    BY <1>2
  <1>5. Len(stream) = a + out - (a + HeaderLength + d)
    BY <1>1, <1>4
  <1>6. out <= HeaderLength
    BY <1>1, <1>3
  <1>7. m <= out - HeaderLength - d
    BY ONLY <1>3, <1>5, m <= Len(stream), a \in Nat, out \in Nat, d \in Nat, m \in Nat
  <1>8. QED BY ONLY <1>3, <1>6, <1>7, 1 <= m, out \in Nat, d \in Nat, m \in Nat

\* The next m bytes are those of the frame f that come after the first d.
NextAre(m, f, d) == \A j \in 1 .. m : stream[j] = FrameBytes(f)[d + j]

\* The bytes of the frame that comes next.
LEMMA NextBytes ==
    ASSUME NEW F, NEW S, NEW n \in Nat, NEW k \in Nat, NEW p \in Nat, NEW out \in Nat,
           Framed(F, S, n, k, p, out), NEW d \in Nat, p = S[k].at + d,
           NEW m \in Nat, m <= Len(stream), k < n => d + m <= FrameLength(F[k + 1])
    PROVE  NextAre(m, F[k + 1], d)
  <1>1. k <= n /\ OnStream(stream, F, S, n, out, p) /\ Len(stream) = S[n].at + out - p
    BY DEF Framed, OnStream
  <1>2. S[k].at \in Nat /\ S[n].at \in Nat
    BY DEF Framed, Past, Sums
  <1>3. PICK a \in Nat : a = S[k].at
    BY <1>2
  <1> SUFFICES ASSUME NEW j \in 1 .. m PROVE stream[j] = FrameBytes(F[k + 1])[d + j]
    BY DEF NextAre
  <1>4. d + j \in Nat /\ 1 <= d + j /\ a + (d + j) > p /\ a + (d + j) - p = j
    <2>1. p = a + d
      BY ONLY <1>3, p = S[k].at + d
    <2>2. QED BY ONLY <2>1, a \in Nat, d \in Nat, m \in Nat, j \in 1 .. m
  <1>5. k < n => d + j <= FrameLength(F[k + 1])
    <2> SUFFICES ASSUME k < n PROVE d + j <= FrameLength(F[k + 1])
      OBVIOUS
    <2>1. F[k + 1] \in SomeFrames
      BY DEF Framed, Past
    <2>2. FrameLength(F[k + 1]) \in Nat
      BY <2>1, FrameLayout DEF FrameLength
    <2>3. d + m <= FrameLength(F[k + 1])
      OBVIOUS
    <2>4. QED BY <2>2, <2>3
  <1>6. k = n => d + j <= out
    <2> SUFFICES ASSUME k = n PROVE d + j <= out
      OBVIOUS
    <2>1. Len(stream) = a + out - (a + d)
      BY <1>1, <1>3
    <2>2. m <= out - d
      BY ONLY <2>1, m <= Len(stream), a \in Nat, d \in Nat, out \in Nat, m \in Nat
    <2>3. QED BY ONLY <2>2, j \in 1 .. m, d \in Nat, out \in Nat, m \in Nat
  <1>7. stream[S[k].at + (d + j) - p] = FrameBytes(F[k + 1])[d + j]
    BY <1>1, <1>3, <1>4, <1>5, <1>6 DEF OnStream
  <1>8. QED BY <1>3, <1>4, <1>7

\* What a step of receive() leaves is of the types that it should be.
LEMMA UnreadTypes ==
    ASSUME StreamTypes, NEW m \in Nat, m <= Len(stream)
    PROVE  /\ Unread(m) \in Seq(Byte) /\ SubSeq(stream, 1, m) \in Seq(Byte)
           /\ Len(SubSeq(stream, 1, m)) = m
           /\ \A j \in 1 .. m : SubSeq(stream, 1, m)[j] = stream[j]
  <1>1. stream \in Seq(Byte) /\ Len(stream) \in Nat
    BY DEF StreamTypes
  <1>2. Unread(m) \in Seq(Byte)
    BY <1>1 DEF Unread
  <1>3. SubSeq(stream, 1, m) \in Seq(Byte)
    BY <1>1
  <1>4. Len(SubSeq(stream, 1, m)) = m /\ \A j \in 1 .. m : SubSeq(stream, 1, m)[j] = stream[j]
    BY <1>1
  <1>5. QED BY <1>2, <1>3, <1>4

\* A data frame ends, and the packet with it or a fragment.
LEMMA FrameEndsFrames ==
    ASSUME NEW F, NEW S, NEW n \in Nat, NEW k \in Nat, NEW r \in Receivers, NEW h, NEW bytes,
           Past(F, S, n), k < n, F[k + 1].flag \in DataFlags,
           h[1] = F[k + 1].flag, bytes = S[k].fragments \o F[k + 1].body,
           ReceiveLocksInv, \A u \in Receivers : u # r => receivePlace[u] \in Resting,
           FrameEnds(r, h, bytes), packetsReceived = S[k].packets, codesReceived' = S[k].codes
    PROVE  ReceiverAt(F, S, k + 1, S[k + 1].at)'
  <1>1. k + 1 \in Nat /\ S[k + 1].at \in Nat /\ Follows(S[k], F[k + 1], S[k + 1])
    BY DEF Past, Sums
  <1>2. F[k + 1].flag # ControlFlag_SendTimeCode
    BY DEF DataFlags, DataFlag_Complete_EOP, DataFlag_Complete_EEP, DataFlag_Flagmented,
           ControlFlag_SendTimeCode
  <1>3. /\ S[k + 1].codes = S[k].codes
        /\ F[k + 1].flag = DataFlag_Flagmented =>
             S[k + 1].fragments = bytes /\ S[k + 1].packets = S[k].packets
        /\ F[k + 1].flag # DataFlag_Flagmented =>
             /\ S[k + 1].fragments = <<>>
             /\ bytes = <<>> => S[k + 1].packets = S[k].packets
             /\ bytes # <<>> => S[k + 1].packets =
                   Append(S[k].packets, [data |-> bytes, eop |-> EndOfPacket(F[k + 1].flag)])
    BY <1>1, <1>2 DEF Follows
  <1>4. CASE h[1] = DataFlag_Flagmented \/ bytes = <<>>
    <2>1. /\ receivePlace' = [receivePlace EXCEPT ![r] = "check"]
          /\ packetsReceived' = packetsReceived /\ rheader' = <<>> /\ receivebuffer' = bytes
      BY <1>4 DEF FrameEnds
    <2>2. S[k + 1].fragments = bytes /\ S[k + 1].packets = S[k].packets
      BY <1>3, <1>4
    <2>3. AtHeader(F[(k + 1) + 1], S[k + 1], S[k + 1].at)'
      <3>1. Len(<<>>) = 0 /\ 0 < HeaderLength
        BY DEF HeaderLength
      <3>2. QED BY <1>1, <2>1, <2>2, <3>1 DEF AtHeader
    <2>4. packetsReceived' = S[k + 1].packets /\ codesReceived' = S[k + 1].codes
      BY <1>3, <2>1, <2>2
    <2>5. PICK x : x = "check"
      OBVIOUS
    <2>6. receivePlace' = [receivePlace EXCEPT ![r] = x] /\ x \notin Resting /\ x # "data"
          /\ x # "timecode"
      BY <2>1, <2>5 DEF Resting
    <2>7. QED BY <1>1, <2>3, <2>4, <2>6, ReceiverMoves
  <1>5. CASE ~(h[1] = DataFlag_Flagmented \/ bytes = <<>>)
    <2>1. /\ receivePlace' = [receivePlace EXCEPT ![r] = "idle"]
          /\ packetsReceived' = Append(packetsReceived,
                                        [data |-> bytes, eop |-> EndOfPacket(h[1])])
      BY <1>5 DEF FrameEnds, ReceiveReturn
    <2>2. packetsReceived' = S[k + 1].packets /\ codesReceived' = S[k + 1].codes
          /\ S[k + 1].fragments = <<>>
      BY <1>3, <1>5, <2>1
    <2>3. PICK x : x = "idle"
      OBVIOUS
    <2>4. receivePlace' = [receivePlace EXCEPT ![r] = x] /\ x \notin {"check", "header"}
          /\ x # "data" /\ x # "timecode"
      BY <2>1, <2>3
    <2>5. QED BY <1>1, <2>2, <2>4, ReceiverMoves
  <1>6. QED BY <1>4, <1>5

\* receive() reads more of a header.
LEMMA ReceiveHeaderFrames ==
    ASSUME FramingInv, NEW r \in Receivers, ReceiveHeader(r)
    PROVE  FramesInv' /\ StreamTypes'
  <1>1. /\ receivePlace[r] = "header"
        /\ UNCHANGED <<sendVars, tcpBroken, codesReceived, bytesLost>>
        /\ StreamTypes /\ ReceiveLocksInv /\ FramesInv
    BY DEF ReceiveHeader, receiveUnchanged, FramingInv, LocksInv
  <1>2. PICK m \in 1 .. HeaderLength - Len(rheader) :
          LET h == rheader \o SubSeq(stream, 1, m) IN
          /\ m <= Len(stream)
          /\ stream' = Unread(m)
          /\ CASE Len(h) < HeaderLength ->
                    /\ rheader' = h
                    /\ receivePlace' = [receivePlace EXCEPT ![r] = "check"]
                    /\ UNCHANGED <<receivemutex, receiveOutcome, flagmentSize, receivebuffer,
                                   packetsReceived>>
               [] Len(h) = HeaderLength /\ h[1] \in DataFlags /\ HeaderSize(h) = 0 ->
                    FrameEnds(r, h, receivebuffer)
               [] Len(h) = HeaderLength /\ h[1] \in DataFlags /\ HeaderSize(h) # 0 ->
                    /\ rheader' = h
                    /\ flagmentSize' = HeaderSize(h)
                    /\ receivePlace' = [receivePlace EXCEPT ![r] = "data"]
                    /\ UNCHANGED <<receivemutex, receiveOutcome, receivebuffer, packetsReceived>>
               [] Len(h) = HeaderLength /\ h[1] \in TimeCodeFlags ->
                    /\ rheader' = h
                    /\ flagmentSize' = 2
                    /\ receivePlace' = [receivePlace EXCEPT ![r] = "timecode"]
                    /\ UNCHANGED <<receivemutex, receiveOutcome, receivebuffer, packetsReceived>>
               [] OTHER ->
                    /\ ReceiveReturn(r, "TCPSocketError", 1)
                    /\ rheader' = <<>> /\ flagmentSize' = 0
                    /\ UNCHANGED <<receivebuffer, packetsReceived>>
    BY DEF ReceiveHeader
  <1>3. /\ m \in Nat /\ 1 <= m /\ m <= Len(stream) /\ stream' = Unread(m)
        /\ rheader \in Seq(Byte) /\ Len(rheader) \in Nat /\ Len(rheader) + m <= HeaderLength
        /\ HeaderLength \in Nat
    <2>1. rheader \in Seq(Byte) /\ Len(rheader) \in Nat /\ HeaderLength \in Nat
      BY <1>1 DEF StreamTypes, HeaderLength
    <2>2. m <= Len(stream) /\ stream' = Unread(m)
      BY ONLY <1>2
    <2>3. QED
      BY ONLY <2>1, <2>2, m \in 1 .. HeaderLength - Len(rheader)
  <1>4. /\ Unread(m) \in Seq(Byte) /\ SubSeq(stream, 1, m) \in Seq(Byte)
        /\ Len(SubSeq(stream, 1, m)) = m
        /\ \A j \in 1 .. m : SubSeq(stream, 1, m)[j] = stream[j]
    BY <1>1, <1>3, UnreadTypes
  <1>5. PICK z \in Seq(Byte) : z = SubSeq(stream, 1, m)
    BY <1>4
  <1>6. PICK h \in Seq(Byte) : h = rheader \o z
    BY <1>3, ConcatProperties
  <1>7. /\ Len(h) = Len(rheader) + m /\ Len(h) <= HeaderLength
        /\ \A j \in 1 .. Len(rheader) : h[j] = rheader[j]
        /\ \A j \in 1 .. m : h[Len(rheader) + j] = stream[j]
    <2>1. PICK g \in Seq(Byte) : g = rheader
      BY <1>3
    <2>2. /\ Len(g \o z) = Len(g) + Len(z)
          /\ \A i \in 1 .. Len(g) : (g \o z)[i] = g[i]
          /\ \A i \in 1 .. Len(z) : (g \o z)[Len(g) + i] = z[i]
      BY ONLY OneAfterAnother
    <2>3. Len(z) = m /\ \A j \in 1 .. m : z[j] = stream[j]
      BY <1>4, <1>5
    <2>4. QED BY ONLY <1>3, <1>6, <2>1, <2>2, <2>3
  <1>14. Len(h) \in Nat /\ Len(h) <= HeaderLength /\ HeaderLength \in Nat
    <2>1. PICK a, b \in Nat : a = Len(rheader) /\ b = HeaderLength
      BY <1>3
    <2>2. m <= b - a /\ Len(h) = a + m
      BY ONLY <1>3, <1>7, <2>1
    <2>3. a + m \in Nat /\ a + m <= b
      BY ONLY <2>2, a \in Nat, b \in Nat, m \in 1 .. b - a
    <2>4. QED BY ONLY <2>1, <2>2, <2>3
  <1>8. h = rheader \o SubSeq(stream, 1, m)
    BY <1>5, <1>6
  <1>9. \/ /\ Len(h) < HeaderLength /\ rheader' = h
           /\ receivePlace' = [receivePlace EXCEPT ![r] = "check"]
           /\ UNCHANGED <<flagmentSize, receivebuffer, packetsReceived>>
        \/ /\ Len(h) = HeaderLength /\ h[1] \in DataFlags /\ HeaderSize(h) = 0
           /\ FrameEnds(r, h, receivebuffer)
        \/ /\ Len(h) = HeaderLength /\ h[1] \in DataFlags /\ HeaderSize(h) # 0
           /\ rheader' = h /\ flagmentSize' = HeaderSize(h)
           /\ receivePlace' = [receivePlace EXCEPT ![r] = "data"]
           /\ UNCHANGED <<receivebuffer, packetsReceived>>
        \/ /\ Len(h) = HeaderLength /\ h[1] \in TimeCodeFlags
           /\ rheader' = h /\ flagmentSize' = 2
           /\ receivePlace' = [receivePlace EXCEPT ![r] = "timecode"]
           /\ UNCHANGED <<receivebuffer, packetsReceived>>
        \/ /\ Len(h) = HeaderLength /\ h[1] \notin DataFlags /\ h[1] \notin TimeCodeFlags
           /\ rheader' = <<>> /\ flagmentSize' = 0
           /\ UNCHANGED <<receivebuffer, packetsReceived>>
    <2> HIDE DEF DataFlags, TimeCodeFlags
    <2>1. \/ Len(h) < HeaderLength
          \/ Len(h) = HeaderLength /\ h[1] \in DataFlags /\ HeaderSize(h) = 0
          \/ Len(h) = HeaderLength /\ h[1] \in DataFlags /\ HeaderSize(h) # 0
          \/ Len(h) = HeaderLength /\ h[1] \in TimeCodeFlags
          \/ Len(h) = HeaderLength /\ h[1] \notin DataFlags /\ h[1] \notin TimeCodeFlags
      <3>1. Len(h) < HeaderLength \/ Len(h) = HeaderLength
        BY ONLY <1>14
      <3>2. QED BY ONLY <3>1
    <2>2. DataFlags \cap TimeCodeFlags = {}
      BY DEF DataFlags, TimeCodeFlags, DataFlag_Complete_EOP, DataFlag_Complete_EEP,
             DataFlag_Flagmented, ControlFlag_SendTimeCode, ControlFlag_GotTimeCode
    <2>3. QED BY ONLY <1>2, <1>8, <2>1, <2>2
  <1>10. StreamTypes'
    <2>1. stream' \in Seq(Byte)
      BY <1>3, <1>4
    <2>2. Len(h) = HeaderLength => HeaderSize(h) \in Nat
      <3>1. h \in Seq(Nat)
        <4>1. Byte \subseteq Nat
          BY DEF Byte
        <4>2. QED BY ONLY <4>1, h \in Seq(Byte), SeqOverMore
      <3>2. QED BY <3>1, SizeReadOf DEF HeaderSize
    <2>3. rheader' \in Seq(Byte) /\ Len(rheader') <= HeaderLength
      <3>1. <<>> \in Seq(Byte) /\ Len(<<>>) <= HeaderLength
        BY <1>3
      <3>2. rheader' = h \/ rheader' = <<>>
        BY <1>9 DEF FrameEnds
      <3>3. QED BY <1>7, <3>1, <3>2
    <2>4. receivebuffer' = receivebuffer
      BY <1>9 DEF FrameEnds
    <2>5. flagmentSize' \in Nat
      <3>1. flagmentSize \in Nat
        BY <1>1 DEF StreamTypes
      <3>2. QED BY <1>9, <2>2, <3>1 DEF FrameEnds
    <2>6. UNCHANGED <<sendPlace, sendRequest>>
      BY <1>1 DEF sendVars
    <2>7. QED BY <1>1, <2>1, <2>3, <2>4, <2>5, <2>6 DEF StreamTypes
  <1>11. CASE bytesLost
    <2>1. FramesInv'
      BY ONLY <1>1, <1>11 DEF FramesInv
    <2>2. QED BY ONLY <1>10, <2>1
  <1>12. CASE ~bytesLost
    <2>1. PICK F, S : \E n, k, p, out \in Nat : Framed(F, S, n, k, p, out)
      BY <1>1, <1>12 DEF FramesInv, Framed
    <2>2. PICK n, k, p, out \in Nat : Framed(F, S, n, k, p, out)
      BY <2>1
    <2>3. PICK f \in SomeFrames : f = F[k + 1]
      BY <2>2 DEF Framed, Past
    <2>4. PICK s \in Sums : s = S[k]
      BY <2>2 DEF Framed, Past
    <2>5. /\ AtHeader(f, s, p) /\ packetsReceived = s.packets /\ codesReceived' = s.codes
          /\ Past(F, S, n) /\ k <= n /\ SenderAt(F, S, n, out)
      BY <1>1, <2>2, <2>3, <2>4 DEF Framed, ReceiverAt
    <2>6. /\ f.body \in Seq(Byte) /\ Len(f.body) \in Nat
             /\ FrameLength(f) = HeaderLength + Len(f.body)
          /\ HeaderSize(FrameHeader(f)) = Len(f.body) /\ FrameHeader(f)[1] = f.flag
      BY FrameLayout DEF FrameLength
    <2>7. p = s.at + Len(rheader) /\ s.at \in Nat /\ receivebuffer = s.fragments
          /\ s.fragments \in Seq(Byte)
          /\ \A j \in 1 .. Len(rheader) : rheader[j] = FrameBytes(f)[j]
      BY <2>5 DEF AtHeader, Sums
    <2>8. \A j \in 1 .. Len(h) : h[j] = FrameBytes(f)[j]
      <3>1. PICK d \in Nat : d = Len(rheader)
        BY <1>3
      <3>2. d + m <= FrameLength(f)
        BY ONLY <1>3, <2>6, <3>1
      <3>3. \A j \in 1 .. m : stream[j] = FrameBytes(f)[d + j]
        <4>1. p = S[k].at + d /\ (k < n => d + m <= FrameLength(F[k + 1])) /\ m \in Nat
              /\ m <= Len(stream)
          BY <1>3, <2>3, <2>4, <2>7, <3>1, <3>2
        <4>2. NextAre(m, F[k + 1], d)
          BY ONLY SSDTPAssumption, n \in Nat, k \in Nat, p \in Nat, out \in Nat, d \in Nat,
             <2>2, <4>1, NextBytes
        <4>3. QED BY <2>3, <4>2 DEF NextAre
      <3>4. Len(h) = d + m
        BY <1>7, <3>1
      <3>5. ASSUME NEW j \in 1 .. Len(h) PROVE h[j] = FrameBytes(f)[j]
        <4>1. CASE j <= d
          <5>1. j \in 1 .. Len(rheader)
            BY <3>1, <4>1
          <5>2. QED BY <1>7, <2>7, <5>1
        <4>2. CASE ~(j <= d)
          <5>1. PICK i \in 1 .. m : j = d + i
            <6>1. j - d \in 1 .. m /\ j = d + (j - d)
              BY <1>3, <3>4, <4>2
            <6>2. QED BY <6>1
          <5>2. QED BY <1>7, <3>1, <3>3, <5>1
        <4>3. QED BY <4>1, <4>2
      <3>6. QED BY <3>5
    <2>9. Len(h) = HeaderLength => h = FrameHeader(f)
      BY <2>8, HeaderIsRead
    <2>10. p + m = s.at + Len(h)
      BY ONLY <1>3, <1>7, <2>7, p \in Nat
    <2>11. \A u \in Receivers : u # r => receivePlace[u] \in Resting
      BY <1>1, OthersRest DEF Resting
    <2>12. p + m \in Nat
      BY <1>3
    <2>13. ASSUME NEW l \in Nat, l <= n, ReceiverAt(F, S, l, p + m)'
           PROVE  FramesInv' /\ StreamTypes'
      BY ONLY SSDTPAssumption, n \in Nat, k \in Nat, p \in Nat, out \in Nat, <1>1, <1>3, <1>10,
         <2>2, <2>13, ReceiverGoesOn
    <2>14. CASE Len(h) < HeaderLength
      <3>1. /\ rheader' = h /\ receivePlace' = [receivePlace EXCEPT ![r] = "check"]
            /\ receivebuffer' = receivebuffer /\ packetsReceived' = packetsReceived
        BY <1>9, <2>14
      <3>2. AtHeader(F[k + 1], S[k], p + m)'
        BY <2>3, <2>4, <2>7, <2>8, <2>10, <2>14, <3>1 DEF AtHeader
      <3>3. PICK x : x = "check"
        OBVIOUS
      <3>4. receivePlace' = [receivePlace EXCEPT ![r] = x] /\ x \notin Resting /\ x # "data"
            /\ x # "timecode"
        BY <3>1, <3>3 DEF Resting
      <3>5. packetsReceived' = S[k].packets /\ codesReceived' = S[k].codes
        BY <2>4, <2>5, <3>1
      <3>6. ReceiverAt(F, S, k, p + m)'
        BY ONLY r \in Receivers, k \in Nat, <1>1, <2>11, <2>12, <3>2, <3>4, <3>5, ReceiverMoves
      <3>7. QED BY <2>5, <2>13, <3>6
    <2>15. CASE Len(h) = HeaderLength
      <3>1. h = FrameHeader(f) /\ h[1] = f.flag /\ HeaderSize(h) = Len(f.body)
        BY <2>6, <2>9, <2>15
      <3>2. p + m = s.at + HeaderLength
        BY <2>10, <2>15
      <3>3. CASE f.flag \in DataFlags /\ Len(f.body) = 0
        <4>1. FrameEnds(r, h, receivebuffer)
          <5>1. h[1] \in DataFlags /\ HeaderSize(h) = 0 /\ h[1] \notin TimeCodeFlags
            BY <3>1, <3>3 DEF DataFlags, TimeCodeFlags, DataFlag_Complete_EOP,
                              DataFlag_Complete_EEP, DataFlag_Flagmented,
                              ControlFlag_SendTimeCode, ControlFlag_GotTimeCode
          <5>2. QED BY ONLY <1>3, <1>9, <2>15, <5>1
        <4>2. f.body = <<>>
          BY <2>6, <3>3
        <4>3. k < n
          <5> SUFFICES ASSUME ~(k < n) PROVE FALSE
            OBVIOUS
          <5>1. k = n
            BY <2>5
          <5>2. out = 0
            BY <2>3, <2>5, <4>2, <5>1 DEF SenderAt
          <5>3. p + m <= S[n].at + out
            BY ONLY <1>1, <1>3, <2>2, n \in Nat, p \in Nat, out \in Nat, StreamIsReadBy
               DEF Framed, StreamTypes
          <5>4. 3 <= HeaderLength
            BY DEF HeaderLength
          <5>5. p + m = S[n].at + HeaderLength
            BY ONLY <2>4, <3>2, <5>1
          <5>6. PICK a, b, c \in Nat : a = S[n].at /\ b = HeaderLength /\ c = p + m
            BY ONLY <1>14, <2>4, <2>7, <2>12, <5>1
          <5>7. c = a + b /\ c <= a /\ 3 <= b
            BY ONLY <2>4, <2>7, <5>1, <5>2, <5>3, <5>4, <5>5, <5>6
          <5>8. QED BY ONLY <5>7, a \in Nat, b \in Nat, c \in Nat
        <4>4. PICK bytes \in Seq(Byte) : bytes = s.fragments
          BY <2>7
        <4>5. bytes = S[k].fragments \o F[k + 1].body
          <5>1. bytes \o <<>> = bytes
            OBVIOUS
          <5>2. QED BY <2>3, <2>4, <4>2, <4>4, <5>1
        <4>6. FrameEnds(r, h, bytes)
          BY <2>7, <4>1, <4>4
        <4>7. h[1] = F[k + 1].flag /\ F[k + 1].flag \in DataFlags
              /\ packetsReceived = S[k].packets
              /\ codesReceived' = S[k].codes
          BY <2>3, <2>4, <2>5, <3>1, <3>3
        <4>8. ReceiverAt(F, S, k + 1, S[k + 1].at)'
          BY ONLY SSDTPAssumption, n \in Nat, k \in Nat, r \in Receivers, <1>1, <2>5, <2>11,
             <4>3, <4>5, <4>6, <4>7, FrameEndsFrames
        <4>9. S[k + 1].at = p + m
          <5>1. Follows(S[k], F[k + 1], S[k + 1])
            BY <2>5, <4>3 DEF Past
          <5>2. S[k + 1].at = s.at + FrameLength(f)
            BY <2>3, <2>4, <5>1 DEF Follows
          <5>3. QED BY ONLY <1>3, <2>6, <2>7, <3>2, <3>3, <5>2
        <4>10. k + 1 \in Nat /\ k + 1 <= n
          BY <4>3
        <4>11. ReceiverAt(F, S, k + 1, p + m)'
          BY ONLY <4>8, <4>9
        <4>12. QED BY ONLY <2>13, <4>10, <4>11
      <3>4. CASE f.flag \in DataFlags /\ Len(f.body) # 0
        <4>1. /\ rheader' = h /\ flagmentSize' = Len(f.body)
              /\ receivePlace' = [receivePlace EXCEPT ![r] = "data"]
              /\ receivebuffer' = receivebuffer /\ packetsReceived' = packetsReceived
          <5>1. h[1] \in DataFlags /\ HeaderSize(h) # 0 /\ h[1] \notin TimeCodeFlags
            BY <3>1, <3>4 DEF DataFlags, TimeCodeFlags, DataFlag_Complete_EOP,
                              DataFlag_Complete_EEP, DataFlag_Flagmented,
                              ControlFlag_SendTimeCode, ControlFlag_GotTimeCode
          <5>2. QED BY ONLY <1>3, <1>9, <2>15, <3>1, <5>1
        <4>2. AtData(F[k + 1], S[k], p + m)'
          <5>1. Len(f.body) \in 1 .. Len(f.body) /\ Len(f.body) - Len(f.body) = 0
            BY <2>6, <3>4
          <5>2. p + m = s.at + HeaderLength + 0
            BY ONLY <1>3, <2>7, <3>2
          <5>3. SubSeq(f.body, 1, 0) = <<>>
            BY <2>6
          <5>4. s.fragments \o <<>> = s.fragments
            BY <2>7
          <5>5. QED BY <2>3, <2>4, <2>7, <3>1, <3>4, <4>1, <5>1, <5>2, <5>3, <5>4 DEF AtData
        <4>3. PICK x : x = "data"
          OBVIOUS
        <4>4. /\ receivePlace' = [receivePlace EXCEPT ![r] = x] /\ x \notin Resting
              /\ x \notin {"check", "header"} /\ x # "timecode"
          BY <4>1, <4>3 DEF Resting
        <4>5. packetsReceived' = S[k].packets /\ codesReceived' = S[k].codes
          BY <2>4, <2>5, <4>1
        <4>6. ReceiverAt(F, S, k, p + m)'
          BY ONLY r \in Receivers, k \in Nat, <1>1, <2>11, <2>12, <4>2, <4>4, <4>5, ReceiverMoves
        <4>7. QED BY <2>5, <2>13, <4>6
      <3>5. CASE f.flag = ControlFlag_SendTimeCode
        <4>1. /\ rheader' = h /\ flagmentSize' = 2
              /\ receivePlace' = [receivePlace EXCEPT ![r] = "timecode"]
              /\ receivebuffer' = receivebuffer /\ packetsReceived' = packetsReceived
          <5>1. h[1] \in TimeCodeFlags /\ h[1] \notin DataFlags
            BY <3>1, <3>5 DEF DataFlags, TimeCodeFlags, DataFlag_Complete_EOP,
                              DataFlag_Complete_EEP, DataFlag_Flagmented,
                              ControlFlag_SendTimeCode, ControlFlag_GotTimeCode
          <5>2. QED BY ONLY <1>3, <1>9, <2>15, <5>1
        <4>2. AtTimeCode(F[k + 1], S[k], p + m)'
          <5>1. p + m = s.at + HeaderLength + (2 - 2)
            BY ONLY <1>3, <2>7, <3>2
          <5>2. QED BY <2>3, <2>4, <2>7, <3>1, <3>5, <4>1, <5>1 DEF AtTimeCode
        <4>3. PICK x : x = "timecode"
          OBVIOUS
        <4>4. /\ receivePlace' = [receivePlace EXCEPT ![r] = x] /\ x \notin Resting
              /\ x \notin {"check", "header"} /\ x # "data"
          BY <4>1, <4>3 DEF Resting
        <4>5. packetsReceived' = S[k].packets /\ codesReceived' = S[k].codes
          BY <2>4, <2>5, <4>1
        <4>6. ReceiverAt(F, S, k, p + m)'
          BY ONLY r \in Receivers, k \in Nat, <1>1, <2>11, <2>12, <4>2, <4>4, <4>5, ReceiverMoves
        <4>7. QED BY <2>5, <2>13, <4>6
      <3>6. f.flag \in DataFlags \/ f.flag = ControlFlag_SendTimeCode
        BY DEF SomeFrames
      <3>7. QED BY <3>3, <3>4, <3>5, <3>6
    <2>16. Len(h) < HeaderLength \/ Len(h) = HeaderLength
      BY ONLY <1>14
    <2>17. QED BY ONLY <2>14, <2>15, <2>16
  <1>13. QED BY <1>11, <1>12

\* The first elements of a sequence.
LEMMA FirstPart ==
    ASSUME NEW A, NEW b \in Seq(A), NEW c \in Nat, c <= Len(b)
    PROVE  /\ SubSeq(b, 1, c) \in Seq(A) /\ Len(SubSeq(b, 1, c)) = c
           /\ \A i \in 1 .. c : SubSeq(b, 1, c)[i] = b[i]
  <1>1. Len(b) \in Nat /\ \A i \in 1 .. c : b[i] \in A
    OBVIOUS
  <1>2. /\ SubSeq(b, 1, c) \in Seq(A)
        /\ Len(SubSeq(b, 1, c)) = IF 1 <= c THEN c - 1 + 1 ELSE 0
        /\ \A i \in 1 .. c - 1 + 1 : SubSeq(b, 1, c)[i] = b[1 + i - 1]
    BY ONLY <1>1, c \in Nat, SubSeqProperties
  <1>3. \A i \in 1 .. c : SubSeq(b, 1, c)[i] = b[i]
    <2> SUFFICES ASSUME NEW i \in 1 .. c PROVE SubSeq(b, 1, c)[i] = b[i]
      OBVIOUS
    <2>1. i \in 1 .. c - 1 + 1 /\ 1 + i - 1 = i
      OBVIOUS
    <2>2. QED BY ONLY <1>2, <2>1
  <1>4. QED BY <1>2, <1>3

\* A part of a sequence and what follows it, after something else.
PartGrows(x, b, c, m, z) == (x \o SubSeq(b, 1, c)) \o z = x \o SubSeq(b, 1, c + m)
FollowsPart(z, b, c, m) == Len(z) = m /\ \A j \in 1 .. m : z[j] = b[c + j]

\* What follows a part of a sequence joins it to a longer part.
LEMMA PartsJoin ==
    ASSUME NEW A, NEW x \in Seq(A), NEW b \in Seq(A), NEW c \in Nat, NEW m \in Nat,
           c + m <= Len(b),
           NEW z \in Seq(A), FollowsPart(z, b, c, m)
    PROVE  PartGrows(x, b, c, m, z)
  <1>0. Len(z) = m /\ \A j \in 1 .. m : z[j] = b[c + j]
    BY DEF FollowsPart
  <1>1. Len(b) \in Nat /\ c + m \in Nat /\ c <= Len(b)
    OBVIOUS
  <1>2. PICK y \in Seq(A) : y = SubSeq(b, 1, c)
    BY <1>1, FirstPart
  <1>3. Len(y) = c /\ \A i \in 1 .. c : y[i] = b[i]
    BY <1>1, <1>2, FirstPart
  <1>4. PICK w \in Seq(A) : w = SubSeq(b, 1, c + m)
    BY <1>1, FirstPart
  <1>5. Len(w) = c + m /\ \A i \in 1 .. c + m : w[i] = b[i]
    BY <1>1, <1>4, FirstPart
  <1>6. PICK v \in Seq(A) : v = y \o z
    BY ConcatProperties
  <1>7. /\ Len(v) = c + m
        /\ \A i \in 1 .. c : v[i] = y[i]
        /\ \A i \in 1 .. m : v[c + i] = z[i]
    <2>1. /\ Len(y \o z) = Len(y) + Len(z)
          /\ \A i \in 1 .. Len(y) : (y \o z)[i] = y[i]
          /\ \A i \in 1 .. Len(z) : (y \o z)[Len(y) + i] = z[i]
      BY ONLY OneAfterAnother
    <2>2. QED BY ONLY <1>0, <1>3, <1>6, <2>1
  <1>8. \A i \in 1 .. Len(v) : v[i] = w[i]
    <2> SUFFICES ASSUME NEW i \in 1 .. Len(v) PROVE v[i] = w[i]
      OBVIOUS
    <2>1. i \in 1 .. c + m
      BY <1>7
    <2>2. CASE i <= c
      <3>1. i \in 1 .. c
        BY ONLY <2>1, <2>2, c \in Nat, m \in Nat
      <3>2. QED BY ONLY <1>3, <1>5, <1>7, <2>1, <3>1
    <2>3. CASE ~(i <= c)
      <3>1. PICK j \in 1 .. m : i = c + j
        <4>1. i - c \in 1 .. m /\ i = c + (i - c)
          BY <2>1, <2>3
        <4>2. QED BY <4>1
      <3>2. QED BY <1>0, <1>5, <1>7, <2>1, <3>1
    <2>4. QED BY <2>2, <2>3
  <1>9. v = w
    <2>1. Len(v) = Len(w)
      BY <1>5, <1>7
    <2>2. QED BY ONLY <1>8, <2>1, v \in Seq(A), w \in Seq(A), SeqEqual
  <1>10. (x \o y) \o z = x \o (y \o z)
    <2>1. Associate(x, y, z)
      BY ONLY x \in Seq(A), y \in Seq(A), z \in Seq(A), ThreeInARow
    <2>2. QED BY ONLY <2>1 DEF Associate
  <1>11. (x \o SubSeq(b, 1, c)) \o z = x \o SubSeq(b, 1, c + m)
    BY ONLY <1>2, <1>4, <1>6, <1>9, <1>10
  <1>12. QED BY ONLY <1>11 DEF PartGrows

\* receive() reads more of a body.
LEMMA ReceiveDataFrames ==
    ASSUME FramingInv, NEW r \in Receivers, ReceiveData(r)
    PROVE  FramesInv' /\ StreamTypes'
  <1>1. /\ receivePlace[r] = "data"
        /\ UNCHANGED <<sendVars, tcpBroken, codesReceived, bytesLost>>
        /\ StreamTypes /\ ReceiveLocksInv /\ FramesInv
    BY DEF ReceiveData, receiveUnchanged, FramingInv, LocksInv
  <1>2. PICK m \in 1 .. flagmentSize :
          LET bytes == receivebuffer \o SubSeq(stream, 1, m) IN
          /\ m <= Len(stream)
          /\ stream' = Unread(m)
          /\ IF m < flagmentSize
             THEN /\ receivebuffer' = bytes
                  /\ flagmentSize' = flagmentSize - m
                  /\ UNCHANGED <<receivePlace, receivemutex, receiveOutcome, rheader,
                                 packetsReceived>>
             ELSE FrameEnds(r, rheader, bytes)
    BY DEF ReceiveData
  <1>3. /\ m \in Nat /\ 1 <= m /\ m <= flagmentSize /\ m <= Len(stream) /\ stream' = Unread(m)
        /\ flagmentSize \in Nat /\ HeaderLength \in Nat /\ receivebuffer \in Seq(Byte)
    <2>1. flagmentSize \in Nat /\ HeaderLength \in Nat /\ receivebuffer \in Seq(Byte)
      BY <1>1 DEF StreamTypes, HeaderLength
    <2>2. m <= Len(stream) /\ stream' = Unread(m)
      BY ONLY <1>2
    <2>3. QED BY ONLY <2>1, <2>2, m \in 1 .. flagmentSize
  <1>4. /\ Unread(m) \in Seq(Byte) /\ SubSeq(stream, 1, m) \in Seq(Byte)
        /\ Len(SubSeq(stream, 1, m)) = m
        /\ \A j \in 1 .. m : SubSeq(stream, 1, m)[j] = stream[j]
    BY <1>1, <1>3, UnreadTypes
  <1>5. PICK z \in Seq(Byte) : z = SubSeq(stream, 1, m)
    BY <1>4
  <1>6. PICK bytes \in Seq(Byte) : bytes = receivebuffer \o z
    BY <1>3, ConcatProperties
  <1>7. bytes = receivebuffer \o SubSeq(stream, 1, m)
    BY <1>5, <1>6
  <1>8. /\ m < flagmentSize =>
             /\ receivebuffer' = bytes /\ flagmentSize' = flagmentSize - m
             /\ UNCHANGED <<receivePlace, rheader, packetsReceived>>
        /\ ~(m < flagmentSize) => FrameEnds(r, rheader, bytes)
    BY ONLY <1>2, <1>7
  <1>9. StreamTypes'
    <2>1. stream' \in Seq(Byte) /\ UNCHANGED <<sendPlace, sendRequest>>
      BY <1>1, <1>3, <1>4 DEF sendVars
    <2>2. receivebuffer' \in Seq(Byte) /\ flagmentSize' \in Nat
      BY <1>3, <1>8 DEF FrameEnds
    <2>3. rheader' \in Seq(Byte) /\ Len(rheader') <= HeaderLength
      <3>1. rheader' = rheader \/ rheader' = <<>>
        BY <1>8 DEF FrameEnds
      <3>2. <<>> \in Seq(Byte) /\ Len(<<>>) <= HeaderLength
        BY <1>3
      <3>3. rheader \in Seq(Byte) /\ Len(rheader) <= HeaderLength
        BY <1>1 DEF StreamTypes
      <3>4. QED BY <3>1, <3>2, <3>3
    <2>4. QED BY <1>1, <2>1, <2>2, <2>3 DEF StreamTypes
  <1>10. CASE bytesLost
    <2>1. FramesInv'
      BY ONLY <1>1, <1>10 DEF FramesInv
    <2>2. QED BY ONLY <1>9, <2>1
  <1>11. CASE ~bytesLost
    <2>1. PICK F, S : \E n, k, p, out \in Nat : Framed(F, S, n, k, p, out)
      BY <1>1, <1>11 DEF FramesInv, Framed
    <2>2. PICK n, k, p, out \in Nat : Framed(F, S, n, k, p, out)
      BY <2>1
    <2>3. PICK f \in SomeFrames : f = F[k + 1]
      BY <2>2 DEF Framed, Past
    <2>4. PICK s \in Sums : s = S[k]
      BY <2>2 DEF Framed, Past
    <2>5. /\ AtData(f, s, p) /\ packetsReceived = s.packets /\ codesReceived' = s.codes
          /\ Past(F, S, n) /\ k <= n
      BY <1>1, <2>2, <2>3, <2>4 DEF Framed, ReceiverAt
    <2>6. /\ f.body \in Seq(Byte) /\ Len(f.body) \in Nat
             /\ FrameLength(f) = HeaderLength + Len(f.body)
          /\ \A j \in 1 .. Len(f.body) : FrameBytes(f)[HeaderLength + j] = f.body[j]
          /\ FrameHeader(f)[1] = f.flag
      BY FrameLayout DEF FrameLength
    <2>7. /\ f.flag \in DataFlags /\ rheader = FrameHeader(f) /\ flagmentSize \in 1 .. Len(f.body)
          /\ s.at \in Nat /\ s.fragments \in Seq(Byte)
      BY <2>5 DEF AtData, Sums
    <2>20. PICK len, base, rest, hd \in Nat :
             len = Len(f.body) /\ base = s.at /\ rest = flagmentSize /\ hd = HeaderLength
      BY <1>3, <2>6, <2>7
    <2>21. rest <= len /\ m <= rest /\ 1 <= m
      BY <1>3, <2>7, <2>20
    <2>8. PICK c \in Nat : c = len - rest
      BY ONLY <2>21, len \in Nat, rest \in Nat
    <2>22. c + m <= len /\ rest = len - c
      BY ONLY <2>8, <2>21, c \in Nat, m \in Nat, len \in Nat, rest \in Nat
    <2>9. p = base + hd + c /\ receivebuffer = s.fragments \o SubSeq(f.body, 1, c)
      BY <2>5, <2>8, <2>20 DEF AtData
    <2>10. k < n
      <3>1. p = S[k].at + HeaderLength + c
        BY <2>4, <2>9, <2>20
      <3>2. QED
        BY ONLY SSDTPAssumption, n \in Nat, k \in Nat, p \in Nat, out \in Nat, c \in Nat, <1>3,
           <2>2, <3>1, BodyIsOut
    <2>11. \A j \in 1 .. m : z[j] = f.body[c + j]
      <3>1. PICK d \in Nat : d = hd + c
        OBVIOUS
      <3>2. p = S[k].at + d /\ (k < n => d + m <= FrameLength(F[k + 1]))
        <4>1. d + m <= FrameLength(f)
          <5>1. FrameLength(f) = hd + len
            BY ONLY <2>6, <2>20
          <5>2. d + m <= hd + len
            BY ONLY <2>22, <3>1, c \in Nat, m \in Nat, d \in Nat, hd \in Nat, len \in Nat
          <5>3. QED BY ONLY <5>1, <5>2
        <4>2. p = s.at + d
          <5>1. p = base + d
            BY ONLY <2>9, <3>1, base \in Nat, hd \in Nat, c \in Nat
          <5>2. QED BY ONLY <2>20, <5>1
        <4>3. QED BY <2>3, <2>4, <4>1, <4>2
      <3>3. NextAre(m, F[k + 1], d)
        BY ONLY SSDTPAssumption, n \in Nat, k \in Nat, p \in Nat, out \in Nat, d \in Nat, <1>3,
           <2>2, <3>2, NextBytes
      <3> SUFFICES ASSUME NEW j \in 1 .. m PROVE z[j] = f.body[c + j]
        OBVIOUS
      <3>4. z[j] = FrameBytes(f)[d + j]
        BY <1>4, <1>5, <2>3, <3>3 DEF NextAre
      <3>5. PICK i \in 1 .. Len(f.body) : i = c + j
        <4>1. c + j \in 1 .. len
          BY ONLY <2>22, c \in Nat, m \in Nat, len \in Nat, j \in 1 .. m
        <4>2. QED BY ONLY <2>20, <4>1
      <3>6. d + j = HeaderLength + i
        <4>1. d + j = hd + i
          BY ONLY <3>1, <3>5, c \in Nat, hd \in Nat, j \in 1 .. m
        <4>2. QED BY ONLY <2>20, <4>1
      <3>7. FrameBytes(f)[HeaderLength + i] = f.body[i]
        BY ONLY <2>6, i \in 1 .. Len(f.body)
      <3>8. QED BY ONLY <3>4, <3>5, <3>6, <3>7
    <2>12. bytes = s.fragments \o SubSeq(f.body, 1, c + m)
      <3>1. PICK x, b \in Seq(Byte) : x = s.fragments /\ b = f.body
        BY <2>6, <2>7
      <3>2. c + m <= Len(b) /\ FollowsPart(z, b, c, m)
        BY <1>4, <1>5, <2>11, <2>20, <2>22, <3>1 DEF FollowsPart
      <3>3. (x \o SubSeq(b, 1, c)) \o z = x \o SubSeq(b, 1, c + m)
        <4>1. PartGrows(x, b, c, m, z)
          BY ONLY <3>2, m \in Nat, c \in Nat, z \in Seq(Byte), x \in Seq(Byte),
             b \in Seq(Byte), PartsJoin
        <4>2. QED BY ONLY <4>1 DEF PartGrows
      <3>4. QED BY ONLY <1>6, <2>9, <3>1, <3>3
    <2>13. \A u \in Receivers : u # r => receivePlace[u] \in Resting
      BY <1>1, OthersRest DEF Resting
    <2>14. p + m \in Nat
      BY <1>3
    <2>15. ASSUME NEW l \in Nat, l <= n, ReceiverAt(F, S, l, p + m)'
           PROVE  FramesInv' /\ StreamTypes'
      BY ONLY SSDTPAssumption, n \in Nat, k \in Nat, p \in Nat, out \in Nat, <1>1, <1>3, <1>9,
         <2>2, <2>15, ReceiverGoesOn
    <2>16. CASE m < flagmentSize
      <3>1. /\ receivebuffer' = bytes /\ flagmentSize' = flagmentSize - m
            /\ receivePlace' = receivePlace /\ rheader' = rheader
               /\ packetsReceived' = packetsReceived
        BY <1>8, <2>16
      <3>2. AtData(F[k + 1], S[k], p + m)'
        <4>1. flagmentSize - m \in 1 .. Len(f.body) /\ Len(f.body) - (flagmentSize - m) = c + m
          <5>1. rest - m \in 1 .. len /\ len - (rest - m) = c + m
            <6>1. m < rest
              BY ONLY <2>16, <2>20
            <6>2. QED BY ONLY <2>21, <2>22, <6>1, m \in Nat, c \in Nat, len \in Nat, rest \in Nat
          <5>2. QED BY ONLY <2>20, <5>1
        <4>2. p + m = s.at + HeaderLength + (c + m)
          <5>1. p + m = base + hd + (c + m)
            BY ONLY <2>9, p \in Nat, m \in Nat, c \in Nat, base \in Nat, hd \in Nat
          <5>2. QED BY ONLY <2>20, <5>1
        <4>3. f.flag \in DataFlags /\ rheader' = FrameHeader(f)
          BY <2>7, <3>1
        <4>4. AtData(f, s, p + m)'
          BY ONLY <2>12, <3>1, <4>1, <4>2, <4>3 DEF AtData
        <4>5. QED BY ONLY <2>3, <2>4, <4>4
      <3>3. PICK x : x = "data"
        OBVIOUS
      <3>4. /\ receivePlace' = [receivePlace EXCEPT ![r] = x] /\ x \notin Resting
            /\ x \notin {"check", "header"} /\ x # "timecode"
        BY <1>1, <3>1, <3>3 DEF Resting, ReceiveLocksInv
      <3>5. packetsReceived' = S[k].packets /\ codesReceived' = S[k].codes
        BY <2>4, <2>5, <3>1
      <3>6. ReceiverAt(F, S, k, p + m)'
        BY ONLY r \in Receivers, k \in Nat, <1>1, <2>13, <2>14, <3>2, <3>4, <3>5, ReceiverMoves
      <3>7. QED BY ONLY <2>5, <2>15, <3>6, k \in Nat
    <2>17. CASE ~(m < flagmentSize)
      <3>1. FrameEnds(r, rheader, bytes)
        BY <1>8, <2>17
      <3>2. c + m = Len(f.body)
        <4>1. ~(m < rest)
          BY ONLY <2>17, <2>20
        <4>2. c + m = len
          BY ONLY <2>21, <2>22, <4>1, m \in Nat, c \in Nat, len \in Nat, rest \in Nat
        <4>3. QED BY ONLY <2>20, <4>2
      <3>3. bytes = S[k].fragments \o F[k + 1].body
        <4>1. SubSeq(f.body, 1, Len(f.body)) = f.body
          BY <2>6
        <4>2. QED BY ONLY <2>3, <2>4, <2>12, <3>2, <4>1
      <3>4. rheader[1] = F[k + 1].flag /\ F[k + 1].flag \in DataFlags
            /\ packetsReceived = S[k].packets
            /\ codesReceived' = S[k].codes
        BY <2>3, <2>4, <2>5, <2>6, <2>7
      <3>5. PICK h \in Seq(Byte) : h = rheader
        BY <1>1 DEF StreamTypes
      <3>6. ReceiverAt(F, S, k + 1, S[k + 1].at)'
        <4>1. FrameEnds(r, h, bytes) /\ h[1] = F[k + 1].flag
          BY <3>1, <3>4, <3>5
        <4>2. F[k + 1].flag \in DataFlags /\ packetsReceived = S[k].packets
              /\ codesReceived' = S[k].codes
          BY ONLY <3>4
        <4>3. ReceiveLocksInv /\ Past(F, S, n)
          BY ONLY <1>1, <2>5
        <4>4. QED
          BY ONLY n \in Nat, k \in Nat, r \in Receivers, <2>10, <2>13, <3>3, <4>1, <4>2, <4>3,
             FrameEndsFrames
      <3>7. S[k + 1].at = p + m
        <4>1. Follows(S[k], F[k + 1], S[k + 1])
          BY <2>5, <2>10 DEF Past
        <4>2. S[k + 1].at = s.at + FrameLength(f)
          BY <2>3, <2>4, <4>1 DEF Follows
        <4>3. S[k + 1].at = base + (hd + len) /\ c + m = len
          BY ONLY <2>6, <2>20, <3>2, <4>2
        <4>4. p = base + hd + c
          BY ONLY <2>9
        <4>5. base + (hd + len) = base + hd + c + m
          <5>1. len = c + m
            BY ONLY <4>3
          <5>2. base + (hd + (c + m)) = base + hd + c + m
            BY ONLY m \in Nat, c \in Nat, base \in Nat, hd \in Nat
          <5>3. QED BY ONLY <5>1, <5>2
        <4>6. QED BY ONLY <4>3, <4>4, <4>5
      <3>8. k + 1 \in Nat /\ k + 1 <= n
        BY <2>10
      <3>9. ReceiverAt(F, S, k + 1, p + m)'
        BY ONLY <3>6, <3>7
      <3>10. QED BY ONLY <2>15, <3>8, <3>9
    <2>18. QED BY <2>16, <2>17
  <1>12. QED BY <1>10, <1>11

\* receive() reads a time code.
LEMMA ReceiveTimeCodeFrames ==
    ASSUME FramingInv, NEW r \in Receivers, ReceiveTimeCode(r)
    PROVE  FramesInv' /\ StreamTypes'
  <1>1. /\ receivePlace[r] = "timecode"
        /\ UNCHANGED <<sendVars, tcpBroken, receivebuffer, packetsReceived, bytesLost>>
        /\ StreamTypes /\ ReceiveLocksInv /\ FramesInv
    BY DEF ReceiveTimeCode, receiveUnchanged, FramingInv, LocksInv
  <1>2. PICK m \in 1 .. flagmentSize :
          /\ m <= Len(stream) /\ stream' = Unread(m) /\ flagmentSize' = flagmentSize - m
          /\ internalTimecode' = IF flagmentSize = 2 THEN stream[1] ELSE internalTimecode
          /\ m < flagmentSize => UNCHANGED <<receivePlace, codesReceived, rheader>>
          /\ ~(m < flagmentSize) =>
               /\ receivePlace' = [receivePlace EXCEPT ![r] = "check"]
               /\ codesReceived' = Append(codesReceived, internalTimecode')
               /\ rheader' = <<>>
    BY DEF ReceiveTimeCode
  <1>3. /\ m \in Nat /\ 1 <= m /\ m <= flagmentSize /\ m <= Len(stream)
        /\ flagmentSize \in Nat /\ HeaderLength \in Nat /\ 3 <= HeaderLength
    <2>1. flagmentSize \in Nat /\ HeaderLength \in Nat /\ 3 <= HeaderLength
      BY <1>1 DEF StreamTypes, HeaderLength
    <2>2. QED BY ONLY <1>2, <2>1, m \in 1 .. flagmentSize
  <1>4. Unread(m) \in Seq(Byte)
    BY <1>1, <1>3, UnreadTypes
  <1>5. StreamTypes'
    <2>1. stream' \in Seq(Byte) /\ UNCHANGED <<sendPlace, sendRequest>>
      BY <1>1, <1>2, <1>4 DEF sendVars
    <2>2. flagmentSize' \in Nat
      BY ONLY <1>2, <1>3
    <2>3. rheader' \in Seq(Byte) /\ Len(rheader') <= HeaderLength
      <3>1. rheader' = rheader \/ rheader' = <<>>
        BY <1>2
      <3>2. <<>> \in Seq(Byte) /\ Len(<<>>) <= HeaderLength
        BY <1>3
      <3>3. rheader \in Seq(Byte) /\ Len(rheader) <= HeaderLength
        BY <1>1 DEF StreamTypes
      <3>4. QED BY <3>1, <3>2, <3>3
    <2>4. QED BY <1>1, <2>1, <2>2, <2>3 DEF StreamTypes
  <1>6. CASE bytesLost
    <2>1. FramesInv'
      BY ONLY <1>1, <1>6 DEF FramesInv
    <2>2. QED BY ONLY <1>5, <2>1
  <1>7. CASE ~bytesLost
    <2>1. PICK F, S : \E n, k, p, out \in Nat : Framed(F, S, n, k, p, out)
      BY <1>1, <1>7 DEF FramesInv, Framed
    <2>2. PICK n, k, p, out \in Nat : Framed(F, S, n, k, p, out)
      BY <2>1
    <2>3. PICK f \in SomeFrames : f = F[k + 1]
      BY <2>2 DEF Framed, Past
    <2>4. PICK s \in Sums : s = S[k]
      BY <2>2 DEF Framed, Past
    <2>5. /\ AtTimeCode(f, s, p) /\ packetsReceived = s.packets /\ codesReceived = s.codes
          /\ Past(F, S, n) /\ k <= n
      BY <1>1, <2>2, <2>3, <2>4 DEF Framed, ReceiverAt
    <2>6. /\ f.flag = ControlFlag_SendTimeCode /\ rheader = FrameHeader(f)
             /\ flagmentSize \in 1 .. 2
          /\ p = s.at + HeaderLength + (2 - flagmentSize) /\ receivebuffer = s.fragments
          /\ flagmentSize = 1 => internalTimecode = f.body[1]
      BY <2>5 DEF AtTimeCode
    <2>7. /\ Len(f.body) = 2 /\ FrameLength(f) = HeaderLength + 2
          /\ FrameBytes(f)[HeaderLength + 1] = f.body[1]
          /\ s.at \in Nat
      <3>1. Len(f.body) = 2
        BY <2>6 DEF SomeFrames
      <3>2. QED BY <3>1, FrameLayout DEF FrameLength, Sums
    <2>8. PICK c \in Nat : c = 2 - flagmentSize
      BY <2>6
    <2>9. k < n
      <3>1. p = S[k].at + HeaderLength + c
        BY <2>4, <2>6, <2>8
      <3>2. QED
        BY ONLY SSDTPAssumption, n \in Nat, k \in Nat, p \in Nat, out \in Nat, c \in Nat, <1>3,
           <2>2, <3>1, BodyIsOut
    <2>10. internalTimecode' = f.body[1]
      <3>1. CASE flagmentSize = 2
        <4>1. p = S[k].at + HeaderLength
          <5>1. PICK a, hd \in Nat : a = s.at /\ hd = HeaderLength
            BY ONLY <1>3, <2>7
          <5>2. p = a + hd + (2 - 2)
            BY ONLY <2>6, <3>1, <5>1
          <5>3. p = a + hd
            BY ONLY <5>2, a \in Nat, hd \in Nat
          <5>4. QED BY ONLY <2>4, <5>1, <5>3
        <4>2. PICK d \in Nat : d = HeaderLength
          BY <1>3
        <4>8. m <= 2 /\ FrameLength(F[k + 1]) = d + 2
          BY ONLY <1>3, <2>3, <2>7, <3>1, <4>2
        <4>9. d + m <= FrameLength(F[k + 1])
          BY ONLY <4>8, d \in Nat, m \in Nat
        <4>3. p = S[k].at + d /\ (k < n => d + m <= FrameLength(F[k + 1]))
          BY ONLY <4>1, <4>2, <4>9
        <4>4. NextAre(m, F[k + 1], d)
          BY ONLY SSDTPAssumption, n \in Nat, k \in Nat, p \in Nat, out \in Nat, d \in Nat,
             <1>3, <2>2, <4>3, NextBytes
        <4>5. 1 \in 1 .. m
          BY <1>3
        <4>6. stream[1] = FrameBytes(f)[d + 1]
          BY ONLY <2>3, <4>4, <4>5 DEF NextAre
        <4>7. QED BY <1>2, <2>7, <3>1, <4>2, <4>6
      <3>2. CASE flagmentSize = 1
        BY <1>2, <2>6, <3>2
      <3>3. QED BY <2>6, <3>1, <3>2
    <2>11. \A u \in Receivers : u # r => receivePlace[u] \in Resting
      BY <1>1, OthersRest DEF Resting
    <2>12. p + m \in Nat
      BY <1>3
    <2>13. ASSUME NEW l \in Nat, l <= n, ReceiverAt(F, S, l, p + m)'
           PROVE  FramesInv' /\ StreamTypes'
      <3>1. stream' = Unread(m)
        BY <1>2
      <3>2. QED
        BY ONLY SSDTPAssumption, n \in Nat, k \in Nat, p \in Nat, out \in Nat, <1>1, <1>3,
           <1>5, <2>2, <2>13, <3>1, ReceiverGoesOn
    <2>14. CASE m < flagmentSize
      <3>1. /\ flagmentSize = 2 /\ flagmentSize' = 1 /\ m = 1
            /\ receivePlace' = receivePlace /\ rheader' = rheader
               /\ codesReceived' = codesReceived
        <4>1. flagmentSize = 2 /\ m = 1
          BY ONLY <1>3, <2>6, <2>14
        <4>2. QED BY <1>2, <2>14, <4>1
      <3>2. AtTimeCode(F[k + 1], S[k], p + m)'
        <4>1. p + m = s.at + HeaderLength + (2 - 1)
          BY ONLY <1>3, <2>6, <2>7, <3>1
        <4>2. AtTimeCode(f, s, p + m)'
          BY ONLY <1>1, <2>6, <2>10, <3>1, <4>1 DEF AtTimeCode
        <4>3. QED BY ONLY <2>3, <2>4, <4>2
      <3>3. PICK x : x = "timecode"
        OBVIOUS
      <3>4. /\ receivePlace' = [receivePlace EXCEPT ![r] = x] /\ x \notin Resting
            /\ x \notin {"check", "header"} /\ x # "data"
        BY <1>1, <3>1, <3>3 DEF Resting, ReceiveLocksInv
      <3>5. packetsReceived' = S[k].packets /\ codesReceived' = S[k].codes
        BY <1>1, <2>4, <2>5, <3>1
      <3>6. ReceiverAt(F, S, k, p + m)'
        BY ONLY r \in Receivers, k \in Nat, <1>1, <2>11, <2>12, <3>2, <3>4, <3>5, ReceiverMoves
      <3>7. QED BY ONLY <2>5, <2>13, <3>6, k \in Nat
    <2>15. CASE ~(m < flagmentSize)
      <3>1. /\ receivePlace' = [receivePlace EXCEPT ![r] = "check"] /\ rheader' = <<>>
            /\ codesReceived' = Append(s.codes, f.body[1]) /\ packetsReceived' = s.packets
            /\ receivebuffer' = s.fragments
        BY <1>1, <1>2, <2>5, <2>6, <2>10, <2>15
      <3>2. Follows(S[k], F[k + 1], S[k + 1])
        BY <2>5, <2>9 DEF Past
      <3>3. /\ S[k + 1].at = s.at + FrameLength(f) /\ S[k + 1].codes = Append(s.codes, f.body[1])
            /\ S[k + 1].packets = s.packets /\ S[k + 1].fragments = s.fragments
        BY <2>3, <2>4, <2>6, <3>2 DEF Follows
      <3>4. S[k + 1].at = p + m
        <4>1. PICK base, rest, hd \in Nat : base = s.at /\ rest = flagmentSize
              /\ hd = HeaderLength
          BY <1>3, <2>7
        <4>2. rest <= 2 /\ m <= rest /\ ~(m < rest)
          BY ONLY <1>3, <2>6, <2>15, <4>1
        <4>3. p = base + hd + (2 - rest)
          BY ONLY <2>6, <4>1
        <4>4. S[k + 1].at = base + (hd + 2)
          BY ONLY <2>7, <3>3, <4>1
        <4>5. QED
          BY ONLY <4>2, <4>3, <4>4, base \in Nat, rest \in Nat, hd \in Nat, m \in Nat, p \in Nat
      <3>5. AtHeader(F[(k + 1) + 1], S[k + 1], p + m)'
        <4>1. Len(<<>>) = 0 /\ 0 < HeaderLength
          BY <1>3
        <4>2. QED BY <1>3, <3>1, <3>3, <3>4, <4>1 DEF AtHeader
      <3>6. PICK x : x = "check"
        OBVIOUS
      <3>7. receivePlace' = [receivePlace EXCEPT ![r] = x] /\ x \notin Resting /\ x # "data"
            /\ x # "timecode"
        BY <3>1, <3>6 DEF Resting
      <3>8. packetsReceived' = S[k + 1].packets /\ codesReceived' = S[k + 1].codes
        BY <3>1, <3>3
      <3>9. k + 1 \in Nat /\ k + 1 <= n
        BY <2>9
      <3>10. ReceiverAt(F, S, k + 1, p + m)'
        BY ONLY r \in Receivers, <1>1, <2>11, <2>12, <3>5, <3>7, <3>8, <3>9, ReceiverMoves
      <3>11. QED BY ONLY <2>13, <3>9, <3>10
    <2>16. QED BY <2>14, <2>15
  <1>8. QED BY <1>6, <1>7

\* The other steps of a receiver take nothing from the stream.
LEMMA ReceiverRestFrames ==
    ASSUME FramingInv, NEW r \in Receivers,
           BeginReceive(r) \/ LockReceive(r) \/ CheckCanceled(r) \/ ReceiveTimesOut(r)
           \/ ReceiveFails(r)
    PROVE  FramesInv' /\ StreamTypes'
  <1>1. /\ UNCHANGED <<sendVars, tcpBroken, stream, packetsReceived, codesReceived>>
        /\ StreamTypes /\ ReceiveLocksInv /\ FramesInv
        /\ bytesLost => bytesLost'
        /\ receivebuffer' = receivebuffer \/ receivebuffer' = <<>>
        /\ rheader' = rheader \/ rheader' = <<>>
        /\ flagmentSize' = flagmentSize \/ flagmentSize' = 0
    <2>1. StreamTypes /\ ReceiveLocksInv /\ FramesInv
      BY DEF FramingInv, LocksInv
    <2>2. CASE BeginReceive(r)
      BY <2>1, <2>2 DEF BeginReceive, receiveUnchanged
    <2>3. CASE LockReceive(r)
      BY <2>1, <2>3 DEF LockReceive, receiveUnchanged
    <2>4. CASE CheckCanceled(r)
      BY <2>1, <2>4 DEF CheckCanceled, receiveUnchanged
    <2>5. CASE ReceiveTimesOut(r)
      BY <2>1, <2>5 DEF ReceiveTimesOut, receiveUnchanged
    <2>6. CASE ReceiveFails(r)
      BY <2>1, <2>6 DEF ReceiveFails, receiveUnchanged
    <2>7. QED BY <2>2, <2>3, <2>4, <2>5, <2>6
  <1>2. <<>> \in Seq(Byte) /\ Len(<<>>) = 0 /\ HeaderLength \in Nat /\ 0 < HeaderLength
    BY DEF HeaderLength
  <1>3. StreamTypes'
    <2>1. UNCHANGED <<stream, sendPlace, sendRequest>>
      BY <1>1 DEF sendVars
    <2>2. rheader' \in Seq(Byte) /\ Len(rheader') <= HeaderLength
      <3>1. rheader \in Seq(Byte) /\ Len(rheader) <= HeaderLength
        BY <1>1 DEF StreamTypes
      <3>2. CASE rheader' = rheader
        BY ONLY <3>1, <3>2
      <3>3. CASE rheader' = <<>>
        <4>1. 0 <= HeaderLength
          BY ONLY <1>2
        <4>2. QED BY ONLY <1>2, <3>3, <4>1
      <3>4. QED BY ONLY <1>1, <3>2, <3>3
    <2>3. receivebuffer' \in Seq(Byte) /\ flagmentSize' \in Nat
      <3>1. receivebuffer \in Seq(Byte) /\ flagmentSize \in Nat
        BY <1>1 DEF StreamTypes
      <3>2. receivebuffer' \in Seq(Byte)
        BY ONLY <1>1, <1>2, <3>1
      <3>3. flagmentSize' \in Nat
        BY ONLY <1>1, <3>1
      <3>4. QED BY ONLY <3>2, <3>3
    <2>4. QED BY <1>1, <2>1, <2>2, <2>3 DEF StreamTypes
  <1>4. CASE bytesLost'
    <2>1. FramesInv'
      BY ONLY <1>4 DEF FramesInv
    <2>2. QED BY ONLY <1>3, <2>1
  <1>5. CASE ~bytesLost'
    <2>1. PICK F, S : \E n, k, p, out \in Nat : Framed(F, S, n, k, p, out)
      BY <1>1, <1>5 DEF FramesInv, Framed
    <2>2. PICK n, k, p, out \in Nat : Framed(F, S, n, k, p, out)
      BY <2>1
    <2>3. ReceiverAt(F, S, k, p) /\ S[k] \in Sums
      BY <2>2 DEF Framed, Past
    <2>4. packetsReceived' = S[k].packets /\ codesReceived' = S[k].codes
      BY <1>1, <2>3 DEF ReceiverAt
    <2>5. SUFFICES ReceiverAt(F, S, k, p)'
      <3>1. UNCHANGED <<stream, sendVars, tcpBroken>>
        BY ONLY <1>1
      <3>2. ReceiverAt(F, S, k, p)' => FramesInv'
        BY ONLY SSDTPAssumption, n \in Nat, k \in Nat, p \in Nat, out \in Nat, <2>2, <3>1,
           ReceiverStands
      <3>3. QED BY ONLY <1>3, <3>2, ReceiverAt(F, S, k, p)'
    <2>6. receivePlace \in [Receivers -> {"idle", "lock", "check", "header", "data",
            "timecode", "exited"}]
      BY <1>1 DEF ReceiveLocksInv
    <2>7. CASE BeginReceive(r) \/ (LockReceive(r) /\ ssdtpClosed /\ receiveCall[r] = "value")
      <3>1. /\ UNCHANGED <<rheader, receivebuffer, flagmentSize, internalTimecode>>
            /\ receivePlace[r] \in Resting /\ receivePlace'[r] \in Resting
            /\ \A u \in Receivers : u # r => receivePlace'[u] = receivePlace[u]
        BY <2>6, <2>7 DEF BeginReceive, LockReceive, Resting
      <3>2. (\A u \in Receivers : receivePlace'[u] \in Resting) =>
              (\A u \in Receivers : receivePlace[u] \in Resting)
        BY <3>1
      <3>3. \A u \in Receivers :
               receivePlace'[u] \notin Resting => receivePlace[u] = receivePlace'[u]
        BY <3>1
      <3>4. \A u \in Receivers :
               /\ receivePlace'[u] \in {"check", "header"} => AtHeader(F[k + 1], S[k], p)'
               /\ receivePlace'[u] = "data" => AtData(F[k + 1], S[k], p)'
               /\ receivePlace'[u] = "timecode" => AtTimeCode(F[k + 1], S[k], p)'
        BY <2>3, <3>1, <3>3 DEF ReceiverAt, AtHeader, AtData, AtTimeCode, Resting
      <3>5. QED BY <2>3, <2>4, <3>2, <3>4 DEF ReceiverAt
    <2>8. CASE LockReceive(r) /\ ~(ssdtpClosed /\ receiveCall[r] = "value")
      <3>1. /\ receivePlace[r] = "lock" /\ Lockable(receivemutex, r)
            /\ receivePlace' = [receivePlace EXCEPT ![r] = "check"]
            /\ rheader' = <<>> /\ receivebuffer' = <<>>
        BY <2>8 DEF LockReceive
      <3>2. \A u \in Receivers : receivePlace[u] \in Resting
        BY <1>1, <3>1 DEF ReceiveLocksInv, Held, Lockable, Resting
      <3>3. p = S[k].at /\ S[k].fragments = <<>>
        BY <2>3, <3>2 DEF ReceiverAt
      <3>4. S[k].at \in Nat
        BY <2>3 DEF Sums
      <3>5. AtHeader(F[k + 1], S[k], p)'
        BY <1>2, <3>1, <3>3, <3>4 DEF AtHeader
      <3>6. PICK x : x = "check"
        OBVIOUS
      <3>7. receivePlace' = [receivePlace EXCEPT ![r] = x] /\ x \notin Resting /\ x # "data"
            /\ x # "timecode"
        BY <3>1, <3>6 DEF Resting
      <3>8. \A u \in Receivers : u # r => receivePlace[u] \in Resting
        BY <3>2
      <3>9. QED
        BY ONLY r \in Receivers, k \in Nat, p \in Nat, <1>1, <2>4, <3>5, <3>7, <3>8,
           ReceiverMoves
    <2>9. CASE CheckCanceled(r) /\ ~(ssdtpClosed \/ receiveCanceled)
      <3>1. /\ receivePlace[r] = "check" /\ receivePlace' = [receivePlace EXCEPT ![r] = "header"]
            /\ UNCHANGED <<rheader, receivebuffer>>
        BY <2>9 DEF CheckCanceled
      <3>2. AtHeader(F[k + 1], S[k], p)'
        BY <2>3, <3>1 DEF ReceiverAt, AtHeader
      <3>3. PICK x : x = "header"
        OBVIOUS
      <3>4. receivePlace' = [receivePlace EXCEPT ![r] = x] /\ x \notin Resting /\ x # "data"
            /\ x # "timecode"
        BY <3>1, <3>3 DEF Resting
      <3>5. \A u \in Receivers : u # r => receivePlace[u] \in Resting
        BY <1>1, <3>1, OthersRest DEF Resting
      <3>6. QED
        BY ONLY r \in Receivers, k \in Nat, p \in Nat, <1>1, <2>4, <3>2, <3>4, <3>5,
           ReceiverMoves
    <2>10. CASE (CheckCanceled(r) /\ (ssdtpClosed \/ receiveCanceled)) \/ ReceiveTimesOut(r)
      <3>1. /\ receivePlace[r] \in {"check", "header", "timecode"}
            /\ receivePlace' = [receivePlace EXCEPT ![r] = "idle"]
            /\ rheader \o receivebuffer = <<>>
        BY <1>5, <2>10 DEF CheckCanceled, ReceiveTimesOut, ReceiveReturn
      <3>2. rheader = <<>> /\ receivebuffer = <<>>
        <4>1. PICK x, y \in Seq(Byte) : x = rheader /\ y = receivebuffer
          BY <1>1 DEF StreamTypes
        <4>2. Len(x \o y) = Len(x) + Len(y)
          BY ONLY OneAfterAnother
        <4>3. Len(x) = 0 /\ Len(y) = 0
          <5>1. Len(x) \in Nat /\ Len(y) \in Nat /\ Len(<<>>) = 0
            OBVIOUS
          <5>2. Len(x) + Len(y) = 0
            BY <3>1, <4>1, <4>2, <5>1
          <5>3. QED BY ONLY <5>1, <5>2
        <4>4. x = <<>> /\ y = <<>>
          BY ONLY <4>3, x \in Seq(Byte), y \in Seq(Byte), EmptySeq
        <4>5. QED BY <4>1, <4>4
      <3>3. receivePlace[r] # "timecode"
        <4> SUFFICES ASSUME receivePlace[r] = "timecode" PROVE FALSE
          OBVIOUS
        <4>1. rheader = FrameHeader(F[k + 1]) /\ F[k + 1] \in SomeFrames
          BY <2>2, <2>3 DEF ReceiverAt, AtTimeCode, Framed, Past
        <4>2. Len(FrameHeader(F[k + 1])) = HeaderLength
          BY <4>1, FrameLayout
        <4>3. QED BY <1>2, <3>2, <4>1, <4>2
      <3>4. AtHeader(F[k + 1], S[k], p)
        BY <2>3, <3>1, <3>3 DEF ReceiverAt
      <3>5. p = S[k].at /\ S[k].fragments = <<>>
        <4>1. S[k].at \in Nat
          BY <2>3 DEF Sums
        <4>2. QED BY <1>2, <3>2, <3>4, <4>1 DEF AtHeader
      <3>6. PICK x : x = "idle"
        OBVIOUS
      <3>7. /\ receivePlace' = [receivePlace EXCEPT ![r] = x]
            /\ x \notin {"check", "header"} /\ x # "data" /\ x # "timecode"
        BY <3>1, <3>6
      <3>8. \A u \in Receivers : u # r => receivePlace[u] \in Resting
        BY <1>1, <3>1, OthersRest DEF Resting
      <3>9. QED
        BY ONLY r \in Receivers, k \in Nat, p \in Nat, <1>1, <2>4, <3>5, <3>7, <3>8,
           ReceiverMoves
    <2>11. CASE ReceiveFails(r)
      <3>1. receivePlace[r] = "data" /\ receivePlace' = [receivePlace EXCEPT ![r] = "exited"]
        BY <1>5, <2>11 DEF ReceiveFails
      <3>2. PICK x : x = "exited"
        OBVIOUS
      <3>3. /\ receivePlace' = [receivePlace EXCEPT ![r] = x] /\ x \notin Resting
            /\ x \notin {"check", "header"} /\ x # "data" /\ x # "timecode"
        BY <3>1, <3>2 DEF Resting
      <3>4. \A u \in Receivers : u # r => receivePlace[u] \in Resting
        BY <1>1, <3>1, OthersRest DEF Resting
      <3>5. QED
        BY ONLY r \in Receivers, k \in Nat, p \in Nat, <1>1, <2>4, <3>3, <3>4, ReceiverMoves
    <2>12. QED BY <2>7, <2>8, <2>9, <2>10, <2>11
  <1>6. QED BY <1>4, <1>5

-----------------------------------------------------------------------------
\* The framing loses, repeats and mixes nothing that send() put into the
\* stream, for any threads, any packets and fragments, any pieces that TCP
\* makes of the bytes, and until receive() drops part of a packet; and each
\* half of the stream has one user at a time.
THEOREM FramesArrive == SSDTPSpec => []SSDTPInv
  <1>1. SSDTPInit => FramingInv
    <2> SUFFICES ASSUME SSDTPInit PROVE FramingInv
      OBVIOUS
    <2>1. LocksInv
      BY DEF SSDTPInit, LocksInv, SendLocksInv, ReceiveLocksInv, Free
    <2>2. StreamTypes
      <3>1. <<>> \in Seq(Byte) /\ Len(<<>>) <= HeaderLength
        BY DEF HeaderLength
      <3>2. QED BY <3>1 DEF SSDTPInit, StreamTypes
    <2>3. FramesInv
      <3>1. PICK t : t = [at |-> 0, packets |-> <<>>, fragments |-> <<>>, codes |-> <<>>]
        OBVIOUS
      <3>2. t \in Sums /\ t.at = 0 /\ t.packets = <<>> /\ t.fragments = <<>> /\ t.codes = <<>>
        <4>1. <<>> \in Seq(SentPackets) /\ <<>> \in Seq(Byte)
          OBVIOUS
        <4>2. QED BY <3>1, <4>1 DEF Sums
      <3>3. PICK f \in SomeFrames : TRUE
        <4>1. PICK b : b = <<0, 0>>
          OBVIOUS
        <4>2. b \in Seq(Byte) /\ Len(b) = 2
          BY <4>1 DEF Byte
        <4>3. Fits(Len(b))
          BY <4>2, TwoFits
        <4>4. [flag |-> ControlFlag_SendTimeCode, body |-> b] \in SomeFrames
          BY <4>2, <4>3 DEF SomeFrames
        <4>5. QED BY <4>4
      <3>4. PICK F, S : F = [i \in Nat |-> f] /\ S = [i \in Nat |-> t]
        OBVIOUS
      <3>5. Past(F, S, 0)
        <4>1. Goes(t, t)
          BY <3>2, PrefixOfItself DEF Goes, Sums
        <4>2. QED BY <3>2, <3>4, <4>1 DEF Past
      <3>6. S[0] = t
        BY <3>4
      <3>7. OnStream(stream, F, S, 0, 0, 0)
        <4>1. Len(stream) = 0
          BY DEF SSDTPInit
        <4>2. Len(stream) = S[0].at + 0 - 0
          BY <3>2, <3>6, <4>1
        <4>3. ASSUME NEW i \in Nat, NEW j \in Nat, i <= 0, 1 <= j, i = 0 => j <= 0 PROVE FALSE
          BY <4>3
        <4>4. QED BY <4>2, <4>3 DEF OnStream
      <3>8. SenderAt(F, S, 0, 0)
        BY <3>2, <3>6 DEF SSDTPInit, SenderAt
      <3>9. ReceiverAt(F, S, 0, 0)
        BY <3>2, <3>6 DEF SSDTPInit, ReceiverAt
      <3>10. 0 \in Nat /\ 0 <= 0 /\ 0 <= S[0].at + 0
        BY <3>2, <3>6
      <3>11. QED BY ONLY <3>5, <3>7, <3>8, <3>9, <3>10 DEF FramesInv
    <2>4. QED BY <2>1, <2>2, <2>3 DEF FramingInv
  <1>2. FramingInv /\ LocksInv' /\ [SSDTPNext]_ssdtpVars => FramingInv'
    <2> SUFFICES ASSUME FramingInv, LocksInv', [SSDTPNext]_ssdtpVars
                 PROVE  FramesInv' /\ StreamTypes'
      BY DEF FramingInv
    <2>1. CASE \E s \in Senders : BeginSend(s) \/ SendGoesOn(s)
      BY <2>1, SenderFrames
    <2>2. ASSUME NEW r \in Receivers, ReceiveStep(r) \/ ReceiveTimesOut(r) \/ ReceiveFails(r)
          PROVE  FramesInv' /\ StreamTypes'
      BY <2>2, ReceiveHeaderFrames, ReceiveDataFrames, ReceiveTimeCodeFrames, ReceiverRestFrames
         DEF ReceiveStep, ReadStep
    <2>3. CASE BreakConnection \/ CloseModule \/ CancelReceive \/ UNCHANGED ssdtpVars
      <3>1. UNCHANGED <<stream, sendVars, receiveVars>> /\ (tcpBroken => tcpBroken')
        BY <2>3 DEF BreakConnection, CloseModule, CancelReceive, ssdtpVars
      <3>2. UNCHANGED <<sendPlace, sendRequest, packetsSent, openFragments, codesSent, rheader,
                        receivebuffer, flagmentSize>>
        BY <3>1 DEF sendVars, receiveVars
      <3>3. StreamTypes'
        BY <3>1, <3>2 DEF FramingInv, StreamTypes
      <3>4. FramesInv'
        BY <3>1, <3>2, SenderStays DEF FramingInv
      <3>5. QED BY <3>3, <3>4
    <2>4. QED BY <2>1, <2>2, <2>3 DEF SSDTPNext
  <1>3. FramingInv => SSDTPInv
    <2> SUFFICES ASSUME FramingInv PROVE SSDTPInv
      OBVIOUS
    <2>1. SSDTPTypeOK
      BY DEF FramingInv, SSDTPTypeOK, LocksInv, SendLocksInv, ReceiveLocksInv, StreamTypes,
             Mutexes, Held, Byte
    <2>2. CASE bytesLost
      BY <2>1, <2>2 DEF SSDTPInv, PacketsArriveWhole, TimeCodesArriveInOrder
    <2>3. CASE ~bytesLost
      <3>1. PICK F, S : \E n, k, p, out \in Nat : Framed(F, S, n, k, p, out)
        BY <2>3 DEF FramingInv, FramesInv, Framed
      <3>2. PICK n, k, p, out \in Nat : Framed(F, S, n, k, p, out)
        BY <3>1
      <3>3. Goes(S[k], S[n])
        BY <3>2 DEF Framed, Past
      <3>4. /\ packetsSent = S[n].packets /\ codesSent = S[n].codes
            /\ packetsReceived = S[k].packets /\ codesReceived = S[k].codes
        BY <3>2 DEF Framed, SenderAt, ReceiverAt
      <3>5. QED BY <2>1, <3>3, <3>4 DEF SSDTPInv, PacketsArriveWhole, TimeCodesArriveInOrder, Goes
    <2>4. QED BY <2>2, <2>3
  <1>4. QED BY <1>1, <1>2, <1>3, OneUserOfEachHalf, PTL DEF SSDTPSpec

-----------------------------------------------------------------------------
(* SpacePi                                                                 *)

USE SpacePiAssumption

-----------------------------------------------------------------------------
(* The inductive invariant                                                 *)

Contents == SpiPackets \cup {Garbage}
Ended == [packet : SpiPackets, end : {"EOP", "EEP"}]
Places == OnTheBus \cup {"idle", "lock", "polls", "rxLock"}
Receiving == {"rxLock", "rxStatus", "rxBuffer", "rxClear"}
Sure(e) == IF e.end = "EOP" THEN e.packet ELSE Garbage

\* Every variable has values of its type; each buffer holds one packet at most.
SpiTypes ==
    /\ spiState \in {"Closed", "Opened"}
    /\ spiMutex \in SpiThreads \cup {Nobody}
    /\ spiPlace \in [SpiThreads -> Places]
    /\ spiRequest \in [Writers -> Contents]
    /\ rxStatus \in {"EOP", "EEP"}
    /\ txBuffer \in Seq(Contents) /\ Len(txBuffer) <= 1
    /\ rxBuffer \in Seq(Ended) /\ Len(rxBuffer) <= 1
    /\ accepted \in Seq(Contents) /\ left \in Seq(Contents)
    /\ arrived \in Seq(Ended) /\ givenOut \in Seq(Contents)

\* Only who has the mutex is on the bus, and nobody is when the interface is closed.
BusIsLocked ==
    /\ \A t \in SpiThreads : spiPlace[t] \in OnTheBus => spiMutex = t
    /\ spiState = "Closed" => \A t \in SpiThreads : spiPlace[t] = "idle"

\* The FPGA's first buffer stays empty from the look at its status to the write, and holds
\* what was written until the command to send it.
SendingGoesInOrder ==
    /\ \A t \in Writers :
         /\ spiPlace[t] \in {"idle", "lock", "txStatus", "txBuffer", "txCommand"}
         /\ spiPlace[t] = "txBuffer" => txBuffer = <<>>
         /\ spiPlace[t] = "txCommand" =>
              txBuffer = <<Written(spiRequest[t])>> /\ accepted = left
    /\ (\A t \in Writers : spiPlace[t] # "txCommand") => accepted = left \o txBuffer

\* The second buffer holds the packet that arrived last until it was given out and cleared.
ReceivingGoesInOrder ==
    /\ spiPlace[Reader] \in {"idle", "polls"} \cup Receiving
    /\ spiPlace[Reader] \in Receiving => rxBuffer # <<>>
    /\ spiPlace[Reader] = "rxBuffer" => rxStatus = rxBuffer[1].end
    /\ rxBuffer # <<>> => Len(arrived) > 0 /\ rxBuffer[1] = arrived[Len(arrived)]
    /\ Len(arrived) =
         Len(givenOut) + (IF spiPlace[Reader] = "rxClear" THEN 0 ELSE Len(rxBuffer))
    /\ \A i \in 1 .. Len(givenOut) : givenOut[i] = Sure(arrived[i])

SpiIInv == SpiTypes /\ BusIsLocked /\ SendingGoesInOrder /\ ReceivingGoesInOrder

-----------------------------------------------------------------------------
(* Every step preserves it                                                 *)

\* The head of a sequence that is not empty is one of its elements.
LEMMA HeadIsElement ==
    ASSUME NEW S, NEW s \in Seq(S), s # <<>>
    PROVE  Head(s) \in S /\ Head(s) = s[1] /\ Len(s) > 0
OBVIOUS

\* A sequence that has room for one, and is not empty.
LEMMA OneElement ==
    ASSUME NEW S, NEW s \in Seq(S), s # <<>>, Len(s) <= 1
    PROVE  Len(s) = 1 /\ Head(s) = s[1]
  <1>1. Len(s) \in Nat /\ Len(s) # 0
    BY HeadIsElement
  <1>2. Head(s) = s[1]
    BY HeadIsElement
  <1>3. Len(s) <= 1
    OBVIOUS
  <1>4. \A n \in Nat : n # 0 /\ n <= 1 => n = 1
    OBVIOUS
  <1> QED BY ONLY <1>1, <1>2, <1>3, <1>4

\* A sequence with one more element.
LEMMA AppendKeepsTheRest ==
    ASSUME NEW S, NEW s \in Seq(S), NEW e \in S
    PROVE  /\ Len(Append(s, e)) = Len(s) + 1
           /\ \A i \in 1 .. Len(s) : Append(s, e)[i] = s[i]
           /\ Append(s, e)[Len(s) + 1] = e
OBVIOUS

\* Types.
LEMMA SpiTypesStep ==
    ASSUME SpiIInv, [SpiNext]_spiVars
    PROVE  SpiTypes'
  <1> USE DEF SpiIInv, SpiTypes, Contents, Ended, Places, OnTheBus, SpiThreads, fpgaBuffers,
              spiHost,
              BeginSpiCall, Moves, LockSpi
  <1>1. CASE OpenSpi
    BY <1>1 DEF OpenSpi
  <1>2. CASE CloseSpi
    BY <1>2 DEF CloseSpi
  <1>3. CASE FPGASends
    BY <1>3 DEF FPGASends
  <1>4. CASE FPGAReceives
    BY <1>4 DEF FPGAReceives
  <1>5. ASSUME NEW t \in Writers, BeginSpiSend(t) PROVE SpiTypes'
    BY <1>5 DEF BeginSpiSend
  <1>6. ASSUME NEW t \in Writers, LockToSendSpi(t) PROVE SpiTypes'
    BY <1>6 DEF LockToSendSpi
  <1>7. ASSUME NEW t \in Writers, ReadTxStatus(t) PROVE SpiTypes'
    BY <1>7 DEF ReadTxStatus
  <1>8. ASSUME NEW t \in Writers, WriteTxBuffer(t) PROVE SpiTypes'
    BY <1>8 DEF WriteTxBuffer, Written
  <1>9. ASSUME NEW t \in Writers, CommandEOP(t) PROVE SpiTypes'
    BY <1>9 DEF CommandEOP, Written
  <1>10. CASE BeginSpiReceive(Reader)
    BY <1>10 DEF BeginSpiReceive
  <1>11. CASE PollInterrupt(Reader)
    BY <1>11 DEF PollInterrupt
  <1>12. CASE SpiTimesOut(Reader)
    BY <1>12 DEF SpiTimesOut
  <1>13. CASE LockToReceive(Reader)
    BY <1>13 DEF LockToReceive
  <1>14. CASE ReadRxStatus(Reader)
    <2>0. ReceivingGoesInOrder /\ spiPlace[Reader] \in Receiving
      BY <1>14 DEF ReadRxStatus, Receiving
    <2>1. Head(rxBuffer) \in Ended
      <3>1. rxBuffer # <<>> /\ rxBuffer \in Seq(Ended)
        BY <2>0 DEF ReceivingGoesInOrder
      <3> QED BY <3>1, HeadIsElement
    <2>2. Head(rxBuffer).end \in {"EOP", "EEP"}
      BY <2>1
    <2>3. SpiTypes
      OBVIOUS
    <2>4. rxStatus' \in {"EOP", "EEP"}
      BY <1>14, <2>2 DEF ReadRxStatus
    <2> QED
      BY ONLY SpacePiAssumption, <1>14, <2>3, <2>4
      DEF ReadRxStatus, SpiTypes, SpiThreads, Places, OnTheBus, Moves, fpgaBuffers
  <1>15. CASE ReadRxBuffer(Reader)
    <2>0. ReceivingGoesInOrder /\ spiPlace[Reader] \in Receiving
      BY <1>15 DEF ReadRxBuffer, Receiving
    <2>1. Head(rxBuffer) \in Ended
      <3>1. rxBuffer # <<>> /\ rxBuffer \in Seq(Ended)
        BY <2>0 DEF ReceivingGoesInOrder
      <3> QED BY <3>1, HeadIsElement
    <2>2. Head(rxBuffer).packet \in Contents
      BY <2>1
    <2>3. SpiTypes
      OBVIOUS
    <2>4. givenOut' \in Seq(Contents)
      BY <1>15, <2>2 DEF ReadRxBuffer
    <2> QED
      BY ONLY SpacePiAssumption, <1>15, <2>3, <2>4
      DEF ReadRxBuffer, SpiTypes, SpiThreads, Places, OnTheBus, Moves, fpgaBuffers
  <1>16. CASE ClearInterrupt(Reader)
    BY <1>16 DEF ClearInterrupt
  <1>17. CASE UNCHANGED spiVars
    BY <1>17 DEF spiVars
  <1>18. [SpiNext]_spiVars
    OBVIOUS
  <1> QED
    BY ONLY <1>1, <1>2, <1>3, <1>4, <1>5, <1>6, <1>7, <1>8, <1>9, <1>10, <1>11, <1>12, <1>13,
            <1>14, <1>15, <1>16, <1>17, <1>18 DEF SpiNext, SendSpiStep, ReceiveSpiStep

\* One thread at a time on the bus: only LockSpi brings a thread there, and it waits for
\* the mutex.
LEMMA BusIsLockedStep ==
    ASSUME SpiIInv, [SpiNext]_spiVars
    PROVE  BusIsLocked'
  <1> USE DEF SpiIInv, SpiTypes, OnTheBus, Places, SpiThreads, fpgaBuffers, spiHost,
              BeginSpiCall, Moves, LockSpi,
              BusIsLocked, Quiet
  <1>1. CASE OpenSpi
    BY <1>1 DEF OpenSpi
  <1>2. CASE CloseSpi
    BY <1>2 DEF CloseSpi
  <1>3. CASE FPGASends
    BY <1>3 DEF FPGASends
  <1>4. CASE FPGAReceives
    BY <1>4 DEF FPGAReceives
  <1>5. ASSUME NEW t \in Writers, BeginSpiSend(t) PROVE BusIsLocked'
    BY <1>5 DEF BeginSpiSend
  <1>6. ASSUME NEW t \in Writers, LockToSendSpi(t) PROVE BusIsLocked'
    BY <1>6 DEF LockToSendSpi
  <1>7. ASSUME NEW t \in Writers, ReadTxStatus(t) PROVE BusIsLocked'
    BY <1>7 DEF ReadTxStatus
  <1>8. ASSUME NEW t \in Writers, WriteTxBuffer(t) PROVE BusIsLocked'
    BY <1>8 DEF WriteTxBuffer
  <1>9. ASSUME NEW t \in Writers, CommandEOP(t) PROVE BusIsLocked'
    BY <1>9 DEF CommandEOP
  <1>10. CASE BeginSpiReceive(Reader)
    BY <1>10 DEF BeginSpiReceive
  <1>11. CASE PollInterrupt(Reader)
    BY <1>11 DEF PollInterrupt
  <1>12. CASE SpiTimesOut(Reader)
    BY <1>12 DEF SpiTimesOut
  <1>13. CASE LockToReceive(Reader)
    BY <1>13 DEF LockToReceive
  <1>14. CASE ReadRxStatus(Reader)
    BY <1>14 DEF ReadRxStatus
  <1>15. CASE ReadRxBuffer(Reader)
    BY <1>15 DEF ReadRxBuffer
  <1>16. CASE ClearInterrupt(Reader)
    BY <1>16 DEF ClearInterrupt
  <1>17. CASE UNCHANGED spiVars
    BY <1>17 DEF spiVars
  <1>18. [SpiNext]_spiVars
    OBVIOUS
  <1> QED
    BY ONLY <1>1, <1>2, <1>3, <1>4, <1>5, <1>6, <1>7, <1>8, <1>9, <1>10, <1>11, <1>12,
            <1>13, <1>14, <1>15, <1>16, <1>17, <1>18 DEF SpiNext, SendSpiStep, ReceiveSpiStep

\* Packets to be sent: another thread on the bus would have to have the mutex too.
LEMMA SendingStep ==
    ASSUME SpiIInv, [SpiNext]_spiVars
    PROVE  SendingGoesInOrder'
  <1> USE DEF SpiIInv, SpiTypes, OnTheBus, Places, SpiThreads, fpgaBuffers, spiHost,
              BeginSpiCall, Moves, LockSpi,
              BusIsLocked, SendingGoesInOrder
  <1>1. CASE OpenSpi
    BY <1>1 DEF OpenSpi
  <1>2. CASE CloseSpi
    BY <1>2 DEF CloseSpi
  <1>3. CASE FPGASends
    BY <1>3 DEF FPGASends
  <1>4. CASE FPGAReceives
    BY <1>4 DEF FPGAReceives
  <1>5. ASSUME NEW t \in Writers, BeginSpiSend(t) PROVE SendingGoesInOrder'
    BY <1>5 DEF BeginSpiSend
  <1>6. ASSUME NEW t \in Writers, LockToSendSpi(t) PROVE SendingGoesInOrder'
    BY <1>6 DEF LockToSendSpi
  <1>7. ASSUME NEW t \in Writers, ReadTxStatus(t) PROVE SendingGoesInOrder'
    BY <1>7 DEF ReadTxStatus
  <1>8. ASSUME NEW t \in Writers, WriteTxBuffer(t) PROVE SendingGoesInOrder'
    <2>1. /\ spiPlace[t] = "txBuffer" /\ txBuffer = <<>>
          /\ \A w \in Writers : w # t => spiPlace[w] \in {"idle", "lock"}
      BY <1>8 DEF WriteTxBuffer
    <2>2. accepted = left \o <<>>
      BY <2>1
    <2>3. accepted = left
      BY ONLY <2>2, SpiIInv DEF SpiIInv, SpiTypes
    <2>4. /\ spiPlace' = [spiPlace EXCEPT ![t] = "txCommand"]
          /\ txBuffer' = <<Written(spiRequest[t])>> /\ UNCHANGED <<accepted, left, spiRequest>>
      BY <1>8 DEF WriteTxBuffer
    <2>5. SendingGoesInOrder /\ spiPlace \in [SpiThreads -> Places]
      OBVIOUS
    <2> QED
      BY ONLY <2>1, <2>3, <2>4, <2>5, t \in Writers DEF SendingGoesInOrder, SpiThreads, Written
  <1>9. ASSUME NEW t \in Writers, CommandEOP(t) PROVE SendingGoesInOrder'
    <2>1. /\ spiPlace[t] = "txCommand" /\ txBuffer = <<Written(spiRequest[t])>>
          /\ accepted = left
          /\ \A w \in Writers : w # t => spiPlace[w] \in {"idle", "lock"}
      BY <1>9 DEF CommandEOP
    <2>2. /\ spiPlace' = [spiPlace EXCEPT ![t] = "idle"]
          /\ accepted' = Append(accepted, Written(spiRequest[t])) /\ UNCHANGED <<left, txBuffer>>
      BY <1>9 DEF CommandEOP
    <2>3. accepted' = left' \o txBuffer'
      <3>1. left \in Seq(Contents) /\ Written(spiRequest[t]) \in Contents
        BY DEF Contents, Written
      <3> QED BY ONLY <2>1, <2>2, <3>1
    <2>4. SendingGoesInOrder /\ spiPlace \in [SpiThreads -> Places]
      OBVIOUS
    <2> QED
      BY ONLY <2>1, <2>2, <2>3, <2>4, t \in Writers DEF SendingGoesInOrder, SpiThreads
  <1>10. CASE BeginSpiReceive(Reader)
    BY <1>10 DEF BeginSpiReceive
  <1>11. CASE PollInterrupt(Reader)
    BY <1>11 DEF PollInterrupt
  <1>12. CASE SpiTimesOut(Reader)
    BY <1>12 DEF SpiTimesOut
  <1>13. CASE LockToReceive(Reader)
    BY <1>13 DEF LockToReceive
  <1>14. CASE ReadRxStatus(Reader)
    BY <1>14 DEF ReadRxStatus
  <1>15. CASE ReadRxBuffer(Reader)
    BY <1>15 DEF ReadRxBuffer
  <1>16. CASE ClearInterrupt(Reader)
    BY <1>16 DEF ClearInterrupt
  <1>17. CASE UNCHANGED spiVars
    BY <1>17 DEF spiVars
  <1>18. [SpiNext]_spiVars
    OBVIOUS
  <1> QED
    BY ONLY <1>1, <1>2, <1>3, <1>4, <1>5, <1>6, <1>7, <1>8, <1>9, <1>10, <1>11, <1>12,
            <1>13, <1>14, <1>15, <1>16, <1>17, <1>18 DEF SpiNext, SendSpiStep, ReceiveSpiStep

\* Packets received.
LEMMA ReceivingStep ==
    ASSUME SpiIInv, [SpiNext]_spiVars
    PROVE  ReceivingGoesInOrder'
  <1> USE DEF SpiIInv, SpiTypes, OnTheBus, Places, SpiThreads, fpgaBuffers, spiHost,
              BeginSpiCall, Moves, LockSpi,
              BusIsLocked, SendingGoesInOrder, ReceivingGoesInOrder, Receiving
  <1>1. CASE OpenSpi
    BY <1>1 DEF OpenSpi
  <1>2. CASE CloseSpi
    BY <1>2 DEF CloseSpi
  <1>3. CASE FPGASends
    BY <1>3 DEF FPGASends
  <1>4. CASE FPGAReceives
    BY <1>4 DEF FPGAReceives
  <1>5. ASSUME NEW t \in Writers, BeginSpiSend(t) PROVE ReceivingGoesInOrder'
    BY <1>5 DEF BeginSpiSend
  <1>6. ASSUME NEW t \in Writers, LockToSendSpi(t) PROVE ReceivingGoesInOrder'
    BY <1>6 DEF LockToSendSpi
  <1>7. ASSUME NEW t \in Writers, ReadTxStatus(t) PROVE ReceivingGoesInOrder'
    BY <1>7 DEF ReadTxStatus
  <1>8. ASSUME NEW t \in Writers, WriteTxBuffer(t) PROVE ReceivingGoesInOrder'
    BY <1>8 DEF WriteTxBuffer
  <1>9. ASSUME NEW t \in Writers, CommandEOP(t) PROVE ReceivingGoesInOrder'
    BY <1>9 DEF CommandEOP
  <1>10. CASE BeginSpiReceive(Reader)
    BY <1>10 DEF BeginSpiReceive
  <1>11. CASE PollInterrupt(Reader)
    BY <1>11 DEF PollInterrupt
  <1>12. CASE SpiTimesOut(Reader)
    BY <1>12 DEF SpiTimesOut
  <1>13. CASE LockToReceive(Reader)
    BY <1>13 DEF LockToReceive
  <1>14. CASE ReadRxStatus(Reader)
    BY <1>14 DEF ReadRxStatus
  <1>15. CASE ReadRxBuffer(Reader)
    <2>1. spiPlace[Reader] = "rxBuffer" /\ rxBuffer # <<>> /\ rxStatus = rxBuffer[1].end
      BY <1>15 DEF ReadRxBuffer
    <2>2. rxBuffer \in Seq(Ended) /\ Len(rxBuffer) = 1 /\ Head(rxBuffer) = rxBuffer[1]
      <3>1. rxBuffer \in Seq(Ended)
        OBVIOUS
      <3>2. Len(rxBuffer) <= 1
        OBVIOUS
      <3> HIDE DEF Ended
      <3> QED BY ONLY <2>1, <3>1, <3>2, OneElement
    <2>3. Len(arrived) = Len(givenOut) + 1 /\ rxBuffer[1] = arrived[Len(givenOut) + 1]
      BY <2>1, <2>2
    <2>4. /\ spiPlace' = [spiPlace EXCEPT ![Reader] = "rxClear"]
          /\ givenOut' = Append(givenOut, Sure(arrived[Len(givenOut) + 1]))
          /\ UNCHANGED <<rxBuffer, arrived, rxStatus>>
      BY <1>15, <2>1, <2>2, <2>3 DEF ReadRxBuffer, Sure
    <2>5. spiPlace \in [SpiThreads -> Places] /\ Reader \in SpiThreads
      OBVIOUS
    <2>6. givenOut \in Seq(Contents) /\ Sure(arrived[Len(givenOut) + 1]) \in Contents
      <3>1. arrived[Len(givenOut) + 1] \in Ended
        BY <2>1, <2>2, <2>3
      <3> QED BY <3>1 DEF Sure, Ended, Contents
    <2>7. \A i \in 1 .. Len(givenOut)' : givenOut'[i] = Sure(arrived'[i])
      <3>1. \A i \in 1 .. Len(givenOut) : givenOut[i] = Sure(arrived[i])
        OBVIOUS
      <3>2. Sure(arrived[Len(givenOut) + 1]) = givenOut'[Len(givenOut) + 1]
        BY ONLY <2>4, <2>6, AppendKeepsTheRest
      <3>3. \A i \in 1 .. Len(givenOut) : givenOut'[i] = givenOut[i]
        <4> HIDE DEF Contents
        <4>1. \A i \in 1 .. Len(givenOut) :
                Append(givenOut, Sure(arrived[Len(givenOut) + 1]))[i] = givenOut[i]
          BY ONLY <2>6, AppendKeepsTheRest
        <4> QED BY ONLY <2>4, <4>1
      <3>4. Len(givenOut') = Len(givenOut) + 1 /\ Len(givenOut) \in Nat
        BY ONLY <2>4, <2>6
      <3>5. arrived' = arrived
        BY <2>4
      <3> QED BY ONLY <3>1, <3>2, <3>3, <3>4, <3>5
    <2>8. Len(givenOut') = Len(givenOut) + 1 /\ Len(givenOut) \in Nat
      BY ONLY <2>4, <2>6
    <2>9. ReceivingGoesInOrder
      OBVIOUS
    <2> QED
      BY ONLY <2>1, <2>2, <2>3, <2>4, <2>5, <2>7, <2>8, <2>9 DEF ReceivingGoesInOrder, Receiving
  <1>16. CASE ClearInterrupt(Reader)
    BY <1>16 DEF ClearInterrupt
  <1>17. CASE UNCHANGED spiVars
    BY <1>17 DEF spiVars
  <1>18. [SpiNext]_spiVars
    OBVIOUS
  <1> QED
    BY ONLY <1>1, <1>2, <1>3, <1>4, <1>5, <1>6, <1>7, <1>8, <1>9, <1>10, <1>11, <1>12,
            <1>13, <1>14, <1>15, <1>16, <1>17, <1>18 DEF SpiNext, SendSpiStep, ReceiveSpiStep

-----------------------------------------------------------------------------
(* The theorems                                                            *)

LEMMA SpiInductive == SpiInit /\ [][SpiNext]_spiVars => []SpiIInv
  <1>1. SpiInit => SpiIInv
    <2> SUFFICES ASSUME SpiInit PROVE SpiIInv
      OBVIOUS
    <2>1. SpiTypes
      BY DEF SpiInit, SpiTypes, Contents, Ended, Places, OnTheBus, SpiThreads
    <2>2. BusIsLocked /\ SendingGoesInOrder
      BY DEF SpiInit, BusIsLocked, SendingGoesInOrder, OnTheBus, SpiThreads
    <2>3. ReceivingGoesInOrder
      BY DEF SpiInit, ReceivingGoesInOrder, Receiving, SpiThreads
    <2> QED BY <2>1, <2>2, <2>3 DEF SpiIInv
  <1>2. SpiIInv /\ [SpiNext]_spiVars => SpiIInv'
    BY SpiTypesStep, BusIsLockedStep, SendingStep, ReceivingStep DEF SpiIInv
  <1> QED BY <1>1, <1>2, PTL

\* What is proved about packets is what PacketsCrossTheBoard says.
LEMMA InOrderCrosses == SpiIInv => SpiInv
  <1> SUFFICES ASSUME SpiIInv PROVE SpiInv
    OBVIOUS
  <1>1. SpiTypeOK
    BY DEF SpiIInv, SpiTypes, BusIsLocked, SpiTypeOK, Places
  <1>2. accepted = left \o (IF \E t \in Writers : spiPlace[t] = "txCommand"
                             THEN <<>> ELSE txBuffer)
    BY DEF SpiIInv, SpiTypes, SendingGoesInOrder
  <1>3. Len(arrived) <= Len(givenOut) + Len(rxBuffer) /\ Len(givenOut) <= Len(arrived)
    BY DEF SpiIInv, SpiTypes, ReceivingGoesInOrder
  <1>4. IsPrefix(givenOut, [i \in DOMAIN arrived |-> Sure(arrived[i])])
    BY <1>3 DEF SpiIInv, SpiTypes, ReceivingGoesInOrder, IsPrefix
  <1> QED BY <1>1, <1>2, <1>3, <1>4 DEF SpiInv, PacketsCrossTheBoard, Sure

\* However many threads use a SpacePi board, one at a time is on its bus, a packet that was
\* sent leaves once and in order, and receive() gives out what arrived, once and in order
\* (SpaceWireSpacePiModule.hh:140-186, 240-280).
THEOREM SpiInvariant == SpiSpec => []SpiInv
BY SpiInductive, InOrderCrosses, PTL DEF SpiSpec

-----------------------------------------------------------------------------
(* The packets of SpaceWire-R, byte by byte.                               *)

\* The number of 16 bits that a register of the CRC is.
LEMMA WordOfBits ==
    ASSUME NEW bits
    PROVE  P!Word(bits) \in Nat /\ P!Word(bits) <= 65535
  <1> DEFINE Bit(k) == IF k \in bits THEN 1 ELSE 0
             g == [x \in Nat \X Nat |-> 2 * x[1] + Bit(16 - x[2])]
             G(f) == f = [k \in 0 .. 16 |-> IF k = 0 THEN 0 ELSE 2 * f[k - 1] + Bit(16 - k)]
             n == CHOOSE f : G(f)
  <1>1. \A k : Bit(k) \in Nat /\ Bit(k) <= 1
    OBVIOUS
  <1>2. g \in [Nat \X Nat -> Nat]
    <2> HIDE DEF Bit
    <2>1. \A x \in Nat \X Nat : 2 * x[1] + Bit(16 - x[2]) \in Nat
      BY <1>1
    <2>2. QED BY <2>1
  <1>3. PICK f : LoopOf(f, 16, 0, g)
    <2> HIDE DEF g
    <2>1. QED BY ONLY <1>2, LoopDefines
  <1>4. G(f)
    <2>1. /\ f \in [0 .. 16 -> Nat]
          /\ \A k \in 0 .. 16 : f[k] = IF k = 0 THEN 0 ELSE g[<<f[k - 1], k>>]
      BY ONLY <1>3 DEF LoopOf
    <2>2. ASSUME NEW k \in 0 .. 16, k # 0
          PROVE  g[<<f[k - 1], k>>] = 2 * f[k - 1] + Bit(16 - k)
      <3>1. k - 1 \in 0 .. 16 /\ k \in Nat
        BY <2>2
      <3>3. f[k - 1] \in Nat
        BY ONLY <2>1, <3>1
      <3> HIDE DEF Bit
      <3>2. QED BY <3>1, <3>3
    <2> HIDE DEF g, Bit
    <2>3. \A k \in 0 .. 16 : f[k] = IF k = 0 THEN 0 ELSE 2 * f[k - 1] + Bit(16 - k)
      BY ONLY <2>1, <2>2
    <2>4. f = [k \in 0 .. 16 |-> IF k = 0 THEN 0 ELSE 2 * f[k - 1] + Bit(16 - k)]
      BY ONLY <2>1, <2>3
    <2>5. QED BY ONLY <2>4
  <1>5. G(n)
    <2> HIDE DEF G
    <2>1. QED BY <1>4
  <1>6. P!Word(bits) = n[16]
    BY DEF P!Word
  <1> HIDE DEF n, g, Bit
  <1>7. n[0] = 0 /\ \A k \in 0 .. 15 : n[k + 1] = 2 * n[k] + Bit(16 - (k + 1))
    <2>1. n[0] = 0
      BY <1>5
    <2>2. ASSUME NEW k \in 0 .. 15 PROVE n[k + 1] = 2 * n[k] + Bit(16 - (k + 1))
      <3>1. k + 1 \in 0 .. 16 /\ k + 1 # 0 /\ (k + 1) - 1 = k
        OBVIOUS
      <3>2. QED BY <1>5, <3>1
    <2>3. QED BY <2>1, <2>2
  <1> DEFINE Below(k, m) == n[k] \in Nat /\ n[k] <= m
  <1>8. ASSUME NEW k \in 0 .. 15, NEW m \in Nat, Below(k, m) PROVE Below(k + 1, 2 * m + 1)
    <2>1. n[k + 1] = 2 * n[k] + Bit(16 - (k + 1))
      BY <1>7
    <2>2. PICK x, b \in Nat : x = n[k] /\ b = Bit(16 - (k + 1))
      BY <1>1, <1>8
    <2>3. x <= m /\ b <= 1
      BY <1>1, <1>8, <2>2
    <2>4. QED BY <2>1, <2>2, <2>3
  <1>9. Below(0, 0)
    BY <1>7
  <1> HIDE DEF Below
  <1>10. Below(1, 1) /\ Below(2, 3) /\ Below(3, 7) /\ Below(4, 15)
    <2>1. Below(1, 1) BY <1>8, <1>9
    <2>2. Below(2, 3) BY <1>8, <2>1
    <2>3. Below(3, 7) BY <1>8, <2>2
    <2>4. Below(4, 15) BY <1>8, <2>3
    <2>5. QED BY <2>1, <2>2, <2>3, <2>4
  <1>11. Below(8, 255)
    <2>1. Below(5, 31) BY <1>8, <1>10
    <2>2. Below(6, 63) BY <1>8, <2>1
    <2>3. Below(7, 127) BY <1>8, <2>2
    <2>4. QED BY <1>8, <2>3
  <1>12. Below(12, 4095)
    <2>1. Below(9, 511) BY <1>8, <1>11
    <2>2. Below(10, 1023) BY <1>8, <2>1
    <2>3. Below(11, 2047) BY <1>8, <2>2
    <2>4. QED BY <1>8, <2>3
  <1>13. Below(16, 65535)
    <2>1. Below(13, 8191) BY <1>8, <1>12
    <2>2. Below(14, 16383) BY <1>8, <2>1
    <2>3. Below(15, 32767) BY <1>8, <2>2
    <2>4. QED BY <1>8, <2>3
  <1>14. QED BY <1>6, <1>13 DEF Below

\* A number of 16 bits is read as it was written.
LEMMA TwoBytesRead ==
    ASSUME NEW n \in Nat, n <= 65535
    PROVE  /\ P!TwoBytes(n) \in Seq(P!Byte) /\ Len(P!TwoBytes(n)) = 2
           /\ P!TwoBytes(n)[1] * 256 + P!TwoBytes(n)[2] = n
  <1>1. PICK h, l \in Nat : h = (n \div 256) % 256 /\ l = n % 256
    OBVIOUS
  <1>2. h <= 255 /\ l <= 255 /\ n = h * 256 + l
    BY <1>1
  <1>3. P!TwoBytes(n) = <<h, l>>
    BY <1>1 DEF P!TwoBytes
  <1>4. h \in P!Byte /\ l \in P!Byte
    BY <1>2 DEF P!Byte
  <1>5. /\ <<h, l>> \in Seq(P!Byte) /\ Len(<<h, l>>) = 2
        /\ <<h, l>>[1] = h /\ <<h, l>>[2] = l
    BY ONLY <1>4
  <1>6. QED BY ONLY <1>2, <1>3, <1>5

(* The header.                                                             *)

\* What the fields of a packet hold, whatever its path address.
FieldsFit(p) ==
    /\ p.destinationLogicalAddress \in P!LogicalAddress
    /\ p.secondaryHeaderFlag \in 0 .. 1 /\ p.sequenceFlags \in 0 .. 3 /\ p.packetType \in 0 .. 7
    /\ p.channelNumber \in P!ChannelNumber /\ p.sequenceNumber \in P!Byte
    /\ p.prefix \in Seq(P!Byte) /\ Len(p.prefix) < 256
    /\ p.sourceLogicalAddress \in P!LogicalAddress
    /\ p.payload \in Seq(P!Byte) /\ Len(p.payload) <= P!MaxPayloadLength

\* The part of the header before the prefix has nine bytes.
NineAre(x, a, b, c, d, e, f, g, h, i) ==
    /\ x = ((<<a, b, c>> \o <<d, e>>) \o <<f, g>>) \o <<h, i>>
    /\ Len(x) = 9 /\ x[1] = a /\ x[2] = b /\ x[3] = c /\ x[4] = d /\ x[5] = e /\ x[6] = f
    /\ x[7] = g /\ x[8] = h /\ x[9] = i

\* They stand one after the other.
LEMMA NineBytes ==
    ASSUME NEW A, NEW a \in A, NEW b \in A, NEW c \in A, NEW d \in A, NEW e \in A, NEW f \in A,
           NEW g \in A, NEW h \in A, NEW i \in A
    PROVE  \E x \in Seq(A) : NineAre(x, a, b, c, d, e, f, g, h, i)
  <1>1. PICK u \in Seq(A) : u = <<a, b, c>> \o <<d, e>>
    BY <<a, b, c>> \in Seq(A), <<d, e>> \in Seq(A), OneAfterAnother
  <1>2. Len(u) = 5 /\ u[1] = a /\ u[2] = b /\ u[3] = c /\ u[4] = d /\ u[5] = e
    <2>5. <<a, b, c>> \in Seq(A) /\ <<d, e>> \in Seq(A)
      OBVIOUS
    <2>1. PICK y, z \in Seq(A) : y = <<a, b, c>> /\ z = <<d, e>>
      BY ONLY <2>5
    <2>2. /\ Len(y) = 3 /\ y[1] = a /\ y[2] = b /\ y[3] = c
          /\ Len(z) = 2 /\ z[1] = d /\ z[2] = e
      BY ONLY <2>1
    <2>3. /\ Len(u) = Len(y) + Len(z) /\ \A j \in 1 .. Len(y) : u[j] = y[j]
          /\ \A j \in 1 .. Len(z) : u[Len(y) + j] = z[j]
      BY ONLY <1>1, <2>1, OneAfterAnother, y \in Seq(A), z \in Seq(A)
    <2>4. QED BY ONLY <2>2, <2>3
  <1>3. PICK v \in Seq(A) : v = u \o <<f, g>>
    BY <<f, g>> \in Seq(A), OneAfterAnother
  <1>4. /\ Len(v) = 7 /\ v[1] = a /\ v[2] = b /\ v[3] = c /\ v[4] = d /\ v[5] = e
        /\ v[6] = f /\ v[7] = g
    <2>5. <<f, g>> \in Seq(A)
      OBVIOUS
    <2>1. PICK z \in Seq(A) : z = <<f, g>>
      BY ONLY <2>5
    <2>2. Len(z) = 2 /\ z[1] = f /\ z[2] = g
      BY ONLY <2>1
    <2>3. /\ Len(v) = Len(u) + Len(z) /\ \A j \in 1 .. Len(u) : v[j] = u[j]
          /\ \A j \in 1 .. Len(z) : v[Len(u) + j] = z[j]
      BY ONLY <1>3, <2>1, OneAfterAnother, u \in Seq(A), z \in Seq(A)
    <2>4. QED BY ONLY <1>2, <2>2, <2>3
  <1>5. PICK x \in Seq(A) : x = v \o <<h, i>>
    BY <<h, i>> \in Seq(A), OneAfterAnother
  <1>6. /\ Len(x) = 9 /\ x[1] = a /\ x[2] = b /\ x[3] = c /\ x[4] = d /\ x[5] = e
        /\ x[6] = f /\ x[7] = g /\ x[8] = h /\ x[9] = i
    <2>5. <<h, i>> \in Seq(A)
      OBVIOUS
    <2>1. PICK z \in Seq(A) : z = <<h, i>>
      BY ONLY <2>5
    <2>2. Len(z) = 2 /\ z[1] = h /\ z[2] = i
      BY ONLY <2>1
    <2>3. /\ Len(x) = Len(v) + Len(z) /\ \A j \in 1 .. Len(v) : x[j] = v[j]
          /\ \A j \in 1 .. Len(z) : x[Len(v) + j] = z[j]
      BY ONLY <1>5, <2>1, OneAfterAnother, v \in Seq(A), z \in Seq(A)
    <2>4. QED BY ONLY <1>4, <2>2, <2>3
  <1>7. x = ((<<a, b, c>> \o <<d, e>>) \o <<f, g>>) \o <<h, i>>
    BY ONLY <1>1, <1>3, <1>5
  <1>8. QED BY ONLY <1>6, <1>7, x \in Seq(A) DEF NineAre

\* A channel number has 16 bits.
LEMMA ChannelNumberRange ==
    ASSUME NEW c \in P!ChannelNumber
    PROVE  c \in Nat /\ c <= 65535
  BY DEF P!ChannelNumber

\* The control field says what it was made of.
LEMMA ControlFieldRead ==
    ASSUME NEW p, FieldsFit(p)
    PROVE  /\ P!PacketControl(p) \in P!Byte
           /\ (P!PacketControl(p) \div 32) % 2 = p.secondaryHeaderFlag
           /\ (P!PacketControl(p) \div 8) % 4 = p.sequenceFlags
           /\ P!PacketControl(p) % 8 = p.packetType
  <1>1. PICK f \in 0 .. 1, s \in 0 .. 3, t \in 0 .. 7 :
          f = p.secondaryHeaderFlag /\ s = p.sequenceFlags /\ t = p.packetType
    BY DEF FieldsFit
  <1>2. PICK c \in Nat : c = 64 + 32 * f + 8 * s + t
    OBVIOUS
  <1>3. c = P!PacketControl(p)
    BY <1>1, <1>2 DEF P!PacketControl, P!ProtocolVersion
  <1>4. c <= 255 /\ (c \div 32) % 2 = f /\ (c \div 8) % 4 = s /\ c % 8 = t
    BY ONLY <1>2, f \in 0 .. 1, s \in 0 .. 3, t \in 0 .. 7
  <1>5. c \in P!Byte
    BY <1>4 DEF P!Byte
  <1>6. QED BY ONLY <1>1, <1>3, <1>4, <1>5

\* The header, byte by byte.
HeaderIs(h, p) ==
    /\ h \in Seq(P!Byte) /\ Len(h) = 10 + Len(p.prefix)
    /\ h[1] = p.destinationLogicalAddress /\ h[2] = P!ProtocolID /\ h[3] = P!PacketControl(p)
    /\ h[4] * 256 + h[5] = Len(p.payload) /\ h[6] * 256 + h[7] = p.channelNumber
    /\ h[8] = p.sequenceNumber /\ h[9] = Len(p.prefix)
    /\ Holds(h, 9, p.prefix) /\ h[10 + Len(p.prefix)] = p.sourceLogicalAddress

\* constructHeader() lays the header out so.
LEMMA HeaderLayout ==
    ASSUME NEW p, FieldsFit(p)
    PROVE  HeaderIs(P!HeaderOf(p), p)
  <1>1. PICK n, c \in Nat : n = Len(p.payload) /\ c = p.channelNumber /\ n <= 65535 /\ c <= 65535
    <2>1. p.channelNumber \in Nat /\ p.channelNumber <= 65535
      BY ChannelNumberRange DEF FieldsFit
    <2>2. p.payload \in Seq(P!Byte) /\ Len(p.payload) <= P!MaxPayloadLength
      BY DEF FieldsFit
    <2>3. Len(p.payload) \in Nat /\ Len(p.payload) <= 65535
      BY ONLY <2>2 DEF P!MaxPayloadLength
    <2>4. QED BY ONLY <2>1, <2>3
  <1>2. n <= 65535 /\ c <= 65535
    BY ONLY <1>1
  <1>3. PICK d, e \in P!Byte : P!TwoBytes(n) = <<d, e>> /\ d * 256 + e = n
    <2>1. P!TwoBytes(n) = <<P!TwoBytes(n)[1], P!TwoBytes(n)[2]>>
      BY DEF P!TwoBytes
    <2>2. P!TwoBytes(n)[1] \in P!Byte /\ P!TwoBytes(n)[2] \in P!Byte
      BY <1>2, TwoBytesRead
    <2>3. P!TwoBytes(n)[1] * 256 + P!TwoBytes(n)[2] = n
      BY <1>2, TwoBytesRead
    <2>4. QED BY ONLY <2>1, <2>2, <2>3
  <1>4. PICK f, g \in P!Byte : P!TwoBytes(c) = <<f, g>> /\ f * 256 + g = c
    <2>1. P!TwoBytes(c) = <<P!TwoBytes(c)[1], P!TwoBytes(c)[2]>>
      BY DEF P!TwoBytes
    <2>2. P!TwoBytes(c)[1] \in P!Byte /\ P!TwoBytes(c)[2] \in P!Byte
      BY <1>2, TwoBytesRead
    <2>3. P!TwoBytes(c)[1] * 256 + P!TwoBytes(c)[2] = c
      BY <1>2, TwoBytesRead
    <2>4. QED BY ONLY <2>1, <2>2, <2>3
  <1>5. PICK a, b, k, h, i, z \in P!Byte :
          /\ a = p.destinationLogicalAddress /\ b = P!ProtocolID /\ k = P!PacketControl(p)
          /\ h = p.sequenceNumber /\ i = Len(p.prefix) /\ z = p.sourceLogicalAddress
    <2>5. p.prefix \in Seq(P!Byte) /\ Len(p.prefix) < 256
      BY DEF FieldsFit
    <2>6. Len(p.prefix) \in Nat
      BY ONLY <2>5
    <2>7. PICK l \in Nat : l = Len(p.prefix)
      BY ONLY <2>6
    <2>9. l < 256
      BY ONLY <2>5, <2>7
    <2>8. l \in P!Byte /\ 82 \in P!Byte
      BY ONLY <2>9, l \in Nat DEF P!Byte
    <2>1. P!ProtocolID \in P!Byte /\ Len(p.prefix) \in P!Byte
      BY ONLY <2>7, <2>8 DEF P!ProtocolID
    <2>2. p.destinationLogicalAddress \in P!Byte /\ p.sourceLogicalAddress \in P!Byte
      BY DEF FieldsFit, P!LogicalAddress, P!Byte
    <2>3. p.sequenceNumber \in P!Byte
      BY DEF FieldsFit
    <2>4. QED BY ONLY <2>1, <2>2, <2>3, ControlFieldRead, FieldsFit(p)
  <1>6. Len(p.prefix) % 256 = i
    <2>1. i % 256 = i
      BY ONLY i \in P!Byte DEF P!Byte
    <2>2. QED BY ONLY <1>5, <2>1
  <1>7. PICK x \in Seq(P!Byte) : NineAre(x, a, b, k, d, e, f, g, h, i)
    BY ONLY NineBytes, a \in P!Byte, b \in P!Byte, k \in P!Byte, d \in P!Byte,
       e \in P!Byte, f \in P!Byte, g \in P!Byte, h \in P!Byte, i \in P!Byte
  <1>8. PICK q \in Seq(P!Byte) : q = p.prefix
    BY DEF FieldsFit
  <1>9. P!HeaderOf(p) = (x \o q) \o <<z>>
    <2>1. P!HeaderOf(p) =
            (((((<<a, b, k>> \o <<d, e>>) \o <<f, g>>) \o <<h, i>>) \o q) \o <<z>>)
      <3>1. P!HeaderOf(p) =
              ((((<<p.destinationLogicalAddress, P!ProtocolID, P!PacketControl(p)>>
                  \o P!TwoBytes(Len(p.payload))) \o P!TwoBytes(p.channelNumber))
               \o <<p.sequenceNumber, Len(p.prefix) % 256>>) \o p.prefix)
              \o <<p.sourceLogicalAddress>>
        BY DEF P!HeaderOf
      <3>2. /\ <<p.destinationLogicalAddress, P!ProtocolID, P!PacketControl(p)>> = <<a, b, k>>
            /\ <<p.sequenceNumber, Len(p.prefix) % 256>> = <<h, i>>
            /\ <<p.sourceLogicalAddress>> = <<z>>
        BY ONLY <1>5, <1>6
      <3>3. P!TwoBytes(Len(p.payload)) = <<d, e>> /\ P!TwoBytes(p.channelNumber) = <<f, g>>
        BY ONLY <1>1, <1>3, <1>4
      <3>4. p.prefix = q
        BY ONLY <1>8
      <3>5. QED BY ONLY <3>1, <3>2, <3>3, <3>4
    <2>3. QED BY ONLY <1>7, <2>1 DEF NineAre
  <1>10. PICK y \in Seq(P!Byte) : y = x \o q
    BY ONLY HoldsBoth, x \in Seq(P!Byte), q \in Seq(P!Byte)
  <1>11. Len(x) = 9 /\ Len(q) = i /\ Len(y) = 9 + i
    <2>1. Len(x) = 9
      BY ONLY <1>7 DEF NineAre
    <2>2. Len(q) = i
      BY ONLY <1>5, <1>8
    <2>3. Len(y) = Len(x) + Len(q)
      BY ONLY <1>10, HoldsBoth, x \in Seq(P!Byte), q \in Seq(P!Byte)
    <2>4. QED BY ONLY <2>1, <2>2, <2>3
  <1>12. Holds(y, 0, x) /\ Holds(y, 9, q)
    BY ONLY <1>10, <1>11, HoldsBoth, x \in Seq(P!Byte), q \in Seq(P!Byte)
  <1>13. PICK w \in Seq(P!Byte) : w = y \o <<z>>
    BY ONLY HoldsBoth, y \in Seq(P!Byte), <<z>> \in Seq(P!Byte)
  <1>14. Len(w) = 10 + i /\ Holds(w, 0, y) /\ Holds(w, 9 + i, <<z>>)
    <2>1. <<z>> \in Seq(P!Byte) /\ Len(<<z>>) = 1
      OBVIOUS
    <2>2. Len(w) = Len(y) + 1 /\ Holds(w, 0, y) /\ Holds(w, Len(y), <<z>>)
      BY ONLY <1>13, <2>1, HoldsBoth, y \in Seq(P!Byte)
    <2>3. i \in Nat
      BY DEF P!Byte
    <2>4. QED BY ONLY <1>11, <2>2, <2>3
  <1>15. i \in Nat
    BY DEF P!Byte
  <1>16. \A j \in 1 .. 9 : w[j] = x[j]
    <2>1. Holds(w, 0 + 0, x)
      BY ONLY <1>12, <1>14, HoldsWithin, w \in Seq(P!Byte), y \in Seq(P!Byte), x \in Seq(P!Byte),
         0 \in Nat
    <2>2. \A j \in 1 .. Len(x) : w[0 + 0 + j] = x[j]
      BY ONLY <2>1 DEF Holds
    <2>3. \A j \in 1 .. 9 : 0 + 0 + j = j
      OBVIOUS
    <2>4. QED BY ONLY <1>11, <2>2, <2>3
  <1>17. Holds(w, 9, q)
    <2>1. Holds(w, 0 + 9, q)
      BY ONLY <1>12, <1>14, HoldsWithin, w \in Seq(P!Byte), y \in Seq(P!Byte), q \in Seq(P!Byte),
         0 \in Nat, 9 \in Nat
    <2>2. QED BY ONLY <2>1
  <1>18. w[10 + i] = z
    BY ONLY <1>14, <1>15 DEF Holds
  <1>19. /\ w[1] = a /\ w[2] = b /\ w[3] = k /\ w[4] = d /\ w[5] = e /\ w[6] = f /\ w[7] = g
         /\ w[8] = h /\ w[9] = i
    BY ONLY <1>7, <1>16 DEF NineAre
  <1>20. P!HeaderOf(p) = w
    BY ONLY <1>9, <1>10, <1>13
  <1>21. HeaderIs(w, p)
    BY ONLY <1>1, <1>3, <1>4, <1>5, <1>8, <1>14, <1>17, <1>18, <1>19, w \in Seq(P!Byte)
       DEF HeaderIs
  <1>22. QED BY ONLY <1>20, <1>21

-----------------------------------------------------------------------------
(* The packet.                                                             *)

BodyOf(p) == P!HeaderOf(p) \o p.payload

\* A packet as it is after the routers have left `path' of its path address.
SentAs(path, p) == (path \o BodyOf(p)) \o P!TwoBytes(P!CalculateCRC(BodyOf(p)))

\* Where the parts of a packet are.
BufferIs(b, path, body, h, p) ==
    /\ b \in Seq(P!Byte) /\ path \in Seq(P!Byte) /\ body \in Seq(P!Byte)
    /\ Len(body) = 10 + Len(p.prefix) + Len(p.payload)
    /\ Len(b) = Len(path) + Len(body) + 2
    /\ Holds(b, 0, path) /\ Holds(b, Len(path), body)
    /\ Holds(b, Len(path), h) /\ Holds(b, Len(path) + (10 + Len(p.prefix)), p.payload)
    /\ P!NumberAt(b, Len(path) + Len(body) + 1) = P!CalculateCRC(body)

\* getPacketBufferPointer() puts the parts there.
LEMMA BufferLayout ==
    ASSUME NEW p, FieldsFit(p), NEW path \in Seq(P!Byte)
    PROVE  BufferIs(SentAs(path, p), path, BodyOf(p), P!HeaderOf(p), p)
  <1>1. PICK h, w, q \in Seq(P!Byte) : h = P!HeaderOf(p) /\ w = p.payload /\ q = p.prefix
    BY HeaderLayout DEF HeaderIs, FieldsFit
  <1>2. PICK a, lp, lw \in Nat : a = Len(path) /\ lp = Len(q) /\ lw = Len(w)
    OBVIOUS
  <1>3. Len(h) = 10 + lp
    BY ONLY <1>1, <1>2, HeaderLayout, FieldsFit(p) DEF HeaderIs
  <1>4. PICK y \in Seq(P!Byte) : y = h \o w
    BY ONLY HoldsBoth, h \in Seq(P!Byte), w \in Seq(P!Byte)
  <1>5. Len(y) = 10 + lp + lw /\ Holds(y, 0, h) /\ Holds(y, 10 + lp, w)
    BY ONLY <1>2, <1>3, <1>4, HoldsBoth, h \in Seq(P!Byte), w \in Seq(P!Byte)
  <1>6. PICK x \in Seq(P!Byte) : x = path \o y
    BY ONLY HoldsBoth, path \in Seq(P!Byte), y \in Seq(P!Byte)
  <1>7. Len(x) = a + Len(y) /\ Holds(x, 0, path) /\ Holds(x, a, y)
    BY ONLY <1>2, <1>6, HoldsBoth, path \in Seq(P!Byte), y \in Seq(P!Byte)
  <1>8. PICK c \in Nat : c = P!CalculateCRC(y) /\ c <= 65535
    BY WordOfBits DEF P!CalculateCRC
  <1>9. PICK t \in Seq(P!Byte) : t = P!TwoBytes(c) /\ Len(t) = 2 /\ t[1] * 256 + t[2] = c
    BY ONLY <1>8, TwoBytesRead, c \in Nat
  <1>10. PICK b \in Seq(P!Byte) : b = x \o t
    BY ONLY HoldsBoth, x \in Seq(P!Byte), t \in Seq(P!Byte)
  <1>11. Len(b) = a + Len(y) + 2 /\ Holds(b, 0, x) /\ Holds(b, a + Len(y), t)
    <2>1. Len(b) = Len(x) + Len(t) /\ Holds(b, 0, x) /\ Holds(b, Len(x), t)
      BY ONLY <1>10, HoldsBoth, x \in Seq(P!Byte), t \in Seq(P!Byte)
    <2>2. QED BY ONLY <1>7, <1>9, <2>1
  <1>12. Holds(b, 0, path) /\ Holds(b, a, y)
    <2>1. Holds(b, 0 + 0, path) /\ Holds(b, 0 + a, y)
      BY ONLY <1>7, <1>11, HoldsWithin, 0 \in Nat, a \in Nat, b \in Seq(P!Byte), x \in Seq(P!Byte),
         y \in Seq(P!Byte), path \in Seq(P!Byte)
    <2>2. QED BY ONLY <2>1, a \in Nat
  <1>13. Holds(b, a, h) /\ Holds(b, a + (10 + lp), w)
    <2>1. Holds(b, a + 0, h) /\ Holds(b, a + (10 + lp), w)
      BY ONLY <1>5, <1>12, HoldsWithin, 0 \in Nat, a \in Nat, 10 + lp \in Nat, b \in Seq(P!Byte),
         y \in Seq(P!Byte), h \in Seq(P!Byte), w \in Seq(P!Byte)
    <2>2. QED BY ONLY <2>1, a \in Nat
  <1>14. P!NumberAt(b, a + Len(y) + 1) = c
    <2>1. PICK k \in Nat : k = a + Len(y)
      BY <1>5
    <2>2. b[k + 1] = t[1] /\ b[k + 2] = t[2]
      BY ONLY <1>9, <1>11, <2>1 DEF Holds
    <2>3. k + 1 + 1 = k + 2
      OBVIOUS
    <2>4. P!NumberAt(b, k + 1) = t[1] * 256 + t[2]
      BY ONLY <2>2, <2>3 DEF P!NumberAt
    <2>5. QED BY ONLY <1>9, <2>1, <2>4
  <1>15. y = BodyOf(p)
    BY ONLY <1>1, <1>4 DEF BodyOf
  <1>16. b = SentAs(path, p)
    BY ONLY <1>6, <1>8, <1>9, <1>10, <1>15 DEF SentAs
  <1>17. BufferIs(b, path, y, h, p)
    <2>1. a = Len(path) /\ lp = Len(p.prefix) /\ lw = Len(p.payload) /\ w = p.payload
      BY ONLY <1>1, <1>2
    <2>2. /\ Len(y) = 10 + Len(p.prefix) + Len(p.payload) /\ Len(b) = Len(path) + Len(y) + 2
          /\ P!NumberAt(b, Len(path) + Len(y) + 1) = P!CalculateCRC(y)
      <3>1. Len(y) = 10 + Len(p.prefix) + Len(p.payload)
        BY ONLY <1>5, <2>1
      <3>2. Len(b) = Len(path) + Len(y) + 2
        BY ONLY <1>11, <2>1
      <3>3. P!NumberAt(b, Len(path) + Len(y) + 1) = P!CalculateCRC(y)
        BY ONLY <1>8, <1>14, <2>1
      <3>4. QED BY ONLY <3>1, <3>2, <3>3
    <2>3. /\ Holds(b, 0, path) /\ Holds(b, Len(path), y) /\ Holds(b, Len(path), h)
          /\ Holds(b, Len(path) + (10 + Len(p.prefix)), p.payload)
      BY ONLY <1>12, <1>13, <2>1
    <2>4. QED
      BY ONLY <2>2, <2>3, b \in Seq(P!Byte), path \in Seq(P!Byte), y \in Seq(P!Byte) DEF BufferIs
  <1>18. QED BY ONLY <1>1, <1>15, <1>16, <1>17

\* The header begins after the path address.
LEMMA HeaderStarts ==
    ASSUME NEW b \in Seq(P!Byte), NEW path \in P!PathAddress, Holds(b, 0, path),
           Len(path) < Len(b), b[Len(path) + 1] \in P!LogicalAddress
    PROVE  P!HeaderStart(b) = Len(path) + 1
  <1>1. PICK a, n \in Nat : a = Len(path) /\ n = Len(b)
    BY DEF P!PathAddress
  <1>2. a < n
    BY ONLY <1>1, Len(path) < Len(b)
  <1>3. ASSUME NEW i \in 1 .. a PROVE ~(b[i] >= 32)
    <2>1. path[i] \in 0 .. 31
      BY <1>1 DEF P!PathAddress
    <2>2. b[0 + i] = path[i]
      BY ONLY <1>1, Holds(b, 0, path), i \in 1 .. a DEF Holds
    <2>3. 0 + i = i
      OBVIOUS
    <2>4. PICK v \in 0 .. 31 : v = path[i]
      BY ONLY <2>1
    <2>5. ~(v >= 32)
      BY ONLY v \in 0 .. 31
    <2>6. b[i] = v
      BY ONLY <2>2, <2>3, <2>4
    <2>7. QED BY ONLY <2>5, <2>6
  <1>4. b[a + 1] >= 32
    <2>1. b[a + 1] \in P!LogicalAddress
      BY ONLY <1>1, b[Len(path) + 1] \in P!LogicalAddress
    <2>2. PICK v : v = b[a + 1]
      OBVIOUS
    <2>3. v \in 32 .. 255
      BY ONLY <2>1, <2>2 DEF P!LogicalAddress
    <2>4. v >= 32
      BY ONLY <2>3
    <2>5. QED BY ONLY <2>2, <2>4
  <1> DEFINE I == {i \in 1 .. n : b[i] >= 32}
  <1>5. a + 1 \in I /\ \A i \in I : a + 1 <= i
    <2>1. a + 1 \in I
      BY <1>2, <1>4
    <2>2. ASSUME NEW i \in I, ~(a + 1 <= i) PROVE FALSE
      <3>1. i \in 1 .. a
        BY <2>2
      <3>2. QED BY <1>3, <3>1
    <2>3. QED BY <2>1, <2>2
  <1>6. P!HeaderStart(b) = IF I # {} THEN P!Min(I) ELSE 0
    BY <1>1 DEF P!HeaderStart, P!SelectInSeq
  <1>7. I \subseteq Nat
    OBVIOUS
  <1> HIDE DEF I
  <1>8. PICK m \in I : m = P!Min(I) /\ \A i \in I : m <= i
    BY <1>5 DEF P!Min
  <1>9. m = a + 1
    BY ONLY <1>5, <1>7, <1>8, a \in Nat
  <1>10. QED BY <1>1, <1>5, <1>6, <1>8, <1>9

\* What is read of a packet.
ReadOf(path, p) ==
    [destinationSpaceWireAddress |-> path,
     destinationLogicalAddress |-> p.destinationLogicalAddress,
     secondaryHeaderFlag |-> p.secondaryHeaderFlag, sequenceFlags |-> p.sequenceFlags,
     packetType |-> p.packetType, channelNumber |-> p.channelNumber,
     sequenceNumber |-> p.sequenceNumber, prefix |-> p.prefix,
     sourceLogicalAddress |-> p.sourceLogicalAddress, payload |-> p.payload]

\* A packet is read as it was sent, with what is left of its path address.
LEMMA PacketIsRead ==
    ASSUME NEW p, FieldsFit(p), NEW path \in P!PathAddress
    PROVE  P!Interpret(SentAs(path, p)) = {ReadOf(path, p)}
  <1>1. PICK b, h, y : b = SentAs(path, p) /\ h = P!HeaderOf(p) /\ y = BodyOf(p)
    OBVIOUS
  <1>2. path \in Seq(P!Byte)
    <2>1. path \in Seq(0 .. 31)
      BY DEF P!PathAddress
    <2>2. 0 .. 31 \subseteq P!Byte
      BY DEF P!Byte
    <2>3. QED BY ONLY <2>1, <2>2, SeqOverMore
  <1>3. BufferIs(b, path, y, h, p) /\ HeaderIs(h, p)
    BY ONLY <1>1, <1>2, BufferLayout, HeaderLayout, FieldsFit(p)
  <1>4. PICK q, w \in Seq(P!Byte) : q = p.prefix /\ w = p.payload
    BY DEF FieldsFit
  <1>5. PICK a, lp, lw \in Nat : a = Len(path) /\ lp = Len(q) /\ lw = Len(w)
    BY <1>2
  <1>6. /\ b \in Seq(P!Byte) /\ y \in Seq(P!Byte) /\ Len(y) = 10 + lp + lw
        /\ Len(b) = a + (10 + lp + lw) + 2
        /\ Holds(b, 0, path) /\ Holds(b, a, y) /\ Holds(b, a, h) /\ Holds(b, a + (10 + lp), w)
        /\ P!NumberAt(b, a + (10 + lp + lw) + 1) = P!CalculateCRC(y)
    <2>1. /\ b \in Seq(P!Byte) /\ y \in Seq(P!Byte)
          /\ Len(y) = 10 + Len(p.prefix) + Len(p.payload) /\ Len(b) = Len(path) + Len(y) + 2
          /\ Holds(b, 0, path) /\ Holds(b, Len(path), y) /\ Holds(b, Len(path), h)
          /\ Holds(b, Len(path) + (10 + Len(p.prefix)), p.payload)
          /\ P!NumberAt(b, Len(path) + Len(y) + 1) = P!CalculateCRC(y)
      BY ONLY <1>3 DEF BufferIs
    <2>2. a = Len(path) /\ lp = Len(p.prefix) /\ lw = Len(p.payload) /\ w = p.payload
      BY ONLY <1>4, <1>5
    <2>3. Len(y) = 10 + lp + lw
      BY ONLY <2>1, <2>2
    <2>4. Len(b) = a + (10 + lp + lw) + 2
      BY ONLY <2>1, <2>2, <2>3
    <2>5. Holds(b, a, y) /\ Holds(b, a, h) /\ Holds(b, a + (10 + lp), w)
      BY ONLY <2>1, <2>2
    <2>6. P!NumberAt(b, a + (10 + lp + lw) + 1) = P!CalculateCRC(y)
      BY ONLY <2>1, <2>2, <2>3
    <2>7. QED BY ONLY <2>1, <2>3, <2>4, <2>5, <2>6
  <1>7. /\ h \in Seq(P!Byte) /\ Len(h) = 10 + lp
        /\ h[1] = p.destinationLogicalAddress /\ h[2] = P!ProtocolID /\ h[3] = P!PacketControl(p)
        /\ h[4] * 256 + h[5] = lw /\ h[6] * 256 + h[7] = p.channelNumber
        /\ h[8] = p.sequenceNumber /\ h[9] = lp
        /\ Holds(h, 9, q) /\ h[10 + lp] = p.sourceLogicalAddress
    BY ONLY <1>3, <1>4, <1>5 DEF HeaderIs
  <1>8. \A j \in 1 .. 10 + lp : b[a + j] = h[j]
    BY ONLY <1>6, <1>7 DEF Holds
  <1>9. PICK s \in Nat : s = a + 1
    OBVIOUS
  <1>10. /\ b[s] = h[1] /\ b[s + 1] = h[2] /\ b[s + 2] = h[3] /\ b[s + 3] = h[4]
         /\ b[s + 3 + 1] = h[5] /\ b[s + 5] = h[6] /\ b[s + 5 + 1] = h[7] /\ b[s + 7] = h[8]
         /\ b[s + 8] = h[9] /\ b[a + 10 + lp] = h[10 + lp]
    <2>1. /\ 1 \in 1 .. 10 + lp /\ 2 \in 1 .. 10 + lp /\ 3 \in 1 .. 10 + lp
          /\ 4 \in 1 .. 10 + lp /\ 5 \in 1 .. 10 + lp /\ 6 \in 1 .. 10 + lp
          /\ 7 \in 1 .. 10 + lp /\ 8 \in 1 .. 10 + lp /\ 9 \in 1 .. 10 + lp
          /\ 10 + lp \in 1 .. 10 + lp
      OBVIOUS
    <2>2. /\ b[a + 1] = h[1] /\ b[a + 2] = h[2] /\ b[a + 3] = h[3] /\ b[a + 4] = h[4]
          /\ b[a + 5] = h[5] /\ b[a + 6] = h[6] /\ b[a + 7] = h[7] /\ b[a + 8] = h[8]
          /\ b[a + 9] = h[9] /\ b[a + (10 + lp)] = h[10 + lp]
      BY ONLY <1>8, <2>1
    <2>3. /\ s + 1 = a + 2 /\ s + 2 = a + 3 /\ s + 3 = a + 4 /\ s + 3 + 1 = a + 5
          /\ s + 5 = a + 6 /\ s + 5 + 1 = a + 7 /\ s + 7 = a + 8 /\ s + 8 = a + 9
          /\ a + (10 + lp) = a + 10 + lp
      BY <1>9
    <2>4. QED BY ONLY <1>9, <2>2, <2>3
  <1>11. P!HeaderStart(b) = s
    <2>1. b[Len(path) + 1] \in P!LogicalAddress
      BY ONLY <1>5, <1>7, <1>9, <1>10, FieldsFit(p) DEF FieldsFit
    <2>2. Len(path) < Len(b)
      BY ONLY <1>5, <1>6, a \in Nat, lp \in Nat, lw \in Nat
    <2>3. P!HeaderStart(b) = Len(path) + 1
      BY ONLY <1>6, <2>1, <2>2, path \in P!PathAddress, HeaderStarts
    <2>4. QED BY ONLY <1>5, <1>9, <2>3
  <1>12. PICK t, e \in Nat : t = a + 10 + lp /\ e = t + 1 + lw
    OBVIOUS
  <1>13. P!SourceAt(b) = t
    <2>1. P!SourceAt(b) = s + 9 + lp
      BY ONLY <1>7, <1>10, <1>11 DEF P!SourceAt
    <2>2. s + 9 + lp = t
      BY <1>9, <1>12
    <2>3. QED BY ONLY <2>1, <2>2
  <1>14. P!PayloadLengthIn(b) = lw
    BY ONLY <1>7, <1>10, <1>11 DEF P!PayloadLengthIn, P!NumberAt
  <1>15. P!TrailerAt(b) = e
    BY ONLY <1>12, <1>13, <1>14 DEF P!TrailerAt
  <1>16. e = a + (10 + lp + lw) + 1 /\ e + 1 = Len(b) /\ s + 8 <= Len(b) /\ 10 <= Len(b)
    BY ONLY <1>6, <1>9, <1>12, a \in Nat, lp \in Nat, lw \in Nat
  <1>17. P!WellFormed(b)
    <2>1. s # 0
      BY <1>9
    <2>2. b[s + 1] = P!ProtocolID
      BY ONLY <1>7, <1>10
    <2>3. Len(b) >= P!MinimumHeaderLength
      BY ONLY <1>16, <1>6, a \in Nat, lp \in Nat, lw \in Nat DEF P!MinimumHeaderLength
    <2>4. QED BY ONLY <1>11, <1>15, <1>16, <2>1, <2>2, <2>3 DEF P!WellFormed
  <1>18. P!CRCIntact(b)
    <2>1. SubSeq(b, a + 1, a + Len(y)) = y
      BY ONLY <1>6, a \in Nat, HoldsPart
    <2>2. a + Len(y) = e - 1
      BY ONLY <1>6, <1>12, a \in Nat, lp \in Nat, lw \in Nat
    <2>3. SubSeq(b, s, e - 1) = y
      BY ONLY <1>9, <2>1, <2>2
    <2>4. P!NumberAt(b, e) = P!CalculateCRC(y)
      BY ONLY <1>6, <1>16
    <2>5. QED BY ONLY <1>11, <1>15, <2>3, <2>4 DEF P!CRCIntact
  <1>19. SubSeq(b, 1, s - 1) = path
    <2>1. SubSeq(b, 0 + 1, 0 + Len(path)) = path
      BY ONLY <1>2, <1>6, 0 \in Nat, HoldsPart
    <2>2. 0 + 1 = 1 /\ 0 + Len(path) = s - 1
      BY <1>5, <1>9
    <2>3. QED BY ONLY <2>1, <2>2
  <1>20. SubSeq(b, s + 9, t - 1) = q
    <2>1. Holds(b, a + 9, q)
      BY ONLY <1>6, <1>7, a \in Nat, 9 \in Nat, q \in Seq(P!Byte), HoldsWithin
    <2>2. SubSeq(b, a + 9 + 1, a + 9 + Len(q)) = q
      BY ONLY <1>6, <2>1, a + 9 \in Nat, q \in Seq(P!Byte), a \in Nat, HoldsPart
    <2>3. s + 9 = a + 9 + 1 /\ t - 1 = a + 9 + Len(q)
      BY <1>5, <1>9, <1>12
    <2>4. QED BY ONLY <2>2, <2>3
  <1>21. SubSeq(b, t + 1, e - 1) = w
    <2>1. SubSeq(b, a + (10 + lp) + 1, a + (10 + lp) + Len(w)) = w
      BY ONLY <1>6, a + (10 + lp) \in Nat, a \in Nat, lp \in Nat, w \in Seq(P!Byte), HoldsPart
    <2>2. t + 1 = a + (10 + lp) + 1 /\ e - 1 = a + (10 + lp) + Len(w)
      BY <1>5, <1>12
    <2>3. QED BY ONLY <2>1, <2>2
  <1>22. b[t] = p.sourceLogicalAddress
    BY ONLY <1>7, <1>10, <1>12
  <1>23. /\ b[s] = p.destinationLogicalAddress /\ b[s + 7] = p.sequenceNumber
         /\ P!NumberAt(b, s + 5) = p.channelNumber
    BY ONLY <1>7, <1>10 DEF P!NumberAt
  <1>24. /\ (b[s + 2] \div 32) % 2 = p.secondaryHeaderFlag
         /\ (b[s + 2] \div 8) % 4 = p.sequenceFlags /\ b[s + 2] % 8 = p.packetType
    BY ONLY <1>7, <1>10, ControlFieldRead, FieldsFit(p)
  <1>25. P!Interpret(b) =
           {[destinationSpaceWireAddress |-> SubSeq(b, 1, s - 1),
             destinationLogicalAddress |-> b[s],
             secondaryHeaderFlag |-> (b[s + 2] \div 32) % 2,
             sequenceFlags |-> (b[s + 2] \div 8) % 4,
             packetType |-> b[s + 2] % 8,
             channelNumber |-> P!NumberAt(b, s + 5),
             sequenceNumber |-> b[s + 7],
             prefix |-> SubSeq(b, s + 9, t - 1),
             sourceLogicalAddress |-> b[t],
             payload |-> SubSeq(b, t + 1, e - 1)]}
    BY ONLY <1>11, <1>13, <1>15, <1>17, <1>18 DEF P!Interpret
  <1>26. P!Interpret(b) = {ReadOf(path, p)}
    BY ONLY <1>4, <1>19, <1>20, <1>21, <1>22, <1>23, <1>24, <1>25 DEF ReadOf
  <1>27. QED BY ONLY <1>1, <1>26

\* Every packet that another node can make is read as it was sent.
LEMMA IntactIsRead ==
    ASSUME NEW p \in P!Packet
    PROVE  FieldsFit(p) /\ P!Interpret(P!PacketBuffer(p)) = {p}
  <1>1. FieldsFit(p) /\ p.destinationSpaceWireAddress \in P!PathAddress
    BY DEF P!Packet, FieldsFit
  <1>2. PICK path \in P!PathAddress : path = p.destinationSpaceWireAddress
    BY <1>1
  <1>3. P!PacketBuffer(p) = SentAs(path, p)
    BY <1>2 DEF P!PacketBuffer, SentAs, BodyOf
  <1>4. ReadOf(path, p) = p
    BY <1>2 DEF ReadOf, P!Packet
  <1>5. QED BY ONLY <1>1, <1>3, <1>4, PacketIsRead

-----------------------------------------------------------------------------
(* The acknowledgement.                                                    *)

\* An acknowledgement and the packet it answers.
AnswerFits(e) ==
    \E t \in TEPs : /\ e.answers \in FarPackets /\ Answers(t, e.answers)
                    /\ e.packet = AnswerOf(t, e.answers)

\* The fields of an acknowledgement (constructAckForPacket and its variant with the MASN).
AckIs(a, p) ==
    /\ a.destinationSpaceWireAddress = p.prefix
    /\ a.destinationLogicalAddress = p.sourceLogicalAddress
    /\ a.sourceLogicalAddress = p.destinationLogicalAddress
    /\ a.channelNumber = p.channelNumber /\ a.sequenceNumber = p.sequenceNumber
    /\ a.secondaryHeaderFlag = 0 /\ a.sequenceFlags = 3 /\ a.prefix = <<>>
    /\ a.packetType = P!AckType(p.packetType) /\ a.packetType \in 0 .. 7
    /\ a.payload \in Seq(P!Byte) /\ Len(a.payload) <= 1
    /\ a.payload # <<>> => a.packetType # P!HeartBeatAckPacket

\* What a TEP answers has these fields.
LEMMA AcknowledgementOf ==
    ASSUME NEW t \in TEPs, NEW p \in P!Packet, Answers(t, p), MASN \in P!Byte
    PROVE  AckIs(AnswerOf(t, p), p)
  <1>1. p.packetType \in {P!HeartBeatPacket, P!FlowControlPacket, P!DataPacket,
                          P!ControlPacketCloseCommand}
    BY DEF Answers
  <1>2. ~P!IsAckPacket(p)
    BY <1>1 DEF P!IsAckPacket, P!HeartBeatPacket, P!FlowControlPacket, P!DataPacket,
       P!ControlPacketCloseCommand, P!DataAckPacket, P!ControlAckPacket, P!HeartBeatAckPacket
  <1>3. PICK a : a = P!ConstructAckForPacket(p, p)
    OBVIOUS
  <1>4. a = [p EXCEPT !.destinationSpaceWireAddress = p.prefix,
                      !.destinationLogicalAddress = p.sourceLogicalAddress,
                      !.secondaryHeaderFlag = 0, !.sequenceFlags = P!CompleteSegment,
                      !.packetType = P!AckType(p.packetType),
                      !.prefix = <<>>, !.sourceLogicalAddress = p.destinationLogicalAddress,
                      !.payload = <<>>]
    BY ONLY <1>2, <1>3 DEF P!ConstructAckForPacket
  <1>5. p \in [destinationSpaceWireAddress : P!PathAddress,
               destinationLogicalAddress : P!LogicalAddress, secondaryHeaderFlag : 0 .. 1,
               sequenceFlags : 0 .. 3, packetType : 0 .. 7, channelNumber : P!ChannelNumber,
               sequenceNumber : P!Byte, prefix : Seq(P!Byte),
               sourceLogicalAddress : P!LogicalAddress, payload : Seq(P!Byte)]
    BY DEF P!Packet
  <1>6. a = ReadOf(p.prefix,
              [destinationLogicalAddress |-> p.sourceLogicalAddress, secondaryHeaderFlag |-> 0,
               sequenceFlags |-> P!CompleteSegment, packetType |-> P!AckType(p.packetType),
               channelNumber |-> p.channelNumber, sequenceNumber |-> p.sequenceNumber,
               prefix |-> <<>>, sourceLogicalAddress |-> p.destinationLogicalAddress,
               payload |-> <<>>])
    BY ONLY <1>4, <1>5 DEF ReadOf
  <1>7. P!AckType(p.packetType) \in 0 .. 7
    BY <1>1 DEF P!AckType, P!HeartBeatPacket, P!FlowControlPacket, P!DataPacket,
       P!ControlPacketCloseCommand, P!ControlPacketOpenCommand, P!DataAckPacket,
       P!ControlAckPacket, P!HeartBeatAckPacket
  <1>8. AckIs(a, p)
    BY ONLY <1>6, <1>7, <<>> \in Seq(P!Byte), Len(<<>>) = 0 DEF AckIs, ReadOf, P!CompleteSegment
  <1>9. CASE AnswerOf(t, p) = a
    BY ONLY <1>8, <1>9
  <1>10. CASE AnswerOf(t, p) = [a EXCEPT !.payload = <<MASN>>]
              /\ a.packetType \in {P!DataAckPacket, P!ControlAckPacket}
    <2>1. PICK c : c = [a EXCEPT !.payload = <<MASN>>]
      OBVIOUS
    <2>2. /\ c.payload = <<MASN>> /\ c.prefix = a.prefix /\ c.packetType = a.packetType
          /\ c.destinationSpaceWireAddress = a.destinationSpaceWireAddress
          /\ c.destinationLogicalAddress = a.destinationLogicalAddress
          /\ c.secondaryHeaderFlag = a.secondaryHeaderFlag
          /\ c.sequenceFlags = a.sequenceFlags /\ c.channelNumber = a.channelNumber
          /\ c.sequenceNumber = a.sequenceNumber
          /\ c.sourceLogicalAddress = a.sourceLogicalAddress
      BY ONLY <1>6, <2>1 DEF ReadOf
    <2>3. <<MASN>> \in Seq(P!Byte) /\ Len(<<MASN>>) <= 1
      BY ONLY MASN \in P!Byte
    <2>4. c.packetType # P!HeartBeatAckPacket
      BY ONLY <1>10, <2>2 DEF P!DataAckPacket, P!ControlAckPacket, P!HeartBeatAckPacket
    <2>5. AckIs(c, p)
      BY ONLY <1>8, <2>2, <2>3, <2>4 DEF AckIs
    <2>6. QED BY ONLY <1>10, <2>1, <2>5
  <1>11. QED
    BY <1>3, <1>9, <1>10
       DEF AnswerOf, P!ConstructAckForPacketWithFlowControl, P!SetPayload

\* An acknowledgement begins with the path back, and what follows it is read as it was made.
LEMMA AcknowledgementArrives ==
    ASSUME NEW p \in P!Packet, NEW a, AckIs(a, p), NEW bytes, bytes = P!PacketBuffer(a)
    PROVE  /\ IsPrefix(p.prefix, bytes)
           /\ P!Interpret(SubSeq(bytes, Len(p.prefix) + 1, Len(bytes))) = {ReadOf(<<>>, a)}
  <1>1. FieldsFit(a)
    <2>1. /\ p.sourceLogicalAddress \in P!LogicalAddress
          /\ p.destinationLogicalAddress \in P!LogicalAddress
          /\ p.channelNumber \in P!ChannelNumber /\ p.sequenceNumber \in P!Byte
      BY DEF P!Packet
    <2>2. <<>> \in Seq(P!Byte) /\ Len(<<>>) < 256
      OBVIOUS
    <2>3. Len(a.payload) <= P!MaxPayloadLength
      <3>1. PICK n \in Nat : n = Len(a.payload)
        BY DEF AckIs
      <3>2. n <= 1
        BY ONLY <3>1, AckIs(a, p) DEF AckIs
      <3>3. n <= 65535
        BY ONLY <3>2, n \in Nat
      <3>4. QED BY ONLY <3>1, <3>3 DEF P!MaxPayloadLength
    <2>4. 0 \in 0 .. 1 /\ 3 \in 0 .. 3
      OBVIOUS
    <2>5. QED BY ONLY <2>1, <2>2, <2>3, <2>4, AckIs(a, p) DEF AckIs, FieldsFit
  <1>2. PICK q \in Seq(P!Byte) : q = p.prefix /\ q = a.destinationSpaceWireAddress
    BY DEF AckIs, P!Packet
  <1>3. PICK y \in Seq(P!Byte) : y = BodyOf(a)
    BY ONLY <1>1, <1>2, q \in Seq(P!Byte), BufferLayout DEF BufferIs
  <1>4. PICK c \in Nat : c = P!CalculateCRC(y) /\ c <= 65535
    BY WordOfBits DEF P!CalculateCRC
  <1>5. PICK t \in Seq(P!Byte) : t = P!TwoBytes(c)
    BY ONLY <1>4, TwoBytesRead, c \in Nat
  <1>6. PICK z \in Seq(P!Byte) : z = y \o t
    BY ONLY HoldsBoth, y \in Seq(P!Byte), t \in Seq(P!Byte)
  <1>7. bytes = q \o z
    <2>1. bytes = (q \o y) \o t
      BY <1>2, <1>3, <1>4, <1>5 DEF P!PacketBuffer, BodyOf
    <2>2. (q \o y) \o t = q \o (y \o t)
      <3>1. Associate(q, y, t)
        BY ONLY q \in Seq(P!Byte), y \in Seq(P!Byte), t \in Seq(P!Byte), ThreeInARow
      <3>2. QED BY ONLY <3>1 DEF Associate
    <2>3. QED BY ONLY <1>6, <2>1, <2>2
  <1>8. PICK b \in Seq(P!Byte) : b = q \o z
    BY ONLY HoldsBoth, q \in Seq(P!Byte), z \in Seq(P!Byte)
  <1>9. Len(b) = Len(q) + Len(z) /\ Holds(b, 0, q) /\ Holds(b, Len(q), z)
    BY ONLY <1>8, HoldsBoth, q \in Seq(P!Byte), z \in Seq(P!Byte)
  <1>10. SubSeq(b, Len(q) + 1, Len(b)) = z
    <2>1. SubSeq(b, Len(q) + 1, Len(q) + Len(z)) = z
      BY ONLY <1>9, Len(q) \in Nat, b \in Seq(P!Byte), z \in Seq(P!Byte), HoldsPart
    <2>2. QED BY ONLY <1>9, <2>1
  <1>11. z = SentAs(<<>>, a)
    <2>1. <<>> \o y = y
      BY ONLY y \in Seq(P!Byte), ConcatEmptySeq
    <2>2. QED BY ONLY <1>3, <1>4, <1>5, <1>6, <2>1 DEF SentAs
  <1>12. P!Interpret(z) = {ReadOf(<<>>, a)}
    <2>1. <<>> \in P!PathAddress
      BY DEF P!PathAddress
    <2>2. QED BY ONLY <1>1, <1>11, <2>1, PacketIsRead
  <1>13. IsPrefix(q, b)
    <2>1. SubSeq(b, 0 + 1, 0 + Len(q)) = q
      BY ONLY <1>9, 0 \in Nat, b \in Seq(P!Byte), q \in Seq(P!Byte), HoldsPart
    <2>2. 0 + 1 = 1 /\ 0 + Len(q) = Len(q)
      BY Len(q) \in Nat
    <2>3. SubSeq(q, 1, Len(q)) = q
      OBVIOUS
    <2>4. Len(q) <= Len(b)
      BY ONLY <1>9, Len(q) \in Nat, Len(z) \in Nat
    <2>5. QED BY ONLY <2>1, <2>2, <2>3, <2>4 DEF IsPrefix
  <1>14. QED BY ONLY <1>2, <1>7, <1>8, <1>10, <1>12, <1>13

-----------------------------------------------------------------------------
(* SpaceWireREngine                                                        *)

USE TEPAssumption

-----------------------------------------------------------------------------
(* The inductive invariant.                                                *)
Registered(kind, c) == {t \in TEPs : Kind[t] = kind /\ Channel[t] = c}

TablesInv ==
    /\ {receiveTEPs, transmitTEPs, allTEPs} \subseteq [ChannelNumbers -> TEPs \cup {NoTEP}]
    /\ \A c \in ChannelNumbers :
          /\ receiveTEPs[c] \in Registered("receive", c) \cup {NoTEP}
          /\ transmitTEPs[c] \in Registered("transmit", c) \cup {NoTEP}
          /\ \A t \in {receiveTEPs[c], transmitTEPs[c]} \ {NoTEP} : allTEPs[c] = t

ThreadsInv ==
    /\ engine \in {"run", "telling", "ended", "undefined"}
    /\ link \in {"up", "down"} /\ stopRequested \in BOOLEAN
    /\ tepState \in [TEPs -> {"open", "closing", "closed", "gone"}]
    /\ pcs \in [Workers -> {"idle", "calls", "waits", "sends"}]
    /\ sendMutex \in Workers \cup {<<>>}

PacketsInv ==
    /\ arrivals \in Seq(DOMAIN ReadAs)
    /\ queues \in [TEPs -> Seq(FarPackets)]
    /\ counts \in [received : Nat, discarded : Nat, refused : Nat, pushed : Nat]
    /\ counts.received = counts.discarded + counts.refused + counts.pushed

-----------------------------------------------------------------------------
(* The tables of the transport end points.                                 *)

\* A TEP that is opened again comes into the tables of its channel, one that
\* stops goes out of them.
LEMMA RegisteringKeepsTables ==
    ASSUME ChannelsDiffer, TablesInv, NEW t \in TEPs,
           (RegisterTransmitTEP(t) /\ Kind[t] = "transmit") \/ UnregisterTEP(t)
    PROVE  TablesInv'
  <1>1. Channel[t] \in ChannelNumbers
    BY DEF ChannelNumbers
  <1>2. \A u \in TEPs : Channel[u] = Channel[t] => u = t
    BY DEF ChannelsDiffer
  <1>6. /\ receiveTEPs \in [ChannelNumbers -> TEPs \cup {NoTEP}]
        /\ transmitTEPs \in [ChannelNumbers -> TEPs \cup {NoTEP}]
        /\ allTEPs \in [ChannelNumbers -> TEPs \cup {NoTEP}]
    BY DEF TablesInv
  <1>7. NoTEP \notin TEPs
    BY TEPAssumption
  <1>3. CASE RegisterTransmitTEP(t) /\ Kind[t] = "transmit"
    <2>1. /\ transmitTEPs' = [transmitTEPs EXCEPT ![Channel[t]] = t]
          /\ allTEPs' = [allTEPs EXCEPT ![Channel[t]] = t]
          /\ receiveTEPs' = receiveTEPs /\ Kind[t] = "transmit"
      BY <1>3 DEF RegisterTransmitTEP
    <2>2. {receiveTEPs, transmitTEPs, allTEPs}' \subseteq [ChannelNumbers -> TEPs \cup {NoTEP}]
      BY ONLY <1>1, <1>6, <2>1, t \in TEPs
    <2>3. ASSUME NEW c \in ChannelNumbers
          PROVE  /\ receiveTEPs'[c] \in Registered("receive", c) \cup {NoTEP}
                 /\ transmitTEPs'[c] \in Registered("transmit", c) \cup {NoTEP}
                 /\ \A u \in {receiveTEPs'[c], transmitTEPs'[c]} \ {NoTEP} : allTEPs'[c] = u
      <3>1. /\ receiveTEPs[c] \in Registered("receive", c) \cup {NoTEP}
            /\ transmitTEPs[c] \in Registered("transmit", c) \cup {NoTEP}
            /\ \A u \in {receiveTEPs[c], transmitTEPs[c]} \ {NoTEP} : allTEPs[c] = u
        BY DEF TablesInv
      <3>2. CASE c # Channel[t]
        BY ONLY <1>6, <2>1, <3>1, <3>2, c \in ChannelNumbers
      <3>3. CASE c = Channel[t]
        <4>1. transmitTEPs'[c] = t /\ allTEPs'[c] = t /\ receiveTEPs'[c] = receiveTEPs[c]
          BY ONLY <1>6, <2>1, <3>3, c \in ChannelNumbers
        <4>2. t \in Registered("transmit", c)
          BY <2>1, <3>3 DEF Registered
        <4>3. receiveTEPs[c] = NoTEP
          BY <1>2, <2>1, <3>1, <3>3 DEF Registered
        <4>4. QED BY ONLY <1>7, <3>1, <4>1, <4>2, <4>3
      <3>4. QED BY <3>2, <3>3
    <2>4. QED BY <2>2, <2>3 DEF TablesInv, Registered
  <1>4. CASE UnregisterTEP(t)
    <2>1. /\ receiveTEPs' = IF Kind[t] = "receive"
                            THEN [receiveTEPs EXCEPT ![Channel[t]] = NoTEP] ELSE receiveTEPs
          /\ transmitTEPs' = IF Kind[t] = "transmit"
                             THEN [transmitTEPs EXCEPT ![Channel[t]] = NoTEP] ELSE transmitTEPs
          /\ allTEPs' = [allTEPs EXCEPT ![Channel[t]] = NoTEP]
      BY <1>4 DEF UnregisterTEP
    <2>2. {receiveTEPs, transmitTEPs, allTEPs}' \subseteq [ChannelNumbers -> TEPs \cup {NoTEP}]
      BY ONLY <1>1, <1>6, <2>1
    <2>3. ASSUME NEW c \in ChannelNumbers
          PROVE  /\ receiveTEPs'[c] \in Registered("receive", c) \cup {NoTEP}
                 /\ transmitTEPs'[c] \in Registered("transmit", c) \cup {NoTEP}
                 /\ \A u \in {receiveTEPs'[c], transmitTEPs'[c]} \ {NoTEP} : allTEPs'[c] = u
      <3>1. /\ receiveTEPs[c] \in Registered("receive", c) \cup {NoTEP}
            /\ transmitTEPs[c] \in Registered("transmit", c) \cup {NoTEP}
            /\ \A u \in {receiveTEPs[c], transmitTEPs[c]} \ {NoTEP} : allTEPs[c] = u
        BY DEF TablesInv
      <3>2. CASE c # Channel[t]
        BY ONLY <1>6, <2>1, <3>1, <3>2, c \in ChannelNumbers
      <3>3. CASE c = Channel[t]
        <4>1. allTEPs'[c] = NoTEP
          BY ONLY <1>6, <2>1, <3>3, c \in ChannelNumbers
        <4>2. receiveTEPs'[c] = NoTEP
          <5>1. CASE Kind[t] = "receive"
            BY ONLY <1>6, <2>1, <3>3, <5>1, c \in ChannelNumbers
          <5>2. CASE Kind[t] # "receive"
            BY <1>2, <2>1, <3>1, <3>3, <5>2 DEF Registered
          <5>3. QED BY <5>1, <5>2
        <4>3. transmitTEPs'[c] = NoTEP
          <5>1. CASE Kind[t] = "transmit"
            BY ONLY <1>6, <2>1, <3>3, <5>1, c \in ChannelNumbers
          <5>2. CASE Kind[t] # "transmit"
            BY <1>2, <2>1, <3>1, <3>3, <5>2 DEF Registered
          <5>3. QED BY <5>1, <5>2
        <4>4. QED BY ONLY <4>1, <4>2, <4>3
      <3>4. QED BY <3>2, <3>3
    <2>4. QED BY <2>2, <2>3 DEF TablesInv, Registered
  <1>5. QED BY <1>3, <1>4

\* The tables and the threads' places.
LEMMA StepsKeepTables ==
    ASSUME ChannelsDiffer, TablesInv, ThreadsInv, [EngineNext]_engineVars
    PROVE  TablesInv' /\ ThreadsInv'
  <1>1. CASE UNCHANGED engineVars
    BY <1>1 DEF engineVars, tables, senders, TablesInv, ThreadsInv
  <1>2. CASE FarSends \/ DamagesPacket \/ LinkFails \/ StopEngine \/ EngineRun
    <2>1. UNCHANGED <<tables, pcs, sendMutex>>
      BY <1>2 DEF FarSends, DamagesPacket, LinkFails, StopEngine, EngineRun, EngineReceives,
                  EngineDisconnected, senders
    <2>2. ThreadsInv'
      BY <1>2, <2>1 DEF FarSends, DamagesPacket, LinkFails, StopEngine, EngineRun,
                        EngineReceives, EngineDisconnected, ThreadsInv
    <2>3. QED BY <2>1, <2>2 DEF tables, TablesInv
  <1>3. ASSUME NEW t \in TEPs, TEPConsumes(t) \/ TEPDiscards(t) \/ AppSends(t)
        PROVE  TablesInv' /\ ThreadsInv'
    <2>1. UNCHANGED tables
      BY <1>3 DEF TEPConsumes, TEPDiscards, AppSends
    <2>2. ThreadsInv'
      BY <1>3 DEF TEPConsumes, TEPDiscards, AppSends, CallsEngine, ThreadsInv, Workers, senders
    <2>3. QED BY <2>1, <2>2 DEF tables, TablesInv
  <1>4. ASSUME NEW t \in TEPs, TEPCloses(t) \/ Reopen(t)
        PROVE  TablesInv' /\ ThreadsInv'
    <2>1. TablesInv'
      BY <1>4, RegisteringKeepsTables DEF TEPCloses, Reopen
    <2>2. ThreadsInv'
      BY <1>4 DEF TEPCloses, Reopen, UnregisterTEP, Erases, ThreadsInv, senders
    <2>3. QED BY <2>1, <2>2
  <1>5. ASSUME NEW w \in Workers, WorkerStep(w)
        PROVE  TablesInv' /\ ThreadsInv'
    <2>1. w[1] \in TEPs
      BY DEF Workers
    <2>2. CASE LockToSend(w) \/ Locked(w) \/ PacketLeaves(w)
      <3>1. UNCHANGED tables
        BY <2>2 DEF LockToSend, Locked, PacketLeaves
      <3>2. ThreadsInv'
        BY <2>2 DEF LockToSend, Locked, PacketLeaves, Returns, ThreadsInv
      <3>3. QED BY <3>1, <3>2 DEF tables, TablesInv
    <2>3. CASE EngineHasStopped(w) \/ SendFails(w)
      <3>1. SpaceWireIFMalfunctions(w[1]) /\ Returns(w)
        BY <2>3 DEF EngineHasStopped, SendFails
      <3>2. TablesInv'
        <4>1. UnregisterTEP(w[1]) \/ UNCHANGED tables
          BY <3>1 DEF SpaceWireIFMalfunctions
        <4>2. CASE UnregisterTEP(w[1])
          BY <2>1, <4>2, RegisteringKeepsTables
        <4>3. CASE UNCHANGED tables
          BY <4>3 DEF tables, TablesInv
        <4>4. QED BY <4>1, <4>2, <4>3
      <3>3. ThreadsInv'
        BY <2>1, <2>3, <3>1 DEF EngineHasStopped, SendFails, SpaceWireIFMalfunctions, Returns,
                                UnregisterTEP, Erases, ThreadsInv
      <3>4. QED BY <3>2, <3>3
    <2>4. QED BY <1>5, <2>2, <2>3 DEF WorkerStep
  <1>6. QED BY <1>1, <1>2, <1>3, <1>4, <1>5 DEF EngineNext, ThreadStep, TEPRun

-----------------------------------------------------------------------------
(* The packets.                                                            *)

\* A packet goes to a TEP of the node, or to none.
LEMMA PacketsHaveTEPs ==
    ASSUME TablesInv, NEW p
    PROVE  TEPFor(p) \in TEPs \cup {NoTEP}
  <1>1. \A c \in ChannelNumbers : /\ receiveTEPs[c] \in TEPs \cup {NoTEP}
                                  /\ transmitTEPs[c] \in TEPs \cup {NoTEP}
                                  /\ allTEPs[c] \in TEPs \cup {NoTEP}
    BY DEF TablesInv, Registered
  <1>2. TableFor(p) \in {receiveTEPs, transmitTEPs, allTEPs}
    BY DEF TableFor
  <1>3. QED BY <1>1, <1>2 DEF TEPFor

\* What is read is what another node sent.
LEMMA OnlySentIsRead ==
    ASSUME DamageIsTold, NEW bytes \in DOMAIN ReadAs
    PROVE  ReadAs[bytes] \subseteq FarPackets
  <1>1. ReadAs[bytes] = P!Interpret(bytes)
    BY DEF ReadAs
  <1>2. PICK p \in FarPackets : bytes = Buffer[p] \/ bytes \in DamagedForms(Buffer[p])
    BY DEF ReadAs
  <1>3. P!Interpret(bytes) = {p} \/ P!Interpret(bytes) = {}
    <2>1. P!Interpret(Buffer[p]) = {p}
      BY PacketAssumption, IntactIsRead DEF Buffer
    <2>2. QED BY <1>2, <2>1 DEF DamageIsTold
  <1>4. QED BY <1>1, <1>3

\* The engine takes in a packet, and it is queued, discarded or refused.
LEMMA ReceivingKeepsPackets ==
    ASSUME DamageIsTold, TablesInv, PacketsInv, EngineReceives
    PROVE  PacketsInv'
  <1> USE DEF PacketsInv
  <1> DEFINE Forms == DOMAIN ReadAs
  <1>1. arrivals # <<>> /\ arrivals' = Tail(arrivals) /\ Head(arrivals) \in Forms
    BY DEF EngineReceives
  <1>2. arrivals' \in Seq(Forms)
    <2>1. arrivals \in Seq(Forms)
      OBVIOUS
    <2> HIDE DEF Forms
    <2>2. QED BY ONLY <1>1, <2>1
  <1>3. ReadAs[Head(arrivals)] \subseteq FarPackets
    BY <1>1, OnlySentIsRead
  <1>c. /\ counts.received \in Nat /\ counts.discarded \in Nat
        /\ counts.refused \in Nat /\ counts.pushed \in Nat
        /\ counts.received = counts.discarded + counts.refused + counts.pushed
        /\ counts = [received |-> counts.received, discarded |-> counts.discarded,
                     refused |-> counts.refused, pushed |-> counts.pushed]
    OBVIOUS
  <1>4. ASSUME NEW p \in ReadAs[Head(arrivals)], Push(p)
        PROVE  PacketsInv'
    <2>1. p \in FarPackets /\ TEPFor(p) \in TEPs \cup {NoTEP}
      BY <1>3, PacketsHaveTEPs
    <2>2. CASE TEPFor(p) = NoTEP
      <3>1. /\ counts' = [counts EXCEPT !.received = @ + 1, !.discarded = @ + 1]
            /\ UNCHANGED queues
        BY <1>4, <2>2 DEF Push
      <3>2. counts' = [received |-> counts.received + 1, discarded |-> counts.discarded + 1,
                       refused |-> counts.refused, pushed |-> counts.pushed]
        BY ONLY <1>c, <3>1
      <3>3. /\ counts' \in [received : Nat, discarded : Nat, refused : Nat, pushed : Nat]
            /\ counts'.received = counts'.discarded + counts'.refused + counts'.pushed
        BY ONLY <1>c, <3>2
      <3>4. QED BY <1>2, <3>1, <3>3 DEF Buffer, ReadAs
    <2>3. CASE TEPFor(p) # NoTEP
      <3>1. /\ counts' = [counts EXCEPT !.received = @ + 1, !.pushed = @ + 1]
            /\ queues' = [queues EXCEPT ![TEPFor(p)] = Append(@, p)]
        BY <1>4, <2>3 DEF Push
      <3>2. counts' = [received |-> counts.received + 1, discarded |-> counts.discarded,
                       refused |-> counts.refused, pushed |-> counts.pushed + 1]
        BY ONLY <1>c, <3>1
      <3>3. /\ counts' \in [received : Nat, discarded : Nat, refused : Nat, pushed : Nat]
            /\ counts'.received = counts'.discarded + counts'.refused + counts'.pushed
        BY ONLY <1>c, <3>2
      <3>4. queues' \in [TEPs -> Seq(FarPackets)]
        BY <2>1, <2>3, <3>1
      <3>5. QED BY <1>2, <3>3, <3>4 DEF Buffer, ReadAs
    <2>4. QED BY <2>2, <2>3
  <1>5. CASE /\ counts' = [counts EXCEPT !.received = @ + 1, !.refused = @ + 1]
             /\ UNCHANGED queues
    <2>1. counts' = [received |-> counts.received + 1, discarded |-> counts.discarded,
                     refused |-> counts.refused + 1, pushed |-> counts.pushed]
      BY ONLY <1>c, <1>5
    <2>2. /\ counts' \in [received : Nat, discarded : Nat, refused : Nat, pushed : Nat]
          /\ counts'.received = counts'.discarded + counts'.refused + counts'.pushed
      BY ONLY <1>c, <2>1
    <2>3. QED BY <1>2, <1>5, <2>2 DEF Buffer, ReadAs
  <1>6. QED BY <1>4, <1>5 DEF EngineReceives

\* The queues and what is on its way.
LEMMA StepsKeepPackets ==
    ASSUME DamageIsTold, TablesInv, PacketsInv, [EngineNext]_engineVars
    PROVE  PacketsInv'
  <1> USE DEF PacketsInv
  <1> DEFINE Forms == DOMAIN ReadAs
  <1>1. CASE UNCHANGED <<arrivals, queues, counts>>
    BY <1>1
  <1>2. CASE FarSends
    <2>1. PICK p \in FarPackets : arrivals' = Append(arrivals, Buffer[p])
      BY <1>2 DEF FarSends
    <2>2. Buffer[p] \in Forms
      BY DEF ReadAs
    <2>3. arrivals \in Seq(Forms)
      OBVIOUS
    <2>4. arrivals' \in Seq(Forms)
      <3> HIDE DEF Forms
      <3>1. QED BY ONLY <2>1, <2>2, <2>3
    <2>5. QED BY <1>2, <2>4 DEF FarSends, ReadAs, Buffer
  <1>3. CASE DamagesPacket
    <2>1. PICK p \in FarPackets : \E bytes \in DamagedForms(Buffer[p]) :
                arrivals' = <<bytes>> \o Tail(arrivals)
      BY <1>3 DEF DamagesPacket
    <2>2. PICK bytes \in DamagedForms(Buffer[p]) : arrivals' = <<bytes>> \o Tail(arrivals)
      BY <2>1
    <2>3. bytes \in Forms
      BY DEF ReadAs
    <2>4. arrivals \in Seq(Forms) /\ arrivals # <<>>
      BY <1>3 DEF DamagesPacket
    <2>5. arrivals' \in Seq(Forms)
      <3> HIDE DEF Forms
      <3>1. Tail(arrivals) \in Seq(Forms) /\ <<bytes>> \in Seq(Forms)
        BY ONLY <2>3, <2>4
      <3>2. QED BY ONLY <2>2, <3>1
    <2>6. QED BY <1>3, <2>5 DEF DamagesPacket, ReadAs, Buffer
  <1>4. CASE LinkFails
    <2>1. <<>> \in Seq(Forms)
      <3> HIDE DEF Forms
      <3>1. QED OBVIOUS
    <2>2. QED BY <1>4, <2>1 DEF LinkFails, ReadAs, Buffer
  <1>5. CASE EngineReceives
    BY <1>5, ReceivingKeepsPackets
  <1>6. ASSUME NEW t \in TEPs, TEPConsumes(t) \/ TEPDiscards(t)
        PROVE  PacketsInv'
    <2>1. \/ queues' = [queues EXCEPT ![t] = Tail(@)] /\ queues[t] # <<>>
          \/ queues' = [queues EXCEPT ![t] = <<>>]
      BY <1>6 DEF TEPConsumes, TEPDiscards
    <2>2. UNCHANGED <<arrivals, counts>>
      BY <1>6 DEF TEPConsumes, TEPDiscards
    <2>3. queues' \in [TEPs -> Seq(FarPackets)]
      <3>1. queues \in [TEPs -> Seq(FarPackets)] /\ queues[t] \in Seq(FarPackets)
        OBVIOUS
      <3>2. queues[t] # <<>> => Tail(queues[t]) \in Seq(FarPackets)
        BY ONLY <3>1
      <3>3. PICK q \in Seq(FarPackets) : queues' = [queues EXCEPT ![t] = q]
        BY ONLY <2>1, <3>2, <<>> \in Seq(FarPackets)
      <3>4. QED BY ONLY <3>1, <3>3
    <2>4. QED BY <2>2, <2>3 DEF ReadAs, Buffer
  <1>7. CASE \/ EngineDisconnected \/ StopEngine
             \/ \E t \in TEPs : TEPCloses(t) \/ AppSends(t) \/ Reopen(t)
             \/ \E w \in Workers : WorkerStep(w)
    BY <1>1, <1>7
       DEF EngineDisconnected, StopEngine, TEPCloses, AppSends, Reopen, WorkerStep,
           EngineHasStopped, LockToSend, Locked, PacketLeaves, SendFails
  <1>8. QED
    BY <1>1, <1>2, <1>3, <1>4, <1>5, <1>6, <1>7
       DEF EngineNext, ThreadStep, TEPRun, EngineRun, engineVars

-----------------------------------------------------------------------------
(* What is sent.                                                           *)

\* What a thread sends, or has sent, is a packet of its own or the
\* acknowledgement of a packet that another node sent.
AnswersInv ==
    /\ DOMAIN outgoing = Workers
    /\ \A w \in Workers : outgoing[w].answers = <<>> \/ AnswerFits(outgoing[w])
    /\ \A e \in emitted : e.answers = <<>> \/ AnswerFits(e)

\* Every step keeps that so.
LEMMA StepsKeepAnswers ==
    ASSUME PacketsInv, AnswersInv, [EngineNext]_engineVars
    PROVE  AnswersInv'
  <1>1. CASE UNCHANGED <<outgoing, emitted>>
    BY <1>1 DEF AnswersInv, AnswerFits
  <1>2. ASSUME NEW w \in Workers, NEW x, x.answers = <<>> \/ AnswerFits(x),
               outgoing' = [outgoing EXCEPT ![w] = x],
               emitted' = emitted \/ emitted' = emitted \cup {outgoing[w]}
        PROVE  AnswersInv'
    <2>1. DOMAIN outgoing' = Workers
      BY <1>2 DEF AnswersInv
    <2>2. \A v \in Workers : outgoing'[v] = x \/ outgoing'[v] = outgoing[v]
      BY <1>2 DEF AnswersInv
    <2>3. \A v \in Workers : outgoing'[v].answers = <<>> \/ AnswerFits(outgoing'[v])
      BY <1>2, <2>2 DEF AnswersInv
    <2>4. \A e \in emitted' : e.answers = <<>> \/ AnswerFits(e)
      BY <1>2 DEF AnswersInv
    <2>5. QED BY <2>1, <2>3, <2>4 DEF AnswersInv, AnswerFits
  <1>3. ASSUME NEW w \in Workers, Returns(w),
               emitted' = emitted \/ emitted' = emitted \cup {outgoing[w]}
        PROVE  AnswersInv'
    <2>1. outgoing' = [outgoing EXCEPT ![w] = Nothing] /\ Nothing.answers = <<>>
      BY <1>3 DEF Returns, Nothing
    <2>2. QED BY <1>2, <1>3, <2>1
  <1>4. ASSUME NEW w \in Workers, WorkerStep(w)
        PROVE  AnswersInv'
    <2>1. CASE EngineHasStopped(w) \/ SendFails(w)
      BY <1>3, <2>1 DEF EngineHasStopped, SendFails
    <2>2. CASE LockToSend(w) \/ Locked(w)
      BY <1>1, <2>2 DEF LockToSend, Locked
    <2>3. CASE PacketLeaves(w)
      BY <1>3, <2>3 DEF PacketLeaves
    <2>4. QED BY <1>4, <2>1, <2>2, <2>3 DEF WorkerStep
  <1>5. ASSUME NEW t \in TEPs, AppSends(t)
        PROVE  AnswersInv'
    <2>1. PICK x : x = [packet |-> P!PreparedPacket(Channel[t], [path |-> <<1>>, address |-> 34],
                              [path |-> <<>>, address |-> P!DefaultLogicalAddress]),
                        answers |-> <<>>]
      OBVIOUS
    <2>2. outgoing' = [outgoing EXCEPT ![<<t, "app">>] = x] /\ emitted' = emitted
      BY <1>5, <2>1 DEF AppSends, CallsEngine
    <2>3. <<t, "app">> \in Workers /\ x.answers = <<>>
      BY <2>1 DEF Workers
    <2>4. QED BY <1>2, <2>2, <2>3
  <1>6. ASSUME NEW t \in TEPs, TEPConsumes(t)
        PROVE  AnswersInv'
    <2>1. PICK p : p = Head(queues[t])
      OBVIOUS
    <2>2. p \in FarPackets
      <3>1. queues[t] \in Seq(FarPackets) /\ queues[t] # <<>>
        BY <1>6 DEF PacketsInv, TEPConsumes
      <3>2. QED BY ONLY <2>1, <3>1
    <2>3. CASE UNCHANGED senders
      BY <1>1, <1>6, <2>3 DEF senders, TEPConsumes
    <2>4. CASE Answers(t, p) /\ CallsEngine(<<t, "run">>, AnswerOf(t, p), p)
      <3>1. PICK x : x = [packet |-> AnswerOf(t, p), answers |-> p]
        OBVIOUS
      <3>2. outgoing' = [outgoing EXCEPT ![<<t, "run">>] = x] /\ emitted' = emitted
        BY <1>6, <2>4, <3>1 DEF TEPConsumes, CallsEngine
      <3>3. x.packet = AnswerOf(t, p) /\ x.answers = p
        BY ONLY <3>1
      <3>4. AnswerFits(x)
        BY ONLY <2>2, <2>4, <3>3, t \in TEPs DEF AnswerFits
      <3>5. <<t, "run">> \in Workers
        BY DEF Workers
      <3>6. QED BY <1>2, <3>2, <3>4, <3>5
    <2>5. QED BY <1>6, <2>1, <2>3, <2>4 DEF TEPConsumes
  <1>7. CASE \/ FarSends \/ DamagesPacket \/ LinkFails \/ StopEngine \/ EngineRun
             \/ \E t \in TEPs : TEPCloses(t) \/ TEPDiscards(t) \/ Reopen(t)
             \/ UNCHANGED engineVars
    BY <1>1, <1>7
       DEF FarSends, DamagesPacket, LinkFails, StopEngine, EngineRun, EngineReceives,
           EngineDisconnected, TEPCloses, TEPDiscards, Reopen, engineVars, senders
  <1>8. QED
    BY <1>4, <1>5, <1>6, <1>7 DEF EngineNext, ThreadStep, TEPRun

\* The acknowledgement `e' begins with the way back, and what follows it says which
\* packet is meant.
FindsItsWay(e, bytes) ==
    /\ IsPrefix(e.answers.prefix, bytes)
    /\ \E a \in P!Interpret(SubSeq(bytes, Len(e.answers.prefix) + 1, Len(bytes))) :
          /\ a.destinationLogicalAddress = e.answers.sourceLogicalAddress
          /\ a.sourceLogicalAddress = e.answers.destinationLogicalAddress
          /\ a.channelNumber = e.answers.channelNumber
          /\ a.sequenceNumber = e.answers.sequenceNumber
          /\ a.packetType = P!AckType(e.answers.packetType)
          /\ a.payload # <<>> => a.packetType # P!HeartBeatAckPacket

\* What answers a packet of another node finds its way.
LEMMA AnswerArrives ==
    ASSUME NEW e, AnswerFits(e), NEW bytes, bytes = P!PacketBuffer(e.packet)
    PROVE  FindsItsWay(e, bytes)
  <1>1. PICK t \in TEPs : /\ e.answers \in FarPackets /\ Answers(t, e.answers)
                          /\ e.packet = AnswerOf(t, e.answers)
    BY DEF AnswerFits
  <1>2. PICK p \in P!Packet : p = e.answers
    BY <1>1, PacketAssumption
  <1>3. AckIs(e.packet, p)
    BY <1>1, <1>2, PacketAssumption, AcknowledgementOf
  <1>4. PICK k : k = e.packet
    OBVIOUS
  <1>5. /\ IsPrefix(p.prefix, bytes)
        /\ P!Interpret(SubSeq(bytes, Len(p.prefix) + 1, Len(bytes))) = {ReadOf(<<>>, k)}
    BY ONLY <1>3, <1>4, bytes = P!PacketBuffer(e.packet), AcknowledgementArrives
  <1>6. PICK a : a = ReadOf(<<>>, k)
    OBVIOUS
  <1>7. /\ a.destinationLogicalAddress = p.sourceLogicalAddress
        /\ a.sourceLogicalAddress = p.destinationLogicalAddress
        /\ a.channelNumber = p.channelNumber /\ a.sequenceNumber = p.sequenceNumber
        /\ a.packetType = P!AckType(p.packetType)
        /\ a.payload # <<>> => a.packetType # P!HeartBeatAckPacket
    BY ONLY <1>3, <1>4, <1>6 DEF AckIs, ReadOf
  <1>8. QED BY ONLY <1>2, <1>5, <1>6, <1>7 DEF FindsItsWay

-----------------------------------------------------------------------------
\* The tables, the threads and the packets, through every step.
THEOREM EngineKeepsItsState ==
    ASSUME ChannelsDiffer, DamageIsTold
    PROVE  EngineSpec => [](TablesInv /\ ThreadsInv /\ PacketsInv)
  <1>1. EngineInit => TablesInv /\ ThreadsInv /\ PacketsInv
    <2> SUFFICES ASSUME EngineInit PROVE TablesInv /\ ThreadsInv /\ PacketsInv
      OBVIOUS
    <2>1. TablesInv
      BY DEF EngineInit, RegisteredAs, TablesInv, Registered, ChannelsDiffer, ChannelNumbers
    <2>2. ThreadsInv
      BY DEF EngineInit, ThreadsInv, Workers
    <2>3. PacketsInv
      BY DEF EngineInit, PacketsInv
    <2>4. QED BY <2>1, <2>2, <2>3
  <1>2. TablesInv /\ ThreadsInv /\ PacketsInv /\ [EngineNext]_engineVars
            => TablesInv' /\ ThreadsInv' /\ PacketsInv'
    BY StepsKeepTables, StepsKeepPackets
  <1>3. QED BY <1>1, <1>2, PTL DEF EngineSpec

\* Only what another node sent is queued, each packet that arrives is counted
\* once, and a TEP that is registered hears the heart beats, while TEPs come and
\* go and links fail.
THEOREM EngineIsSound ==
    ASSUME ChannelsDiffer, DamageIsTold
    PROVE  EngineSpec => []EngineInv
  <1>1. TablesInv /\ ThreadsInv /\ PacketsInv => EngineInv
    <2> SUFFICES ASSUME TablesInv, ThreadsInv, PacketsInv PROVE EngineInv
      OBVIOUS
    <2>1. EngineTypeOK
      <3>1. /\ receiveTEPs \in [ChannelNumbers -> {t \in TEPs : Kind[t] = "receive"} \cup {NoTEP}]
            /\ transmitTEPs \in [ChannelNumbers -> {t \in TEPs : Kind[t] = "transmit"} \cup {NoTEP}]
        BY DEF TablesInv, Registered
      <3>2. QED BY <3>1 DEF TablesInv, ThreadsInv, PacketsInv, EngineTypeOK
    <2>2. PacketsArriveAsSent
      BY DEF PacketsInv, PacketsArriveAsSent
    <2>3. RegisteredTEPsHearHeartBeats
      BY DEF TablesInv, RegisteredTEPsHearHeartBeats
    <2>4. QED BY <2>1, <2>2, <2>3 DEF EngineInv
  <1>2. QED BY <1>1, EngineKeepsItsState, PTL

\* An acknowledgement leaves by the way its packet names, and the sender of the
\* packet reads in it which packet is meant: for every packet a node can send,
\* any end points, and whatever becomes of the link.
THEOREM AnswersArrive ==
    ASSUME ChannelsDiffer, DamageIsTold
    PROVE  EngineSpec => []AnswersFindTheirWay
  <1>1. EngineInit => AnswersInv
    BY DEF EngineInit, AnswersInv, Nothing
  <1>2. PacketsInv /\ AnswersInv /\ [EngineNext]_engineVars => AnswersInv'
    BY StepsKeepAnswers
  <1>3. AnswersInv => AnswersFindTheirWay
    <2> SUFFICES ASSUME AnswersInv PROVE AnswersFindTheirWay
      OBVIOUS
    <2>1. ASSUME NEW e \in emitted, e.answers # <<>>, NEW bytes, bytes = P!PacketBuffer(e.packet)
          PROVE  FindsItsWay(e, bytes)
      <3>1. AnswerFits(e)
        BY <2>1 DEF AnswersInv
      <3>2. QED BY ONLY <2>1, <3>1, AnswerArrives
    <2>2. QED BY <2>1 DEF AnswersFindTheirWay, FindsItsWay
  <1>4. EngineSpec => [](TablesInv /\ ThreadsInv /\ PacketsInv)
    BY EngineKeepsItsState
  <1>5. QED BY <1>1, <1>2, <1>3, <1>4, PTL DEF EngineSpec
=============================================================================
