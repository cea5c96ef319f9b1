-------------------------- MODULE SpaceWireREngine --------------------------
(***************************************************************************)
(* SpaceWireREngine: the thread that shares one SpaceWireIF out among the  *)
(* transport end points (TEPs) of a node.  It reads packets and pushes     *)
(* each to the TEP that its type and its channel call for; the TEPs'       *)
(* threads take them, answer through sendPacket(), and close when the link *)
(* fails.  What a TEP makes of data and acknowledgements is the subject of *)
(* module SpaceWireR; here a TEP is open until something closes it.        *)
(* receive() throws Timeout, after which run() goes round again, and       *)
(* Disconnected: what SpaceWireIFOverTCP throws.                           *)
(***************************************************************************)
EXTENDS Naturals, Sequences, FiniteSets, SequencesExt, FiniteSetsExt

P == INSTANCE SpaceWireRPacket

CONSTANTS TEPs,          \* the transport end points of the node
          Kind,          \* the kind of each, "receive" or "transmit"
          Channel,       \* the channel of each
          FlowControl,   \* enableFlowControl() was called on the receiving ones
          MASN,          \* what getMaximumAcceptableSequenceNumber() returns
          FarPackets,    \* the packets the other nodes send
          BitFlips,      \* what a flip does: which byte, and which of its bits
          AppStops,      \* the application may call stop() of the engine
          MaxArrivals,   \* bound: packets sent by the other nodes
          MaxDamaged,    \* bound: packets damaged on the way
          MaxSends,      \* bound: packets sent by applications
          MaxReopens     \* bound: calls of open() after the first

NoTEP == "none"
ASSUME TEPAssumption ==
    /\ NoTEP \notin TEPs
    /\ Kind \in [TEPs -> {"receive", "transmit"}]
    /\ Channel \in [TEPs -> Nat]
ASSUME PacketAssumption == FarPackets \subseteq P!Packet /\ MASN \in P!Byte

ChannelNumbers == {Channel[t] : t \in TEPs}
Workers == TEPs \X {"run", "app"}

VARIABLES engine,        \* what run() does: "run", "telling" TEPs, "ended"; "undefined"
          stopRequested, \* stop() was called
          receiveTEPs, transmitTEPs, allTEPs,
          tepState,      \* state of each TEP; "gone" once it has stopped
          queues,        \* receivedPackets of each TEP
          pcs, outgoing, \* where each thread is in sendPacket(), and with what
          sendMutex,     \* the thread that holds it
          arrivals,      \* bytes on their way to the node
          link,          \* the SpaceWireIF: "up" or "down"
          counts,        \* nReceivedPackets, nDiscardedReceivedPackets and what was refused
          emitted,       \* what went out, and what it answers
          bounds         \* what has been used up of the bounds

tables == <<receiveTEPs, transmitTEPs, allTEPs>>
senders == <<pcs, outgoing, sendMutex>>
engineVars == <<engine, stopRequested, tables, tepState, queues, senders, arrivals, link,
                counts, emitted, bounds>>

Nothing == [packet |-> <<>>, answers |-> <<>>]

RegisteredAs(kinds) ==
    [c \in ChannelNumbers |-> IF \E t \in TEPs : Channel[t] = c /\ Kind[t] \in kinds
                        THEN CHOOSE t \in TEPs : Channel[t] = c /\ Kind[t] \in kinds ELSE NoTEP]

(* Every TEP has been opened.                                              *)
EngineInit ==
    /\ engine = "run" /\ stopRequested = FALSE
    /\ receiveTEPs = RegisteredAs({"receive"})
    /\ transmitTEPs = RegisteredAs({"transmit"})
    /\ allTEPs = RegisteredAs({"receive", "transmit"})
    /\ tepState = [t \in TEPs |-> "open"]
    /\ queues = [t \in TEPs |-> <<>>]
    /\ pcs = [w \in Workers |-> "idle"]
    /\ outgoing = [w \in Workers |-> Nothing]
    /\ sendMutex = <<>>
    /\ arrivals = <<>> /\ link = "up"
    /\ counts = [received |-> 0, discarded |-> 0, refused |-> 0, pushed |-> 0]
    /\ emitted = {}
    /\ bounds = [arrivals |-> 0, damaged |-> 0, sends |-> 0, reopens |-> 0]

Use(what, max) == bounds[what] < max /\ bounds' = [bounds EXCEPT ![what] = @ + 1]

-----------------------------------------------------------------------------
(* The link and the nodes beyond it.  Routers take the path address off.   *)

Buffer == [p \in FarPackets |-> P!PacketBuffer(p)]

DamagedForms(bytes) ==
    {[bytes EXCEPT ![f.at] = P!ByteOf(SymDiff(P!BitsOf(@), f.bits))] :
        f \in {g \in BitFlips : g.at \in DOMAIN bytes}}
    \cup {Front(bytes), SubSeq(bytes, 1, 8), Append(bytes, 0)}

(* What interpretPacket() makes of everything that can arrive.             *)
ReadAs == [bytes \in UNION {{Buffer[p]} \cup DamagedForms(Buffer[p]) : p \in FarPackets} |->
              P!Interpret(bytes)]

FarSends ==
    /\ link = "up"
    /\ Use("arrivals", MaxArrivals)
    /\ \E p \in FarPackets : arrivals' = Append(arrivals, Buffer[p])
    /\ UNCHANGED <<engine, stopRequested, tables, tepState, queues, senders, link, counts, emitted>>

\* A packet is damaged once.
DamagesPacket ==
    /\ arrivals # <<>>
    /\ Use("damaged", MaxDamaged)
    /\ \E p \in FarPackets :
          /\ Head(arrivals) = Buffer[p]
          /\ \E bytes \in DamagedForms(Buffer[p]) : arrivals' = <<bytes>> \o Tail(arrivals)
    /\ UNCHANGED <<engine, stopRequested, tables, tepState, queues, senders, link, counts, emitted>>

LinkFails ==
    /\ link = "up"
    /\ link' = "down"
    /\ arrivals' = <<>>
    /\ UNCHANGED <<engine, stopRequested, tables, tepState, queues, senders, counts, emitted,
                   bounds>>

-----------------------------------------------------------------------------
(* run() and processReceivedSpaceWireRPacket()                             *)

TableFor(p) ==
    CASE p.packetType \in {P!HeartBeatPacket, P!HeartBeatAckPacket, P!FlowControlPacket} ->
            allTEPs
      [] p.packetType \in {P!DataAckPacket, P!ControlAckPacket} -> transmitTEPs
      [] OTHER -> receiveTEPs

TEPFor(p) ==
    IF p.channelNumber \in ChannelNumbers THEN TableFor(p)[p.channelNumber] ELSE NoTEP

Push(p) ==
    IF TEPFor(p) = NoTEP
    THEN /\ counts' = [counts EXCEPT !.received = @ + 1, !.discarded = @ + 1]
         /\ UNCHANGED queues
    ELSE /\ counts' = [counts EXCEPT !.received = @ + 1, !.pushed = @ + 1]
         /\ queues' = [queues EXCEPT ![TEPFor(p)] = Append(@, p)]

\* What is not a packet makes run() call stop() and go on.
EngineReceives ==
    /\ engine = "run"
    /\ arrivals # <<>>
    /\ arrivals' = Tail(arrivals)
    /\ \/ \E p \in ReadAs[Head(arrivals)] : Push(p)
       \/ /\ ReadAs[Head(arrivals)] = {}
          /\ counts' = [counts EXCEPT !.received = @ + 1, !.refused = @ + 1]
          /\ UNCHANGED queues
    /\ UNCHANGED <<engine, stopRequested, tables, tepState, senders, link, emitted, bounds>>

\* tellDisconnectionToAllTEPs(): the TEP the loop begins with, and stays with.
FirstTEP ==
    LET first(table) == LET used == {c \in ChannelNumbers : table[c] # NoTEP}
                        IN {table[c] : c \in {d \in used : \A e \in used : d <= e}}
    IN IF first(receiveTEPs) # {} THEN first(receiveTEPs) ELSE first(transmitTEPs)

EngineDisconnected ==
    /\ engine \in {"run", "telling"}
    /\ link = "down" /\ arrivals = <<>>
    /\ tepState' = [t \in TEPs |-> IF t \in FirstTEP /\ tepState[t] # "gone"
                                   THEN "closed" ELSE tepState[t]]
    /\ engine' = IF engine = "run" /\ FirstTEP = {} THEN "ended" ELSE "telling"
    /\ UNCHANGED <<stopRequested, tables, queues, senders, arrivals, link, counts, emitted, bounds>>

\* stop() signals a condition nobody waits for.
StopEngine ==
    /\ AppStops /\ ~stopRequested
    /\ stopRequested' = TRUE
    /\ UNCHANGED <<engine, tables, tepState, queues, senders, arrivals, link, counts, emitted,
                   bounds>>

-----------------------------------------------------------------------------
(* Registering                                                             *)

\* Faulty variant: the TEP is put into the table of its kind only.
RegisterTransmitTEPOnly(t) ==
    /\ transmitTEPs' = [transmitTEPs EXCEPT ![Channel[t]] = t]
    /\ UNCHANGED <<receiveTEPs, allTEPs>>

RegisterTransmitTEP(t) ==
    /\ transmitTEPs' = [transmitTEPs EXCEPT ![Channel[t]] = t]
    /\ allTEPs' = [allTEPs EXCEPT ![Channel[t]] = t]
    /\ UNCHANGED receiveTEPs

\* Erasing the element a loop of tellDisconnectionToAllTEPs() stands on leaves
\* the loop with an iterator of nothing.
Erases(t) == engine' \in IF engine = "telling" /\ t \in FirstTEP
                         THEN {"telling", "undefined"} ELSE {engine}

UnregisterTEP(t) ==
    /\ receiveTEPs' = IF Kind[t] = "receive"
                      THEN [receiveTEPs EXCEPT ![Channel[t]] = NoTEP] ELSE receiveTEPs
    /\ transmitTEPs' = IF Kind[t] = "transmit"
                       THEN [transmitTEPs EXCEPT ![Channel[t]] = NoTEP] ELSE transmitTEPs
    /\ allTEPs' = [allTEPs EXCEPT ![Channel[t]] = NoTEP]
    /\ Erases(t)

-----------------------------------------------------------------------------
(* sendPacket(), called by the TEP's own thread or by its application's    *)

CallsEngine(w, packet, answers) ==
    /\ pcs[w] = "idle"
    /\ pcs' = [pcs EXCEPT ![w] = "calls"]
    /\ outgoing' = [outgoing EXCEPT ![w] = [packet |-> packet, answers |-> answers]]
    /\ UNCHANGED sendMutex

Returns(w) ==
    /\ pcs' = [pcs EXCEPT ![w] = "idle"]
    /\ outgoing' = [outgoing EXCEPT ![w] = Nothing]

\* malfunctioningSpaceWireIF() of the TEP whose packet could not be sent
SpaceWireIFMalfunctions(t) ==
    /\ tepState' = [tepState EXCEPT ![t] = IF @ = "gone" THEN @ ELSE "closed"]
    /\ \/ Kind[t] = "transmit" /\ UnregisterTEP(t)
       \/ Kind[t] = "receive" /\ UNCHANGED <<tables, engine>>

EngineHasStopped(w) ==
    /\ pcs[w] = "calls"
    /\ engine = "ended"
    /\ SpaceWireIFMalfunctions(w[1])
    /\ Returns(w)
    /\ UNCHANGED <<stopRequested, queues, sendMutex, arrivals, link, counts, emitted, bounds>>

LockToSend(w) ==
    /\ pcs[w] = "calls"
    /\ engine # "ended"
    /\ pcs' = [pcs EXCEPT ![w] = "waits"]
    /\ UNCHANGED <<engine, stopRequested, tables, tepState, queues, outgoing, sendMutex, arrivals,
                   link, counts, emitted, bounds>>

Locked(w) ==
    /\ pcs[w] = "waits"
    /\ sendMutex = <<>>
    /\ sendMutex' = w
    /\ pcs' = [pcs EXCEPT ![w] = "sends"]
    /\ UNCHANGED <<engine, stopRequested, tables, tepState, queues, outgoing, arrivals, link,
                   counts, emitted, bounds>>

PacketLeaves(w) ==
    /\ pcs[w] = "sends"
    /\ link = "up"
    /\ emitted' = emitted \cup {outgoing[w]}
    /\ sendMutex' = <<>>
    /\ Returns(w)
    /\ UNCHANGED <<engine, stopRequested, tables, tepState, queues, arrivals, link, counts, bounds>>

\* Faulty variant: the packet is tried again as long as the interface throws.
SendFailsRetries(w) ==
    /\ pcs[w] = "sends"
    /\ link = "down"
    /\ UNCHANGED engineVars

\* "SpaceWireREngine will stop", but stop() does not stop it.
SendFails(w) ==
    /\ pcs[w] = "sends"
    /\ link = "down"
    /\ sendMutex' = <<>>
    /\ SpaceWireIFMalfunctions(w[1])
    /\ Returns(w)
    /\ UNCHANGED <<stopRequested, queues, arrivals, link, counts, emitted, bounds>>

-----------------------------------------------------------------------------
(* The threads of the TEPs, and their applications                         *)

\* Which packets a TEP answers: none of those that acknowledge.
Answers(t, p) ==
    \/ p.packetType = P!HeartBeatPacket
    \/ Kind[t] = "transmit" /\ p.packetType = P!FlowControlPacket
    \/ Kind[t] = "receive" /\ p.packetType \in {P!DataPacket, P!ControlPacketCloseCommand}

AnswerOf(t, p) ==
    IF Kind[t] = "receive" /\ FlowControl
    THEN P!ConstructAckForPacketWithFlowControl(p, p, MASN)
    ELSE P!ConstructAckForPacket(p, p)

TEPConsumes(t) ==
    /\ tepState[t] \in {"open", "closing"}
    /\ pcs[<<t, "run">>] = "idle"
    /\ queues[t] # <<>>
    /\ queues' = [queues EXCEPT ![t] = Tail(@)]
    /\ LET p == Head(queues[t])
           closes == p.packetType = P!ControlPacketCloseCommand
       IN /\ \/ /\ Answers(t, p)
                /\ tepState[t] = "open" \/ closes
                /\ CallsEngine(<<t, "run">>, AnswerOf(t, p), p)
             \/ /\ ~Answers(t, p) \/ (tepState[t] = "closing" /\ ~closes)
                /\ UNCHANGED senders
          /\ tepState' = [tepState EXCEPT ![t] = IF closes THEN "closing" ELSE @]
    /\ UNCHANGED <<engine, stopRequested, tables, arrivals, link, counts, emitted, bounds>>

\* The end of Closing in run(): a receiving TEP stops for good.
TEPCloses(t) ==
    /\ tepState[t] = "closing"
    /\ pcs[<<t, "run">>] = "idle"
    /\ queues[t] = <<>>
    /\ tepState' = [tepState EXCEPT ![t] = "gone"]
    /\ UnregisterTEP(t)
    /\ UNCHANGED <<stopRequested, queues, senders, arrivals, link, counts, emitted, bounds>>

\* discardReceivedPackets()
TEPDiscards(t) ==
    /\ tepState[t] = "closed"
    /\ pcs[<<t, "run">>] = "idle"
    /\ queues[t] # <<>>
    /\ queues' = [queues EXCEPT ![t] = <<>>]
    /\ UNCHANGED <<engine, stopRequested, tables, tepState, senders, arrivals, link, counts,
                   emitted, bounds>>

AppSends(t) ==
    /\ Kind[t] = "transmit" /\ tepState[t] = "open"
    /\ Use("sends", MaxSends)
    /\ CallsEngine(<<t, "app">>,
             P!PreparedPacket(Channel[t], [path |-> <<1>>, address |-> 34],
                              [path |-> <<>>, address |-> P!DefaultLogicalAddress]), <<>>)
    /\ UNCHANGED <<engine, stopRequested, tables, tepState, queues, arrivals, link, counts,
                   emitted>>

\* open() of a transmitting TEP, up to its registration; the rest is in SpaceWireR.
Reopen(t) ==
    /\ Kind[t] = "transmit" /\ tepState[t] \in {"closed", "open"}
    /\ pcs[<<t, "app">>] = "idle"
    /\ Use("reopens", MaxReopens)
    /\ tepState' = [tepState EXCEPT ![t] = "open"]
    /\ RegisterTransmitTEP(t)
    /\ UNCHANGED <<engine, stopRequested, queues, senders, arrivals, link, counts, emitted>>

-----------------------------------------------------------------------------
EngineRun == EngineReceives \/ EngineDisconnected

WorkerStep(w) ==
    \/ EngineHasStopped(w) \/ LockToSend(w) \/ Locked(w)
    \/ PacketLeaves(w) \/ SendFails(w)

TEPRun(t) == TEPConsumes(t) \/ TEPCloses(t) \/ TEPDiscards(t)

ThreadStep ==
    \/ EngineRun
    \/ \E t \in TEPs : TEPRun(t)
    \/ \E w \in Workers : WorkerStep(w)

\* Once a loop runs on an iterator of nothing anything may happen: the model ends.
Defined == engine # "undefined"

EngineNext ==
    /\ Defined
    /\ \/ FarSends \/ DamagesPacket \/ LinkFails \/ StopEngine
       \/ ThreadStep
       \/ \E t \in TEPs : AppSends(t) \/ Reopen(t)

\* Some thread that can go on goes on.
EngineFairness == WF_engineVars(Defined /\ ThreadStep)

EngineSpec == EngineInit /\ [][EngineNext]_engineVars /\ EngineFairness

-----------------------------------------------------------------------------
(* Properties                                                              *)

EngineTypeOK ==
    /\ engine \in {"run", "telling", "ended", "undefined"}
    /\ link \in {"up", "down"} /\ stopRequested \in BOOLEAN
    /\ receiveTEPs \in [ChannelNumbers -> {t \in TEPs : Kind[t] = "receive"} \cup {NoTEP}]
    /\ transmitTEPs \in [ChannelNumbers -> {t \in TEPs : Kind[t] = "transmit"} \cup {NoTEP}]
    /\ allTEPs \in [ChannelNumbers -> TEPs \cup {NoTEP}]
    /\ tepState \in [TEPs -> {"open", "closing", "closed", "gone"}]
    /\ pcs \in [Workers -> {"idle", "calls", "waits", "sends"}]
    /\ sendMutex \in Workers \cup {<<>>}
    /\ counts.received = counts.discarded + counts.refused + counts.pushed

\* A packet damaged on the way never gets to a TEP (SpaceWireRPacket.hh:528-695): what
\* is queued is what another node sent, field for field.
PacketsArriveAsSent ==
    \A t \in TEPs : \A i \in DOMAIN queues[t] : queues[t][i] \in FarPackets

\* "for HeartBeat/HeartBeatAck packets, all TEPs can be a potential" destination
\* (SpaceWireREngine.hh:137): a TEP that is registered hears them, whatever was registered,
\* unregistered or opened again before.
RegisteredTEPsHearHeartBeats ==
    \A c \in ChannelNumbers : \A t \in {receiveTEPs[c], transmitTEPs[c]} \ {NoTEP} : allTEPs[c] = t

\* The engine (SpaceWireREngine.hh:93-231) queues only intact packets, counts each one once,
\* and keeps its three tables of TEPs consistent while TEPs come and go.
EngineInv == EngineTypeOK /\ PacketsArriveAsSent /\ RegisteredTEPsHearHeartBeats

\* An acknowledgement (SpaceWireRPacket.hh:424-483) leaves by the way its packet names, and
\* the sender, once the routers have taken the path off, reads in it which packet is meant.
AnswersFindTheirWay ==
    \A e \in {f \in emitted : f.answers # <<>>} : \E bytes \in {P!PacketBuffer(e.packet)} :
        /\ IsPrefix(e.answers.prefix, bytes)
        /\ \E a \in P!Interpret(SubSeq(bytes, Len(e.answers.prefix) + 1, Len(bytes))) :
            /\ a.destinationLogicalAddress = e.answers.sourceLogicalAddress
            /\ a.sourceLogicalAddress = e.answers.destinationLogicalAddress
            /\ a.channelNumber = e.answers.channelNumber
            /\ a.sequenceNumber = e.answers.sequenceNumber
            /\ a.packetType = P!AckType(e.answers.packetType)
            /\ a.payload # <<>> => a.packetType # P!HeartBeatAckPacket

\* Whoever calls sendPacket() comes out of it, even if the link fails while several wait
\* for the mutex (SpaceWireREngine.hh:234-259).
EverySendEnds ==
    \A w \in Workers : pcs[w] # "idle" ~> (pcs[w] = "idle" \/ engine = "undefined")

\* run() comes to its end when the link fails and no TEP is left to be told
\* (SpaceWireREngine.hh:350-357).
UnpluggedEngineEnds ==
    (link = "down" /\ engine = "run" /\ FirstTEP = {}) ~> (engine = "ended" \/ FirstTEP # {})

\* No thread is left behind in the engine when the link fails (SpaceWireREngine.hh:234-259,
\* 294-357): neither those that send nor the one that receives.
EngineGoesOn == EverySendEnds /\ UnpluggedEngineEnds

-----------------------------------------------------------------------------
(* What the proofs ask of an instance.                                     *)

\* The TEPs of a node have channels of their own: registering one takes the place of
\* another of its channel in allTEPs (SpaceWireREngine.hh:262-301).
ChannelsDiffer == \A t, u \in TEPs : Channel[t] = Channel[u] => t = u

\* What can happen to a packet is told by its form or by its CRC.
DamageIsTold ==
    \A p \in FarPackets : \A bytes \in DamagedForms(Buffer[p]) : P!Interpret(bytes) = {}
=============================================================================
