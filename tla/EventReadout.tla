---------------------------- MODULE EventReadout ----------------------------
(***************************************************************************)
(* The events of the SpaceFibre ADC board on their way to the program: the *)
(* TCP socket of ConsumerManagerSocketFIFO, which hands them over in        *)
(* pieces of any size, the EventDecoder, which puts words together to       *)
(* events in instances that it takes back from the program and uses again,  *)
(* and SpaceFibreADCBoard::getEvent().                                      *)
(*                                                                         *)
(* The FPGA and the network are external.  A word of an event is a number   *)
(* below WordSpace or one of the flags; a byte is a word and which half of   *)
(* it; an event says nothing else than its channel, time, count, height,     *)
(* and samples.                                                             *)
(***************************************************************************)
EXTENDS Integers, Sequences, FiniteSets, SequencesExt

CONSTANTS
    WordSpace,          \* 65536 in the code
    ByteSpace,          \* 256 in the code
    EventKinds,         \* the events the board may send, without their counts
    ReceiveBufferSize,  \* bytes taken from the socket at a time
    MaxWaveformLength,
    InitialEventInstances,
    OpensWhenQuiet,     \* whether openSocket() finds no event still on its way
    ClosesBetweenEvents,\* whether closeSocket() never leaves the decoder inside an event
    MaxEvents,          \* bound: the events sent
    MaxOpens,           \* bound: how often the socket is opened
    MaxCuts             \* bound: how often the network cuts it

ASSUME EventReadoutAssumption ==
    /\ WordSpace \in Nat \ {0} /\ ByteSpace \in Nat \ {0} /\ ReceiveBufferSize \in Nat
    /\ ReceiveBufferSize % 2 = 0 /\ MaxWaveformLength \in Nat /\ InitialEventInstances \in Nat
    /\ EventKinds \subseteq [ch : 0 .. ByteSpace - 1,
                             timeTag : 0 .. WordSpace * WordSpace * WordSpace - 1,
                             phaMax : 0 .. WordSpace - 1, triggerCount : Nat,
                             waveform : Seq(0 .. WordSpace - 1)]
    /\ \A e \in EventKinds : Len(e.waveform) <= MaxWaveformLength
    \* the board counts in 32 bits
    /\ MaxEvents \in Nat /\ MaxEvents < WordSpace * WordSpace

VARIABLES
    sentEvents,     \* the events the board has sent
    feed,           \* their bytes that the host did not take yet
    fifo,           \* the socket: none (NULL), open, cut
    opens, cuts,
    readerPhase,    \* getEventData(): idle, or odd while it waits for one more byte
    chunk,          \* receiveBuffer while it waits
    decoder,        \* the EventDecoder
    held,           \* the event instances the program has, with what they held first
    seen,           \* the events getEvent() returned, in order
    programEnd      \* "exit" when the library ended the program

feedVars == <<sentEvents, feed>>
socketVars == <<fifo, opens, cuts>>
eventVars == <<feedVars, socketVars, readerPhase, chunk, decoder, held, seen, programEnd>>

-----------------------------------------------------------------------------
(* What the board sends.                                                   *)
FFF0 == WordSpace
FFF1 == WordSpace + 1
FFF2 == WordSpace + 2
FFFF == WordSpace + 3
HighWord(n) == (n \div WordSpace) % WordSpace
LowWord(n) == n % WordSpace
EventWords(e) ==
    <<FFF0, e.ch, 0, e.phaMax,
      HighWord(e.timeTag \div WordSpace), HighWord(e.timeTag), LowWord(e.timeTag),
      HighWord(e.triggerCount), LowWord(e.triggerCount), 0, FFF1>>
    \o e.waveform \o <<FFF2, FFFF>>
BytesOf(words) ==
    [i \in 1 .. 2 * Len(words) |-> [word |-> words[(i + 1) \div 2], half |-> 2 - (i % 2)]]
(* Two bytes make a word; those of two words make some other one.           *)
WordOf(a, b) == IF a.half = 1 /\ b.half = 2 /\ a.word = b.word THEN a.word ELSE 0

-----------------------------------------------------------------------------
(* EventDecoder.                                                           *)
NoRaw == [ch |-> 0, phaMax |-> 0, timeH |-> 0, timeM |-> 0, timeL |-> 0,
          triggerCountH |-> 0, triggerCountL |-> 0]
(* The states in which one word is one field, and the one that follows.     *)
FieldStates == <<"ch", "consumerID", "phaMax", "timeH", "timeM", "timeL",
                 "triggerCountH", "triggerCountL", "baseline">>
After(state) ==
    LET i == CHOOSE i \in DOMAIN FieldStates : FieldStates[i] = state
    IN  IF i = Len(FieldStates) THEN "flag_FFF1" ELSE FieldStates[i + 1]

NoInstance == [ch |-> 0, timeTag |-> 0, phaMax |-> 0, triggerCount |-> 0, waveform |-> <<>>]
InitialDecoder ==
    [state |-> "flag_FFF0", raw |-> NoRaw, waveform |-> <<>>,
     eventQueue |-> <<>>,
     eventInstanceResavoir |-> [i \in 1 .. InitialEventInstances |-> i],
     instances |-> [i \in 1 .. InitialEventInstances |-> NoInstance]]

EventOf(d) ==
    [ch |-> d.raw.ch % ByteSpace,
     timeTag |-> (d.raw.timeH * WordSpace + d.raw.timeM) * WordSpace + d.raw.timeL,
     phaMax |-> d.raw.phaMax,
     triggerCount |-> d.raw.triggerCountH * WordSpace + d.raw.triggerCountL,
     waveform |-> d.waveform]

PushEventToQueue(d) ==
    LET pool == d.eventInstanceResavoir
        fresh == pool = <<>>
        event == IF fresh THEN Len(d.instances) + 1 ELSE Last(pool)
    IN  [d EXCEPT !.instances = IF fresh THEN Append(@, EventOf(d))
                                ELSE [@ EXCEPT ![event] = EventOf(d)],
                  !.eventInstanceResavoir = IF fresh THEN @ ELSE Front(@),
                  !.eventQueue = Append(@, event)]

\* Faulty variant: the waveform of the last event is not cleared.
DecodeWordKeepsWaveform(d, w) ==
    CASE d.state = "flag_FFF0" -> [d EXCEPT !.state = IF w = FFF0 THEN "ch" ELSE @]
      [] d.state \in DOMAIN d.raw -> [d EXCEPT !.raw[d.state] = w, !.state = After(@)]
      [] d.state \in {"consumerID", "baseline"} -> [d EXCEPT !.state = After(@)]
      [] d.state = "flag_FFF1" -> [d EXCEPT !.state = IF w = FFF1 THEN "pha_list" ELSE @]
      [] d.state = "pha_list" /\ w = FFF2 -> [d EXCEPT !.state = "flag_FFFF"]
      [] d.state = "pha_list" /\ w # FFF2 -> [d EXCEPT !.waveform = Append(@, w)]
      [] d.state = "flag_FFFF" -> [PushEventToQueue(d) EXCEPT !.state = "flag_FFF0"]

(* One word, in the state the words before it left the decoder in.          *)
DecodeWord(d, w) ==
    CASE d.state = "flag_FFF0" ->
            [d EXCEPT !.waveform = <<>>, !.state = IF w = FFF0 THEN "ch" ELSE @]
      [] d.state \in DOMAIN d.raw -> [d EXCEPT !.raw[d.state] = w, !.state = After(@)]
      [] d.state \in {"consumerID", "baseline"} -> [d EXCEPT !.state = After(@)]
      [] d.state = "flag_FFF1" -> [d EXCEPT !.state = IF w = FFF1 THEN "pha_list" ELSE @]
      [] d.state = "pha_list" /\ w = FFF2 -> [d EXCEPT !.state = "flag_FFFF"]
      [] d.state = "pha_list" /\ w # FFF2 -> [d EXCEPT !.waveform = Append(@, w)]
      [] d.state = "flag_FFFF" -> [PushEventToQueue(d) EXCEPT !.state = "flag_FFF0"]

DecodeEvent(d, bytes) ==
    LET after[i \in 0 .. Len(bytes) \div 2] ==
          IF i = 0 THEN d ELSE DecodeWord(after[i - 1], WordOf(bytes[2 * i - 1], bytes[2 * i]))
    IN  after[Len(bytes) \div 2]

-----------------------------------------------------------------------------
EventInit ==
    /\ sentEvents = <<>> /\ feed = <<>>
    /\ fifo = "none" /\ opens = 0 /\ cuts = 0
    /\ readerPhase = "idle" /\ chunk = <<>>
    /\ decoder = InitialDecoder
    /\ held = {} /\ seen = <<>> /\ programEnd = "none"

(* The board sends an event, to the socket or into what it keeps for it.    *)
SendEvent ==
    /\ Len(sentEvents) < MaxEvents
    /\ \E kind \in EventKinds :
          LET e == [kind EXCEPT !.triggerCount = Len(sentEvents) + 1]
          IN  sentEvents' = Append(sentEvents, e) /\ feed' = feed \o BytesOf(EventWords(e))
    /\ UNCHANGED <<socketVars, readerPhase, chunk, decoder, held, seen, programEnd>>

(* The network cuts the connection; what was on its way is lost.            *)
Cut ==
    /\ fifo = "open" /\ cuts < MaxCuts
    /\ fifo' = "cut" /\ cuts' = cuts + 1 /\ feed' = <<>>
    /\ UNCHANGED <<sentEvents, opens, readerPhase, chunk, decoder, held, seen, programEnd>>

(* openSocket(), for openDevice() or for the first getEventData(): it reads  *)
(* away what is there, until nothing comes for the time of a timeout.        *)
OpenEventSocket ==
    /\ fifo = "none" /\ readerPhase = "idle" /\ programEnd = "none" /\ opens < MaxOpens
    /\ opens' = opens + 1
    /\ \/ /\ fifo' = "open"
          /\ \E n \in 0 .. Len(feed) :
                /\ OpensWhenQuiet => n = Len(feed)
                /\ feed' = SubSeq(feed, n + 1, Len(feed))
          /\ UNCHANGED <<cuts, programEnd>>
       \/ /\ cuts < MaxCuts /\ cuts' = cuts + 1
          /\ programEnd' = "exit"
          /\ UNCHANGED <<fifo, feed>>
    /\ UNCHANGED <<sentEvents, readerPhase, chunk, decoder, held, seen>>

CloseEventSocket ==
    /\ fifo # "none" /\ readerPhase = "idle" /\ programEnd = "none"
    /\ ClosesBetweenEvents => decoder.state = "flag_FFF0"
    /\ fifo' = "none"
    /\ UNCHANGED <<feedVars, opens, cuts, readerPhase, chunk, decoder, held, seen, programEnd>>

(* getEvent() with the bytes of getEventData(): it decodes them, and what    *)
(* the queue holds then becomes the caller's.  decodeEvent() ends the        *)
(* program when a byte is left over.                                        *)
GetDecodedEvents(d) == [d EXCEPT !.eventQueue = <<>>]
EventsIn(d) == [i \in DOMAIN d.eventQueue |-> d.instances[d.eventQueue[i]]]
Hands(bytes) ==
    \/ /\ Len(bytes) % 2 = 1
       /\ programEnd' = "exit"
       /\ UNCHANGED <<decoder, held, seen>>
    \/ /\ Len(bytes) % 2 = 0
       /\ \E d \in {DecodeEvent(decoder, bytes)} :
            /\ decoder' = GetDecodedEvents(d)
            /\ held' = held \cup {[instance |-> d.eventQueue[i], event |-> EventsIn(d)[i]] :
                                     i \in DOMAIN d.eventQueue}
            /\ seen' = seen \o EventsIn(d)
       /\ UNCHANGED programEnd

WaitsForOneMore(n) == n % 2 = 1

(* receive() returns what has come, any number of bytes up to the size of    *)
(* the buffer.  When nothing comes it times out, and getEvent() returns       *)
(* nothing and leaves everything as it was.                                  *)
GetEvent ==
    /\ fifo = "open" /\ readerPhase = "idle" /\ programEnd = "none"
    /\ \E n \in 1 .. ReceiveBufferSize :
        /\ n <= Len(feed)
        /\ feed' = SubSeq(feed, n + 1, Len(feed))
        /\ \/ /\ WaitsForOneMore(n)
              /\ readerPhase' = "odd" /\ chunk' = SubSeq(feed, 1, n)
              /\ UNCHANGED <<decoder, held, seen, programEnd>>
           \/ /\ ~WaitsForOneMore(n)
              /\ Hands(SubSeq(feed, 1, n))
              /\ UNCHANGED <<readerPhase, chunk>>
    /\ UNCHANGED <<sentEvents, socketVars>>

(* One more byte, however long it takes: every exception is caught and the   *)
(* receive() repeated, that of a cut connection too.                         *)
GetOneMore ==
    /\ fifo = "open" /\ readerPhase = "odd" /\ feed # <<>>
    /\ feed' = Tail(feed)
    /\ Hands(Append(chunk, Head(feed)))
    /\ readerPhase' = "idle" /\ chunk' = <<>>
    /\ UNCHANGED <<sentEvents, socketVars>>

FreeEvent ==
    /\ programEnd = "none"
    /\ \E h \in held :
        /\ held' = held \ {h}
        /\ decoder' = [decoder EXCEPT !.eventInstanceResavoir = Append(@, h.instance)]
    /\ UNCHANGED <<feedVars, socketVars, readerPhase, chunk, seen, programEnd>>

EventNext ==
    \/ SendEvent \/ Cut \/ OpenEventSocket \/ CloseEventSocket
    \/ GetEvent \/ GetOneMore \/ FreeEvent
(* The program keeps asking for events.                                     *)
EventFairness == WF_eventVars(GetEvent) /\ WF_eventVars(GetOneMore)
EventSpec == EventInit /\ [][EventNext]_eventVars /\ EventFairness

-----------------------------------------------------------------------------
(* Properties.                                                             *)

(* Every variable has values of its type, the decoder's states included.    *)
EventTypeOK ==
    /\ Len(sentEvents) <= MaxEvents
    /\ fifo \in {"none", "open", "cut"} /\ readerPhase \in {"idle", "odd"}
    /\ readerPhase = "odd" <=> Len(chunk) % 2 = 1
    /\ decoder.state \in ToSet(FieldStates) \cup {"flag_FFF0", "flag_FFF1", "pha_list",
                                                 "flag_FFFF"}
    /\ decoder.eventQueue = <<>>
    /\ ToSet(decoder.eventInstanceResavoir) \subseteq DOMAIN decoder.instances

(* The events that the program gets are events the board sent, whole, with  *)
(* their time, count and samples, in the order they were sent and none       *)
(* twice, in whatever pieces the bytes came and whatever was lost between.   *)
EventsAsSent ==
    /\ \A i \in DOMAIN seen : \E j \in DOMAIN sentEvents : seen[i] = sentEvents[j]
    /\ \A i, j \in DOMAIN seen : i < j => seen[i].triggerCount < seen[j].triggerCount

(* An event instance that the program has keeps what it held until the       *)
(* program frees it ("A freed Event instance will be reused to represent     *)
(* another event data"): no other event is decoded into it.                  *)
HeldEventsUnchanged ==
    \A h \in held :
        /\ decoder.instances[h.instance] = h.event
        /\ h.instance \notin ToSet(decoder.eventInstanceResavoir)

(* The decoder never writes past the end of a waveform, if the board sends   *)
(* none that is longer, however events follow each other.                    *)
WaveformFits == Len(decoder.waveform) <= MaxWaveformLength

(* The decoder never sees an odd number of bytes, for which it would end     *)
(* the program: only a socket that cannot be opened does.                    *)
NeverOdd == programEnd = "exit" => fifo = "none"

(* Events come out of the stream of bytes as the board sent them, in pieces *)
(* of any size, cut anywhere, over connections that each begin with an       *)
(* event: whole, in order, once, and each in an instance of its own until    *)
(* the program frees it.                                                     *)
EventInv == EventTypeOK /\ EventsAsSent /\ HeldEventsUnchanged /\ WaveformFits /\ NeverOdd
=============================================================================
