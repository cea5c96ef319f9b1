--------------------- MODULE SpaceFibreADCBoard_proofs ----------------------
(***************************************************************************)
(* Theorems about the SpaceFibre ADC board.                                *)
(*                                                                         *)
(* EventReadout: for words and bytes of any width, events with waveforms of *)
(* any length, and any number of events, pieces, cuts and instances that   *)
(* the program keeps.                                                      *)
(*                                                                         *)
(* SpaceFibreADCBoard: for any number of channels and of trials, registers *)
(* of any width, and any calls of the program that uses the board: one     *)
(* thread that does not open the device again while it is open (OneUser    *)
(* and ~RetriesOpen).  With two threads a method's registers are           *)
(* overwritten by the other's, and a device that is opened twice keeps the *)
(* engine of the first interface, which was deleted.                       *)
(***************************************************************************)
EXTENDS SpaceFibreADCBoard, EventReadout, CommonLemmas

-----------------------------------------------------------------------------
(* Numbers and words.                                                      *)

(* The quotient of a number below b times w is below b.                    *)
LEMMA QuotientBelow ==
    ASSUME NEW a \in Nat, NEW b \in Nat, NEW w \in Nat \ {0}, a < b * w
    PROVE  a \div w \in Nat /\ a \div w < b /\ a = w * (a \div w) + (a % w) /\ a % w \in 0 .. w - 1
  <1> DEFINE q == a \div w
             r == a % w
  <1>1. q \in Nat /\ r \in 0 .. w - 1 /\ a = w * q + r
    OBVIOUS
  <1> HIDE DEF q, r
  <1>2. ASSUME b <= q PROVE FALSE
    <2>1. PICK k \in Nat : q = b + k
      <3>1. q - b \in Nat /\ q = b + (q - b)
        BY <1>1, <1>2
      <3>2. QED BY <3>1
    <2>2. a = w * (b + k) + r
      BY <1>1, <2>1
    <2>3. w * (b + k) = w * b + w * k
      BY ONLY w \in Nat, b \in Nat, k \in Nat
    <2>4. w * k \in Nat /\ w * b \in Nat /\ b * w = w * b
      BY ONLY w \in Nat, b \in Nat, k \in Nat
    <2> DEFINE x == w * b
               y == w * k
    <2> HIDE DEF x, y
    <2>5. a = x + y + r /\ x \in Nat /\ y \in Nat /\ a < x
      BY <2>2, <2>3, <2>4 DEF x, y
    <2>6. QED BY ONLY <2>5, <1>1
  <1>3. q < b
    BY <1>1, <1>2
  <1>4. QED BY <1>1, <1>3 DEF q, r

(* A number below WordSpace squared is told by its high and its low word.        *)
LEMMA TwoWords ==
    ASSUME NEW n \in Nat, n < WordSpace * WordSpace
    PROVE  /\ HighWord(n) \in Nat /\ LowWord(n) \in Nat
           /\ HighWord(n) * WordSpace + LowWord(n) = n
  <1> DEFINE w == WordSpace
             q == n \div w
  <1>1. w \in Nat \ {0}
    BY EventReadoutAssumption
  <1>2. n < w * w
    OBVIOUS
  <1>3. q \in Nat /\ q < w /\ n = w * q + (n % w) /\ n % w \in 0 .. w - 1
    BY ONLY <1>1, <1>2, n \in Nat, QuotientBelow
  <1>4. q % w = q
    BY ONLY <1>1, <1>3
  <1>5. q * w = w * q
    BY ONLY <1>1, <1>3
  <1>6. QED BY <1>1, <1>3, <1>4, <1>5 DEF HighWord, LowWord

(* A number below its third power is told by three words.                      *)
LEMMA ThreeWords ==
    ASSUME NEW n \in Nat, n < WordSpace * WordSpace * WordSpace
    PROVE  /\ HighWord(n \div WordSpace) \in Nat /\ HighWord(n) \in Nat /\ LowWord(n) \in Nat
           /\ (HighWord(n \div WordSpace) * WordSpace + HighWord(n)) * WordSpace + LowWord(n) = n
  <1> DEFINE w == WordSpace
             q == n \div w
  <1>1. w \in Nat \ {0} /\ w * w \in Nat
    BY EventReadoutAssumption
  <1>2. n < (w * w) * w
    OBVIOUS
  <1>3. q \in Nat /\ q < w * w /\ n = w * q + (n % w) /\ n % w \in 0 .. w - 1
    BY ONLY <1>1, <1>2, n \in Nat, QuotientBelow
  <1>5. HighWord(q) \in Nat /\ LowWord(q) \in Nat /\ HighWord(q) * w + LowWord(q) = q
    BY <1>3, TwoWords
  <1>6. HighWord(n) = LowWord(q)
    BY DEF HighWord, LowWord
  <1>7. q * w = w * q
    BY ONLY <1>1, <1>3
  <1>8. LowWord(n) = n % w
    BY DEF LowWord
  <1> HIDE DEF q
  <1>9. (HighWord(q) * w + HighWord(n)) * w + LowWord(n) = n
    BY <1>3, <1>5, <1>6, <1>7, <1>8
  <1>10. HighWord(n) \in Nat /\ LowWord(n) \in Nat
    BY <1>3, <1>5, <1>6, <1>8
  <1>11. QED BY ONLY <1>5, <1>9, <1>10 DEF q, w

-----------------------------------------------------------------------------
(* Types, and what the board sends.                                        *)

Event == [ch : Nat, timeTag : Nat, phaMax : Nat, triggerCount : Nat, waveform : Seq(Nat)]
StreamByte == [word : Nat, half : {1, 2}]

\* An event of the board, with its count.
SentEvent(e) ==
    /\ e \in Event
    /\ e.ch < ByteSpace
    /\ e.timeTag < WordSpace * WordSpace * WordSpace
    /\ e.triggerCount < WordSpace * WordSpace
    /\ e.waveform \in Seq(0 .. WordSpace - 1) /\ Len(e.waveform) <= MaxWaveformLength

(* A sequence of elements of a set is one of elements of a larger set.      *)
LEMMA SeqOfLarger ==
    ASSUME NEW S, NEW T, S \subseteq T, NEW x \in Seq(S)
    PROVE  x \in Seq(T)
  <1>1. Len(x) \in Nat /\ x = [i \in 1 .. Len(x) |-> x[i]]
    OBVIOUS
  <1>2. \A i \in 1 .. Len(x) : x[i] \in T
    OBVIOUS
  <1>3. [i \in 1 .. Len(x) |-> x[i]] \in Seq(T)
    BY ONLY <1>1, <1>2
  <1>4. QED BY <1>1, <1>3

(* What a sequence joined of two holds.                                    *)
LEMMA Joined ==
    ASSUME NEW S, NEW s \in Seq(S), NEW t \in Seq(S)
    PROVE  /\ s \o t \in Seq(S) /\ Len(s \o t) = Len(s) + Len(t)
           /\ \A i \in 1 .. Len(s) : (s \o t)[i] = s[i]
           /\ \A i \in 1 .. Len(t) : (s \o t)[Len(s) + i] = t[i]
  OBVIOUS

(* Sequences of one length with the same elements are the same.            *)
LEMMA SameSequence ==
    ASSUME NEW S, NEW s \in Seq(S), NEW t \in Seq(S), Len(s) = Len(t),
           \A i \in 1 .. Len(s) : s[i] = t[i]
    PROVE  s = t
  <1>1. s = [i \in 1 .. Len(s) |-> s[i]] /\ t = [i \in 1 .. Len(t) |-> t[i]]
    OBVIOUS
  <1>2. [i \in 1 .. Len(s) |-> s[i]] = [i \in 1 .. Len(s) |-> t[i]]
    OBVIOUS
  <1>3. QED BY ONLY <1>1, <1>2, Len(s) = Len(t)

(* What a sequence holds to which an element was appended.                 *)
LEMMA Appended ==
    ASSUME NEW S, NEW s \in Seq(S), NEW a \in S
    PROVE  /\ Append(s, a) \in Seq(S) /\ Len(Append(s, a)) = Len(s) + 1
           /\ Append(s, a)[Len(s) + 1] = a
           /\ \A i \in 1 .. Len(s) : Append(s, a)[i] = s[i]
           /\ \A i \in 1 .. Len(s) + 1 : i \in 1 .. Len(s) \/ i = Len(s) + 1
  OBVIOUS

(* An event of one of the kinds, with its count.                           *)
LEMMA KindsBecomeEvents ==
    ASSUME NEW kind \in EventKinds, NEW n \in Nat, n < WordSpace * WordSpace
    PROVE  /\ SentEvent([kind EXCEPT !.triggerCount = n])
           /\ [kind EXCEPT !.triggerCount = n].triggerCount = n
  <1> DEFINE Words == 0 .. WordSpace - 1
             e == [kind EXCEPT !.triggerCount = n]
  <1>1. /\ kind \in [ch : 0 .. ByteSpace - 1,
                     timeTag : 0 .. WordSpace * WordSpace * WordSpace - 1,
                     phaMax : Words, triggerCount : Nat, waveform : Seq(Words)]
        /\ Len(kind.waveform) <= MaxWaveformLength
        /\ WordSpace \in Nat /\ ByteSpace \in Nat /\ WordSpace * WordSpace * WordSpace \in Nat
    BY EventReadoutAssumption
  <1>2. \A x \in Seq(Words) : x \in Seq(Nat)
    <2>1. Words \subseteq Nat
      BY <1>1
    <2> HIDE DEF Words
    <2>2. QED BY ONLY <2>1, SeqOfLarger
  <1>3. kind.waveform \in Seq(Words) /\ kind.waveform \in Seq(Nat)
    <2> HIDE DEF Words
    <2>1. QED BY <1>1, <1>2
  <1>4. kind.ch \in Nat /\ kind.ch < ByteSpace /\ kind.phaMax \in Nat
        /\ kind.timeTag \in Nat /\ kind.timeTag < WordSpace * WordSpace * WordSpace
    BY <1>1
  <1>5. e = [ch |-> kind.ch, timeTag |-> kind.timeTag, phaMax |-> kind.phaMax,
             triggerCount |-> n, waveform |-> kind.waveform]
    <2> HIDE DEF Words
    <2>1. PICK k : k = kind
      OBVIOUS
    <2>2. k = [ch |-> k.ch, timeTag |-> k.timeTag, phaMax |-> k.phaMax,
               triggerCount |-> k.triggerCount, waveform |-> k.waveform]
      BY ONLY <1>1, <2>1
    <2>3. [k EXCEPT !.triggerCount = n] = [ch |-> k.ch, timeTag |-> k.timeTag, phaMax |-> k.phaMax,
               triggerCount |-> n, waveform |-> k.waveform]
      BY ONLY <2>2
    <2>4. QED BY ONLY <2>1, <2>3
  <1> HIDE DEF e
  <1>6. SentEvent(e) /\ e.triggerCount = n
    <2>1. e \in Event
      BY <1>3, <1>4, <1>5 DEF Event
    <2>2. QED BY <1>1, <1>3, <1>4, <1>5, <2>1 DEF SentEvent
  <1>7. QED BY <1>6 DEF e

(* The words an event is sent as.                                          *)
LEMMA WordsOfEvent ==
    ASSUME NEW e, SentEvent(e)
    PROVE  LET L == Len(e.waveform)
               W == EventWords(e)
           IN  /\ L \in Nat /\ W \in Seq(Nat) /\ Len(W) = 13 + L
               /\ W[1] = FFF0 /\ W[2] = e.ch /\ W[3] = 0 /\ W[4] = e.phaMax
               /\ W[5] = HighWord(e.timeTag \div WordSpace) /\ W[6] = HighWord(e.timeTag)
               /\ W[7] = LowWord(e.timeTag) /\ W[8] = HighWord(e.triggerCount)
               /\ W[9] = LowWord(e.triggerCount) /\ W[10] = 0 /\ W[11] = FFF1
               /\ \A i \in 1 .. L : W[11 + i] = e.waveform[i] /\ W[11 + i] # FFF2
               /\ W[12 + L] = FFF2 /\ W[13 + L] = FFFF
  <1> DEFINE h == <<FFF0, e.ch, 0, e.phaMax,
                    HighWord(e.timeTag \div WordSpace), HighWord(e.timeTag), LowWord(e.timeTag),
                    HighWord(e.triggerCount), LowWord(e.triggerCount), 0, FFF1>>
             v == e.waveform
             t == <<FFF2, FFFF>>
  <1>1. e \in Event /\ WordSpace \in Nat
    BY EventReadoutAssumption DEF SentEvent
  <1>2. h \in Seq(Nat) /\ Len(h) = 11
    <2>1. HighWord(e.timeTag \div WordSpace) \in Nat /\ HighWord(e.timeTag) \in Nat
          /\ LowWord(e.timeTag) \in Nat
      BY <1>1, ThreeWords DEF SentEvent, Event
    <2>2. HighWord(e.triggerCount) \in Nat /\ LowWord(e.triggerCount) \in Nat
      BY <1>1, TwoWords DEF SentEvent, Event
    <2>3. e.ch \in Nat /\ e.phaMax \in Nat /\ FFF0 \in Nat /\ FFF1 \in Nat
      BY <1>1 DEF Event, FFF0, FFF1
    <2>4. QED BY <2>1, <2>2, <2>3
  <1>3. t \in Seq(Nat) /\ Len(t) = 2 /\ t[1] = FFF2 /\ t[2] = FFFF
    BY <1>1 DEF FFF2, FFFF
  <1>4. v \in Seq(Nat) /\ Len(v) \in Nat
    BY <1>1 DEF Event
  <1>5. \A i \in 1 .. Len(v) : v[i] # FFF2
    <2> DEFINE Words == 0 .. WordSpace - 1
    <2>1. v \in Seq(Words)
      BY DEF SentEvent
    <2> HIDE DEF Words
    <2>2. \A i \in 1 .. Len(v) : v[i] \in Words
      BY <2>1
    <2>3. FFF2 \notin Words
      BY <1>1 DEF Words, FFF2
    <2>4. QED BY <2>2, <2>3
  <1>6. EventWords(e) = h \o v \o t
    BY DEF EventWords
  <1>7. /\ h[1] = FFF0 /\ h[2] = e.ch /\ h[3] = 0 /\ h[4] = e.phaMax
        /\ h[5] = HighWord(e.timeTag \div WordSpace) /\ h[6] = HighWord(e.timeTag)
        /\ h[7] = LowWord(e.timeTag) /\ h[8] = HighWord(e.triggerCount)
        /\ h[9] = LowWord(e.triggerCount) /\ h[10] = 0 /\ h[11] = FFF1
    OBVIOUS
  <1> HIDE DEF h, v, t
  <1> DEFINE u == h \o v
             W == u \o t
  <1>8. /\ u \in Seq(Nat) /\ Len(u) = 11 + Len(v)
        /\ \A i \in 1 .. 11 : u[i] = h[i]
        /\ \A i \in 1 .. Len(v) : u[11 + i] = v[i]
    <2>1. /\ h \o v \in Seq(Nat) /\ Len(h \o v) = Len(h) + Len(v)
          /\ \A i \in 1 .. Len(h) : (h \o v)[i] = h[i]
          /\ \A i \in 1 .. Len(v) : (h \o v)[Len(h) + i] = v[i]
      <3>1. h \in Seq(Nat) /\ v \in Seq(Nat)
        BY <1>2, <1>4
      <3>2. QED BY ONLY <3>1, Joined
    <2> HIDE DEF u
    <2>2. QED BY <1>2, <2>1 DEF u
  <1> HIDE DEF u
  <1>9. /\ W \in Seq(Nat) /\ Len(W) = 13 + Len(v)
        /\ \A i \in 1 .. 11 + Len(v) : W[i] = u[i]
        /\ W[12 + Len(v)] = FFF2 /\ W[13 + Len(v)] = FFFF
    <2>1. /\ u \o t \in Seq(Nat) /\ Len(u \o t) = Len(u) + Len(t)
          /\ \A i \in 1 .. Len(u) : (u \o t)[i] = u[i]
          /\ \A i \in 1 .. Len(t) : (u \o t)[Len(u) + i] = t[i]
      <3>1. u \in Seq(Nat) /\ t \in Seq(Nat)
        BY <1>3, <1>8
      <3>2. QED BY ONLY <3>1, Joined
    <2> HIDE DEF W
    <2>2. /\ W \in Seq(Nat) /\ Len(W) = (11 + Len(v)) + 2
          /\ \A i \in 1 .. 11 + Len(v) : W[i] = u[i]
          /\ W[(11 + Len(v)) + 1] = FFF2 /\ W[(11 + Len(v)) + 2] = FFFF
      <3>1. 1 \in 1 .. Len(t) /\ 2 \in 1 .. Len(t)
        BY <1>3
      <3>2. QED BY ONLY <1>3, <1>8, <2>1, <3>1 DEF W
    <2>3. (11 + Len(v)) + 1 = 12 + Len(v) /\ (11 + Len(v)) + 2 = 13 + Len(v)
      BY <1>4
    <2>4. QED BY <2>2, <2>3
  <1> HIDE DEF W
  <1>10. /\ \A i \in 1 .. 11 : W[i] = h[i]
         /\ \A i \in 1 .. Len(v) : W[11 + i] = v[i]
    <2>1. \A i \in 1 .. 11 : i \in 1 .. 11 + Len(v)
      BY <1>4
    <2>2. \A i \in 1 .. Len(v) : 11 + i \in 1 .. 11 + Len(v)
      BY <1>4
    <2>3. QED BY ONLY <1>8, <1>9, <2>1, <2>2
  <1>11. EventWords(e) = W
    BY <1>6 DEF W, u
  <1>12. QED
    <2>1. /\ W[1] = FFF0 /\ W[2] = e.ch /\ W[3] = 0 /\ W[4] = e.phaMax
          /\ W[5] = HighWord(e.timeTag \div WordSpace) /\ W[6] = HighWord(e.timeTag)
          /\ W[7] = LowWord(e.timeTag) /\ W[8] = HighWord(e.triggerCount)
          /\ W[9] = LowWord(e.triggerCount) /\ W[10] = 0 /\ W[11] = FFF1
      BY ONLY <1>7, <1>10
    <2>2. \A i \in 1 .. Len(v) : W[11 + i] = v[i] /\ W[11 + i] # FFF2
      BY ONLY <1>5, <1>10
    <2>3. QED BY ONLY <1>4, <1>9, <1>11, <2>1, <2>2 DEF v

-----------------------------------------------------------------------------
(* The decoder, word by word.                                              *)

DecoderStates == {"flag_FFF0", "ch", "consumerID", "phaMax", "timeH", "timeM", "timeL",
                  "triggerCountH", "triggerCountL", "baseline", "flag_FFF1", "pha_list",
                  "flag_FFFF"}
Decoders ==
    [state : DecoderStates,
     raw : [ch : Nat, phaMax : Nat, timeH : Nat, timeM : Nat, timeL : Nat,
            triggerCountH : Nat, triggerCountL : Nat],
     waveform : Seq(Nat), eventQueue : Seq(Nat), eventInstanceResavoir : Seq(Nat),
     instances : Seq(Event)]

(* The fields of an event and their order.                                 *)
LEMMA FieldsInOrder ==
    /\ FieldStates[1] = "ch" /\ FieldStates[2] = "consumerID" /\ FieldStates[3] = "phaMax"
    /\ FieldStates[4] = "timeH" /\ FieldStates[5] = "timeM" /\ FieldStates[6] = "timeL"
    /\ FieldStates[7] = "triggerCountH" /\ FieldStates[8] = "triggerCountL"
    /\ FieldStates[9] = "baseline"
    /\ \A k \in 1 .. 9 : After(FieldStates[k]) = IF k = 9 THEN "flag_FFF1" ELSE FieldStates[k + 1]
  <1>1. /\ DOMAIN FieldStates = 1 .. 9 /\ Len(FieldStates) = 9
        /\ FieldStates[1] = "ch" /\ FieldStates[2] = "consumerID" /\ FieldStates[3] = "phaMax"
        /\ FieldStates[4] = "timeH" /\ FieldStates[5] = "timeM" /\ FieldStates[6] = "timeL"
        /\ FieldStates[7] = "triggerCountH" /\ FieldStates[8] = "triggerCountL"
        /\ FieldStates[9] = "baseline"
    BY DEF FieldStates
  <1>2. \A i, k \in 1 .. 9 : FieldStates[i] = FieldStates[k] => i = k
    BY <1>1
  <1>3. ASSUME NEW k \in 1 .. 9
        PROVE  After(FieldStates[k]) = IF k = 9 THEN "flag_FFF1" ELSE FieldStates[k + 1]
    <2>1. (CHOOSE i \in DOMAIN FieldStates : FieldStates[i] = FieldStates[k]) = k
      BY <1>1, <1>2
    <2>2. QED BY <1>1, <2>1 DEF After
  <1>4. QED BY <1>1, <1>3

\* What the decoder has of the event e after j of its words.
StateAfter(e, j) ==
    CASE j \in 1 .. 9 -> FieldStates[j]
      [] j = 10 -> "flag_FFF1"
      [] j \in 11 .. 11 + Len(e.waveform) -> "pha_list"
      [] j = 12 + Len(e.waveform) -> "flag_FFFF"
      [] OTHER -> "flag_FFF0"
FieldsAfter(d, e, j) ==
    /\ j >= 2 => d.raw.ch = e.ch
    /\ j >= 4 => d.raw.phaMax = e.phaMax
    /\ j >= 5 => d.raw.timeH = HighWord(e.timeTag \div WordSpace)
    /\ j >= 6 => d.raw.timeM = HighWord(e.timeTag)
    /\ j >= 7 => d.raw.timeL = LowWord(e.timeTag)
    /\ j >= 8 => d.raw.triggerCountH = HighWord(e.triggerCount)
    /\ j >= 9 => d.raw.triggerCountL = LowWord(e.triggerCount)
SamplesAfter(j, e) ==
    IF j <= 11 THEN 0 ELSE IF j = 12 + Len(e.waveform) THEN Len(e.waveform) ELSE j - 11
WaveformAfter(d, e, j) ==
    j > 0 => /\ Len(d.waveform) = SamplesAfter(j, e)
             /\ \A i \in 1 .. Len(d.waveform) : d.waveform[i] = e.waveform[i]
Inside(d, e, j) ==
    d.state = StateAfter(e, j) /\ FieldsAfter(d, e, j) /\ WaveformAfter(d, e, j)

(* A word of an event, but the last, takes the decoder one word further; it *)
(* touches neither the instances nor the queue.                             *)
LEMMA WordIsTaken ==
    ASSUME NEW d \in Decoders, NEW e, SentEvent(e), NEW j \in 0 .. 11 + Len(e.waveform),
           Inside(d, e, j), Len(d.waveform) <= MaxWaveformLength
    PROVE  LET x == DecodeWord(d, EventWords(e)[j + 1])
           IN  /\ x \in Decoders /\ Inside(x, e, j + 1) /\ Len(x.waveform) <= MaxWaveformLength
               /\ x.eventQueue = d.eventQueue /\ x.instances = d.instances
               /\ x.eventInstanceResavoir = d.eventInstanceResavoir
  <1> DEFINE L == Len(e.waveform)
             w == EventWords(e)[j + 1]
             x == DecodeWord(d, w)
  <1>1. /\ L \in Nat /\ e \in Event /\ j \in Nat /\ j <= 11 + L /\ MaxWaveformLength \in Nat
        /\ L <= MaxWaveformLength
    BY WordsOfEvent, EventReadoutAssumption DEF SentEvent
  <1>a. LET W == EventWords(e)
        IN  /\ W[2] = e.ch /\ W[4] = e.phaMax
            /\ W[5] = HighWord(e.timeTag \div WordSpace) /\ W[6] = HighWord(e.timeTag)
            /\ W[7] = LowWord(e.timeTag) /\ W[8] = HighWord(e.triggerCount)
            /\ W[9] = LowWord(e.triggerCount)
            /\ \A i \in 1 .. L : W[11 + i] = e.waveform[i] /\ W[11 + i] # FFF2
    BY WordsOfEvent
  <1>2. w \in Nat
    <2>1. EventWords(e) \in Seq(Nat) /\ j + 1 \in 1 .. Len(EventWords(e))
      <3>1. EventWords(e) \in Seq(Nat) /\ Len(EventWords(e)) = 13 + L
        BY ONLY <1>1, WordsOfEvent, SentEvent(e)
      <3>2. QED BY ONLY <1>1, <3>1
    <2>2. QED BY <2>1
  <1>3. CASE j = 0
    <2>1. w = FFF0 /\ d.state = "flag_FFF0"
      BY <1>1, <1>3, WordsOfEvent DEF Inside, StateAfter
    <2>2. x = [d EXCEPT !.waveform = <<>>, !.state = "ch"]
      <3> HIDE DEF w
      <3>1. d.state \notin DOMAIN d.raw
        BY <2>1 DEF Decoders
      <3>2. DecodeWord(d, w) =
              [d EXCEPT !.waveform = <<>>, !.state = IF w = FFF0 THEN "ch" ELSE @]
        BY <2>1, <3>1, Zenon DEF DecodeWord
      <3>3. QED BY <2>1, <3>2
    <2> DEFINE v == <<>>
    <2>3. v \in Seq(Nat) /\ Len(v) = 0 /\ "ch" \in DecoderStates
      BY DEF DecoderStates
    <2>4. x = [d EXCEPT !.waveform = v, !.state = "ch"]
      BY <2>2
    <2> HIDE DEF x, v
    <2>5. /\ x \in Decoders /\ x.waveform = v /\ x.state = "ch"
          /\ x.eventQueue = d.eventQueue /\ x.instances = d.instances
          /\ x.eventInstanceResavoir = d.eventInstanceResavoir
      BY <2>3, <2>4 DEF Decoders
    <2>6. Inside(x, e, 1)
      BY <2>3, <2>5, FieldsInOrder DEF Inside, StateAfter, FieldsAfter, WaveformAfter, SamplesAfter
    <2>7. QED BY <1>1, <1>3, <2>3, <2>5, <2>6 DEF x
  <1>4. CASE j \in {1, 3, 4, 5, 6, 7, 8}
    <2> DEFINE f == d.state
    <2>a. j \in 1 .. 8 /\ j + 1 \in 1 .. 9 /\ j # 9
      BY <1>4
    <2>1. /\ f \in {"ch", "phaMax", "timeH", "timeM", "timeL", "triggerCountH", "triggerCountL"}
          /\ f = FieldStates[j] /\ f # "flag_FFF0"
      <3>1. f = FieldStates[j]
        BY <2>a DEF Inside, StateAfter
      <3>2. QED BY <1>4, <3>1, FieldsInOrder
    <2>2. f \in DOMAIN d.raw
      BY <2>1 DEF Decoders
    <2>3. x = [d EXCEPT !.raw[f] = w, !.state = After(f)]
      BY <2>1, <2>2 DEF DecodeWord
    <2>4. After(f) = StateAfter(e, j + 1) /\ After(f) = FieldStates[j + 1]
      <3>1. After(f) = FieldStates[j + 1]
        BY <2>a, <2>1, FieldsInOrder
      <3>2. QED BY <2>a, <3>1 DEF StateAfter
    <2>5. After(f) \in DecoderStates
      BY <1>4, <2>4, FieldsInOrder DEF DecoderStates
    <2> DEFINE r == [d.raw EXCEPT ![f] = w]
    <2>6. r \in [ch : Nat, phaMax : Nat, timeH : Nat, timeM : Nat, timeL : Nat,
                 triggerCountH : Nat, triggerCountL : Nat]
      BY <1>2, <2>1 DEF Decoders
    <2>7. /\ r.ch = IF f = "ch" THEN w ELSE d.raw.ch
          /\ r.phaMax = IF f = "phaMax" THEN w ELSE d.raw.phaMax
          /\ r.timeH = IF f = "timeH" THEN w ELSE d.raw.timeH
          /\ r.timeM = IF f = "timeM" THEN w ELSE d.raw.timeM
          /\ r.timeL = IF f = "timeL" THEN w ELSE d.raw.timeL
          /\ r.triggerCountH = IF f = "triggerCountH" THEN w ELSE d.raw.triggerCountH
          /\ r.triggerCountL = IF f = "triggerCountL" THEN w ELSE d.raw.triggerCountL
      BY <2>1 DEF Decoders
    <2> HIDE DEF r
    <2>8. x = [d EXCEPT !.raw = r, !.state = After(f)]
      BY <2>3 DEF r
    <2> HIDE DEF x
    <2>9. /\ x \in Decoders /\ x.waveform = d.waveform /\ x.state = After(f) /\ x.raw = r
          /\ x.eventQueue = d.eventQueue /\ x.instances = d.instances
          /\ x.eventInstanceResavoir = d.eventInstanceResavoir
      BY <2>5, <2>6, <2>8 DEF Decoders
    <2>10. FieldsAfter(x, e, j + 1)
      <3> HIDE DEF f, w
      <3>1. FieldsAfter(d, e, j)
        BY DEF Inside
      <3>2. /\ j = 1 => f = "ch" /\ w = e.ch
            /\ j = 3 => f = "phaMax" /\ w = e.phaMax
            /\ j = 4 => f = "timeH" /\ w = HighWord(e.timeTag \div WordSpace)
            /\ j = 5 => f = "timeM" /\ w = HighWord(e.timeTag)
            /\ j = 6 => f = "timeL" /\ w = LowWord(e.timeTag)
            /\ j = 7 => f = "triggerCountH" /\ w = HighWord(e.triggerCount)
            /\ j = 8 => f = "triggerCountL" /\ w = LowWord(e.triggerCount)
        <4> DEFINE W == EventWords(e)
        <4>1. w = W[j + 1]
          BY DEF w
        <4>2. f = FieldStates[j]
          BY <2>1
        <4> HIDE DEF W
        <4>3. QED BY <1>a, <4>1, <4>2, FieldsInOrder DEF W
      <3>3. QED BY ONLY <1>4, <2>7, <2>9, <3>1, <3>2 DEF FieldsAfter
    <2>11. WaveformAfter(x, e, j + 1)
      <3>1. Len(d.waveform) = 0
        BY <1>4 DEF Inside, WaveformAfter, SamplesAfter
      <3>2. QED BY <1>4, <2>9, <3>1 DEF WaveformAfter, SamplesAfter
    <2>12. Inside(x, e, j + 1)
      BY <2>4, <2>9, <2>10, <2>11 DEF Inside
    <2>13. QED BY <2>9, <2>12 DEF x
  <1>5. CASE j \in {2, 9}
    <2>1. d.state = StateAfter(e, j) /\ d.state \in {"consumerID", "baseline"}
      BY <1>5, FieldsInOrder DEF Inside, StateAfter
    <2>2. d.state \notin DOMAIN d.raw
      BY <2>1 DEF Decoders
    <2>3. x = [d EXCEPT !.state = After(d.state)]
      BY <2>1, <2>2 DEF DecodeWord
    <2>4. After(d.state) = StateAfter(e, j + 1) /\ After(d.state) \in DecoderStates
      BY <1>5, <2>1, FieldsInOrder DEF StateAfter, DecoderStates
    <2> HIDE DEF x
    <2>5. /\ x \in Decoders /\ x.waveform = d.waveform /\ x.state = After(d.state) /\ x.raw = d.raw
          /\ x.eventQueue = d.eventQueue /\ x.instances = d.instances
          /\ x.eventInstanceResavoir = d.eventInstanceResavoir
      BY <2>3, <2>4 DEF Decoders
    <2>6. FieldsAfter(x, e, j + 1) /\ WaveformAfter(x, e, j + 1)
      BY <1>1, <1>5, <2>5 DEF Inside, FieldsAfter, WaveformAfter, SamplesAfter
    <2>7. QED BY <2>4, <2>5, <2>6 DEF Inside, x
  <1>6. CASE j = 10
    <2>1. d.state = "flag_FFF1" /\ w = FFF1
      BY <1>6, WordsOfEvent DEF Inside, StateAfter
    <2>2. d.state \notin DOMAIN d.raw
      BY <2>1 DEF Decoders
    <2>3. x = [d EXCEPT !.state = "pha_list"]
      BY <2>1, <2>2 DEF DecodeWord
    <2> HIDE DEF x
    <2>4. /\ x \in Decoders /\ x.waveform = d.waveform /\ x.state = "pha_list" /\ x.raw = d.raw
          /\ x.eventQueue = d.eventQueue /\ x.instances = d.instances
          /\ x.eventInstanceResavoir = d.eventInstanceResavoir
      BY <2>3 DEF Decoders, DecoderStates
    <2>5. FieldsAfter(x, e, j + 1) /\ WaveformAfter(x, e, j + 1)
      BY <1>1, <1>6, <2>4 DEF Inside, FieldsAfter, WaveformAfter, SamplesAfter
    <2>6. StateAfter(e, j + 1) = "pha_list"
      BY <1>1, <1>6 DEF StateAfter
    <2>7. QED BY <2>4, <2>5, <2>6 DEF Inside, x
  <1>7. CASE j >= 11
    <2>1. d.state = "pha_list"
      BY <1>1, <1>7 DEF Inside, StateAfter
    <2>2. d.state \notin DOMAIN d.raw
      BY <2>1 DEF Decoders
    <2>3. /\ d.waveform \in Seq(Nat) /\ Len(d.waveform) = j - 11
          /\ \A i \in 1 .. Len(d.waveform) : d.waveform[i] = e.waveform[i]
      <3>1. SamplesAfter(j, e) = j - 11
        BY <1>1, <1>7 DEF SamplesAfter
      <3>2. d.waveform \in Seq(Nat)
        BY DEF Decoders
      <3>3. Len(d.waveform) = SamplesAfter(j, e)
            /\ \A i \in 1 .. Len(d.waveform) : d.waveform[i] = e.waveform[i]
        BY ONLY <1>1, <1>7, Inside(d, e, j) DEF Inside, WaveformAfter
      <3>4. QED BY ONLY <3>1, <3>2, <3>3
    <2>4. CASE j < 11 + L
      <3>1. w = e.waveform[j - 10] /\ w # FFF2
        <4>1. j - 10 \in 1 .. L /\ 11 + (j - 10) = j + 1
          BY <1>1, <1>7, <2>4
        <4>2. QED BY <1>a, <4>1
      <3>2. x = [d EXCEPT !.waveform = Append(d.waveform, w)]
        BY <2>1, <2>2, <3>1 DEF DecodeWord
      <3> HIDE DEF x, w
      <3> DEFINE v == Append(d.waveform, w)
      <3>3. /\ v \in Seq(Nat) /\ Len(v) = j - 10
            /\ \A i \in 1 .. Len(v) : v[i] = e.waveform[i]
        <4>1. /\ v \in Seq(Nat) /\ Len(v) = Len(d.waveform) + 1 /\ v[Len(d.waveform) + 1] = w
              /\ \A i \in 1 .. Len(d.waveform) : v[i] = d.waveform[i]
          <5>1. d.waveform \in Seq(Nat)
            BY <2>3
          <5>2. QED BY ONLY <1>2, <5>1
        <4> HIDE DEF v
        <4>2. Len(v) = j - 10
          BY <1>1, <1>7, <2>3, <4>1
        <4>3. ASSUME NEW i \in 1 .. Len(v) PROVE v[i] = e.waveform[i]
          <5>1. CASE i = j - 10
            BY <1>1, <1>7, <2>3, <3>1, <4>1, <5>1
          <5>2. CASE i # j - 10
            <6>1. i \in 1 .. Len(d.waveform)
              BY <1>1, <1>7, <2>3, <4>2, <5>2
            <6>2. QED BY <2>3, <4>1, <6>1
          <5>3. QED BY <5>1, <5>2
        <4>4. QED BY <4>1, <4>2, <4>3
      <3> HIDE DEF v
      <3>4. /\ x \in Decoders /\ x.waveform = v /\ x.state = "pha_list" /\ x.raw = d.raw
            /\ x.eventQueue = d.eventQueue /\ x.instances = d.instances
            /\ x.eventInstanceResavoir = d.eventInstanceResavoir
        BY <2>1, <3>2, <3>3 DEF Decoders, DecoderStates, v
      <3>5. FieldsAfter(x, e, j + 1) /\ WaveformAfter(x, e, j + 1)
        BY <1>1, <1>7, <2>4, <3>3, <3>4 DEF Inside, FieldsAfter, WaveformAfter, SamplesAfter
      <3>6. StateAfter(e, j + 1) = "pha_list"
        BY <1>1, <1>7, <2>4 DEF StateAfter
      <3>7. Len(x.waveform) <= MaxWaveformLength
        BY <1>1, <2>4, <3>3, <3>4
      <3>8. QED BY <3>4, <3>5, <3>6, <3>7 DEF Inside, x, w
    <2>5. CASE j = 11 + L
      <3>1. w = FFF2
        <4>1. j + 1 = 12 + L
          BY <1>1, <2>5
        <4>2. QED BY <4>1, WordsOfEvent
      <3>2. x = [d EXCEPT !.state = "flag_FFFF"]
        BY <2>1, <2>2, <3>1 DEF DecodeWord
      <3> HIDE DEF x, w
      <3>3. /\ x \in Decoders /\ x.waveform = d.waveform /\ x.state = "flag_FFFF"
            /\ x.raw = d.raw
            /\ x.eventQueue = d.eventQueue /\ x.instances = d.instances
            /\ x.eventInstanceResavoir = d.eventInstanceResavoir
        BY <3>2 DEF Decoders, DecoderStates
      <3>4. FieldsAfter(x, e, j + 1) /\ WaveformAfter(x, e, j + 1)
        BY <1>1, <1>7, <2>3, <2>5, <3>3 DEF Inside, FieldsAfter, WaveformAfter, SamplesAfter
      <3>5. StateAfter(e, j + 1) = "flag_FFFF"
        BY <1>1, <2>5 DEF StateAfter
      <3>6. QED BY <3>3, <3>4, <3>5 DEF Inside, x, w
    <2>6. QED BY <1>1, <2>4, <2>5
  <1>8. QED BY <1>1, <1>3, <1>4, <1>5, <1>6, <1>7

-----------------------------------------------------------------------------
(* Event instances: each is in the pool, in the queue, or with the program. *)

InstancesOK(pool, queue, instances, h) ==
    /\ \A i \in 1 .. Len(pool) : pool[i] \in 1 .. Len(instances)
    /\ \A i, k \in 1 .. Len(pool) : pool[i] = pool[k] => i = k
    /\ \A i \in 1 .. Len(queue) : queue[i] \in 1 .. Len(instances)
    /\ \A i, k \in 1 .. Len(queue) : queue[i] = queue[k] => i = k
    /\ \A i \in 1 .. Len(pool), k \in 1 .. Len(queue) : pool[i] # queue[k]
    /\ \A x \in h :
          /\ x.instance \in 1 .. Len(instances) /\ instances[x.instance] = x.event
          /\ \A i \in 1 .. Len(pool) : pool[i] # x.instance
          /\ \A i \in 1 .. Len(queue) : queue[i] # x.instance
    /\ \A x, y \in h : x.instance = y.instance => x = y
InstancesInv(d, h) ==
    InstancesOK(d.eventInstanceResavoir, d.eventQueue, d.instances, h)

(* What the queue holds are events.                                        *)
LEMMA EventsInAreEvents ==
    ASSUME NEW d \in Decoders, NEW h, InstancesInv(d, h)
    PROVE  /\ EventsIn(d) \in Seq(Event) /\ Len(EventsIn(d)) = Len(d.eventQueue)
           /\ \A i \in 1 .. Len(d.eventQueue) : EventsIn(d)[i] = d.instances[d.eventQueue[i]]
  <1>1. d.eventQueue \in Seq(Nat) /\ d.instances \in Seq(Event)
    BY DEF Decoders
  <1>2. DOMAIN d.eventQueue = 1 .. Len(d.eventQueue) /\ Len(d.eventQueue) \in Nat
    BY <1>1
  <1>3. EventsIn(d) = [i \in 1 .. Len(d.eventQueue) |-> d.instances[d.eventQueue[i]]]
    BY <1>2 DEF EventsIn
  <1>4. \A i \in 1 .. Len(d.eventQueue) : d.instances[d.eventQueue[i]] \in Event
    <2> HIDE DEF Event
    <2>1. \A i \in 1 .. Len(d.eventQueue) : d.eventQueue[i] \in 1 .. Len(d.instances)
      BY DEF InstancesInv, InstancesOK
    <2>2. QED BY <1>1, <2>1
  <1>5. QED
    BY <1>2, <1>3, <1>4

(* The last word of an event puts the event, as it was sent, into an        *)
(* instance that nobody else has.                                           *)
LEMMA EventIsPushed ==
    ASSUME NEW d \in Decoders, NEW e, SentEvent(e), Inside(d, e, 12 + Len(e.waveform)),
           NEW h, InstancesInv(d, h), NEW w
    PROVE  LET x == DecodeWord(d, w)
           IN  /\ x \in Decoders /\ x.state = "flag_FFF0" /\ x.waveform = d.waveform
               /\ InstancesInv(x, h) /\ EventsIn(x) = Append(EventsIn(d), e)
  <1> DEFINE L == Len(e.waveform)
             x == DecodeWord(d, w)
             pool == d.eventInstanceResavoir
             event == IF pool = <<>> THEN Len(d.instances) + 1 ELSE Last(pool)
  <1>1. L \in Nat /\ e \in Event
    BY WordsOfEvent DEF SentEvent
  <1>2. d.state = "flag_FFFF"
    BY <1>1 DEF Inside, StateAfter
  <1>3. EventOf(d) = e
    <2>1. /\ d.raw.ch = e.ch /\ d.raw.phaMax = e.phaMax
          /\ d.raw.timeH = HighWord(e.timeTag \div WordSpace)
          /\ d.raw.timeM = HighWord(e.timeTag) /\ d.raw.timeL = LowWord(e.timeTag)
          /\ d.raw.triggerCountH = HighWord(e.triggerCount)
          /\ d.raw.triggerCountL = LowWord(e.triggerCount)
      BY <1>1 DEF Inside, FieldsAfter
    <2>2. d.raw.ch % ByteSpace = e.ch
      <3>1. e.ch \in Nat /\ e.ch < ByteSpace /\ ByteSpace \in Nat \ {0}
        BY <1>1, EventReadoutAssumption DEF SentEvent, Event
      <3>2. \A c, b \in Nat : b # 0 /\ c < b => c % b = c
        OBVIOUS
      <3>3. QED BY ONLY <2>1, <3>1, <3>2
    <2>3. (d.raw.timeH * WordSpace + d.raw.timeM) * WordSpace + d.raw.timeL = e.timeTag
      BY <1>1, <2>1, ThreeWords DEF SentEvent, Event
    <2>4. d.raw.triggerCountH * WordSpace + d.raw.triggerCountL = e.triggerCount
      BY <1>1, <2>1, TwoWords DEF SentEvent, Event
    <2>5. d.waveform = e.waveform
      <3>1. d.waveform \in Seq(Nat) /\ e.waveform \in Seq(Nat)
        BY <1>1 DEF Decoders, Event
      <3>2. /\ Len(d.waveform) = Len(e.waveform)
            /\ \A i \in 1 .. Len(d.waveform) : d.waveform[i] = e.waveform[i]
        BY <1>1 DEF Inside, WaveformAfter, SamplesAfter
      <3> DEFINE s == d.waveform
                 t == e.waveform
      <3> HIDE DEF s, t
      <3>3. s \in Seq(Nat) /\ t \in Seq(Nat) /\ Len(s) = Len(t)
            /\ \A i \in 1 .. Len(s) : s[i] = t[i]
        BY ONLY <3>1, <3>2 DEF s, t
      <3>4. s = t
        BY ONLY <3>3, SameSequence
      <3>5. QED BY ONLY <3>4 DEF s, t
    <2>6. e = [ch |-> e.ch, timeTag |-> e.timeTag, phaMax |-> e.phaMax,
               triggerCount |-> e.triggerCount, waveform |-> e.waveform]
      BY <1>1 DEF Event
    <2>7. QED BY <2>1, <2>2, <2>3, <2>4, <2>5, <2>6 DEF EventOf
  <1>4. d.state \notin DOMAIN d.raw
    BY <1>2 DEF Decoders
  <1>5. x = [PushEventToQueue(d) EXCEPT !.state = "flag_FFF0"]
    BY <1>2, <1>4 DEF DecodeWord
  <1> DEFINE queue == d.eventQueue
             instances == d.instances
             newInstances == IF pool = <<>> THEN Append(instances, e)
                             ELSE [instances EXCEPT ![event] = e]
             newPool == IF pool = <<>> THEN pool ELSE Front(pool)
             newQueue == Append(queue, event)
  <1>6. PushEventToQueue(d) =
          [d EXCEPT !.instances = newInstances, !.eventInstanceResavoir = newPool,
                    !.eventQueue = newQueue]
    BY <1>3 DEF PushEventToQueue
  <1>7. pool \in Seq(Nat) /\ queue \in Seq(Nat) /\ instances \in Seq(Event)
    BY DEF Decoders
  <1>8. /\ \A i \in 1 .. Len(pool) : pool[i] \in 1 .. Len(instances)
        /\ \A i, k \in 1 .. Len(pool) : pool[i] = pool[k] => i = k
        /\ \A i \in 1 .. Len(queue) : queue[i] \in 1 .. Len(instances)
        /\ \A i, k \in 1 .. Len(queue) : queue[i] = queue[k] => i = k
        /\ \A i \in 1 .. Len(pool), k \in 1 .. Len(queue) : pool[i] # queue[k]
        /\ \A y \in h :
              /\ y.instance \in 1 .. Len(instances) /\ instances[y.instance] = y.event
              /\ \A i \in 1 .. Len(pool) : pool[i] # y.instance
              /\ \A i \in 1 .. Len(queue) : queue[i] # y.instance
        /\ \A y, z \in h : y.instance = z.instance => y = z
    BY DEF InstancesInv, InstancesOK
  <1>9. /\ \A i \in 1 .. Len(queue) : queue[i] # event
        /\ \A y \in h : y.instance # event
        /\ newInstances \in Seq(Event) /\ newPool \in Seq(Nat) /\ newQueue \in Seq(Nat)
        /\ event \in 1 .. Len(newInstances) /\ newInstances[event] = e
        /\ Len(newInstances) >= Len(instances)
        /\ \A i \in 1 .. Len(instances) : i # event => newInstances[i] = instances[i]
        /\ \A i \in 1 .. Len(newPool) :
              i \in 1 .. Len(pool) /\ newPool[i] = pool[i] /\ newPool[i] # event
        /\ Len(newQueue) = Len(queue) + 1 /\ newQueue[Len(queue) + 1] = event
        /\ \A i \in 1 .. Len(queue) : newQueue[i] = queue[i]
    <2> HIDE DEF pool, queue, instances, x
    <2>1. CASE pool = <<>>
      <3>1. event = Len(instances) + 1 /\ newInstances = Append(instances, e) /\ newPool = <<>>
        <4>1. event = Len(instances) + 1
          BY <2>1, Zenon DEF instances
        <4>2. newInstances = Append(instances, e)
          BY <2>1, Zenon
        <4>3. newPool = <<>>
          BY <2>1, Zenon
        <4>4. QED BY ONLY <4>1, <4>2, <4>3
      <3> HIDE DEF newInstances, newPool, event
      <3>2. /\ newInstances \in Seq(Event) /\ event \in 1 .. Len(newInstances)
            /\ newInstances[event] = e /\ Len(newInstances) >= Len(instances)
            /\ \A i \in 1 .. Len(instances) : i # event => newInstances[i] = instances[i]
            /\ event \in Nat /\ event \notin 1 .. Len(instances)
        BY ONLY <1>1, <1>7, <3>1
      <3>3. newPool \in Seq(Nat) /\ Len(newPool) = 0
        BY ONLY <3>1
      <3>4. /\ Len(newQueue) = Len(queue) + 1 /\ newQueue[Len(queue) + 1] = event
            /\ newQueue \in Seq(Nat)
            /\ \A i \in 1 .. Len(queue) : newQueue[i] = queue[i]
        BY ONLY <1>7, <3>2
      <3> HIDE DEF newQueue
      <3>5. \A i \in 1 .. Len(newPool) : FALSE
        BY <3>3
      <3>6. QED BY ONLY <1>8, <3>2, <3>3, <3>4, <3>5
    <2>2. CASE pool # <<>>
      <3>1. event = pool[Len(pool)] /\ newInstances = [instances EXCEPT ![event] = e]
            /\ newPool = SubSeq(pool, 1, Len(pool) - 1)
        BY <2>2 DEF Last, Front
      <3> HIDE DEF newInstances, newPool, event
      <3>2. Len(pool) \in 1 .. Len(pool) /\ Len(pool) \in Nat
        BY ONLY <1>7, <2>2
      <3>3. event \in 1 .. Len(instances) /\ event \in Nat /\ Len(instances) \in Nat
        BY ONLY <1>7, <1>8, <3>1, <3>2
      <3>4. /\ newInstances \in Seq(Event) /\ Len(newInstances) = Len(instances)
            /\ newInstances[event] = e
            /\ \A i \in 1 .. Len(instances) : i # event => newInstances[i] = instances[i]
        BY ONLY <1>1, <1>7, <3>1, <3>3
      <3>5. /\ newPool \in Seq(Nat) /\ Len(newPool) = Len(pool) - 1
            /\ \A i \in 1 .. Len(pool) - 1 : newPool[i] = pool[i]
        <4>1. Len(pool) - 1 \in Nat /\ Len(pool) - 1 <= Len(pool)
              /\ \A i \in 1 .. Len(pool) - 1 : i \in 1 .. Len(pool)
          BY ONLY <3>2
        <4>2. \A i \in 1 .. Len(pool) : pool[i] \in Nat
          BY ONLY <1>7
        <4>3. newPool = [i \in 1 .. Len(pool) - 1 |-> pool[i]]
          <5>1. SubSeq(pool, 1, Len(pool) - 1) = [i \in 1 .. Len(pool) - 1 |-> pool[i]]
            BY ONLY <1>7, <4>1
          <5>2. QED BY ONLY <3>1, <5>1
        <4>4. QED BY ONLY <4>1, <4>2, <4>3
      <3>6. \A i \in 1 .. Len(newPool) :
              i \in 1 .. Len(pool) /\ newPool[i] = pool[i] /\ newPool[i] # event
        BY ONLY <1>8, <3>1, <3>2, <3>5
      <3>7. /\ Len(newQueue) = Len(queue) + 1 /\ newQueue[Len(queue) + 1] = event
            /\ newQueue \in Seq(Nat)
            /\ \A i \in 1 .. Len(queue) : newQueue[i] = queue[i]
        BY ONLY <1>7, <3>3
      <3>8. /\ \A i \in 1 .. Len(queue) : queue[i] # event
            /\ \A y \in h : y.instance # event
        BY ONLY <1>8, <3>1, <3>2
      <3> HIDE DEF newQueue
      <3>9. event \in 1 .. Len(newInstances) /\ Len(newInstances) >= Len(instances)
        BY ONLY <3>3, <3>4
      <3>10. QED BY ONLY <3>4, <3>5, <3>6, <3>7, <3>8, <3>9
    <2>3. QED BY ONLY <2>1, <2>2
  <1> HIDE DEF pool, queue, instances, event, newInstances, newPool, newQueue
  <1>10. x = [d EXCEPT !.instances = newInstances, !.eventInstanceResavoir = newPool,
                       !.eventQueue = newQueue, !.state = "flag_FFF0"]
    <2> HIDE DEF x
    <2>1. QED BY <1>5, <1>6 DEF Decoders
  <1> HIDE DEF x
  <1>11. /\ x \in Decoders /\ x.state = "flag_FFF0" /\ x.waveform = d.waveform
         /\ x.instances = newInstances /\ x.eventInstanceResavoir = newPool
         /\ x.eventQueue = newQueue
    BY <1>9, <1>10 DEF Decoders, DecoderStates
  <1>12. InstancesInv(x, h)
    <2>1. Len(queue) \in Nat /\ Len(instances) \in Nat /\ Len(newInstances) \in Nat
      BY <1>7, <1>9
    <2>2. \A i \in 1 .. Len(newQueue) : i \in 1 .. Len(queue) \/ i = Len(queue) + 1
      BY ONLY <1>9, <2>1
    <2>3. \A i \in 1 .. Len(instances) : i \in 1 .. Len(newInstances)
      BY ONLY <1>9, <2>1
    <2>4. /\ \A i \in 1 .. Len(newPool) : newPool[i] \in 1 .. Len(newInstances)
          /\ \A i, k \in 1 .. Len(newPool) : newPool[i] = newPool[k] => i = k
      <3>1. \A i \in 1 .. Len(newPool) : i \in 1 .. Len(pool) /\ newPool[i] = pool[i]
        BY ONLY <1>9
      <3>2. /\ \A i \in 1 .. Len(pool) : pool[i] \in 1 .. Len(instances)
            /\ \A i, k \in 1 .. Len(pool) : pool[i] = pool[k] => i = k
        BY ONLY <1>8
      <3>3. QED BY ONLY <2>3, <3>1, <3>2
    <2>5. \A i \in 1 .. Len(newQueue) : newQueue[i] \in 1 .. Len(newInstances)
      BY ONLY <1>8, <1>9, <2>2, <2>3
    <2>6. \A i, k \in 1 .. Len(newQueue) : newQueue[i] = newQueue[k] => i = k
      <3>1. /\ newQueue[Len(queue) + 1] = event
            /\ \A i \in 1 .. Len(queue) : newQueue[i] = queue[i] /\ queue[i] # event
        BY ONLY <1>9
      <3>2. \A i, k \in 1 .. Len(queue) : queue[i] = queue[k] => i = k
        BY ONLY <1>8
      <3>3. QED BY ONLY <2>2, <3>1, <3>2
    <2>7. \A i \in 1 .. Len(newPool), k \in 1 .. Len(newQueue) : newPool[i] # newQueue[k]
      <3>1. /\ newQueue[Len(queue) + 1] = event
            /\ \A i \in 1 .. Len(queue) : newQueue[i] = queue[i]
            /\ \A i \in 1 .. Len(newPool) :
                  i \in 1 .. Len(pool) /\ newPool[i] = pool[i] /\ newPool[i] # event
        BY ONLY <1>9
      <3>2. \A i \in 1 .. Len(pool), k \in 1 .. Len(queue) : pool[i] # queue[k]
        BY ONLY <1>8
      <3>3. QED BY ONLY <2>2, <3>1, <3>2
    <2>8. \A y \in h :
              /\ y.instance \in 1 .. Len(newInstances) /\ newInstances[y.instance] = y.event
              /\ \A i \in 1 .. Len(newPool) : newPool[i] # y.instance
              /\ \A i \in 1 .. Len(newQueue) : newQueue[i] # y.instance
      <3> SUFFICES ASSUME NEW y \in h
                   PROVE  /\ y.instance \in 1 .. Len(newInstances)
                          /\ newInstances[y.instance] = y.event
                          /\ \A i \in 1 .. Len(newPool) : newPool[i] # y.instance
                          /\ \A i \in 1 .. Len(newQueue) : newQueue[i] # y.instance
        OBVIOUS
      <3>1. /\ y.instance \in 1 .. Len(instances) /\ instances[y.instance] = y.event
            /\ \A i \in 1 .. Len(pool) : pool[i] # y.instance
            /\ \A i \in 1 .. Len(queue) : queue[i] # y.instance
        BY ONLY <1>8, y \in h
      <3>2. y.instance # event
        BY ONLY <1>9, y \in h
      <3>3. /\ \A i \in 1 .. Len(instances) : i # event => newInstances[i] = instances[i]
            /\ \A i \in 1 .. Len(newPool) : i \in 1 .. Len(pool) /\ newPool[i] = pool[i]
            /\ newQueue[Len(queue) + 1] = event
            /\ \A i \in 1 .. Len(queue) : newQueue[i] = queue[i]
        BY ONLY <1>9
      <3>4. QED BY ONLY <2>2, <2>3, <3>1, <3>2, <3>3
    <2>9. QED BY ONLY <1>8, <1>11, <2>4, <2>5, <2>6, <2>7, <2>8 DEF InstancesInv, InstancesOK
  <1>13. EventsIn(x) = Append(EventsIn(d), e)
    <2>1. /\ EventsIn(d) \in Seq(Event) /\ Len(EventsIn(d)) = Len(queue)
          /\ \A i \in 1 .. Len(queue) : EventsIn(d)[i] = instances[queue[i]]
      BY EventsInAreEvents DEF queue, instances
    <2>2. /\ EventsIn(x) \in Seq(Event) /\ Len(EventsIn(x)) = Len(newQueue)
          /\ \A i \in 1 .. Len(newQueue) : EventsIn(x)[i] = newInstances[newQueue[i]]
      BY <1>11, <1>12, EventsInAreEvents
    <2> DEFINE a == EventsIn(d)
               b == EventsIn(x)
    <2> HIDE DEF a, b
    <2>3. Len(queue) \in Nat /\ Len(queue) + 1 \in 1 .. Len(newQueue)
          /\ \A i \in 1 .. Len(queue) : i \in 1 .. Len(newQueue)
      BY <1>7, <1>9
    <2>4. \A i \in 1 .. Len(queue) : b[i] = a[i]
      <3>1. \A i \in 1 .. Len(queue) : a[i] = instances[queue[i]]
        BY <2>1 DEF a
      <3>2. \A i \in 1 .. Len(newQueue) : b[i] = newInstances[newQueue[i]]
        BY <2>2 DEF b
      <3>3. \A i \in 1 .. Len(queue) :
              newQueue[i] = queue[i] /\ queue[i] # event /\ queue[i] \in 1 .. Len(instances)
        BY ONLY <1>8, <1>9
      <3>4. \A i \in 1 .. Len(instances) : i # event => newInstances[i] = instances[i]
        BY ONLY <1>9
      <3>5. QED BY ONLY <2>3, <3>1, <3>2, <3>3, <3>4
    <2>5. b[Len(queue) + 1] = e
      BY <1>9, <2>2, <2>3 DEF b
    <2>6. a \in Seq(Event) /\ b \in Seq(Event) /\ Len(a) = Len(queue) /\ Len(b) = Len(a) + 1
      BY <1>9, <2>1, <2>2 DEF a, b
    <2>7. b = Append(a, e)
      <3>1. /\ Append(a, e) \in Seq(Event) /\ Len(Append(a, e)) = Len(a) + 1
            /\ Append(a, e)[Len(a) + 1] = e
            /\ \A i \in 1 .. Len(a) : Append(a, e)[i] = a[i]
        BY ONLY <1>1, <2>6
      <3> DEFINE c == Append(a, e)
      <3> HIDE DEF c
      <3>2. c \in Seq(Event) /\ Len(c) = Len(b) /\ Len(a) \in Nat
            /\ c[Len(a) + 1] = b[Len(a) + 1] /\ \A i \in 1 .. Len(a) : c[i] = b[i]
        BY <2>4, <2>5, <2>6, <3>1 DEF c
      <3>3. \A i \in 1 .. Len(b) : c[i] = b[i]
        <4>1. \A i \in 1 .. Len(b) : i = Len(a) + 1 \/ i \in 1 .. Len(a)
          BY ONLY <2>6, <3>2
        <4>2. QED BY ONLY <3>2, <4>1
      <3>4. c = b
        BY ONLY <2>6, <3>2, <3>3
      <3>5. QED BY <3>4 DEF c
    <2>8. QED BY <2>7 DEF a, b
  <1>14. QED BY <1>11, <1>12, <1>13 DEF x

-----------------------------------------------------------------------------
(* The stream of words.                                                    *)

(* A word comes out of the two bytes it went into.                          *)
LEMMA OneWord ==
    ASSUME NEW V \in Seq(Nat)
    PROVE  /\ BytesOf(V) \in Seq(StreamByte) /\ Len(BytesOf(V)) = 2 * Len(V)
           /\ \A i \in 1 .. Len(V) : WordOf(BytesOf(V)[2 * i - 1], BytesOf(V)[2 * i]) = V[i]
           /\ \A i \in 1 .. 2 * Len(V) :
                BytesOf(V)[i] = [word |-> V[(i + 1) \div 2], half |-> 2 - (i % 2)]
  <1> DEFINE b == BytesOf(V)
  <1>1. b = [i \in 1 .. 2 * Len(V) |-> [word |-> V[(i + 1) \div 2], half |-> 2 - (i % 2)]]
    BY DEF BytesOf
  <1>2. Len(V) \in Nat /\ 2 * Len(V) \in Nat /\ \A i \in 1 .. Len(V) : V[i] \in Nat
    OBVIOUS
  <1> HIDE DEF b
  <1>3. \A i \in 1 .. 2 * Len(V) : (i + 1) \div 2 \in 1 .. Len(V) /\ 2 - (i % 2) \in {1, 2}
    BY <1>2
  <1>4. \A i \in 1 .. 2 * Len(V) : b[i] \in StreamByte
    BY ONLY <1>1, <1>2, <1>3 DEF StreamByte
  <1>5. b \in Seq(StreamByte) /\ Len(b) = 2 * Len(V)
    BY ONLY <1>1, <1>2, <1>4
  <1>6. ASSUME NEW i \in 1 .. Len(V)
        PROVE  WordOf(b[2 * i - 1], b[2 * i]) = V[i]
    <2>1. /\ 2 * i - 1 \in 1 .. 2 * Len(V) /\ 2 * i \in 1 .. 2 * Len(V)
          /\ ((2 * i - 1) + 1) \div 2 = i /\ (2 * i + 1) \div 2 = i
          /\ 2 - ((2 * i - 1) % 2) = 1 /\ 2 - ((2 * i) % 2) = 2
      BY <1>2
    <2>2. b[2 * i - 1] = [word |-> V[i], half |-> 1] /\ b[2 * i] = [word |-> V[i], half |-> 2]
      BY ONLY <1>1, <2>1
    <2>3. QED BY <2>2 DEF WordOf
  <1>7. QED BY <1>1, <1>5, <1>6 DEF b

\* What the board has sent: events, each with its count.
Sent(s) == s \in Seq(Event) /\ \A k \in 1 .. Len(s) : SentEvent(s[k]) /\ s[k].triggerCount = k

\* The events of out are some of the first m of s, in their order.
Emitted(out, m, s) ==
    /\ \A i \in 1 .. Len(out) :
          out[i].triggerCount \in 1 .. m /\ out[i] = s[out[i].triggerCount]
    /\ \A i, k \in 1 .. Len(out) : i < k => out[i].triggerCount < out[k].triggerCount

\* The words V end with those of the events after the first n of s: event k begins after
\* place start[k], which is negative when some of its words are no longer in V.
Layout(V, start, n, s) ==
    /\ start \in [1 .. Len(s) + 1 -> Int] /\ start[Len(s) + 1] = Len(V)
    /\ \A k \in n + 1 .. Len(s) :
          /\ start[k + 1] = start[k] + (13 + Len(s[k].waveform))
          /\ \A i \in 1 .. 13 + Len(s[k].waveform) :
                start[k] + i > 0 =>
                  start[k] + i <= Len(V) /\ V[start[k] + i] = EventWords(s[k])[i]

\* After q of those words the decoder is at the word j of event m + 1, and has put out
\* nothing later than event m.
Reading(d, start, q, n, s, out) ==
    \E m \in n .. Len(s), j \in Nat :
        /\ start[m + 1] = q - j
        /\ m = Len(s) => j = 0 /\ d.state = "flag_FFF0"
        /\ m < Len(s) => j <= 12 + Len(s[m + 1].waveform) /\ Inside(d, s[m + 1], j)
        /\ Emitted(out, m, s)

(* An event more, the next that was sent.                                  *)
LEMMA EmittedOneMore ==
    ASSUME NEW s, Sent(s), NEW m \in Nat, m < Len(s), NEW out \in Seq(Event), Emitted(out, m, s)
    PROVE  Emitted(Append(out, s[m + 1]), m + 1, s)
  <1> DEFINE e == s[m + 1]
             more == Append(out, e)
  <1>1. m + 1 \in 1 .. Len(s) /\ e \in Event /\ e.triggerCount = m + 1
    BY DEF Sent, SentEvent
  <1>2. /\ Len(more) = Len(out) + 1 /\ more[Len(out) + 1] = e
        /\ \A i \in 1 .. Len(out) : more[i] = out[i]
        /\ \A i \in 1 .. Len(out) + 1 : i \in 1 .. Len(out) \/ i = Len(out) + 1
    <2> HIDE DEF e
    <2>1. QED BY <1>1, Appended
  <1>3. Len(out) \in Nat
    OBVIOUS
  <1> HIDE DEF more
  <1>4. \A i \in 1 .. Len(out) :
           out[i].triggerCount \in 1 .. m /\ out[i] = s[out[i].triggerCount]
    BY DEF Emitted
  <1>5. \A i, k \in 1 .. Len(out) : i < k => out[i].triggerCount < out[k].triggerCount
    BY DEF Emitted
  <1>6. \A x \in 1 .. m : x \in 1 .. m + 1 /\ x < m + 1
    OBVIOUS
  <1>7. m + 1 \in 1 .. m + 1
    OBVIOUS
  <1>8. \A i \in 1 .. Len(more) :
           more[i].triggerCount \in 1 .. m + 1 /\ more[i] = s[more[i].triggerCount]
    BY ONLY <1>1, <1>2, <1>4, <1>6, <1>7 DEF e
  <1>9. ASSUME NEW i \in 1 .. Len(more), NEW k \in 1 .. Len(more), i < k
        PROVE  more[i].triggerCount < more[k].triggerCount
    <2>1. i \in 1 .. Len(out)
      BY <1>2, <1>3, <1>9
    <2>2. CASE k \in 1 .. Len(out)
      BY <1>2, <1>5, <1>9, <2>1, <2>2
    <2>3. CASE k = Len(out) + 1
      BY <1>1, <1>2, <1>4, <1>6, <2>1, <2>3
    <2>4. QED BY <1>2, <2>2, <2>3
  <1>10. QED BY <1>8, <1>9 DEF Emitted, more, e
(* One word more is read.                                                  *)
LEMMA OneWordMore ==
    ASSUME NEW s, Sent(s), NEW n \in 0 .. Len(s), NEW V \in Seq(Nat), NEW start,
           Layout(V, start, n, s), NEW q \in Nat, q < Len(V), NEW d \in Decoders,
           NEW h, InstancesInv(d, h), Len(d.waveform) <= MaxWaveformLength,
           NEW out \in Seq(Event), Reading(d, start, q, n, s, out \o EventsIn(d))
    PROVE  LET x == DecodeWord(d, V[q + 1])
           IN  /\ x \in Decoders /\ InstancesInv(x, h) /\ Len(x.waveform) <= MaxWaveformLength
               /\ Reading(x, start, q + 1, n, s, out \o EventsIn(x))
  <1> DEFINE x == DecodeWord(d, V[q + 1])
             E == EventsIn(d)
  <1>1. PICK m \in n .. Len(s), j \in Nat :
          /\ start[m + 1] = q - j
          /\ m = Len(s) => j = 0 /\ d.state = "flag_FFF0"
          /\ m < Len(s) => j <= 12 + Len(s[m + 1].waveform) /\ Inside(d, s[m + 1], j)
          /\ Emitted(out \o E, m, s)
    BY DEF Reading
  <1>2. Len(s) \in Nat /\ m \in Nat /\ n \in Nat /\ Len(V) \in Nat
    BY DEF Sent
  <1>3. start[Len(s) + 1] = Len(V)
    BY DEF Layout
  <1>4. m < Len(s)
    <2>1. ASSUME m = Len(s) PROVE FALSE
      <3>1. start[m + 1] = Len(V) /\ start[m + 1] = q - 0
        BY <1>1, <1>3, <2>1
      <3>2. QED BY <1>2, <3>1
    <2>2. QED BY <1>2, <2>1
  <1> DEFINE e == s[m + 1]
             L == Len(e.waveform)
  <1>5. m + 1 \in 1 .. Len(s) /\ m + 1 \in n + 1 .. Len(s) /\ SentEvent(e) /\ e \in Event
    <2>1. m + 1 \in 1 .. Len(s) /\ m + 1 \in n + 1 .. Len(s)
      BY <1>2, <1>4
    <2>2. SentEvent(e)
      BY <2>1 DEF Sent
    <2>3. QED BY <2>1, <2>2 DEF SentEvent
  <1>6. L \in Nat
    BY <1>5, WordsOfEvent
  <1>7. j <= 12 + L /\ Inside(d, e, j)
    BY <1>1, <1>4
  <1>8. /\ start[(m + 1) + 1] = start[m + 1] + (13 + L)
        /\ \A i \in 1 .. 13 + L :
              start[m + 1] + i > 0 =>
                start[m + 1] + i <= Len(V) /\ V[start[m + 1] + i] = EventWords(e)[i]
    BY <1>5 DEF Layout
  <1>9. V[q + 1] = EventWords(e)[j + 1]
    <2> HIDE DEF L, e
    <2>1. j + 1 \in 1 .. 13 + L /\ start[m + 1] + (j + 1) = q + 1 /\ q + 1 > 0
      BY <1>1, <1>6, <1>7
    <2>2. PICK i \in 1 .. 13 + L : i = j + 1
      BY <2>1
    <2>3. start[m + 1] + i = q + 1 /\ start[m + 1] + i > 0
      BY ONLY <2>1, <2>2
    <2>4. V[start[m + 1] + i] = EventWords(e)[i]
      BY ONLY <1>8, <2>3
    <2>5. QED BY ONLY <2>2, <2>3, <2>4
  <1>10. CASE j <= 11 + L
    <2>1. j \in 0 .. 11 + Len(e.waveform)
      BY <1>6, <1>10
    <2>2. /\ x \in Decoders /\ Inside(x, e, j + 1) /\ Len(x.waveform) <= MaxWaveformLength
          /\ x.eventQueue = d.eventQueue /\ x.instances = d.instances
          /\ x.eventInstanceResavoir = d.eventInstanceResavoir
      <3> HIDE DEF e
      <3>1. QED BY <1>5, <1>7, <1>9, <2>1, WordIsTaken
    <2> HIDE DEF x
    <2>3. EventsIn(x) = E /\ InstancesInv(x, h)
      <3>1. EventsIn(x) = E
        BY <2>2 DEF EventsIn
      <3>2. InstancesInv(x, h)
        BY ONLY <2>2, InstancesInv(d, h) DEF InstancesInv
      <3>3. QED BY <3>1, <3>2
    <2>4. start[m + 1] = (q + 1) - (j + 1) /\ j + 1 <= 12 + L /\ j + 1 \in Nat
      BY <1>1, <1>6, <1>10
    <2>5. Reading(x, start, q + 1, n, s, out \o EventsIn(x))
      BY <1>1, <1>2, <1>4, <2>2, <2>3, <2>4 DEF Reading
    <2>6. QED BY <2>2, <2>3, <2>5 DEF x
  <1>11. CASE j = 12 + L
    <2>1. /\ x \in Decoders /\ x.state = "flag_FFF0" /\ x.waveform = d.waveform
          /\ InstancesInv(x, h) /\ EventsIn(x) = Append(E, e)
      <3> HIDE DEF e
      <3>1. QED BY <1>5, <1>7, <1>11, EventIsPushed
    <2> HIDE DEF x
    <2>2. E \in Seq(Event)
      BY EventsInAreEvents
    <2>3. out \o E \in Seq(Event) /\ out \o Append(E, e) = Append(out \o E, e)
      <3> HIDE DEF e, E
      <3>1. out \o E \in Seq(Event)
        BY ONLY <2>2, out \in Seq(Event), Joined
      <3>2. out \o Append(E, e) = Append(out \o E, e)
        BY ONLY <1>5, <2>2, out \in Seq(Event)
      <3>3. QED BY <3>1, <3>2
    <2>4. Emitted(out \o EventsIn(x), m + 1, s)
      <3>1. Emitted(Append(out \o E, s[m + 1]), m + 1, s)
        <4> HIDE DEF E
        <4>1. QED BY <1>1, <1>2, <1>4, <2>3, EmittedOneMore
      <3>2. QED BY <2>1, <2>3, <3>1
    <2>5. m + 1 \in n .. Len(s) /\ start[(m + 1) + 1] = (q + 1) - 0
      <3> HIDE DEF L
      <3>1. m + 1 \in n .. Len(s)
        BY <1>2, <1>5
      <3>2. start[(m + 1) + 1] = start[m + 1] + (13 + L) /\ start[m + 1] = q - (12 + L)
        BY <1>1, <1>8, <1>11
      <3>3. QED BY ONLY <1>6, <3>1, <3>2, q \in Nat
    <2>6. ASSUME m + 1 < Len(s)
          PROVE  0 <= 12 + Len(s[(m + 1) + 1].waveform) /\ Inside(x, s[(m + 1) + 1], 0)
      <3>1. (m + 1) + 1 \in 1 .. Len(s)
        BY <1>2, <2>6
      <3>2. Len(s[(m + 1) + 1].waveform) \in Nat
        BY <3>1, WordsOfEvent DEF Sent
      <3>3. Inside(x, s[(m + 1) + 1], 0)
        BY <2>1, <3>2 DEF Inside, StateAfter, FieldsAfter, WaveformAfter
      <3>4. QED BY <3>2, <3>3
    <2>7. Reading(x, start, q + 1, n, s, out \o EventsIn(x))
      <3> DEFINE k == m + 1
      <3> HIDE DEF k, e, L, E
      <3>1. /\ k \in n .. Len(s) /\ 0 \in Nat /\ start[k + 1] = (q + 1) - 0
            /\ x.state = "flag_FFF0"
            /\ k < Len(s) => 0 <= 12 + Len(s[k + 1].waveform) /\ Inside(x, s[k + 1], 0)
            /\ Emitted(out \o EventsIn(x), k, s)
        BY <2>1, <2>4, <2>5, <2>6 DEF k
      <3>2. QED BY ONLY <3>1 DEF Reading
    <2>8. QED BY <2>1, <2>7 DEF x
  <1>12. j <= 11 + L \/ j = 12 + L
    <2> HIDE DEF L, e
    <2>1. QED BY ONLY <1>6, <1>7, j \in Nat
  <1>13. QED BY ONLY <1>10, <1>11, <1>12

\* The decoder, from d on, after each of the first n words in the bytes b.
WordByWord(g, d, b, n) ==
    /\ g[0] = d /\ g[n] = DecodeEvent(d, b)
    /\ \A k \in 1 .. n : g[k] = DecodeWord(g[k - 1], WordOf(b[2 * k - 1], b[2 * k]))

(* The decoder takes the bytes of decodeEvent() word by word.              *)
LEMMA DecodeEventIsByWords ==
    ASSUME NEW d, NEW b, NEW n \in Nat, Len(b) \div 2 = n
    PROVE  \E g : WordByWord(g, d, b, n)
  <1> DEFINE D(x, k) == DecodeWord(x, WordOf(b[2 * k - 1], b[2 * k]))
             G(g, m) == g = [k \in 0 .. m |-> IF k = 0 THEN d ELSE D(g[k - 1], k)]
             T == {m \in Nat : \E g : G(g, m)}
             after == CHOOSE g : G(g, n)
  <1>1. 0 \in T
    <2> HIDE DEF D
    <2>1. G([k \in 0 .. 0 |-> d], 0)
      OBVIOUS
    <2>2. QED BY <2>1
  <1>2. ASSUME NEW m \in Nat, m \in T PROVE m + 1 \in T
    <2>1. PICK g : G(g, m)
      BY <1>2
    <2> DEFINE f == [k \in 0 .. m + 1 |-> IF k <= m THEN g[k] ELSE D(g[m], k)]
    <2>2. G(f, m + 1)
      <3> HIDE DEF D
      <3>1. \A k \in 0 .. m + 1 : f[k] = IF k = 0 THEN d ELSE D(f[k - 1], k)
        BY <2>1
      <3>2. QED BY <3>1
    <2> HIDE DEF f, G
    <2>3. QED BY <2>2
  <1>3. \E g : G(g, n)
    <2> HIDE DEF T
    <2>1. n \in T
      BY <1>1, <1>2, SetInductionOnNat
    <2>2. QED BY <2>1 DEF T
  <1>4. G(after, n)
    <2> HIDE DEF G
    <2>1. QED BY <1>3
  <1>5. DecodeEvent(d, b) = after[n]
    BY DEF DecodeEvent
  <1> HIDE DEF after
  <1>6. after[0] = d /\ \A k \in 1 .. n : after[k] = D(after[k - 1], k)
    <2> HIDE DEF D
    <2>1. QED BY <1>4
  <1>7. WordByWord(after, d, b, n)
    BY <1>5, <1>6 DEF WordByWord
  <1>8. QED BY <1>7

(* The words that are decoded are the next of the stream.                  *)
LEMMA WordsAreRead ==
    ASSUME NEW s, Sent(s), NEW n \in 0 .. Len(s), NEW V \in Seq(Nat), NEW start,
           Layout(V, start, n, s), NEW d \in Decoders, NEW h, InstancesInv(d, h),
           Len(d.waveform) <= MaxWaveformLength, NEW out \in Seq(Event),
           Reading(d, start, 0, n, s, out \o EventsIn(d)),
           NEW b, NEW q \in Nat, q <= Len(V), Len(b) \div 2 = q,
           \A k \in 1 .. q : WordOf(b[2 * k - 1], b[2 * k]) = V[k]
    PROVE  LET x == DecodeEvent(d, b)
           IN  /\ x \in Decoders /\ InstancesInv(x, h) /\ Len(x.waveform) <= MaxWaveformLength
               /\ Reading(x, start, q, n, s, out \o EventsIn(x))
  <1>a. PICK g : WordByWord(g, d, b, q)
    BY ONLY q \in Nat, Len(b) \div 2 = q, DecodeEventIsByWords
  <1>1. /\ g[0] = d /\ g[q] = DecodeEvent(d, b)
        /\ \A k \in 1 .. q : g[k] = DecodeWord(g[k - 1], WordOf(b[2 * k - 1], b[2 * k]))
    BY <1>a DEF WordByWord
  <1>2. \A k \in 1 .. q : g[k] = DecodeWord(g[k - 1], V[k])
    BY <1>1
  <1> DEFINE Good(x, k) ==
               /\ x \in Decoders /\ InstancesInv(x, h) /\ Len(x.waveform) <= MaxWaveformLength
               /\ Reading(x, start, k, n, s, out \o EventsIn(x))
             T == {k \in Nat : k <= q => Good(g[k], k)}
  <1>3. 0 \in T
    BY <1>1
  <1>4. ASSUME NEW k \in Nat, k \in T PROVE k + 1 \in T
    <2> SUFFICES ASSUME k + 1 <= q PROVE Good(g[k + 1], k + 1)
      BY k + 1 \in Nat
    <2>1. k < Len(V) /\ k <= q /\ k + 1 \in 1 .. q /\ (k + 1) - 1 = k
      BY Len(V) \in Nat
    <2>2. Good(g[k], k) /\ g[k + 1] = DecodeWord(g[k], V[k + 1])
      BY <1>2, <1>4, <2>1
    <2> DEFINE y == g[k]
    <2>3. /\ y \in Decoders /\ InstancesInv(y, h) /\ Len(y.waveform) <= MaxWaveformLength
          /\ Reading(y, start, k, n, s, out \o EventsIn(y))
      BY ONLY <2>2
    <2> HIDE DEF y
    <2>4. Good(DecodeWord(y, V[k + 1]), k + 1)
      BY ONLY <2>1, <2>3, Sent(s), n \in 0 .. Len(s), V \in Seq(Nat), InstancesInv(d, h),
              Layout(V, start, n, s), k \in Nat, out \in Seq(Event), OneWordMore
    <2>5. QED BY <2>2, <2>4 DEF y
  <1>5. q \in T
    <2> HIDE DEF T
    <2>1. QED BY <1>3, <1>4, SetInductionOnNat
  <1>6. QED BY <1>1, <1>5

-----------------------------------------------------------------------------
(* The stream of bytes.                                                    *)

(* The bytes of words that are joined are the bytes joined.                *)
LEMMA BytesJoined ==
    ASSUME NEW V \in Seq(Nat), NEW W \in Seq(Nat)
    PROVE  BytesOf(V \o W) = BytesOf(V) \o BytesOf(W)
  <1> DEFINE a == BytesOf(V)
             b == BytesOf(W)
             j == V \o W
             l == BytesOf(j)
             r == a \o b
  <1>1. /\ j \in Seq(Nat) /\ Len(j) = Len(V) + Len(W)
        /\ \A i \in 1 .. Len(V) : j[i] = V[i]
        /\ \A i \in 1 .. Len(W) : j[Len(V) + i] = W[i]
    BY ONLY V \in Seq(Nat), W \in Seq(Nat), Joined
  <1>2. /\ a \in Seq(StreamByte) /\ Len(a) = 2 * Len(V)
        /\ \A i \in 1 .. 2 * Len(V) : a[i] = [word |-> V[(i + 1) \div 2], half |-> 2 - (i % 2)]
    BY OneWord
  <1>3. /\ b \in Seq(StreamByte) /\ Len(b) = 2 * Len(W)
        /\ \A i \in 1 .. 2 * Len(W) : b[i] = [word |-> W[(i + 1) \div 2], half |-> 2 - (i % 2)]
    BY OneWord
  <1> HIDE DEF j, a, b
  <1>4. /\ l \in Seq(StreamByte) /\ Len(l) = 2 * Len(j)
        /\ \A i \in 1 .. 2 * Len(j) : l[i] = [word |-> j[(i + 1) \div 2], half |-> 2 - (i % 2)]
    BY <1>1, OneWord
  <1>5. /\ r \in Seq(StreamByte) /\ Len(r) = Len(a) + Len(b)
        /\ \A i \in 1 .. Len(a) : r[i] = a[i]
        /\ \A i \in 1 .. Len(b) : r[Len(a) + i] = b[i]
    <2>1. a \in Seq(StreamByte) /\ b \in Seq(StreamByte)
      BY <1>2, <1>3
    <2>2. /\ a \o b \in Seq(StreamByte) /\ Len(a \o b) = Len(a) + Len(b)
          /\ \A i \in 1 .. Len(a) : (a \o b)[i] = a[i]
          /\ \A i \in 1 .. Len(b) : (a \o b)[Len(a) + i] = b[i]
      BY ONLY <2>1, Joined
    <2>3. QED BY <2>2
  <1> HIDE DEF l, r
  <1>6. Len(V) \in Nat /\ Len(W) \in Nat /\ Len(l) = Len(r) /\ Len(l) = 2 * Len(V) + 2 * Len(W)
    BY <1>1, <1>2, <1>3, <1>4, <1>5
  <1>7. ASSUME NEW i \in 1 .. Len(l) PROVE l[i] = r[i]
    <2>1. CASE i <= 2 * Len(V)
      <3>1. i \in 1 .. 2 * Len(V) /\ i \in 1 .. 2 * Len(j) /\ i \in 1 .. Len(a)
            /\ (i + 1) \div 2 \in 1 .. Len(V)
        <4>1. Len(j) = Len(V) + Len(W) /\ Len(a) = 2 * Len(V)
          BY ONLY <1>1, <1>2
        <4>2. QED BY ONLY <1>6, <1>7, <2>1, <4>1
      <3>2. l[i] = [word |-> V[(i + 1) \div 2], half |-> 2 - (i % 2)]
        BY ONLY <1>1, <1>4, <3>1
      <3>3. r[i] = [word |-> V[(i + 1) \div 2], half |-> 2 - (i % 2)]
        BY ONLY <1>2, <1>5, <3>1
      <3>4. QED BY <3>2, <3>3
    <2>2. CASE i > 2 * Len(V)
      <3> DEFINE k == i - 2 * Len(V)
      <3>1. /\ k \in 1 .. 2 * Len(W) /\ k \in 1 .. Len(b) /\ i \in 1 .. 2 * Len(j)
            /\ i = Len(a) + k /\ k % 2 = i % 2
            /\ (k + 1) \div 2 \in 1 .. Len(W) /\ (i + 1) \div 2 = Len(V) + ((k + 1) \div 2)
        <4>1. /\ i \in Nat /\ i > 2 * Len(V) /\ i <= 2 * Len(V) + 2 * Len(W)
              /\ Len(V) \in Nat /\ Len(W) \in Nat /\ Len(j) = Len(V) + Len(W)
              /\ Len(a) = 2 * Len(V) /\ Len(b) = 2 * Len(W)
          BY <1>1, <1>2, <1>3, <1>6, <2>2
        <4>2. k \in Nat /\ k > 0 /\ k <= 2 * Len(W) /\ i = 2 * Len(V) + k
          BY ONLY <4>1
        <4> HIDE DEF k
        <4>3. k % 2 = i % 2
          BY ONLY <4>1, <4>2
        <4>4. (k + 1) \div 2 \in 1 .. Len(W)
          BY ONLY <4>1, <4>2
        <4>5. (i + 1) \div 2 = Len(V) + ((k + 1) \div 2)
          <5>1. PICK v \in Nat : v = Len(V)
            BY ONLY <4>1
          <5>2. i = 2 * v + k /\ k \in Nat
            BY ONLY <4>2, <5>1
          <5>3. PICK y \in Nat : y = (k + 1) \div 2
            BY ONLY <5>2
          <5>4. k + 1 = 2 * y \/ k + 1 = 2 * y + 1
            BY ONLY <5>2, <5>3
          <5>5. i + 1 = 2 * (v + y) \/ i + 1 = 2 * (v + y) + 1
            BY ONLY <5>2, <5>3, <5>4
          <5>6. (i + 1) \div 2 = v + y
            <6>1. \A x, w \in Nat : x = 2 * w \/ x = 2 * w + 1 => x \div 2 = w
              OBVIOUS
            <6>2. i + 1 \in Nat /\ v + y \in Nat
              BY ONLY <5>2, <5>3, v \in Nat
            <6>3. QED BY ONLY <5>5, <6>1, <6>2
          <5>7. QED BY ONLY <5>1, <5>3, <5>6
        <4>6. QED BY ONLY <4>1, <4>2, <4>3, <4>4, <4>5
      <3> HIDE DEF k
      <3>2. PICK y \in 1 .. Len(W) : y = (k + 1) \div 2
        BY <3>1
      <3>3. l[i] = [word |-> j[Len(V) + y], half |-> 2 - (k % 2)]
        BY ONLY <1>4, <3>1, <3>2
      <3>4. r[i] = [word |-> W[y], half |-> 2 - (k % 2)]
        BY ONLY <1>3, <1>5, <3>1, <3>2
      <3>5. QED BY <1>1, <3>3, <3>4
    <2>3. QED BY <1>6, <2>1, <2>2
  <1>8. l = r
    BY ONLY <1>4, <1>5, <1>6, <1>7, SameSequence
  <1>9. QED BY <1>8 DEF l, r, a, b, j

(* What is left of a sequence behind its first n elements ...              *)
LEMMA RestOf ==
    ASSUME NEW S, NEW t \in Seq(S), NEW n \in Nat, n <= Len(t)
    PROVE  LET r == SubSeq(t, n + 1, Len(t))
           IN  /\ r \in Seq(S) /\ Len(r) = Len(t) - n
               /\ \A i \in 1 .. Len(t) - n : r[i] = t[n + i]
               /\ \A i \in 1 .. Len(t) - n : n + i \in 1 .. Len(t)
  <1> DEFINE r == SubSeq(t, n + 1, Len(t))
  <1>1. Len(t) \in Nat /\ Len(t) - n \in Nat
    OBVIOUS
  <1>2. \A i \in 1 .. Len(t) - n : n + i \in 1 .. Len(t)
    BY ONLY <1>1, n \in Nat
  <1>3. r = [i \in 1 .. Len(t) - n |-> t[n + i]]
    BY <1>1
  <1>4. \A i \in 1 .. Len(t) - n : t[n + i] \in S
    BY <1>2
  <1> HIDE DEF r
  <1>5. r \in Seq(S) /\ Len(r) = Len(t) - n
    BY ONLY <1>1, <1>3, <1>4
  <1>6. QED BY <1>2, <1>3, <1>5 DEF r

(* ... and of the bytes of words behind those of the first q.              *)
LEMMA BytesRest ==
    ASSUME NEW V \in Seq(Nat), NEW q \in Nat, q <= Len(V)
    PROVE  SubSeq(BytesOf(V), 2 * q + 1, 2 * Len(V)) = BytesOf(SubSeq(V, q + 1, Len(V)))
  <1> DEFINE b == BytesOf(V)
             U == SubSeq(V, q + 1, Len(V))
             l == SubSeq(b, 2 * q + 1, 2 * Len(V))
             r == BytesOf(U)
  <1>1. /\ b \in Seq(StreamByte) /\ Len(b) = 2 * Len(V)
        /\ \A i \in 1 .. 2 * Len(V) : b[i] = [word |-> V[(i + 1) \div 2], half |-> 2 - (i % 2)]
    BY OneWord
  <1>2. /\ U \in Seq(Nat) /\ Len(U) = Len(V) - q
        /\ \A i \in 1 .. Len(V) - q : U[i] = V[q + i]
    BY RestOf
  <1>3. Len(V) \in Nat /\ 2 * q \in Nat /\ 2 * q <= Len(b)
    BY <1>1
  <1> HIDE DEF b, U
  <1>4. /\ r \in Seq(StreamByte) /\ Len(r) = 2 * Len(U)
        /\ \A i \in 1 .. 2 * Len(U) : r[i] = [word |-> U[(i + 1) \div 2], half |-> 2 - (i % 2)]
    BY <1>2, OneWord
  <1>5. /\ l \in Seq(StreamByte) /\ Len(l) = Len(b) - 2 * q
        /\ \A i \in 1 .. Len(b) - 2 * q : l[i] = b[2 * q + i]
    <2>1. /\ SubSeq(b, 2 * q + 1, Len(b)) \in Seq(StreamByte)
          /\ Len(SubSeq(b, 2 * q + 1, Len(b))) = Len(b) - 2 * q
          /\ \A i \in 1 .. Len(b) - 2 * q : SubSeq(b, 2 * q + 1, Len(b))[i] = b[2 * q + i]
      <3> DEFINE w == 2 * q
      <3>1. w \in Nat /\ w <= Len(b)
        BY <1>3
      <3> HIDE DEF w
      <3>2. /\ SubSeq(b, w + 1, Len(b)) \in Seq(StreamByte)
            /\ Len(SubSeq(b, w + 1, Len(b))) = Len(b) - w
            /\ \A i \in 1 .. Len(b) - w : SubSeq(b, w + 1, Len(b))[i] = b[w + i]
        BY ONLY <1>1, <3>1, RestOf
      <3>3. QED BY <3>2 DEF w
    <2>2. QED BY <1>1, <2>1
  <1> HIDE DEF l, r
  <1>6. Len(l) = Len(r) /\ Len(l) = 2 * (Len(V) - q) /\ Len(b) - 2 * q = 2 * (Len(V) - q)
        /\ Len(V) - q \in Nat
    BY <1>1, <1>2, <1>3, <1>4, <1>5
  <1>7. ASSUME NEW i \in 1 .. Len(l) PROVE l[i] = r[i]
    <2>1. /\ i \in 1 .. Len(b) - 2 * q /\ i \in 1 .. 2 * Len(U)
          /\ 2 * q + i \in 1 .. 2 * Len(V) /\ (2 * q + i) % 2 = i % 2
          /\ (i + 1) \div 2 \in 1 .. Len(V) - q
          /\ ((2 * q + i) + 1) \div 2 = q + ((i + 1) \div 2)
      BY <1>2, <1>3, <1>6
    <2>2. PICK y \in 1 .. Len(V) - q : y = (i + 1) \div 2
      BY <2>1
    <2>3. PICK x \in 1 .. 2 * Len(V) : x = 2 * q + i
      BY <2>1
    <2>4. l[i] = b[x]
      BY ONLY <1>5, <2>1, <2>3
    <2>5. b[x] = [word |-> V[(x + 1) \div 2], half |-> 2 - (x % 2)]
      BY ONLY <1>1, <2>3
    <2>6. (x + 1) \div 2 = q + y /\ x % 2 = i % 2
      BY ONLY <2>1, <2>2, <2>3
    <2>7. r[i] = [word |-> U[y], half |-> 2 - (i % 2)]
      BY ONLY <1>4, <2>1, <2>2
    <2>8. QED BY ONLY <1>2, <2>4, <2>5, <2>6, <2>7
  <1>8. l = r
    BY ONLY <1>4, <1>5, <1>6, <1>7, SameSequence
  <1>9. QED BY <1>8 DEF l, r, b, U

\* The bytes c and f that come next go on where the decoder d is, in the events s, of which
\* out came out so far.
Stream(c, f, d, s, out) ==
    \E V \in Seq(Nat), n \in 0 .. Len(s) : \E start :
        c \o f = BytesOf(V) /\ Layout(V, start, n, s) /\ Reading(d, start, 0, n, s, out)

(* Nothing is on its way.                                                  *)
LEMMA QuietStream ==
    ASSUME NEW s, Sent(s), NEW d, d.state = "flag_FFF0", NEW out, Emitted(out, Len(s), s)
    PROVE  Stream(<<>>, <<>>, d, s, out)
  <1> DEFINE N == Len(s)
             start == [k \in 1 .. N + 1 |-> 0]
             V == <<>>
  <1>1. N \in Nat /\ N \in 0 .. N /\ N + 1 \in 1 .. N + 1
    BY DEF Sent
  <1>2. V \in Seq(Nat) /\ Len(V) = 0
    OBVIOUS
  <1>3. <<>> \o <<>> = BytesOf(V)
    <2>1. BytesOf(V) \in Seq(StreamByte) /\ Len(BytesOf(V)) = 0
      <3> HIDE DEF V
      <3>1. BytesOf(V) \in Seq(StreamByte) /\ Len(BytesOf(V)) = 2 * Len(V)
        BY <1>2, OneWord
      <3>2. QED BY <1>2, <3>1
    <2> DEFINE b == BytesOf(V)
    <2> HIDE DEF b
    <2>2. b = <<>>
      BY <2>1 DEF b
    <2>3. QED BY <2>2 DEF b
  <1>4. Layout(V, start, N, s)
    <2>1. start \in [1 .. N + 1 -> Int] /\ start[N + 1] = Len(V)
      BY <1>1, <1>2
    <2>2. \A k \in N + 1 .. N : FALSE
      BY <1>1
    <2> HIDE DEF start, V
    <2>3. QED BY <2>1, <2>2 DEF Layout
  <1>5. Reading(d, start, 0, N, s, out)
    <2>1. start[N + 1] = 0 - 0 /\ 0 \in Nat /\ N \in N .. N /\ ~(N < N)
      BY <1>1
    <2> HIDE DEF start
    <2>2. QED BY <2>1 DEF Reading
  <1> HIDE DEF V, start
  <1>6. QED BY <1>1, <1>2, <1>3, <1>4, <1>5 DEF Stream

(* One event more is sent.                                                 *)
LEMMA StreamGetsLonger ==
    ASSUME NEW s, Sent(s), NEW e, SentEvent(e), NEW t, Sent(t), t = Append(s, e),
           NEW c \in Seq(StreamByte), NEW f \in Seq(StreamByte), NEW d, NEW out,
           Stream(c, f, d, s, out)
    PROVE  Stream(c, f \o BytesOf(EventWords(e)), d, t, out)
  <1>1. PICK V \in Seq(Nat), n \in 0 .. Len(s) : \E start :
          c \o f = BytesOf(V) /\ Layout(V, start, n, s) /\ Reading(d, start, 0, n, s, out)
    BY DEF Stream
  <1>2. PICK start :
          c \o f = BytesOf(V) /\ Layout(V, start, n, s) /\ Reading(d, start, 0, n, s, out)
    BY <1>1
  <1> DEFINE N == Len(s)
             W == EventWords(e)
             U == V \o W
             L == Len(e.waveform)
             next == [k \in 1 .. N + 2 |-> IF k <= N + 1 THEN start[k] ELSE Len(U)]
  <1>3. /\ N \in Nat /\ n \in Nat /\ n <= N /\ Len(t) = N + 1 /\ t[N + 1] = e
        /\ \A k \in 1 .. N : t[k] = s[k]
    <2>1. s \in Seq(Event) /\ e \in Event
      BY DEF Sent, SentEvent
    <2>2. QED BY <2>1, Appended
  <1>4. W \in Seq(Nat) /\ Len(W) = 13 + L /\ L \in Nat
    BY WordsOfEvent
  <1>5. /\ U \in Seq(Nat) /\ Len(U) = Len(V) + Len(W)
        /\ \A i \in 1 .. Len(V) : U[i] = V[i]
        /\ \A i \in 1 .. Len(W) : U[Len(V) + i] = W[i]
    <2> HIDE DEF W, U
    <2>1. /\ V \o W \in Seq(Nat) /\ Len(V \o W) = Len(V) + Len(W)
          /\ \A i \in 1 .. Len(V) : (V \o W)[i] = V[i]
          /\ \A i \in 1 .. Len(W) : (V \o W)[Len(V) + i] = W[i]
      <3>1. V \in Seq(Nat) /\ W \in Seq(Nat)
        BY <1>4
      <3>2. QED BY ONLY <3>1, Joined
    <2>2. QED BY <2>1 DEF U
  <1>6. c \o (f \o BytesOf(W)) = BytesOf(U)
    <2>1. BytesOf(U) = BytesOf(V) \o BytesOf(W)
      <3> HIDE DEF W
      <3>1. QED BY <1>4, BytesJoined
    <2>2. BytesOf(W) \in Seq(StreamByte)
      <3> HIDE DEF W
      <3>1. QED BY <1>4, OneWord
    <2> DEFINE b == BytesOf(W)
    <2> HIDE DEF b
    <2>3. c \o (f \o b) = (c \o f) \o b
      BY <2>2 DEF b
    <2>4. QED BY <1>2, <2>1, <2>3 DEF b
  <1>7. /\ start \in [1 .. N + 1 -> Int] /\ start[N + 1] = Len(V)
        /\ \A k \in n + 1 .. N :
              /\ start[k + 1] = start[k] + (13 + Len(s[k].waveform))
              /\ \A i \in 1 .. 13 + Len(s[k].waveform) :
                    start[k] + i > 0 =>
                      start[k] + i <= Len(V) /\ V[start[k] + i] = EventWords(s[k])[i]
    BY <1>2 DEF Layout
  <1> HIDE DEF U, L, N, W
  <1>8. /\ next \in [1 .. N + 2 -> Int] /\ next[N + 2] = Len(U)
        /\ \A k \in 1 .. N + 1 : next[k] = start[k]
    <2>1. Len(U) \in Int /\ \A k \in 1 .. N + 1 : start[k] \in Int
      <3>1. Len(U) \in Int
        BY ONLY <1>5
      <3>2. QED BY ONLY <1>7, <3>1
    <2>2. QED BY <1>3, <2>1
  <1> HIDE DEF next
  <1>9. Layout(U, next, n, t)
    <2>1. next \in [1 .. Len(t) + 1 -> Int] /\ next[Len(t) + 1] = Len(U)
      BY <1>3, <1>8
    <2>2. ASSUME NEW k \in n + 1 .. Len(t)
          PROVE  /\ next[k + 1] = next[k] + (13 + Len(t[k].waveform))
                 /\ \A i \in 1 .. 13 + Len(t[k].waveform) :
                        next[k] + i > 0 =>
                          next[k] + i <= Len(U) /\ U[next[k] + i] = EventWords(t[k])[i]
      <3>1. CASE k = N + 1
        <4>1. next[k] = Len(V) /\ next[k + 1] = Len(U) /\ t[k] = e
          BY <1>3, <1>7, <1>8, <3>1
        <4>2. next[k + 1] = next[k] + (13 + Len(t[k].waveform))
          BY <1>4, <1>5, <4>1 DEF L
        <4>3. ASSUME NEW i \in 1 .. 13 + Len(t[k].waveform)
              PROVE  next[k] + i <= Len(U) /\ U[next[k] + i] = EventWords(t[k])[i]
          <5>1. i \in 1 .. Len(W) /\ Len(V) \in Nat
            BY <1>4, <4>1, <4>3 DEF L
          <5>2. QED BY <1>5, <4>1, <5>1 DEF W
        <4>4. QED BY <4>2, <4>3
      <3>2. CASE k # N + 1
        <4>1. k \in n + 1 .. N /\ k \in 1 .. N + 1 /\ k + 1 \in 1 .. N + 1 /\ k \in 1 .. N
          BY <1>3, <3>2
        <4>2. t[k] = s[k] /\ next[k] = start[k] /\ next[k + 1] = start[k + 1]
          BY <1>3, <1>8, <4>1
        <4>3. next[k + 1] = next[k] + (13 + Len(t[k].waveform))
          BY <1>7, <4>1, <4>2
        <4>4. ASSUME NEW i \in 1 .. 13 + Len(t[k].waveform), next[k] + i > 0
              PROVE  next[k] + i <= Len(U) /\ U[next[k] + i] = EventWords(t[k])[i]
          <5>1. start[k] + i <= Len(V) /\ V[start[k] + i] = EventWords(s[k])[i]
                /\ start[k] + i > 0
            BY <1>7, <4>1, <4>2, <4>4
          <5>2. PICK x \in 1 .. Len(V) : x = start[k] + i
            BY <1>7, <4>1, <5>1
          <5>3. U[x] = V[x] /\ x <= Len(U)
            <6>1. Len(V) \in Nat /\ Len(W) \in Nat /\ Len(U) = Len(V) + Len(W)
              BY ONLY <1>4, <1>5, V \in Seq(Nat)
            <6>2. U[x] = V[x]
              BY ONLY <1>5, x \in 1 .. Len(V)
            <6>3. QED BY ONLY <6>1, <6>2, x \in 1 .. Len(V)
          <5>4. QED BY <4>2, <5>1, <5>2, <5>3
        <4>5. QED BY <4>3, <4>4
      <3>3. QED BY <3>1, <3>2
    <2>3. QED BY <2>1, <2>2 DEF Layout
  <1>10. Reading(d, next, 0, n, t, out)
    <2>1. PICK m \in n .. N, j \in Nat :
            /\ start[m + 1] = 0 - j
            /\ m = N => j = 0 /\ d.state = "flag_FFF0"
            /\ m < N => j <= 12 + Len(s[m + 1].waveform) /\ Inside(d, s[m + 1], j)
            /\ Emitted(out, m, s)
      BY <1>2 DEF Reading, N
    <2>2. m \in n .. Len(t) /\ m < Len(t) /\ m + 1 \in 1 .. N + 1 /\ next[m + 1] = 0 - j
          /\ m # Len(t)
      BY <1>3, <1>8, <2>1
    <2>3. j <= 12 + Len(t[m + 1].waveform) /\ Inside(d, t[m + 1], j)
      <3>1. CASE m = N
        <4>1. t[m + 1] = e /\ j = 0 /\ d.state = "flag_FFF0"
          BY <1>3, <2>1, <3>1
        <4>2. Inside(d, e, 0)
          BY <1>4, <4>1 DEF Inside, StateAfter, FieldsAfter, WaveformAfter, L
        <4>3. QED BY <1>4, <4>1, <4>2 DEF L
      <3>2. CASE m < N
        BY <1>3, <2>1, <2>2, <3>2
      <3>3. QED BY <1>3, <2>1, <3>1, <3>2
    <2>4. Emitted(out, m, t)
      <3>1. \A x \in 1 .. m : t[x] = s[x]
        BY <1>3, <2>1
      <3>2. QED BY <2>1, <3>1 DEF Emitted
    <2>5. QED BY <2>2, <2>3, <2>4 DEF Reading
  <1>11. n \in 0 .. Len(t)
    BY <1>3
  <1>12. QED BY <1>5, <1>6, <1>9, <1>10, <1>11 DEF Stream, W

(* What has come out of the stream are events that were sent.              *)
LEMMA StreamEmits ==
    ASSUME NEW s, Sent(s), NEW c, NEW f, NEW d, NEW out, Stream(c, f, d, s, out)
    PROVE  Emitted(out, Len(s), s)
  <1>1. PICK m \in 0 .. Len(s) : Emitted(out, m, s)
    BY DEF Stream, Reading
  <1>2. \A x \in 1 .. m : x \in 1 .. Len(s)
    BY DEF Sent
  <1>3. QED BY <1>1, <1>2 DEF Emitted

\* The instances that the program gets with the events in the queue of d.
Handed(d) == {[instance |-> d.eventQueue[i], event |-> EventsIn(d)[i]] : i \in DOMAIN d.eventQueue}

(* The instances in the queue become the program's.                        *)
LEMMA QueueIsHanded ==
    ASSUME NEW x \in Decoders, NEW h, InstancesInv(x, h)
    PROVE  LET y == GetDecodedEvents(x)
           IN  /\ y \in Decoders /\ y.eventQueue = <<>> /\ InstancesInv(y, h \cup Handed(x))
               /\ y.state = x.state /\ y.raw = x.raw /\ y.waveform = x.waveform
  <1> DEFINE y == GetDecodedEvents(x)
             v == <<>>
             g == h \cup Handed(x)
             queue == x.eventQueue
  <1>1. v \in Seq(Nat) /\ Len(v) = 0
    OBVIOUS
  <1>2. y = [x EXCEPT !.eventQueue = v]
    BY DEF GetDecodedEvents
  <1>3. queue \in Seq(Nat) /\ DOMAIN queue = 1 .. Len(queue)
    BY DEF Decoders
  <1>4. \A i \in 1 .. Len(queue) : EventsIn(x)[i] = x.instances[queue[i]]
    BY EventsInAreEvents
  <1>5. \A z \in Handed(x) : \E i \in 1 .. Len(queue) :
           z.instance = queue[i] /\ z.event = x.instances[queue[i]]
           /\ z = [instance |-> queue[i], event |-> EventsIn(x)[i]]
    BY <1>3, <1>4 DEF Handed
  <1> HIDE DEF y, v
  <1>6. /\ y \in Decoders /\ y.eventQueue = v /\ y.instances = x.instances
        /\ y.eventInstanceResavoir = x.eventInstanceResavoir
        /\ y.state = x.state /\ y.raw = x.raw /\ y.waveform = x.waveform
    BY ONLY <1>1, <1>2, x \in Decoders DEF Decoders
  <1> DEFINE pool == x.eventInstanceResavoir
             instances == x.instances
  <1>7. /\ \A i \in 1 .. Len(pool) : pool[i] \in 1 .. Len(instances)
        /\ \A i, k \in 1 .. Len(pool) : pool[i] = pool[k] => i = k
    BY DEF InstancesInv, InstancesOK
  <1>8. /\ \A i \in 1 .. Len(queue) : queue[i] \in 1 .. Len(instances)
        /\ \A i, k \in 1 .. Len(queue) : queue[i] = queue[k] => i = k
        /\ \A i \in 1 .. Len(pool), k \in 1 .. Len(queue) : pool[i] # queue[k]
    BY DEF InstancesInv, InstancesOK
  <1>9. /\ \A z \in h :
              /\ z.instance \in 1 .. Len(instances) /\ instances[z.instance] = z.event
              /\ \A i \in 1 .. Len(pool) : pool[i] # z.instance
              /\ \A i \in 1 .. Len(queue) : queue[i] # z.instance
        /\ \A z, u \in h : z.instance = u.instance => z = u
    BY DEF InstancesInv, InstancesOK
  <1> HIDE DEF pool, instances, queue, g
  <1>10. \A i \in 1 .. Len(v) : FALSE
    BY <1>1
  <1>11. \A z \in g :
              /\ z.instance \in 1 .. Len(instances) /\ instances[z.instance] = z.event
              /\ \A i \in 1 .. Len(pool) : pool[i] # z.instance
    <2>1. ASSUME NEW z \in Handed(x)
          PROVE  /\ z.instance \in 1 .. Len(instances) /\ instances[z.instance] = z.event
                 /\ \A i \in 1 .. Len(pool) : pool[i] # z.instance
      <3>1. PICK i \in 1 .. Len(queue) :
              z.instance = queue[i] /\ z.event = instances[queue[i]]
        BY <1>5 DEF queue, instances
      <3>2. QED BY ONLY <1>8, <3>1, i \in 1 .. Len(queue)
    <2>2. QED BY <1>9, <2>1 DEF g
  <1>12. \A z, u \in g : z.instance = u.instance => z = u
    <2> SUFFICES ASSUME NEW z \in g, NEW u \in g, z.instance = u.instance PROVE z = u
      OBVIOUS
    <2>1. \A w \in Handed(x) : \E i \in 1 .. Len(queue) :
             w.instance = queue[i] /\ w = [instance |-> queue[i], event |-> EventsIn(x)[i]]
      BY <1>5 DEF queue
    <2>2. \A w \in h : \A i \in 1 .. Len(queue) : queue[i] # w.instance
      BY <1>9
    <2>3. CASE z \in h /\ u \in h
      BY <1>9, <2>3
    <2>4. CASE z \in Handed(x) /\ u \in Handed(x)
      <3>1. PICK i \in 1 .. Len(queue) :
              z.instance = queue[i] /\ z = [instance |-> queue[i], event |-> EventsIn(x)[i]]
        BY <2>1, <2>4
      <3>2. PICK k \in 1 .. Len(queue) :
              u.instance = queue[k] /\ u = [instance |-> queue[k], event |-> EventsIn(x)[k]]
        BY <2>1, <2>4
      <3>3. queue[i] = queue[k]
        BY ONLY <3>1, <3>2, z.instance = u.instance
      <3>4. i = k
        BY ONLY <1>8, <3>3, i \in 1 .. Len(queue), k \in 1 .. Len(queue)
      <3>5. QED BY ONLY <3>1, <3>2, <3>4
    <2>5. CASE z \in h /\ u \in Handed(x)
      BY <2>1, <2>2, <2>5
    <2>6. CASE z \in Handed(x) /\ u \in h
      BY <2>1, <2>2, <2>6
    <2>7. QED BY <2>3, <2>4, <2>5, <2>6 DEF g
  <1>13. InstancesInv(y, g)
    BY ONLY <1>6, <1>7, <1>10, <1>11, <1>12 DEF InstancesInv, InstancesOK, pool, instances
  <1>14. QED BY <1>6, <1>13 DEF y, g, v

(* decodeEvent() with the next bytes of the stream.                        *)
LEMMA StreamIsRead ==
    ASSUME NEW s, Sent(s), NEW d \in Decoders, d.eventQueue = <<>>, NEW h, InstancesInv(d, h),
           Len(d.waveform) <= MaxWaveformLength, NEW out \in Seq(Event),
           NEW c, NEW f, NEW a, a = c \o f, Stream(c, f, d, s, out),
           NEW b, NEW q \in Nat, Len(b) = 2 * q, 2 * q <= Len(a),
           \A i \in 1 .. 2 * q : b[i] = a[i]
    PROVE  LET x == DecodeEvent(d, b)
               y == GetDecodedEvents(x)
           IN  /\ y \in Decoders /\ y.eventQueue = <<>> /\ InstancesInv(y, h \cup Handed(x))
               /\ Len(y.waveform) <= MaxWaveformLength /\ out \o EventsIn(x) \in Seq(Event)
               /\ Stream(<<>>, SubSeq(a, 2 * q + 1, Len(a)), y, s, out \o EventsIn(x))
  <1> DEFINE x == DecodeEvent(d, b)
             y == GetDecodedEvents(x)
  <1>1. PICK V \in Seq(Nat), n \in 0 .. Len(s) : \E start :
          a = BytesOf(V) /\ Layout(V, start, n, s) /\ Reading(d, start, 0, n, s, out)
    BY DEF Stream
  <1>2. PICK start : a = BytesOf(V) /\ Layout(V, start, n, s) /\ Reading(d, start, 0, n, s, out)
    BY <1>1
  <1>3. out \o EventsIn(d) = out
    <2>1. EventsIn(d) \in Seq(Event) /\ Len(EventsIn(d)) = 0
      BY EventsInAreEvents
    <2> DEFINE E == EventsIn(d)
    <2> HIDE DEF E
    <2>2. E = <<>>
      BY <2>1 DEF E
    <2>3. out \o E = out
      BY <2>2
    <2>4. QED BY <2>3 DEF E
  <1>4. /\ Len(a) = 2 * Len(V) /\ a \in Seq(StreamByte)
        /\ \A i \in 1 .. Len(V) : WordOf(a[2 * i - 1], a[2 * i]) = V[i]
    BY <1>2, OneWord
  <1>5. q <= Len(V) /\ Len(b) \div 2 = q /\ Len(V) \in Nat
    <2>1. Len(V) \in Nat
      OBVIOUS
    <2>2. QED BY ONLY <1>4, <2>1, q \in Nat, Len(b) = 2 * q, 2 * q <= Len(a)
  <1>6. \A k \in 1 .. q : WordOf(b[2 * k - 1], b[2 * k]) = V[k]
    <2>1. \A k \in 1 .. q : 2 * k - 1 \in 1 .. 2 * q /\ 2 * k \in 1 .. 2 * q /\ k \in 1 .. Len(V)
      BY ONLY <1>5, q \in Nat
    <2>2. \A k \in 1 .. q : b[2 * k - 1] = a[2 * k - 1] /\ b[2 * k] = a[2 * k]
      BY ONLY <2>1, \A i \in 1 .. 2 * q : b[i] = a[i]
    <2>3. QED BY ONLY <1>4, <2>1, <2>2
  <1>7. /\ x \in Decoders /\ InstancesInv(x, h) /\ Len(x.waveform) <= MaxWaveformLength
        /\ Reading(x, start, q, n, s, out \o EventsIn(x))
    <2>1. Reading(d, start, 0, n, s, out \o EventsIn(d)) /\ Layout(V, start, n, s)
      BY <1>2, <1>3
    <2>2. QED
      BY ONLY <1>5, <1>6, <2>1, Sent(s), n \in 0 .. Len(s), V \in Seq(Nat), d \in Decoders,
              InstancesInv(d, h), Len(d.waveform) <= MaxWaveformLength, out \in Seq(Event),
              q \in Nat, WordsAreRead
  <1> HIDE DEF x
  <1>8. /\ y \in Decoders /\ y.eventQueue = <<>> /\ InstancesInv(y, h \cup Handed(x))
        /\ y.state = x.state /\ y.raw = x.raw /\ y.waveform = x.waveform
    BY <1>7, QueueIsHanded
  <1>9. out \o EventsIn(x) \in Seq(Event)
    <2>1. EventsIn(x) \in Seq(Event)
      BY <1>7, EventsInAreEvents
    <2> DEFINE E == EventsIn(x)
    <2> HIDE DEF E
    <2>2. out \o E \in Seq(Event)
      BY <2>1 DEF E
    <2>3. QED BY <2>2 DEF E
  <1> HIDE DEF y
  <1> DEFINE U == SubSeq(V, q + 1, Len(V))
             rest == SubSeq(a, 2 * q + 1, Len(a))
             next == [k \in 1 .. Len(s) + 1 |-> start[k] - q]
             more == out \o EventsIn(x)
             N == Len(s)
  <1>10. /\ U \in Seq(Nat) /\ Len(U) = Len(V) - q
         /\ \A i \in 1 .. Len(V) - q : U[i] = V[q + i]
    BY <1>5, RestOf
  <1>11. <<>> \o rest = BytesOf(U)
    <2>1. rest = BytesOf(U)
      BY <1>2, <1>4, <1>5, BytesRest
    <2>2. BytesOf(U) \in Seq(StreamByte)
      <3> HIDE DEF U
      <3>1. QED BY <1>10, OneWord
    <2> HIDE DEF rest, U
    <2>3. QED BY <2>1, <2>2
  <1>12. /\ start \in [1 .. N + 1 -> Int] /\ start[N + 1] = Len(V)
         /\ \A k \in n + 1 .. N :
               /\ start[k + 1] = start[k] + (13 + Len(s[k].waveform))
               /\ \A i \in 1 .. 13 + Len(s[k].waveform) :
                     start[k] + i > 0 =>
                       start[k] + i <= Len(V) /\ V[start[k] + i] = EventWords(s[k])[i]
    BY <1>2 DEF Layout
  <1>13. N \in Nat /\ n \in Nat /\ n <= N
    BY DEF Sent
  <1>14. /\ next \in [1 .. N + 1 -> Int]
         /\ \A k \in 1 .. N + 1 : next[k] = start[k] - q /\ start[k] \in Int
    <2>1. \A k \in 1 .. N + 1 : start[k] \in Int
      BY ONLY <1>12
    <2>2. \A k \in 1 .. N + 1 : start[k] - q \in Int
      BY ONLY <2>1, q \in Nat
    <2>3. QED BY ONLY <2>1, <2>2
  <1>15. \A k \in n .. N : k + 1 \in 1 .. N + 1
    BY ONLY <1>13
  <1> HIDE DEF U, rest, next, more, N
  <1>16. Layout(U, next, n, s)
    <2>1. next[N + 1] = Len(U)
      <3>1. N + 1 \in 1 .. N + 1
        BY <1>13
      <3>2. next[N + 1] = Len(V) - q
        BY ONLY <1>12, <1>14, <3>1
      <3>3. QED BY <1>10, <3>2
    <2>2. ASSUME NEW k \in n + 1 .. N
          PROVE  /\ next[k + 1] = next[k] + (13 + Len(s[k].waveform))
                 /\ \A i \in 1 .. 13 + Len(s[k].waveform) :
                        next[k] + i > 0 =>
                          next[k] + i <= Len(U) /\ U[next[k] + i] = EventWords(s[k])[i]
      <3>1. k \in 1 .. N /\ k \in 1 .. N + 1 /\ k + 1 \in 1 .. N + 1
        BY <1>13
      <3>2. next[k] = start[k] - q /\ next[k + 1] = start[k + 1] - q /\ start[k] \in Int
            /\ start[k + 1] = start[k] + (13 + Len(s[k].waveform))
        BY <1>12, <1>14, <3>1
      <3>3. Len(s[k].waveform) \in Nat
        BY <3>1, WordsOfEvent DEF Sent, N
      <3>4. next[k + 1] = next[k] + (13 + Len(s[k].waveform))
        BY ONLY <3>2, <3>3, q \in Nat
      <3>5. ASSUME NEW i \in 1 .. 13 + Len(s[k].waveform), next[k] + i > 0
            PROVE  next[k] + i <= Len(U) /\ U[next[k] + i] = EventWords(s[k])[i]
        <4>1. i \in Nat /\ start[k] + i > 0
          BY <3>2, <3>5
        <4>2. start[k] + i <= Len(V) /\ V[start[k] + i] = EventWords(s[k])[i]
          BY <1>12, <4>1
        <4>3. PICK u \in Int : u = next[k] + i
          BY ONLY <3>2, <4>1, q \in Nat
        <4>4. u \in 1 .. Len(V) - q /\ q + u = start[k] + i
          <5>1. PICK v \in Int : v = start[k]
            BY <3>2
          <5>2. u = v - q + i /\ u > 0 /\ v + i <= Len(V) /\ start[k] + i = v + i
            BY ONLY <3>2, <3>5, <4>1, <4>2, <4>3, <5>1, q \in Nat
          <5>3. QED BY ONLY <1>5, <4>1, <5>2, q \in Nat, u \in Int, v \in Int
        <4>5. U[u] = V[q + u]
          BY <1>10, <4>4
        <4>6. u <= Len(U)
          BY ONLY <1>5, <1>10, <4>4, q \in Nat
        <4>7. QED BY ONLY <4>2, <4>3, <4>4, <4>5, <4>6
      <3>6. QED BY <3>4, <3>5
    <2>3. QED BY <1>14, <2>1, <2>2 DEF Layout, N
  <1>17. Reading(y, next, 0, n, s, more)
    <2>1. PICK m \in n .. N, j \in Nat :
            /\ start[m + 1] = q - j
            /\ m = N => j = 0 /\ x.state = "flag_FFF0"
            /\ m < N => j <= 12 + Len(s[m + 1].waveform) /\ Inside(x, s[m + 1], j)
            /\ Emitted(more, m, s)
      BY <1>7 DEF Reading, N, more
    <2>2. next[m + 1] = 0 - j
      <3>1. next[m + 1] = start[m + 1] - q
        BY <1>14, <1>15
      <3>2. QED BY ONLY <2>1, <3>1, q \in Nat, j \in Nat
    <2>3. m < N => Inside(y, s[m + 1], j)
      <3>1. Inside(x, s[m + 1], j) => Inside(y, s[m + 1], j)
        BY ONLY <1>8 DEF Inside, FieldsAfter, WaveformAfter
      <3>2. QED BY <2>1, <3>1
    <2>4. QED BY <1>8, <2>1, <2>2, <2>3 DEF Reading, N
  <1>18. Stream(<<>>, rest, y, s, more)
    BY <1>10, <1>11, <1>16, <1>17 DEF Stream
  <1>19. Len(y.waveform) <= MaxWaveformLength
    BY <1>7, <1>8
  <1>20. QED BY <1>8, <1>9, <1>18, <1>19 DEF x, y, rest, more

-----------------------------------------------------------------------------
(* The inductive invariant.                                                *)

EventIInv ==
    /\ Sent(sentEvents) /\ Len(sentEvents) <= MaxEvents
    /\ feed \in Seq(StreamByte) /\ chunk \in Seq(StreamByte)
    /\ fifo \in {"none", "open", "cut"} /\ readerPhase \in {"idle", "odd"}
    /\ readerPhase = "odd" <=> Len(chunk) % 2 = 1
    /\ readerPhase = "idle" => chunk = <<>>
    /\ decoder \in Decoders /\ decoder.eventQueue = <<>> /\ InstancesInv(decoder, held)
    /\ Len(decoder.waveform) <= MaxWaveformLength
    /\ seen \in Seq(Event) /\ Emitted(seen, Len(sentEvents), sentEvents)
    /\ fifo = "none" => readerPhase = "idle" /\ decoder.state = "flag_FFF0"
    /\ programEnd \in {"none", "exit"} /\ (programEnd = "exit" => fifo = "none")
    /\ fifo = "open" => Stream(chunk, feed, decoder, sentEvents, seen)

(* The invariant holds at first, ...                                       *)
LEMMA EventIInvAtFirst == EventInit => EventIInv
  <1> SUFFICES ASSUME EventInit PROVE EventIInv
    OBVIOUS
  <1> DEFINE v == <<>>
             M == InitialEventInstances
             pool == [i \in 1 .. M |-> i]
             all == [i \in 1 .. M |-> NoInstance]
  <1>1. /\ sentEvents = v /\ feed = v /\ fifo = "none" /\ readerPhase = "idle" /\ chunk = v
        /\ decoder = [state |-> "flag_FFF0", raw |-> NoRaw, waveform |-> v, eventQueue |-> v,
                      eventInstanceResavoir |-> pool, instances |-> all]
        /\ held = {} /\ seen = v /\ programEnd = "none"
    BY DEF EventInit, InitialDecoder
  <1>2. M \in Nat /\ MaxEvents \in Nat /\ MaxWaveformLength \in Nat
    BY EventReadoutAssumption
  <1>3. /\ v \in Seq(Nat) /\ v \in Seq(Event) /\ v \in Seq(StreamByte) /\ Len(v) = 0 /\ v = <<>>
    OBVIOUS
  <1>4. NoInstance \in Event
    BY DEF NoInstance, Event
  <1>5. pool \in Seq(Nat) /\ Len(pool) = M /\ \A i \in 1 .. M : pool[i] = i
    BY <1>2
  <1>6. all \in Seq(Event) /\ Len(all) = M
    BY <1>2, <1>4
  <1>7. NoRaw \in [ch : Nat, phaMax : Nat, timeH : Nat, timeM : Nat, timeL : Nat,
                   triggerCountH : Nat, triggerCountL : Nat]
    BY DEF NoRaw
  <1> HIDE DEF v, pool, all, M
  <1>8. /\ decoder \in Decoders /\ decoder.eventQueue = v /\ decoder.waveform = v
        /\ decoder.eventInstanceResavoir = pool /\ decoder.instances = all
        /\ decoder.state = "flag_FFF0"
    BY <1>1, <1>3, <1>5, <1>6, <1>7 DEF Decoders, DecoderStates
  <1>9. \A i \in 1 .. Len(v) : FALSE
    BY <1>3
  <1>10. InstancesInv(decoder, held)
    BY <1>1, <1>5, <1>6, <1>8, <1>9 DEF InstancesInv, InstancesOK
  <1>11. Sent(sentEvents) /\ Emitted(seen, Len(sentEvents), sentEvents)
    BY <1>1, <1>3, <1>9 DEF Sent, Emitted
  <1>12. Len(chunk) % 2 # 1
    <2>1. Len(chunk) = 0
      BY <1>1, <1>3
    <2>2. QED BY <2>1
  <1>13. /\ Len(sentEvents) <= MaxEvents /\ feed \in Seq(StreamByte) /\ chunk \in Seq(StreamByte)
         /\ seen \in Seq(Event) /\ Len(decoder.waveform) <= MaxWaveformLength
    BY <1>1, <1>2, <1>3, <1>8
  <1>14. QED BY <1>1, <1>3, <1>8, <1>10, <1>11, <1>12, <1>13 DEF EventIInv

(* The first n elements of a sequence and what is left of it.              *)
LEMMA TakenOf ==
    ASSUME NEW S, NEW t \in Seq(S), NEW n \in Nat, n <= Len(t)
    PROVE  /\ SubSeq(t, 1, n) \in Seq(S) /\ Len(SubSeq(t, 1, n)) = n
           /\ \A i \in 1 .. n : SubSeq(t, 1, n)[i] = t[i]
           /\ SubSeq(t, 1, n) \o SubSeq(t, n + 1, Len(t)) = t
  <1> DEFINE r == SubSeq(t, 1, n)
             w == SubSeq(t, n + 1, Len(t))
  <1>1. Len(t) \in Nat /\ \A i \in 1 .. n : i \in 1 .. Len(t)
    OBVIOUS
  <1>2. r = [i \in 1 .. n |-> t[i]]
    BY <1>1
  <1>3. \A i \in 1 .. n : t[i] \in S
    BY <1>1
  <1>4. r \in Seq(S) /\ Len(r) = n /\ \A i \in 1 .. n : r[i] = t[i]
    <2> HIDE DEF r
    <2>1. QED BY ONLY <1>2, <1>3, n \in Nat
  <1>5. /\ w \in Seq(S) /\ Len(w) = Len(t) - n
        /\ \A i \in 1 .. Len(t) - n : w[i] = t[n + i]
    BY RestOf
  <1> HIDE DEF r, w
  <1>6. /\ r \o w \in Seq(S) /\ Len(r \o w) = Len(r) + Len(w)
        /\ \A i \in 1 .. Len(r) : (r \o w)[i] = r[i]
        /\ \A i \in 1 .. Len(w) : (r \o w)[Len(r) + i] = w[i]
    <2>1. r \in Seq(S) /\ w \in Seq(S)
      BY <1>4, <1>5
    <2>2. QED BY ONLY <2>1, Joined
  <1> DEFINE j == r \o w
  <1> HIDE DEF j
  <1>7. /\ j \in Seq(S) /\ Len(j) = Len(t)
        /\ \A i \in 1 .. n : j[i] = t[i]
        /\ \A i \in 1 .. Len(t) - n : j[n + i] = t[n + i]
    <2>1. Len(j) = n + (Len(t) - n) /\ n + (Len(t) - n) = Len(t)
      BY <1>1, <1>4, <1>5, <1>6 DEF j
    <2>2. \A i \in 1 .. n : j[i] = t[i]
      BY <1>4, <1>6 DEF j
    <2>3. \A i \in 1 .. Len(t) - n : j[n + i] = t[n + i]
      BY <1>4, <1>5, <1>6 DEF j
    <2>4. QED BY <1>6, <2>1, <2>2, <2>3 DEF j
  <1>8. ASSUME NEW i \in 1 .. Len(j) PROVE j[i] = t[i]
    <2>1. CASE i <= n
      BY <1>7, <2>1
    <2>2. CASE i > n
      <3>1. PICK k \in 1 .. Len(t) - n : i = n + k
        <4>1. i - n \in 1 .. Len(t) - n /\ i = n + (i - n)
          BY <1>1, <1>7, <2>2
        <4>2. QED BY <4>1
      <3>2. QED BY <1>7, <3>1
    <2>3. QED BY <1>1, <1>7, <2>1, <2>2
  <1>9. j = t
    BY ONLY <1>7, <1>8, t \in Seq(S), SameSequence
  <1>10. QED BY <1>4, <1>9 DEF j, r, w

(* getEvent() with bytes that are the next of the stream.                  *)
LEMMA HandsReads ==
    ASSUME EventIInv, fifo = "open", NEW b, NEW q \in Nat, Len(b) = 2 * q,
           NEW a, a = chunk \o feed, 2 * q <= Len(a), \A i \in 1 .. 2 * q : b[i] = a[i],
           Hands(b), sentEvents' = sentEvents
    PROVE  /\ decoder' \in Decoders /\ decoder'.eventQueue = <<>> /\ InstancesInv(decoder', held')
           /\ Len(decoder'.waveform) <= MaxWaveformLength /\ seen' \in Seq(Event)
           /\ Emitted(seen', Len(sentEvents'), sentEvents') /\ programEnd' = programEnd
           /\ Stream(<<>>, SubSeq(a, 2 * q + 1, Len(a)), decoder', sentEvents', seen')
  <1> DEFINE x == DecodeEvent(decoder, b)
  <1>1. Len(b) % 2 # 1
    OBVIOUS
  <1>2. \E d \in {x} :
          /\ decoder' = GetDecodedEvents(d)
          /\ held' = held \cup {[instance |-> d.eventQueue[i], event |-> EventsIn(d)[i]] :
                                   i \in DOMAIN d.eventQueue}
          /\ seen' = seen \o EventsIn(d)
    BY <1>1 DEF Hands
  <1>3. programEnd' = programEnd
    BY <1>1 DEF Hands
  <1> HIDE DEF x
  <1>4. /\ decoder' = GetDecodedEvents(x) /\ held' = held \cup Handed(x)
        /\ seen' = seen \o EventsIn(x)
    BY <1>2 DEF Handed
  <1>5. /\ Sent(sentEvents) /\ decoder \in Decoders /\ decoder.eventQueue = <<>>
        /\ InstancesInv(decoder, held) /\ Len(decoder.waveform) <= MaxWaveformLength
        /\ seen \in Seq(Event) /\ Stream(chunk, feed, decoder, sentEvents, seen)
    BY DEF EventIInv
  <1> DEFINE y == GetDecodedEvents(x)
             rest == SubSeq(a, 2 * q + 1, Len(a))
             more == seen \o EventsIn(x)
  <1>6. /\ y \in Decoders /\ y.eventQueue = <<>> /\ InstancesInv(y, held \cup Handed(x))
        /\ Len(y.waveform) <= MaxWaveformLength /\ more \in Seq(Event)
        /\ Stream(<<>>, rest, y, sentEvents, more)
    <2> HIDE DEF y, rest, more
    <2>1. LET X == DecodeEvent(decoder, b)
              Y == GetDecodedEvents(X)
          IN  /\ Y \in Decoders /\ Y.eventQueue = <<>> /\ InstancesInv(Y, held \cup Handed(X))
              /\ Len(Y.waveform) <= MaxWaveformLength /\ seen \o EventsIn(X) \in Seq(Event)
              /\ Stream(<<>>, SubSeq(a, 2 * q + 1, Len(a)), Y, sentEvents, seen \o EventsIn(X))
      BY ONLY <1>5, q \in Nat, Len(b) = 2 * q, a = chunk \o feed, 2 * q <= Len(a),
              \A i \in 1 .. 2 * q : b[i] = a[i], StreamIsRead, ZenonT(60)
    <2>2. QED BY <2>1 DEF x, y, rest, more
  <1> HIDE DEF y, rest, more
  <1>7. Emitted(more, Len(sentEvents), sentEvents)
    BY <1>5, <1>6, StreamEmits
  <1>8. decoder' = y /\ seen' = more
    BY <1>4 DEF y, more
  <1>9. QED BY <1>3, <1>4, <1>6, <1>7, <1>8 DEF rest

(* ... is kept by every step, ...                                          *)
LEMMA EventIInvIsKept ==
    ASSUME OpensWhenQuiet, ClosesBetweenEvents, EventIInv, [EventNext]_eventVars
    PROVE  EventIInv'
  <1> USE DEF feedVars, socketVars
  <1>1. CASE SendEvent
    <2>1. PICK kind \in EventKinds :
            /\ sentEvents' = Append(sentEvents, [kind EXCEPT !.triggerCount = Len(sentEvents) + 1])
            /\ feed' = feed \o BytesOf(EventWords([kind EXCEPT !.triggerCount = Len(sentEvents) + 1]))
      BY <1>1 DEF SendEvent
    <2> DEFINE n == Len(sentEvents) + 1
               e == [kind EXCEPT !.triggerCount = n]
               W == EventWords(e)
    <2>2. UNCHANGED <<socketVars, readerPhase, chunk, decoder, held, seen, programEnd>>
          /\ Len(sentEvents) < MaxEvents
      BY <1>1 DEF SendEvent
    <2>3. Sent(sentEvents) /\ sentEvents \in Seq(Event) /\ Len(sentEvents) \in Nat
      BY DEF EventIInv, Sent
    <2>4. n \in Nat /\ n <= MaxEvents /\ n < WordSpace * WordSpace
      <3>1. MaxEvents \in Nat /\ MaxEvents < WordSpace * WordSpace
            /\ WordSpace * WordSpace \in Nat
        BY EventReadoutAssumption
      <3> DEFINE w == WordSpace * WordSpace
      <3> HIDE DEF w
      <3>2. MaxEvents \in Nat /\ MaxEvents < w /\ w \in Nat
        BY <3>1 DEF w
      <3>3. n \in Nat /\ n <= MaxEvents /\ n < w
        BY <2>2, <2>3, <3>2
      <3>4. QED BY <3>3 DEF w
    <2>5. SentEvent(e) /\ e.triggerCount = n
      <3> HIDE DEF n
      <3>1. QED BY <2>4, KindsBecomeEvents
    <2> HIDE DEF e
    <2>6. sentEvents' = Append(sentEvents, e) /\ feed' = feed \o BytesOf(W)
      BY <2>1 DEF e
    <2>7. e \in Event
      BY <2>5 DEF SentEvent
    <2>8. /\ sentEvents' \in Seq(Event) /\ Len(sentEvents') = n /\ sentEvents'[n] = e
          /\ \A k \in 1 .. Len(sentEvents) : sentEvents'[k] = sentEvents[k]
          /\ \A k \in 1 .. n : k \in 1 .. Len(sentEvents) \/ k = n
      BY ONLY <2>3, <2>6, <2>7, Appended
    <2>9. Sent(sentEvents')
      BY <2>3, <2>5, <2>8 DEF Sent
    <2>10. feed' \in Seq(StreamByte)
      <3>1. W \in Seq(Nat)
        BY <2>5, WordsOfEvent
      <3> HIDE DEF W
      <3>2. BytesOf(W) \in Seq(StreamByte) /\ feed \in Seq(StreamByte)
        BY <3>1, OneWord DEF EventIInv
      <3> DEFINE b == BytesOf(W)
      <3> HIDE DEF b
      <3>3. feed \o b \in Seq(StreamByte)
        BY <3>2 DEF b
      <3>4. QED BY <2>6, <3>3 DEF b
    <2>11. Emitted(seen, n, sentEvents')
      <3>1. /\ \A i \in 1 .. Len(seen) :
                  seen[i].triggerCount \in 1 .. Len(sentEvents)
                  /\ seen[i] = sentEvents[seen[i].triggerCount]
            /\ \A i, k \in 1 .. Len(seen) : i < k => seen[i].triggerCount < seen[k].triggerCount
        BY DEF EventIInv, Emitted
      <3>2. \A x \in 1 .. Len(sentEvents) : x \in 1 .. n
        BY <2>3
      <3> HIDE DEF n
      <3>3. QED BY ONLY <2>8, <3>1, <3>2 DEF Emitted
    <2>12. fifo = "open" => Stream(chunk, feed', decoder, sentEvents', seen)
      <3> SUFFICES ASSUME fifo = "open" PROVE Stream(chunk, feed', decoder, sentEvents', seen)
        OBVIOUS
      <3>1. Stream(chunk, feed, decoder, sentEvents, seen) /\ chunk \in Seq(StreamByte)
            /\ feed \in Seq(StreamByte)
        BY DEF EventIInv
      <3>2. Stream(chunk, feed \o BytesOf(EventWords(e)), decoder, sentEvents', seen)
        BY <2>3, <2>5, <2>6, <2>9, <3>1, StreamGetsLonger
      <3>3. QED BY <2>6, <3>2
    <2> HIDE DEF n, W
    <2>13. seen' = seen /\ Len(sentEvents') <= MaxEvents
           /\ Emitted(seen', Len(sentEvents'), sentEvents')
      BY <2>2, <2>4, <2>8, <2>11
    <2>14. QED BY <2>2, <2>9, <2>10, <2>12, <2>13 DEF EventIInv
  <1>2. CASE Cut
    <2>1. /\ fifo = "open" /\ fifo' = "cut" /\ feed' = <<>>
          /\ UNCHANGED <<sentEvents, opens, readerPhase, chunk, decoder, held, seen, programEnd>>
      BY <1>2 DEF Cut
    <2>2. feed' \in Seq(StreamByte)
      BY <2>1
    <2>3. QED BY <2>1, <2>2 DEF EventIInv
  <1>3. CASE OpenEventSocket
    <2>1. /\ fifo = "none" /\ readerPhase = "idle" /\ programEnd = "none"
          /\ UNCHANGED <<sentEvents, readerPhase, chunk, decoder, held, seen>>
      BY <1>3 DEF OpenEventSocket
    <2>2. CASE fifo' = "open" /\ UNCHANGED <<cuts, programEnd>>
      <3>1. PICK n \in 0 .. Len(feed) : n = Len(feed) /\ feed' = SubSeq(feed, n + 1, Len(feed))
        BY <1>3, <2>1, <2>2 DEF OpenEventSocket
      <3>2. feed \in Seq(StreamByte) /\ Len(feed) \in Nat
        BY DEF EventIInv
      <3>3. /\ feed' \in Seq(StreamByte) /\ Len(feed') = Len(feed) - n
        BY ONLY <3>1, <3>2, RestOf
      <3>4. feed' = <<>>
        BY <3>1, <3>2, <3>3
      <3>5. /\ Sent(sentEvents) /\ decoder.state = "flag_FFF0" /\ chunk = <<>>
            /\ Emitted(seen, Len(sentEvents), sentEvents)
        BY <2>1 DEF EventIInv
      <3>6. Stream(<<>>, <<>>, decoder, sentEvents, seen)
        BY <3>5, QuietStream
      <3>7. Stream(chunk', feed', decoder', sentEvents', seen')
        BY <2>1, <3>4, <3>5, <3>6
      <3>8. QED BY <2>1, <2>2, <3>3, <3>7 DEF EventIInv
    <2>3. CASE programEnd' = "exit" /\ UNCHANGED <<fifo, feed>>
      BY <2>1, <2>3 DEF EventIInv
    <2>4. QED BY <1>3, <2>2, <2>3 DEF OpenEventSocket
  <1>4. CASE CloseEventSocket
    BY <1>4 DEF CloseEventSocket, EventIInv
  <1>5. CASE GetEvent
    <2>1. /\ fifo = "open" /\ readerPhase = "idle" /\ programEnd = "none"
          /\ UNCHANGED <<sentEvents, socketVars>>
      BY <1>5 DEF GetEvent
    <2>2. PICK n \in 1 .. ReceiveBufferSize :
            /\ n <= Len(feed)
            /\ feed' = SubSeq(feed, n + 1, Len(feed))
            /\ \/ /\ WaitsForOneMore(n)
                  /\ readerPhase' = "odd" /\ chunk' = SubSeq(feed, 1, n)
                  /\ UNCHANGED <<decoder, held, seen, programEnd>>
               \/ /\ ~WaitsForOneMore(n)
                  /\ Hands(SubSeq(feed, 1, n))
                  /\ UNCHANGED <<readerPhase, chunk>>
      BY <1>5 DEF GetEvent
    <2>3. feed \in Seq(StreamByte) /\ chunk = <<>> /\ n \in Nat
      BY <2>1, EventReadoutAssumption DEF EventIInv
    <2>4. chunk \o feed = feed
      BY <2>3
    <2>5. /\ SubSeq(feed, 1, n) \in Seq(StreamByte) /\ Len(SubSeq(feed, 1, n)) = n
          /\ \A i \in 1 .. n : SubSeq(feed, 1, n)[i] = feed[i]
          /\ SubSeq(feed, 1, n) \o SubSeq(feed, n + 1, Len(feed)) = feed
      BY ONLY <2>2, <2>3, TakenOf
    <2>6. SubSeq(feed, n + 1, Len(feed)) \in Seq(StreamByte)
      BY ONLY <2>2, <2>3, RestOf
    <2> DEFINE b == SubSeq(feed, 1, n)
               r == SubSeq(feed, n + 1, Len(feed))
    <2> HIDE DEF b, r
    <2>7. CASE /\ WaitsForOneMore(n)
               /\ readerPhase' = "odd" /\ chunk' = b
               /\ UNCHANGED <<decoder, held, seen, programEnd>>
      <3>1. n % 2 = 1 /\ Len(chunk') % 2 = 1
        BY <2>5, <2>7 DEF WaitsForOneMore, b
      <3>2. chunk' \o feed' = chunk \o feed
        BY <2>2, <2>4, <2>5, <2>7 DEF b, r
      <3>3. Stream(chunk', feed', decoder', sentEvents', seen')
        BY <2>1, <2>7, <3>2 DEF EventIInv, Stream
      <3>4. feed' \in Seq(StreamByte) /\ chunk' \in Seq(StreamByte)
        BY <2>2, <2>5, <2>6, <2>7 DEF b
      <3>5. QED BY <2>1, <2>7, <3>1, <3>3, <3>4 DEF EventIInv
    <2>8. CASE /\ ~WaitsForOneMore(n)
               /\ Hands(b)
               /\ UNCHANGED <<readerPhase, chunk>>
      <3>1. PICK q \in Nat : n = 2 * q
        <4>1. n % 2 # 1
          BY <2>8 DEF WaitsForOneMore
        <4>2. n \div 2 \in Nat /\ n = 2 * (n \div 2)
          BY ONLY <2>3, <4>1
        <4>3. QED BY <4>2
      <3>2. Len(b) = 2 * q /\ \A i \in 1 .. 2 * q : b[i] = feed[i]
        BY <2>5, <3>1 DEF b
      <3>3. 2 * q <= Len(feed) /\ feed = chunk \o feed /\ sentEvents' = sentEvents
        BY <2>1, <2>2, <2>4, <3>1
      <3>4. /\ decoder' \in Decoders /\ decoder'.eventQueue = <<>>
            /\ InstancesInv(decoder', held')
            /\ Len(decoder'.waveform) <= MaxWaveformLength /\ seen' \in Seq(Event)
            /\ Emitted(seen', Len(sentEvents'), sentEvents') /\ programEnd' = programEnd
            /\ Stream(<<>>, SubSeq(feed, 2 * q + 1, Len(feed)), decoder', sentEvents', seen')
        BY <2>1, <2>8, <3>2, <3>3, HandsReads
      <3>5. Stream(chunk', feed', decoder', sentEvents', seen')
        BY <2>2, <2>3, <2>8, <3>1, <3>4
      <3>6. feed' \in Seq(StreamByte)
        BY <2>2, <2>6
      <3>7. QED BY <2>1, <2>8, <3>4, <3>5, <3>6 DEF EventIInv
    <2>9. QED BY <2>2, <2>7, <2>8 DEF b
  <1>6. CASE GetOneMore
    <2>1. /\ fifo = "open" /\ readerPhase = "odd" /\ feed # <<>> /\ feed' = Tail(feed)
          /\ Hands(Append(chunk, Head(feed))) /\ readerPhase' = "idle" /\ chunk' = <<>>
          /\ UNCHANGED <<sentEvents, socketVars>>
      BY <1>6 DEF GetOneMore
    <2>2. feed \in Seq(StreamByte) /\ chunk \in Seq(StreamByte) /\ Len(chunk) % 2 = 1
      BY <2>1 DEF EventIInv
    <2> DEFINE b == Append(chunk, Head(feed))
               a == chunk \o feed
               l == Len(chunk)
    <2>3. l \in Nat /\ Len(feed) \in Nat /\ Len(feed) >= 1 /\ Head(feed) = feed[1]
          /\ Head(feed) \in StreamByte
      BY ONLY <2>1, <2>2
    <2>4. /\ b \in Seq(StreamByte) /\ Len(b) = l + 1 /\ b[l + 1] = feed[1]
          /\ \A i \in 1 .. l : b[i] = chunk[i]
          /\ \A i \in 1 .. l + 1 : i \in 1 .. l \/ i = l + 1
      BY ONLY <2>2, <2>3, Appended
    <2>5. /\ a \in Seq(StreamByte) /\ Len(a) = l + Len(feed)
          /\ \A i \in 1 .. l : a[i] = chunk[i]
          /\ \A i \in 1 .. Len(feed) : a[l + i] = feed[i]
      <3>1. chunk \in Seq(StreamByte) /\ feed \in Seq(StreamByte)
        BY <2>2
      <3>2. /\ chunk \o feed \in Seq(StreamByte) /\ Len(chunk \o feed) = Len(chunk) + Len(feed)
            /\ \A i \in 1 .. Len(chunk) : (chunk \o feed)[i] = chunk[i]
            /\ \A i \in 1 .. Len(feed) : (chunk \o feed)[Len(chunk) + i] = feed[i]
        BY ONLY <3>1, Joined
      <3>3. QED BY <3>2
    <2>6. PICK q \in Nat : l + 1 = 2 * q
      <3>1. l % 2 = 1
        BY <2>2
      <3> HIDE DEF l
      <3>2. (l + 1) \div 2 \in Nat /\ l + 1 = 2 * ((l + 1) \div 2)
        BY ONLY <2>3, <3>1
      <3>3. QED BY <3>2
    <2>7. SubSeq(a, (l + 1) + 1, Len(a)) = Tail(feed)
      <3> DEFINE w == SubSeq(a, (l + 1) + 1, Len(a))
                 t == Tail(feed)
                 k == l + 1
      <3> HIDE DEF a, b, l
      <3>1. k \in Nat /\ k <= Len(a)
        BY ONLY <2>3, <2>5
      <3> HIDE DEF k
      <3>2. /\ SubSeq(a, k + 1, Len(a)) \in Seq(StreamByte)
            /\ Len(SubSeq(a, k + 1, Len(a))) = Len(a) - k
            /\ \A i \in 1 .. Len(a) - k : SubSeq(a, k + 1, Len(a))[i] = a[k + i]
        BY ONLY <2>5, <3>1, RestOf
      <3>3. /\ t \in Seq(StreamByte) /\ Len(t) = Len(feed) - 1
            /\ \A i \in 1 .. Len(feed) - 1 : t[i] = feed[i + 1]
        BY ONLY <2>1, <2>2, <2>3
      <3> HIDE DEF t, w
      <3>4. /\ w \in Seq(StreamByte) /\ Len(w) = Len(a) - k
            /\ \A i \in 1 .. Len(a) - k : w[i] = a[k + i]
        BY <3>2 DEF w, k
      <3>5. Len(a) - k = Len(feed) - 1 /\ Len(w) = Len(t)
        BY <2>3, <2>5, <3>3, <3>4 DEF k
      <3>6. ASSUME NEW i \in 1 .. Len(w) PROVE w[i] = t[i]
        <4>1. i \in 1 .. Len(feed) - 1 /\ i + 1 \in 1 .. Len(feed) /\ k + i = l + (i + 1)
          BY <2>3, <3>3, <3>5 DEF k
        <4>2. PICK y \in 1 .. Len(feed) : y = i + 1
          BY <4>1
        <4>3. a[l + y] = feed[y]
          BY <2>5
        <4>4. QED BY ONLY <3>3, <3>4, <3>5, <4>1, <4>2, <4>3
      <3>7. w = t
        BY ONLY <3>3, <3>4, <3>5, <3>6, SameSequence
      <3>8. QED BY <3>7 DEF w, t
    <2>8. Len(b) = 2 * q /\ 2 * q <= Len(a)
      BY <2>3, <2>4, <2>5, <2>6
    <2>9. \A i \in 1 .. 2 * q : b[i] = a[i]
      <3> HIDE DEF a, b, l
      <3>1. 1 \in 1 .. Len(feed)
        BY <2>3
      <3>2. a[l + 1] = feed[1]
        BY <2>5, <3>1
      <3>3. QED BY ONLY <2>4, <2>5, <2>6, <3>2
    <2>10. /\ decoder' \in Decoders /\ decoder'.eventQueue = <<>>
           /\ InstancesInv(decoder', held')
           /\ Len(decoder'.waveform) <= MaxWaveformLength /\ seen' \in Seq(Event)
           /\ Emitted(seen', Len(sentEvents'), sentEvents') /\ programEnd' = programEnd
           /\ Stream(<<>>, SubSeq(a, 2 * q + 1, Len(a)), decoder', sentEvents', seen')
      <3>1. Hands(b) /\ fifo = "open" /\ sentEvents' = sentEvents /\ a = chunk \o feed
        BY <2>1
      <3> HIDE DEF a, b, l
      <3>2. QED BY ONLY EventIInv, <2>8, <2>9, <3>1, q \in Nat, HandsReads
    <2>11. Stream(chunk', feed', decoder', sentEvents', seen')
      <3> HIDE DEF a, b
      <3>1. SubSeq(a, 2 * q + 1, Len(a)) = feed'
        BY <2>1, <2>6, <2>7
      <3>2. QED BY <2>1, <2>10, <3>1
    <2>12. feed' \in Seq(StreamByte) /\ chunk' \in Seq(StreamByte) /\ Len(chunk') % 2 # 1
      BY <2>1, <2>2
    <2>13. QED
      BY ONLY <2>1, <2>10, <2>11, <2>12, EventIInv DEF EventIInv
  <1>7. CASE FreeEvent
    <2>1. PICK x \in held :
            /\ held' = held \ {x}
            /\ decoder' = [decoder EXCEPT !.eventInstanceResavoir = Append(@, x.instance)]
      BY <1>7 DEF FreeEvent
    <2>2. UNCHANGED <<feedVars, socketVars, readerPhase, chunk, seen, programEnd>>
      BY <1>7 DEF FreeEvent
    <2> DEFINE pool == decoder.eventInstanceResavoir
               queue == decoder.eventQueue
               instances == decoder.instances
               more == Append(pool, x.instance)
    <2>3. /\ pool \in Seq(Nat) /\ instances \in Seq(Event) /\ decoder \in Decoders
          /\ InstancesInv(decoder, held) /\ queue = <<>>
      BY DEF EventIInv, Decoders
    <2>4. /\ \A i \in 1 .. Len(pool) : pool[i] \in 1 .. Len(instances)
          /\ \A i, k \in 1 .. Len(pool) : pool[i] = pool[k] => i = k
      BY <2>3 DEF InstancesInv, InstancesOK
    <2>5. /\ \A y \in held :
              /\ y.instance \in 1 .. Len(instances) /\ instances[y.instance] = y.event
              /\ \A i \in 1 .. Len(pool) : pool[i] # y.instance
          /\ \A y, z \in held : y.instance = z.instance => y = z
      BY <2>3 DEF InstancesInv, InstancesOK
    <2>6. x.instance \in Nat /\ x.instance \in 1 .. Len(instances)
      BY <2>3, <2>5
    <2> HIDE DEF pool, queue, instances
    <2>7. /\ more \in Seq(Nat) /\ Len(more) = Len(pool) + 1 /\ more[Len(pool) + 1] = x.instance
          /\ \A i \in 1 .. Len(pool) : more[i] = pool[i]
          /\ \A i \in 1 .. Len(pool) + 1 : i \in 1 .. Len(pool) \/ i = Len(pool) + 1
      <3> DEFINE k == x.instance
      <3> HIDE DEF k
      <3>1. k \in Nat /\ pool \in Seq(Nat)
        BY <2>3, <2>6 DEF k
      <3>2. /\ Append(pool, k) \in Seq(Nat) /\ Len(Append(pool, k)) = Len(pool) + 1
            /\ Append(pool, k)[Len(pool) + 1] = k
            /\ \A i \in 1 .. Len(pool) : Append(pool, k)[i] = pool[i]
            /\ \A i \in 1 .. Len(pool) + 1 : i \in 1 .. Len(pool) \/ i = Len(pool) + 1
        BY ONLY <3>1, Appended
      <3>3. QED BY <3>2 DEF k
    <2> HIDE DEF more
    <2>8. decoder' = [decoder EXCEPT !.eventInstanceResavoir = more]
      BY <2>1 DEF more, pool
    <2>9. /\ decoder' \in Decoders /\ decoder'.eventInstanceResavoir = more
          /\ decoder'.eventQueue = queue /\ decoder'.instances = instances
          /\ decoder'.state = decoder.state /\ decoder'.raw = decoder.raw
          /\ decoder'.waveform = decoder.waveform
      BY ONLY <2>3, <2>7, <2>8 DEF Decoders, queue, instances
    <2>10. /\ \A i \in 1 .. Len(more) : more[i] \in 1 .. Len(instances)
           /\ \A i, k \in 1 .. Len(more) : more[i] = more[k] => i = k
      <3>1. \A i \in 1 .. Len(pool) : pool[i] # x.instance
        BY <2>5
      <3>2. QED BY ONLY <2>4, <2>6, <2>7, <3>1
    <2>11. \A y \in held' :
              /\ y \in held
              /\ y.instance \in 1 .. Len(instances) /\ instances[y.instance] = y.event
              /\ \A i \in 1 .. Len(more) : more[i] # y.instance
      <3> SUFFICES ASSUME NEW y \in held, y # x
                   PROVE  /\ y.instance \in 1 .. Len(instances)
                          /\ instances[y.instance] = y.event
                          /\ \A i \in 1 .. Len(more) : more[i] # y.instance
        BY <2>1
      <3>1. y.instance # x.instance
        BY <2>5
      <3>2. /\ y.instance \in 1 .. Len(instances) /\ instances[y.instance] = y.event
            /\ \A i \in 1 .. Len(pool) : pool[i] # y.instance
        BY <2>5
      <3>3. QED BY ONLY <2>7, <3>1, <3>2
    <2>12. \A y, z \in held' : y.instance = z.instance => y = z
      BY <2>5, <2>11
    <2>13. \A i \in 1 .. Len(queue) : FALSE
      BY <2>3
    <2>14. InstancesInv(decoder', held')
      BY ONLY <2>9, <2>10, <2>11, <2>12, <2>13 DEF InstancesInv, InstancesOK
    <2>15. fifo = "open" => Stream(chunk, feed, decoder', sentEvents, seen)
      <3>1. \A e, j : Inside(decoder, e, j) => Inside(decoder', e, j)
        BY ONLY <2>9 DEF Inside, FieldsAfter, WaveformAfter
      <3>2. \A start, n : Reading(decoder, start, 0, n, sentEvents, seen)
                             => Reading(decoder', start, 0, n, sentEvents, seen)
        BY ONLY <2>9, <3>1 DEF Reading
      <3>3. QED BY <3>2 DEF EventIInv, Stream
    <2>16. decoder'.eventQueue = <<>> /\ Len(decoder'.waveform) <= MaxWaveformLength
           /\ (fifo = "none" => decoder'.state = "flag_FFF0")
      BY <2>3, <2>9 DEF EventIInv
    <2>17. QED BY <2>2, <2>9, <2>14, <2>15, <2>16 DEF EventIInv
  <1>8. CASE UNCHANGED eventVars
    BY <1>8 DEF eventVars, EventIInv
  <1>9. QED
    BY <1>1, <1>2, <1>3, <1>4, <1>5, <1>6, <1>7, <1>8 DEF EventNext

(* ... and says more than EventInv.                                        *)
LEMMA EventIInvIsEnough == EventIInv => EventInv
  <1> SUFFICES ASSUME EventIInv PROVE EventInv
    OBVIOUS
  <1>1. EventTypeOK
    <2>1. ToSet(FieldStates) \cup {"flag_FFF0", "flag_FFF1", "pha_list", "flag_FFFF"}
            = DecoderStates
      <3>1. DOMAIN FieldStates = 1 .. 9
        BY DEF FieldStates
      <3>2. ToSet(FieldStates) = {FieldStates[i] : i \in 1 .. 9}
        BY <3>1 DEF ToSet
      <3>3. {FieldStates[i] : i \in 1 .. 9}
              = {FieldStates[1], FieldStates[2], FieldStates[3], FieldStates[4], FieldStates[5],
                 FieldStates[6], FieldStates[7], FieldStates[8], FieldStates[9]}
        <4> DEFINE F(i) == FieldStates[i]
        <4> HIDE DEF F
        <4>1. {F(i) : i \in 1 .. 9} = {F(1), F(2), F(3), F(4), F(5), F(6), F(7), F(8), F(9)}
          OBVIOUS
        <4>2. QED BY <4>1 DEF F
      <3>4. QED BY <3>2, <3>3, FieldsInOrder DEF DecoderStates
    <2>2. decoder.state \in DecoderStates
      BY DEF EventIInv, Decoders
    <2>3. ToSet(decoder.eventInstanceResavoir) \subseteq DOMAIN decoder.instances
      <3> DEFINE pool == decoder.eventInstanceResavoir
      <3>1. pool \in Seq(Nat) /\ decoder.instances \in Seq(Event)
        BY DEF EventIInv, Decoders
      <3>2. \A i \in 1 .. Len(pool) : pool[i] \in 1 .. Len(decoder.instances)
        BY DEF EventIInv, InstancesInv, InstancesOK
      <3>3. QED BY <3>1, <3>2 DEF ToSet
    <2>4. QED BY <2>1, <2>2, <2>3 DEF EventIInv, EventTypeOK
  <1>2. EventsAsSent
    <2>1. seen \in Seq(Event) /\ sentEvents \in Seq(Event)
      BY DEF EventIInv, Sent
    <2>2. Emitted(seen, Len(sentEvents), sentEvents)
      BY DEF EventIInv
    <2>3. DOMAIN seen = 1 .. Len(seen) /\ DOMAIN sentEvents = 1 .. Len(sentEvents)
      BY <2>1
    <2>4. QED BY ONLY <2>2, <2>3 DEF Emitted, EventsAsSent
  <1>3. HeldEventsUnchanged
    <2> DEFINE pool == decoder.eventInstanceResavoir
    <2>1. pool \in Seq(Nat)
      BY DEF EventIInv, Decoders
    <2>2. \A h \in held : decoder.instances[h.instance] = h.event
                          /\ \A i \in 1 .. Len(pool) : pool[i] # h.instance
      BY DEF EventIInv, InstancesInv, InstancesOK
    <2>3. QED BY <2>1, <2>2 DEF HeldEventsUnchanged, ToSet
  <1>4. WaveformFits /\ NeverOdd
    BY DEF EventIInv, WaveformFits, NeverOdd
  <1>5. QED BY <1>1, <1>2, <1>3, <1>4 DEF EventInv

(* Events come out of the stream as the board sent them, if the socket is   *)
(* opened when no event is on its way and closed between two of them: for   *)
(* events of any length, pieces of any size, and any number of instances    *)
(* that the program keeps (EventInv).                                       *)
THEOREM EventsAreSound ==
    ASSUME OpensWhenQuiet, ClosesBetweenEvents
    PROVE  EventSpec => []EventInv
  <1>1. EventIInv /\ [EventNext]_eventVars => EventIInv'
    BY EventIInvIsKept
  <1>2. QED BY <1>1, EventIInvAtFirst, EventIInvIsEnough, PTL DEF EventSpec

USE BoardAssumption

-----------------------------------------------------------------------------
(* The methods as programs                                                 *)

Calls == ChannelCalls \cup BoardCalls
PlainOps == {"write", "read", "readStartStop", "writeObject", "readObject"}
\* The calls that take the semaphore.
SwitchingCalls == {"openDevice", "startAcquisition", "stopAcquisition"}

ElementIs(e) ==
    /\ e.op \in AccessOps \cup {"connect", "disconnect", "openSocket", "closeSocket"}
    /\ e.op = "write" =>
          /\ DOMAIN e.to \subseteq Registers
          /\ \A r \in DOMAIN e.to : e.to[r] \in Contents(r) /\ r[1] \notin {"livetimeL", "livetimeH"}
    /\ e.op = "read" => e.from \in Registers
    /\ e.op = "writeStartStop" => e.channels \in SUBSET Channels

Agree(e, f) ==
    e.op = "write" /\ f.op = "write" =>
        \A r \in DOMAIN e.to \cap DOMAIN f.to : e.to[r] = f.to[r]

\* What is true of every method.
ProgramIs(call, p) ==
    /\ Len(p) \in Nat \ {0} /\ DOMAIN p = 1 .. Len(p)
    /\ \A i \in 1 .. Len(p) :
        /\ ElementIs(p[i])
        /\ p[i].op = "connect" => i = 1 /\ call.name = "openDevice"
        /\ p[i].op = "disconnect" => call.name = "closeDevice"
        /\ p[i].op = "writeStartStop" => i > 1 /\ p[i - 1].op = "request"
    /\ call.name = "openDevice" => p[1].op = "connect"
    /\ call.name \in SwitchingCalls => \E i \in 1 .. Len(p) : p[i].op = "release"
    /\ \A j \in 1 .. Len(p) : \A i \in 1 .. j - 1 :
        /\ p[i].op = "release" => p[j].op # "request"
        /\ ~(p[i].op = "writeStartStop" /\ p[j].op = "writeStartStop")
        /\ Agree(p[i], p[j])
    /\ call.name = "isAcquisitionCompleted" => p = <<ReadStartStop>>

\* Two sequences of one element each.
LEMMA TwoInARow ==
    ASSUME NEW a, NEW b
    PROVE  <<a>> \o <<b>> = <<a, b>>
  <1> DEFINE S == {a, b}
  <1>1. a \in S /\ b \in S
    OBVIOUS
  <1> HIDE DEF S
  <1>2. <<a>> \in Seq(S) /\ <<b>> \in Seq(S) /\ Len(<<a>>) = 1 /\ Len(<<b>>) = 1
    BY <1>1
  <1>3. /\ <<a>> \o <<b>> \in Seq(S) /\ Len(<<a>> \o <<b>>) = 2
        /\ (<<a>> \o <<b>>)[1] = a /\ (<<a>> \o <<b>>)[2] = b
    BY <1>1
  <1>4. <<a, b>> \in Seq(S) /\ Len(<<a, b>>) = 2 /\ <<a, b>>[1] = a /\ <<a, b>>[2] = b
    BY <1>1
  <1> DEFINE s == <<a>> \o <<b>>
             r == <<a, b>>
  <1> HIDE DEF s, r
  <1>5. s \in Seq(S) /\ r \in Seq(S) /\ Len(s) = Len(r) /\ \A i \in 1 .. Len(s) : s[i] = r[i]
    BY <1>3, <1>4 DEF s, r
  <1>6. s = r
    BY ONLY <1>5, SameSequence
  <1>7. QED BY <1>6 DEF s, r

\* A method of accesses only, which write nothing that another of them wrote
\* differently, is as every method.
LEMMA PlainProgram ==
    ASSUME NEW call, call.name \notin SwitchingCalls, call.name # "isAcquisitionCompleted",
           NEW p, Len(p) \in Nat \ {0}, DOMAIN p = 1 .. Len(p),
           \A i \in 1 .. Len(p) : ElementIs(p[i]) /\ p[i].op \in PlainOps,
           \A j \in 1 .. Len(p) : \A i \in 1 .. j - 1 : Agree(p[i], p[j])
    PROVE  ProgramIs(call, p)
  BY DEF ProgramIs, PlainOps, SwitchingCalls

\* Such a method of one access,
LEMMA OneElement ==
    ASSUME NEW call, call.name \notin SwitchingCalls, call.name # "isAcquisitionCompleted",
           NEW e, ElementIs(e), e.op \in PlainOps
    PROVE  ProgramIs(call, <<e>>)
  <1> DEFINE p == <<e>>
  <1>1. Len(p) = 1 /\ DOMAIN p = 1 .. 1 /\ p[1] = e
    OBVIOUS
  <1> HIDE DEF p
  <1>2. Len(p) \in Nat \ {0} /\ DOMAIN p = 1 .. Len(p)
        /\ \A i \in 1 .. Len(p) : ElementIs(p[i]) /\ p[i].op \in PlainOps
    BY <1>1
  <1>3. \A j \in 1 .. Len(p) : \A i \in 1 .. j - 1 : Agree(p[i], p[j])
    BY <1>1
  <1>4. ProgramIs(call, p)
    BY ONLY <1>2, <1>3, PlainProgram, call.name \notin SwitchingCalls,
            call.name # "isAcquisitionCompleted"
  <1>5. QED BY <1>4 DEF p

\* and of two.
LEMMA TwoElements ==
    ASSUME NEW call, call.name \notin SwitchingCalls, call.name # "isAcquisitionCompleted",
           NEW e, ElementIs(e), e.op \in PlainOps,
           NEW f, ElementIs(f), f.op \in PlainOps, Agree(e, f)
    PROVE  ProgramIs(call, <<e, f>>)
  <1> DEFINE p == <<e, f>>
  <1>1. Len(p) = 2 /\ DOMAIN p = 1 .. 2 /\ p[1] = e /\ p[2] = f
    OBVIOUS
  <1> HIDE DEF p
  <1>2. \A i \in 1 .. Len(p) : ElementIs(p[i]) /\ p[i].op \in PlainOps
    BY <1>1
  <1>3. \A j \in 1 .. Len(p) : \A i \in 1 .. j - 1 : Agree(p[i], p[j])
    BY <1>1
  <1>4. Len(p) \in Nat \ {0} /\ DOMAIN p = 1 .. Len(p)
    BY <1>1
  <1>5. ProgramIs(call, p)
    BY ONLY <1>2, <1>3, <1>4, PlainProgram, call.name \notin SwitchingCalls,
            call.name # "isAcquisitionCompleted"
  <1>6. QED BY <1>5 DEF p

\* setRegister() with a value that fits the register.
LEMMA WriteElement ==
    ASSUME NEW r \in Registers, r[1] \notin {"livetimeL", "livetimeH"}, NEW v \in Contents(r)
    PROVE  /\ ElementIs(SetRegister(r, v)) /\ SetRegister(r, v).op = "write"
           /\ SetRegister(r, v).op \in PlainOps
           /\ DOMAIN SetRegister(r, v).to = {r} /\ SetRegister(r, v).to[r] = v
  BY DEF ElementIs, SetRegister, PlainOps, AccessOps

\* getRegister().
LEMMA ReadElement ==
    ASSUME NEW r \in Registers
    PROVE  /\ ElementIs(GetRegister(r)) /\ GetRegister(r).op = "read"
           /\ GetRegister(r).op \in PlainOps
  BY DEF ElementIs, GetRegister, PlainOps, AccessOps

\* The access to the start/stop register.
LEMMA ReadStartStopElement ==
    ElementIs(ReadStartStop) /\ ReadStartStop.op = "readStartStop" /\ ReadStartStop.op \in PlainOps
  BY DEF ElementIs, ReadStartStop, PlainOps, AccessOps

\* The numbers the methods write fit 16 bits.
LEMMA HalfValues ==
    /\ 0 \in Half /\ 1 \in Half /\ AllOnes \in Half
    /\ \A n \in Nat : Low(n) \in Half /\ High(n) \in Half
  BY DEF Half, AllOnes, Low, High

\* The registers of a channel,
LEMMA ChannelRegister ==
    ASSUME NEW n \in ChannelRegisters, NEW ch \in Channels
    PROVE  /\ <<n, ch>> \in Registers /\ <<n, ch>>[1] = n /\ <<n, ch>>[2] = ch
           /\ n # "triggerBusMask" => Contents(<<n, ch>>) = Half
           /\ n = "triggerBusMask" => Contents(<<n, ch>>) = SUBSET Channels
  BY DEF Registers, Contents

\* and those of the board.
LEMMA WholeRegister ==
    ASSUME NEW n \in ManagerRegisters \cup ConsumerRegisters
    PROVE  /\ Whole(n) \in Registers /\ Whole(n)[1] = n /\ Contents(Whole(n)) = Half
           /\ n \notin {"livetimeL", "livetimeH"}
  BY DEF Registers, Contents, Whole, ManagerRegisters, ConsumerRegisters

\* The methods for one channel.
LEMMA ChannelProgramIs ==
    ASSUME NEW call \in ChannelCalls, call.channel \in Channels
    PROVE  ProgramIs(call, Program(call))
  <1>1. /\ IsForChannel(call) /\ call.name \notin SwitchingCalls
        /\ call.name # "isAcquisitionCompleted"
        /\ Program(call) = ChannelProgram(call)
    BY DEF ChannelCalls, IsForChannel, SwitchingCalls, Program
  <1> DEFINE c == call.channel  v == call.value
  <1>2. \A n \in ChannelRegisters \ {"triggerBusMask", "livetimeL", "livetimeH"} : \A x \in Half :
            ProgramIs(call, <<SetRegister(<<n, c>>, x)>>)
    BY <1>1, OneElement, WriteElement, ChannelRegister
  <1>3. \A n \in ChannelRegisters : ProgramIs(call, <<GetRegister(<<n, c>>)>>)
    BY <1>1, OneElement, ReadElement, ChannelRegister
  <1>4. CASE call.name = "setTriggerMode"
    <2>1. v \in Half /\ ChannelProgram(call) = <<SetRegister(<<"triggerMode", c>>, v)>>
      BY <1>4 DEF ChannelCalls, ChannelProgram, SetTriggerMode
    <2>2. QED BY <1>1, <1>2, <2>1 DEF ChannelRegisters
  <1>5. CASE call.name = "setTriggerBusMask"
    <2>1. v \in SUBSET Channels
          /\ ChannelProgram(call) = <<SetRegister(<<"triggerBusMask", c>>, v)>>
      BY <1>5 DEF ChannelCalls, ChannelProgram, SetTriggerBusMask
    <2>2. /\ <<"triggerBusMask", c>> \in Registers
          /\ <<"triggerBusMask", c>>[1] \notin {"livetimeL", "livetimeH"}
          /\ v \in Contents(<<"triggerBusMask", c>>)
      BY <2>1, ChannelRegister DEF ChannelRegisters
    <2>3. QED BY <1>1, <2>1, <2>2, OneElement, WriteElement
  <1>6. CASE call.name \in {"setStartingThreshold", "setClosingThreshold", "setDepthOfDelay"}
    <2>1. Low(v) \in Half
      BY <1>6, HalfValues DEF ChannelCalls
    <2>2. \E n \in {"thresholdStarting", "thresholdClosing", "depthOfDelay"} :
             ChannelProgram(call) = <<SetRegister(<<n, c>>, Low(v))>>
      BY <1>6 DEF ChannelProgram, SetStartingThreshold, SetClosingThreshold, SetDepthOfDelay
    <2>3. QED BY <1>1, <1>2, <2>1, <2>2 DEF ChannelRegisters
  <1>7. CASE call.name \in {"turnOnADCPower", "turnOffADCPower", "sendCPUTrigger"}
    <2>1. \E n \in {"adcPowerDown", "cpuTrigger"}, x \in {0, AllOnes} :
             ChannelProgram(call) = <<SetRegister(<<n, c>>, x)>>
      BY <1>7 DEF ChannelProgram, TurnADCPower, SendCPUTrigger
    <2>2. QED BY <1>1, <1>2, <2>1, HalfValues DEF ChannelRegisters
  <1>8. CASE call.name = "getCurrentADCValue"
    <2>1. ChannelProgram(call) = <<GetRegister(<<"currentAdcData", c>>)>>
      BY <1>8 DEF ChannelProgram, GetCurrentADCValue
    <2>2. QED BY <1>1, <1>3, <2>1 DEF ChannelRegisters
  <1>9. CASE call.name = "getLivetime"
    <2>1. ChannelProgram(call) = <<GetRegister(<<"livetimeL", c>>), GetRegister(<<"livetimeH", c>>)>>
      BY <1>9 DEF ChannelProgram, GetLivetime
    <2>2. <<"livetimeL", c>> \in Registers /\ <<"livetimeH", c>> \in Registers
      BY ChannelRegister DEF ChannelRegisters
    <2>3. Agree(GetRegister(<<"livetimeL", c>>), GetRegister(<<"livetimeH", c>>))
      BY <2>2, ReadElement DEF Agree
    <2>4. QED BY <1>1, <2>1, <2>2, <2>3, TwoElements, ReadElement
  <1>10. QED BY <1>4, <1>5, <1>6, <1>7, <1>8, <1>9 DEF ChannelCalls

\* The methods for the whole board that are one access.
LEMMA PlainBoardProgramIs ==
    ASSUME NEW call \in BoardCalls,
           call.name \in {"setPresetMode", "setAdcClock", "setadcClockCounter", "getTriggerMode",
                          "getStatus", "getTriggerCount", "writeObject", "readObject"}
    PROVE  ProgramIs(call, BoardProgram(call))
  <1> DEFINE v == call.value
  <1>1. call.name \notin SwitchingCalls /\ call.name # "isAcquisitionCompleted"
    BY DEF SwitchingCalls
  <1>2. \A n \in ManagerRegisters : \A x \in Half : ProgramIs(call, <<SetRegister(Whole(n), x)>>)
    BY <1>1, OneElement, WriteElement, WholeRegister
  <1>3. \A n \in ChannelRegisters, c \in Channels : ProgramIs(call, <<GetRegister(<<n, c>>)>>)
    BY <1>1, OneElement, ReadElement, ChannelRegister
  <1>4. CASE call.name \in {"setPresetMode", "setAdcClock", "setadcClockCounter"}
    <2>1. v \in Half
      BY <1>4 DEF BoardCalls
    <2>2. \E n \in {"presetMode", "adcClock", "presetLivetimeL"} :
             BoardProgram(call) = <<SetRegister(Whole(n), v)>>
      BY <1>4 DEF BoardProgram, SetPresetMode, SetAdcClock, SetADCClockCounter
    <2>3. QED BY <1>2, <2>1, <2>2 DEF ManagerRegisters
  <1>5. CASE call.name \in {"getTriggerMode", "getStatus"}
    <2>1. v \in Channels
      BY <1>5 DEF BoardCalls
    <2>2. \E n \in {"triggerMode", "status1"} : BoardProgram(call) = <<GetRegister(<<n, v>>)>>
      BY <1>5 DEF BoardProgram, GetTriggerMode, GetStatus
    <2>3. QED BY <1>3, <2>1, <2>2 DEF ChannelRegisters
  <1>6. CASE call.name = "getTriggerCount"
    <2>1. v \in Channels
      BY <1>6 DEF BoardCalls
    <2>2. BoardProgram(call)
            = <<GetRegister(<<"triggerCountH", v>>), GetRegister(<<"triggerCountH", v>>)>>
      BY <1>6 DEF BoardProgram, GetTriggerCount
    <2>3. <<"triggerCountH", v>> \in Registers
      BY <2>1, ChannelRegister DEF ChannelRegisters
    <2>4. Agree(GetRegister(<<"triggerCountH", v>>), GetRegister(<<"triggerCountH", v>>))
      BY <2>3, ReadElement DEF Agree
    <2>5. QED BY <1>1, <2>2, <2>3, <2>4, TwoElements, ReadElement
  <1>7. CASE call.name \in {"writeObject", "readObject"}
    <2>1. PICK e \in {[op |-> "writeObject", object |-> v], [op |-> "readObject", object |-> v]} :
             BoardProgram(call) = <<e>>
      BY <1>7 DEF BoardProgram
    <2>2. ElementIs(e) /\ e.op \in PlainOps
      BY DEF ElementIs, PlainOps, AccessOps
    <2>3. QED BY <1>1, <2>1, <2>2, OneElement
  <1>8. QED BY <1>4, <1>5, <1>6, <1>7

\* reset(), setPresetLivetime() and setPresetnEvents().
LEMMA RegistersSetIs ==
    ASSUME NEW call \in BoardCalls,
           call.name \in {"reset", "setPresetLivetime", "setPresetnEvents"}
    PROVE  ProgramIs(call, BoardProgram(call))
  <1> DEFINE v == call.value
  <1>1. call.name \notin SwitchingCalls /\ call.name # "isAcquisitionCompleted"
    BY DEF SwitchingCalls
  <1>2. ASSUME NEW m \in ManagerRegisters, NEW n \in ManagerRegisters \cup ConsumerRegisters, m # n,
               NEW x \in Half, NEW y \in Half
        PROVE  ProgramIs(call, <<SetRegister(Whole(m), x), SetRegister(Whole(n), y)>>)
    <2>1. Whole(m) # Whole(n)
      BY <1>2 DEF Whole
    <2>2. /\ Whole(m) \in Registers /\ Whole(m)[1] \notin {"livetimeL", "livetimeH"}
          /\ x \in Contents(Whole(m))
          /\ Whole(n) \in Registers /\ Whole(n)[1] \notin {"livetimeL", "livetimeH"}
          /\ y \in Contents(Whole(n))
      BY <1>2, WholeRegister
    <2>3. Agree(SetRegister(Whole(m), x), SetRegister(Whole(n), y))
      BY <2>1, <2>2, WriteElement DEF Agree
    <2>4. QED BY <1>1, <2>2, <2>3, TwoElements, WriteElement
  <1>3. CASE call.name = "reset"
    <2>1. BoardProgram(call)
            = <<SetRegister(Whole("managerReset"), 1), SetRegister(Whole("consumerReset"), 1)>>
      <3>1. BoardProgram(call) = <<SetRegister(Whole("managerReset"), 1)>>
                                 \o <<SetRegister(Whole("consumerReset"), 1)>>
        BY <1>3 DEF BoardProgram, ResetBoard, ResetManager, ResetConsumer
      <3>2. QED BY <3>1, TwoInARow
    <2>2. /\ "managerReset" \in ManagerRegisters /\ "managerReset" # "consumerReset"
          /\ "consumerReset" \in ManagerRegisters \cup ConsumerRegisters /\ 1 \in Half
      BY HalfValues DEF ManagerRegisters, ConsumerRegisters
    <2>3. QED BY <1>2, <2>1, <2>2
  <1>4. CASE call.name = "setPresetLivetime"
    <2>1. Low(v) \in Half /\ High(v) \in Half
      BY <1>4, HalfValues DEF BoardCalls
    <2>2. BoardProgram(call) = <<SetRegister(Whole("presetLivetimeL"), Low(v)),
                                 SetRegister(Whole("presetLivetimeH"), High(v))>>
      BY <1>4 DEF BoardProgram, SetPresetLivetime
    <2>3. QED BY <1>2, <2>1, <2>2 DEF ManagerRegisters
  <1>5. CASE call.name = "setPresetnEvents"
    <2>1. Low(v) \in Half /\ High(v) \in Half
      BY <1>5, HalfValues DEF BoardCalls
    <2> DEFINE to == [r \in {Whole("presetLivetimeL"), Whole("presetLivetimeH")} |->
                          IF r[1] = "presetLivetimeL" THEN Low(v) ELSE High(v)]
               e == [op |-> "write", to |-> to]
    <2>2. BoardProgram(call) = <<e>>
      BY <1>5 DEF BoardProgram, SetPresetnEvents
    <2>3. /\ DOMAIN to \subseteq Registers
          /\ \A r \in DOMAIN to :
                to[r] \in Half /\ Contents(r) = Half /\ r[1] \notin {"livetimeL", "livetimeH"}
      BY <2>1, WholeRegister DEF ManagerRegisters
    <2> HIDE DEF to
    <2>4. ElementIs(e) /\ e.op \in PlainOps
      BY <2>3 DEF ElementIs, PlainOps, AccessOps
    <2>5. QED BY <1>1, <2>2, <2>4, OneElement
  <1>6. QED BY <1>3, <1>4, <1>5

\* setNumberOfSamples(), for every channel.
LEMMA SamplesSetIs ==
    ASSUME NEW call \in BoardCalls, call.name = "setNumberOfSamples"
    PROVE  ProgramIs(call, BoardProgram(call))
  <1> DEFINE v == call.value
             N == NumberOfChannels
             e == [i \in 1 .. N |-> SetNumberOfSamplesOf(i - 1, v)[1]]
             last == SetRegister(Whole("numberOfWaveform"), v)
             p == e \o <<last>>
             R(i) == IF i <= N THEN <<"numberOfSamples", i - 1>> ELSE Whole("numberOfWaveform")
  <1>1. call.name \notin SwitchingCalls /\ call.name # "isAcquisitionCompleted"
    BY DEF SwitchingCalls
  <1>2. v \in Half /\ N \in Nat \ {0} /\ BoardProgram(call) = p
    BY DEF BoardCalls, BoardProgram, SetNumberOfSamples, SetEventPacketNumberOfWaveform
  <1>3. \A i \in 1 .. N : e[i] = SetRegister(R(i), v)
    BY DEF SetNumberOfSamplesOf
  <1> DEFINE S == {SetRegister(R(i), v) : i \in 1 .. N}
  <1>4. e \in Seq(S) /\ Len(e) = N
    <2>1. \A i \in 1 .. N : e[i] \in S
      BY <1>3
    <2> HIDE DEF S
    <2>2. QED BY <1>2, <2>1
  <1> HIDE DEF e, R, S
  <1>5. Len(p) = N + 1 /\ DOMAIN p = 1 .. N + 1 /\ \A i \in 1 .. N + 1 : p[i] = IF i <= N THEN e[i] ELSE last
    BY <1>2, <1>4
  <1> HIDE DEF p
  <1>6. \A i \in 1 .. N + 1 : p[i] = SetRegister(R(i), v)
    <2>1. last = SetRegister(R(N + 1), v)
      BY <1>2 DEF R
    <2>2. QED BY <1>2, <1>3, <1>5, <2>1
  <1>7. \A i \in 1 .. N + 1 : /\ R(i) \in Registers /\ R(i)[1] \notin {"livetimeL", "livetimeH"}
                              /\ v \in Contents(R(i))
    <2>1. ASSUME NEW i \in 1 .. N
          PROVE  /\ R(i) \in Registers /\ R(i)[1] \notin {"livetimeL", "livetimeH"}
                 /\ v \in Contents(R(i))
      <3>1. i - 1 \in Channels /\ R(i) = <<"numberOfSamples", i - 1>>
        BY <1>2, <2>1 DEF Channels, R
      <3>2. QED BY <1>2, <3>1, ChannelRegister DEF ChannelRegisters
    <2>2. /\ R(N + 1) \in Registers /\ R(N + 1)[1] \notin {"livetimeL", "livetimeH"}
          /\ v \in Contents(R(N + 1))
      <3>1. R(N + 1) = Whole("numberOfWaveform")
        BY <1>2 DEF R
      <3>2. QED BY <1>2, <3>1, WholeRegister DEF ConsumerRegisters
    <2>3. QED BY <1>2, <2>1, <2>2
  <1>8. \A i \in 1 .. N + 1 : ElementIs(p[i]) /\ p[i].op \in PlainOps
                              /\ \A r \in DOMAIN p[i].to : p[i].to[r] = v
    BY <1>6, <1>7, WriteElement
  <1>9. \A j \in 1 .. N + 1 : \A i \in 1 .. j - 1 : Agree(p[i], p[j])
    <2> SUFFICES ASSUME NEW j \in 1 .. N + 1, NEW i \in 1 .. j - 1
                 PROVE  Agree(p[i], p[j])
      OBVIOUS
    <2>1. i \in 1 .. N + 1
      BY <1>2
    <2>2. QED BY <1>8, <2>1 DEF Agree
  <1>10. ProgramIs(call, p)
    <2>1. Len(p) \in Nat \ {0} /\ DOMAIN p = 1 .. Len(p)
      BY <1>2, <1>5
    <2>2. QED BY <1>1, <1>5, <1>8, <1>9, <2>1, PlainProgram
  <1>11. QED BY <1>2, <1>10

\* getHouseKeepingData(), which reads every channel.
LEMMA HouseKeepingIs ==
    ASSUME NEW call \in BoardCalls, call.name = "getHouseKeepingData"
    PROVE  ProgramIs(call, BoardProgram(call))
  <1> DEFINE N == 3 * NumberOfChannels
             e == [i \in 1 .. N |-> HouseKeepingOf((i - 1) \div 3)[((i - 1) % 3) + 1]]
             first == GetRegister(Whole("realtime"))
             p == <<first>> \o e
             Reads == {x \in {GetRegister(r) : r \in Registers} \cup {ReadStartStop} : TRUE}
  <1>1. call.name \notin SwitchingCalls /\ call.name # "isAcquisitionCompleted"
    BY DEF SwitchingCalls
  <1>2. N \in Nat \ {0} /\ BoardProgram(call) = p
    BY DEF BoardProgram, GetHouseKeepingData, GetRealtime
  <1>3. \A x \in Reads : ElementIs(x) /\ x.op \in PlainOps /\ x.op # "write"
    BY ReadElement, ReadStartStopElement
  <1>4. first \in Reads
    BY WholeRegister DEF ManagerRegisters
  <1>5. \A i \in 1 .. N : e[i] \in Reads
    <2> SUFFICES ASSUME NEW i \in 1 .. N PROVE HouseKeepingOf((i - 1) \div 3)[((i - 1) % 3) + 1] \in Reads
      OBVIOUS
    <2> DEFINE c == (i - 1) \div 3  k == ((i - 1) % 3) + 1
    <2>1. c \in Channels /\ k \in {1, 2, 3}
      BY DEF Channels
    <2> HIDE DEF c, k
    <2>3. <<"livetimeL", c>> \in Registers /\ <<"livetimeH", c>> \in Registers
      BY <2>1, ChannelRegister DEF ChannelRegisters
    <2>4. HouseKeepingOf(c)[k] \in Reads
      <3>1. HouseKeepingOf(c) = <<GetRegister(<<"livetimeL", c>>), GetRegister(<<"livetimeH", c>>)>>
                                \o <<ReadStartStop>>
        BY DEF HouseKeepingOf, GetLivetime, IsAcquisitionCompleted
      <3>2. /\ GetRegister(<<"livetimeL", c>>) \in Reads /\ GetRegister(<<"livetimeH", c>>) \in Reads
            /\ ReadStartStop \in Reads
        BY <2>3
      <3> HIDE DEF Reads
      <3>3. QED BY <2>1, <3>1, <3>2
    <2>5. QED BY <2>4 DEF c, k
  <1> HIDE DEF Reads
  <1>6. e \in Seq(Reads) /\ Len(e) = N
    BY <1>2, <1>5
  <1> HIDE DEF e
  <1>7. p \in Seq(Reads) /\ Len(p) = N + 1
    <2>1. <<first>> \in Seq(Reads) /\ Len(<<first>>) = 1
      BY <1>4
    <2> DEFINE s == <<first>>
    <2> HIDE DEF s
    <2>2. s \in Seq(Reads) /\ Len(s) = 1 /\ p = s \o e
      BY <2>1 DEF s
    <2>3. s \o e \in Seq(Reads) /\ Len(s \o e) = Len(s) + Len(e)
      BY ONLY <1>6, <2>2, Joined
    <2>4. QED BY <1>2, <1>6, <2>2, <2>3
  <1> HIDE DEF p, first, N
  <1>8. Len(p) \in Nat \ {0} /\ DOMAIN p = 1 .. Len(p) /\ \A i \in 1 .. Len(p) : p[i] \in Reads
    BY <1>2, <1>7
  <1>9. \A i \in 1 .. Len(p) : ElementIs(p[i]) /\ p[i].op \in PlainOps
    BY <1>3, <1>8
  <1>10. \A j \in 1 .. Len(p) : \A i \in 1 .. j - 1 : Agree(p[i], p[j])
    BY <1>3, <1>8 DEF Agree
  <1>11. ProgramIs(call, p)
    BY <1>1, <1>8, <1>9, <1>10, PlainProgram
  <1>12. QED BY <1>2, <1>11

\* The elements that are no access to a register.
LEMMA OtherElements ==
    /\ ElementIs(Request) /\ Request.op = "request"
    /\ ElementIs(Release) /\ Release.op = "release"
    /\ \A chs \in SUBSET Channels :
          ElementIs(WriteStartStop(chs)) /\ WriteStartStop(chs).op = "writeStartStop"
    /\ \A w \in {"connect", "disconnect", "openSocket", "closeSocket"} :
          ElementIs(Element(w)) /\ Element(w).op = w
  BY DEF ElementIs, Request, Release, WriteStartStop, Element, AccessOps

\* Three elements after one and before another.
LEMMA InARow ==
    ASSUME NEW a, NEW b, NEW c, NEW d, NEW e
    PROVE  /\ LET p == <<a>> \o <<b, c, d>>
              IN  /\ Len(p) = 4 /\ DOMAIN p = 1 .. 4
                  /\ p[1] = a /\ p[2] = b /\ p[3] = c /\ p[4] = d
           /\ LET p == <<a>> \o <<b, c, d>> \o <<e>>
              IN  /\ Len(p) = 5 /\ DOMAIN p = 1 .. 5
                  /\ p[1] = a /\ p[2] = b /\ p[3] = c /\ p[4] = d /\ p[5] = e
           /\ LET p == <<a>> \o <<b, c>>
              IN  /\ Len(p) = 3 /\ DOMAIN p = 1 .. 3 /\ p[1] = a /\ p[2] = b /\ p[3] = c
  <1> DEFINE S == {a, b, c, d, e}
  <1>1. a \in S /\ b \in S /\ c \in S /\ d \in S /\ e \in S
    OBVIOUS
  <1> HIDE DEF S
  <1>2. <<a>> \in Seq(S) /\ <<b, c, d>> \in Seq(S) /\ <<b, c>> \in Seq(S) /\ <<e>> \in Seq(S)
    BY <1>1
  <1> DEFINE x == <<a>> \o <<b, c, d>>
             y == <<a>> \o <<b, c>>
  <1>3. x \in Seq(S) /\ Len(x) = 4 /\ x[1] = a /\ x[2] = b /\ x[3] = c /\ x[4] = d
    BY <1>1
  <1>4. y \in Seq(S) /\ Len(y) = 3 /\ y[1] = a /\ y[2] = b /\ y[3] = c
    BY <1>1
  <1> HIDE DEF x
  <1> DEFINE z == x \o <<e>>
  <1>5. z \in Seq(S) /\ Len(z) = 5 /\ z[1] = a /\ z[2] = b /\ z[3] = c /\ z[4] = d /\ z[5] = e
    <2>1. Len(<<e>>) = 1 /\ <<e>>[1] = e
      OBVIOUS
    <2> DEFINE w == <<e>>
    <2>2. x \in Seq(S) /\ w \in Seq(S)
      BY <1>2, <1>3
    <2> HIDE DEF w
    <2>3. /\ x \o w \in Seq(S) /\ Len(x \o w) = Len(x) + Len(w)
          /\ \A i \in 1 .. Len(x) : (x \o w)[i] = x[i]
          /\ \A i \in 1 .. Len(w) : (x \o w)[Len(x) + i] = w[i]
      BY ONLY <2>2, Joined
    <2>4. Len(w) = 1 /\ w[1] = e
      BY <2>1 DEF w
    <2>5. /\ x \o w \in Seq(S) /\ Len(x \o w) = 5 /\ (x \o w)[1] = a /\ (x \o w)[2] = b
          /\ (x \o w)[3] = c /\ (x \o w)[4] = d /\ (x \o w)[5] = e
      BY ONLY <1>3, <2>3, <2>4
    <2>6. QED BY <2>5 DEF w
  <1> HIDE DEF y, z
  <1>6. DOMAIN x = 1 .. 4 /\ DOMAIN y = 1 .. 3 /\ DOMAIN z = 1 .. 5
    BY <1>3, <1>4, <1>5
  <1>7. QED BY <1>3, <1>4, <1>5, <1>6 DEF x, y, z

\* The methods that take the semaphore, and closeDevice().
LEMMA SwitchingProgramIs ==
    ASSUME NEW call \in BoardCalls,
           call.name \in SwitchingCalls \cup {"closeDevice", "isAcquisitionCompleted"}
    PROVE  ProgramIs(call, BoardProgram(call))
  <1> DEFINE p == BoardProgram(call)
  <1>1. CASE call.name = "openDevice"
    <2> DEFINE off == WriteStartStop({})
    <2>1. p = <<Element("connect")>> \o <<Request, off, Release>> \o <<Element("openSocket")>>
      BY <1>1 DEF BoardProgram, OpenDevice, StopChannels
    <2>2. ElementIs(off) /\ off.op = "writeStartStop"
      BY OtherElements
    <2> HIDE DEF p, off
    <2>3. /\ Len(p) = 5 /\ DOMAIN p = 1 .. 5
          /\ p[1] = Element("connect") /\ p[2] = Request /\ p[3] = off /\ p[4] = Release
          /\ p[5] = Element("openSocket")
      BY <2>1, InARow
    <2>4. /\ ElementIs(p[1]) /\ ElementIs(p[2]) /\ ElementIs(p[3]) /\ ElementIs(p[4]) /\ ElementIs(p[5])
          /\ p[1].op = "connect" /\ p[2].op = "request" /\ p[3].op = "writeStartStop"
          /\ p[4].op = "release" /\ p[5].op = "openSocket"
      BY <2>2, <2>3, OtherElements
    <2>5. QED BY ONLY <1>1, <2>3, <2>4 DEF ProgramIs, Agree, p
  <1>2. CASE call.name = "startAcquisition"
    <2> DEFINE on == WriteStartStop(call.value)
               w == SetRegister(Whole("eventOutputDisable"), 0)
    <2>1. p = <<w>> \o <<Request, on, Release>>
      BY <1>2 DEF BoardProgram, StartAcquisition, EnableEventDataOutput, StartChannels
    <2>2. ElementIs(on) /\ on.op = "writeStartStop"
      BY <1>2, OtherElements DEF BoardCalls
    <2>3. ElementIs(w) /\ w.op = "write"
      BY WriteElement, WholeRegister, HalfValues DEF ConsumerRegisters
    <2> HIDE DEF p, on, w
    <2>4. /\ Len(p) = 4 /\ DOMAIN p = 1 .. 4
          /\ p[1] = w /\ p[2] = Request /\ p[3] = on /\ p[4] = Release
      BY <2>1, InARow
    <2>5. /\ ElementIs(p[1]) /\ ElementIs(p[2]) /\ ElementIs(p[3]) /\ ElementIs(p[4])
          /\ p[1].op = "write" /\ p[2].op = "request" /\ p[3].op = "writeStartStop"
          /\ p[4].op = "release"
      BY <2>2, <2>3, <2>4, OtherElements
    <2>6. QED BY ONLY <1>2, <2>4, <2>5 DEF ProgramIs, Agree, p
  <1>3. CASE call.name = "stopAcquisition"
    <2> DEFINE off == WriteStartStop({})
    <2>1. p = <<Request, off, Release>>
      BY <1>3 DEF BoardProgram, StopChannels
    <2>2. ElementIs(off) /\ off.op = "writeStartStop"
      BY OtherElements
    <2> HIDE DEF p, off
    <2>3. /\ Len(p) = 3 /\ DOMAIN p = 1 .. 3
          /\ p[1] = Request /\ p[2] = off /\ p[3] = Release
      BY <2>1
    <2>4. /\ ElementIs(p[1]) /\ ElementIs(p[2]) /\ ElementIs(p[3])
          /\ p[1].op = "request" /\ p[2].op = "writeStartStop" /\ p[3].op = "release"
      BY <2>2, <2>3, OtherElements
    <2>5. QED BY ONLY <1>3, <2>3, <2>4 DEF ProgramIs, Agree, p
  <1>4. CASE call.name = "closeDevice"
    <2> DEFINE w == SetRegister(Whole("eventOutputDisable"), 1)
    <2>1. p = <<w>> \o <<Element("closeSocket"), Element("disconnect")>>
      BY <1>4 DEF BoardProgram, CloseDevice, DisableEventDataOutput
    <2>2. ElementIs(w) /\ w.op = "write"
      BY WriteElement, WholeRegister, HalfValues DEF ConsumerRegisters
    <2> HIDE DEF p, w
    <2>3. /\ Len(p) = 3 /\ DOMAIN p = 1 .. 3
          /\ p[1] = w /\ p[2] = Element("closeSocket") /\ p[3] = Element("disconnect")
      BY <2>1, InARow
    <2>4. /\ ElementIs(p[1]) /\ ElementIs(p[2]) /\ ElementIs(p[3])
          /\ p[1].op = "write" /\ p[2].op = "closeSocket" /\ p[3].op = "disconnect"
      BY <2>2, <2>3, OtherElements
    <2>5. QED BY ONLY <1>4, <2>3, <2>4 DEF ProgramIs, Agree, SwitchingCalls, p
  <1>5. CASE call.name = "isAcquisitionCompleted"
    <2>1. p = <<ReadStartStop>>
      BY <1>5 DEF BoardProgram, IsAcquisitionCompleted
    <2> HIDE DEF p
    <2>2. Len(p) = 1 /\ DOMAIN p = 1 .. 1 /\ p[1] = ReadStartStop
      BY <2>1
    <2>3. ElementIs(p[1]) /\ p[1].op = "readStartStop"
      BY <2>2, ReadStartStopElement
    <2>4. QED BY ONLY <1>5, <2>1, <2>2, <2>3 DEF ProgramIs, Agree, SwitchingCalls, p
  <1>6. QED BY <1>1, <1>2, <1>3, <1>4, <1>5 DEF SwitchingCalls

\* Every method that a program may call is as ProgramIs says.
LEMMA ProgramsAre ==
    ASSUME NEW call \in Calls, IsForChannel(call) => call.channel \in Channels
    PROVE  ProgramIs(call, Program(call))
  <1>1. CASE call \in ChannelCalls
    <2>1. IsForChannel(call)
      BY <1>1 DEF ChannelCalls, IsForChannel
    <2>2. QED BY <1>1, <2>1, ChannelProgramIs
  <1>2. CASE call \in BoardCalls
    <2>1. Program(call) = BoardProgram(call)
      BY <1>2 DEF BoardCalls, IsForChannel, Program
    <2>2. call.name \in SwitchingCalls \cup
              {"closeDevice", "isAcquisitionCompleted", "reset", "getHouseKeepingData",
               "setPresetLivetime", "setPresetnEvents", "setNumberOfSamples", "setPresetMode",
               "setAdcClock", "setadcClockCounter", "getTriggerMode", "getStatus",
               "getTriggerCount", "writeObject", "readObject"}
      BY <1>2 DEF BoardCalls, SwitchingCalls
    <2>3. QED
      BY ONLY <1>2, <2>1, <2>2, SwitchingProgramIs, RegistersSetIs, HouseKeepingIs, SamplesSetIs,
              PlainBoardProgramIs
  <1>3. QED BY <1>1, <1>2 DEF Calls
-----------------------------------------------------------------------------
(* The inductive invariant                                                 *)

PhaseNames == {"write", "read"}
Values == Half \cup SUBSET Channels
ObjectOps == {"writeObject", "readObject"}

(* The engine and the initiator work on RMAPHandler's interface, and each   *)
(* call fits the connection: openDevice() comes past its first element only *)
(* with an initiator.                                                       *)
HandlerInv ==
    /\ made \in Nat /\ interface \in Nat /\ interface <= made /\ initiator \in {0, interface}
    /\ engines = IF initiator = 0 THEN {} ELSE {initiator}
    /\ eventSocket \in BOOLEAN
    /\ \A u \in Users : InCall(u) =>
          /\ Current(u).op = "connect" => initiator = 0
          /\ running[u].call.name \in {"startAcquisition", "stopAcquisition"} => initiator # 0
          /\ running[u].call.name = "openDevice" /\ running[u].at > 1 => initiator # 0

(* The registers hold what fits them.                                       *)
FpgaInv ==
    /\ DOMAIN registers \subseteq Registers
    /\ \A r \in DOMAIN registers : registers[r] \in Contents(r)
    /\ startStop \subseteq Channels
    /\ semaphore \in {"free", "host", "logic"}

(* A call in progress is at an element of its program, and as often         *)
(* executed as it timed out at most.                                        *)
Runs(r) ==
    /\ DOMAIN r = {"call", "program", "at", "phase", "trial", "executions", "timeouts"}
    /\ r.call \in Calls /\ (IsForChannel(r.call) => r.call.channel \in Channels)
    /\ r.program = Program(r.call)
    /\ r.at \in Nat /\ 1 <= r.at /\ r.at <= Len(r.program)
    /\ r.phase \in PhaseNames
    /\ r.trial \in Nat /\ r.trial < MaxTrials
    /\ r.executions \in Nat /\ r.timeouts \in Nat
    /\ r.program[r.at].op \notin ObjectOps => r.executions <= r.timeouts

(* How a call ended.                                                        *)
MayRun(call) == call \in Calls /\ (IsForChannel(call) => call.channel \in Channels)
Ends(o) ==
    /\ DOMAIN o = {"call", "how", "connected", "answers"}
    /\ o.call \in Calls \cup {NoCall}
    /\ o.connected \in BOOLEAN
    /\ o.answers \in Seq(Values)

CallsInv ==
    /\ DOMAIN running = Users
    /\ DOMAIN boardOutcome = Users /\ (\A u \in Users : Ends(boardOutcome[u]))
    /\ \A u \in Users :
        /\ boardOutcome[u].how = "runs" <=> InCall(u)
        /\ boardOutcome[u].how = "ok" => MayRun(boardOutcome[u].call)
        /\ boardOutcome[u].how = "none" => boardOutcome[u].call = NoCall
        /\ InCall(u) => Runs(running[u]) /\ boardOutcome[u].call = running[u].call
        /\ InCall(u) /\ running[u].call.name = "isAcquisitionCompleted" =>
              boardOutcome[u].answers = <<>>

(* A call that writes StartStopRegister has the semaphore, and one that is  *)
(* past its release has not.                                                *)
Within(u) ==
    LET p == running[u].program
        n == running[u].at
    IN  /\ p[n].op = "writeStartStop" => semaphore = "host"
        /\ running[u].call.name \in SwitchingCalls
           /\ (\E i \in 1 .. n - 1 : p[i].op = "release") => semaphore # "host"
SemaphoreInv ==
    \A u \in Users :
        /\ InCall(u) => Within(u)
        /\ boardOutcome[u].how = "ok" /\ boardOutcome[u].call.name \in SwitchingCalls =>
              semaphore # "host"

(* What a call is past, it has done.                                        *)
Done(e) ==
    /\ e.op = "write" => \A r \in DOMAIN e.to : ValueOf(r) = e.to[r]
    /\ e.op = "writeStartStop" => startStop \subseteq e.channels
DoneInv ==
    /\ \A u \in Users : InCall(u) /\ boardOutcome[u].connected =>
          \A i \in 1 .. running[u].at - 1 : Done(running[u].program[i])
    /\ OkMeansDone

BoardIInv == HandlerInv /\ FpgaInv /\ CallsInv /\ SemaphoreInv /\ DoneInv

-----------------------------------------------------------------------------
(* What a step of a call does: it leaves the call, stays at the element, or *)
(* goes on, and then what the element is for has happened.                  *)

Exceptions == {"CouldNotConnect", "LowerException", "TimeOut", "RMAPReplyException",
               "SpaceWireIFException"}
Exits(u) ==
    /\ running' = [running EXCEPT ![u] = Idle]
    /\ boardOutcome' = [boardOutcome EXCEPT ![u].how = "exit"]
Leaving(u) == (\E x \in Exceptions : CallThrows(u, x)) \/ Exits(u)
Staying(u) ==
    \/ \E n, m \in {0, 1} :
          Again(u, n, m) /\ ~LastTrial(u) /\ (n <= m \/ Current(u).op \in ObjectOps)
    \/ \E phase \in PhaseNames : Looped(u, phase)
Proceeding(u) ==
    \E c \in BOOLEAN, a \in Seq(Values) :
        /\ Proceeds(u, c, a)
        /\ Current(u).op = "request" => semaphore = "host" /\ semaphore' = "host"
        /\ Current(u).op = "release" => initiator = 0 \/ (semaphore # "host" /\ semaphore' # "host")
        /\ c /\ Current(u).op \in {"write", "writeStartStop"} => Executed(u)
        /\ c /\ Current(u).op = "readStartStop" => a = <<startStop>>
Touches(u) == Executed(u) \/ UNCHANGED fpgaVars

\* The element at which a call is.
LEMMA ElementNow ==
    ASSUME CallsInv, NEW u \in Users, InCall(u)
    PROVE  /\ Runs(running[u]) /\ ProgramIs(running[u].call, running[u].program)
           /\ running[u].at \in 1 .. Len(running[u].program)
           /\ Current(u) = running[u].program[running[u].at] /\ ElementIs(Current(u))
           /\ Ends(boardOutcome[u]) /\ boardOutcome[u].call = running[u].call
           /\ boardOutcome[u].how = "runs"
  <1>1. Runs(running[u]) /\ boardOutcome[u].call = running[u].call
        /\ Ends(boardOutcome[u]) /\ boardOutcome[u].how = "runs"
    BY DEF CallsInv
  <1>2. ProgramIs(running[u].call, running[u].program)
    BY <1>1, ProgramsAre DEF Runs
  <1>3. running[u].at \in 1 .. Len(running[u].program)
    BY <1>1, <1>2 DEF Runs, ProgramIs
  <1>4. QED BY <1>1, <1>2, <1>3 DEF ProgramIs, Current

\* What is read from a register is a value that fits it.
LEMMA ValuesOfRegisters ==
    ASSUME FpgaInv, NEW r \in Registers
    PROVE  ValueOf(r) \in Contents(r) /\ Contents(r) \subseteq Values
  BY HalfValues DEF FpgaInv, ValueOf, Cleared, Contents, Values

\* What an access answers with.
LEMMA AnswersAre ==
    ASSUME FpgaInv, CallsInv, NEW u \in Users, InCall(u)
    PROVE  /\ Answer(u) \in Seq(Values)
           /\ Current(u).op = "readStartStop" => Answer(u) = <<startStop>>
           /\ \A a \in NothingRead(u) : a \in Seq(Values)
  <1>1. ElementIs(Current(u))
    BY ElementNow
  <1>2. CASE Current(u).op = "read"
    <2>1. ValueOf(Current(u).from) \in Values /\ Half \subseteq Values
      BY <1>1, <1>2, ValuesOfRegisters DEF ElementIs, Values
    <2>2. Answer(u) = <<ValueOf(Current(u).from)>>
      BY <1>2 DEF Answer
    <2>3. NothingRead(u) = {<<n>> : n \in Half}
      BY <1>2 DEF NothingRead
    <2>4. \A v \in Values : <<v>> \in Seq(Values)
      OBVIOUS
    <2>5. QED BY ONLY <1>2, <2>1, <2>2, <2>3, <2>4
  <1>3. CASE Current(u).op = "readStartStop"
    <2>1. startStop \in Values /\ {} \in Values
      BY DEF Values, FpgaInv
    <2>2. Answer(u) = <<startStop>>
      BY <1>3 DEF Answer
    <2>3. NothingRead(u) = {<<{}>>}
      BY <1>3 DEF NothingRead
    <2>4. \A v \in Values : <<v>> \in Seq(Values)
      OBVIOUS
    <2>5. QED BY ONLY <2>1, <2>2, <2>3, <2>4
  <1>4. CASE Current(u).op \notin {"read", "readStartStop"}
    <2>1. Answer(u) = <<>> /\ NothingRead(u) = {<<>>}
      BY <1>4 DEF Answer, NothingRead
    <2>2. <<>> \in Seq(Values)
      OBVIOUS
    <2>3. QED BY ONLY <1>4, <2>1, <2>2
  <1>5. QED BY <1>2, <1>3, <1>4

\* An access that has returned.
LEMMA ReturnedMeans ==
    ASSUME NEW u \in Users, NEW taken \in BOOLEAN, NEW a \in Seq(Values), Returned(u, taken, a),
           Current(u).op \in AccessOps
    PROVE  \/ Staying(u)
           \/ \E b \in Seq(Values) :
                 /\ Proceeds(u, initiator # 0, b)
                 /\ Current(u).op \notin {"request", "release"} => b = a
                 /\ Current(u).op \in {"request", "release"} => running[u].phase = "read"
                 /\ Current(u).op = "request" => taken
                 /\ Current(u).op = "release" => ~taken
  <1>1. CASE Current(u).op \notin {"request", "release"}
    BY <1>1 DEF Returned
  <1>2. CASE /\ Current(u).op \in {"request", "release"}
             /\ \/ Looped(u, "read")
                \/ Looped(u, "write")
    BY <1>2 DEF Staying, PhaseNames
  <1>3. CASE /\ Current(u).op \in {"request", "release"}
             /\ running[u].phase = "read" /\ Proceeds(u, initiator # 0, <<>>)
             /\ IF Current(u).op = "request" THEN LeavesRequest(taken) ELSE LeavesRelease(taken)
    <2>1. <<>> \in Seq(Values)
      OBVIOUS
    <2>2. /\ Current(u).op = "request" => taken
          /\ Current(u).op = "release" => ~taken
      BY <1>3 DEF LeavesRequest, LeavesRelease
    <2>3. QED BY ONLY <1>3, <2>1, <2>2
  <1>4. QED BY <1>1, <1>2, <1>3 DEF Returned

\* An access that timed out is tried again, or its call throws.
LEMMA LosingMeans ==
    ASSUME CallsInv, NEW u \in Users, InCall(u), NEW n \in {0, 1}, AccessTimesOut(u, n)
    PROVE  Staying(u) \/ Leaving(u)
  BY DEF AccessTimesOut, Staying, Leaving, Exceptions

\* A step of openDevice() or closeDevice() for the connection.
LEMMA ConnectionStepMeans ==
    ASSUME CallsInv, NEW u \in Users,
           Connect(u) \/ Disconnect(u) \/ OpenSocket(u) \/ CloseSocket(u)
    PROVE  InCall(u) /\ UNCHANGED fpgaVars /\ (Proceeding(u) \/ Leaving(u))
  <1>1. InCall(u) /\ UNCHANGED fpgaVars
    BY DEF Connect, Disconnect, OpenSocket, CloseSocket, AtOp
  <1>2. Current(u).op \in {"connect", "disconnect", "openSocket", "closeSocket"}
    BY DEF Connect, Disconnect, OpenSocket, CloseSocket, AtOp
  <1>3. <<>> \in Seq(Values)
    OBVIOUS
  <1>4. Proceeds(u, TRUE, <<>>) \/ CallThrows(u, "CouldNotConnect") \/ Exits(u)
    BY DEF Connect, Disconnect, OpenSocket, CloseSocket, Exits
  <1>5. CASE Proceeds(u, TRUE, <<>>)
    <2>1. Current(u).op \notin {"request", "release", "write", "writeStartStop", "readStartStop"}
      BY <1>2
    <2>2. \E c \in BOOLEAN, a \in Seq(Values) : Proceeds(u, c, a)
      BY <1>3, <1>5
    <2>3. QED BY <1>1, <2>1, <2>2 DEF Proceeding
  <1>6. QED BY <1>1, <1>4, <1>5 DEF Leaving, Exceptions

\* An access without an initiator.
LEMMA AccessWithoutDeviceMeans ==
    ASSUME CallsInv, FpgaInv, NEW u \in Users, AccessWithoutDevice(u)
    PROVE  InCall(u) /\ UNCHANGED fpgaVars /\ initiator = 0 /\ (Proceeding(u) \/ Staying(u))
  <1>1. InCall(u) /\ UNCHANGED fpgaVars /\ initiator = 0 /\ Current(u).op \in AccessOps
    BY DEF AccessWithoutDevice, AtAccess, AtOp
  <1>2. PICK a \in NothingRead(u) : Returned(u, FALSE, a)
    BY DEF AccessWithoutDevice
  <1>3. a \in Seq(Values)
    BY <1>1, AnswersAre
  <1>4. CASE Staying(u)
    BY <1>1, <1>4
  <1>5. CASE \E b \in Seq(Values) : Proceeds(u, initiator # 0, b) /\ Current(u).op # "request"
    <2>1. PICK b \in Seq(Values) : Proceeds(u, FALSE, b) /\ Current(u).op # "request"
      BY <1>1, <1>5
    <2>2. QED BY <1>1, <2>1 DEF Proceeding
  <1>6. QED BY <1>1, <1>2, <1>3, <1>4, <1>5, ReturnedMeans

\* An access that was answered.
LEMMA AccessAnsweredMeans ==
    ASSUME CallsInv, FpgaInv, NEW u \in Users, AccessAnswered(u)
    PROVE  InCall(u) /\ Executed(u) /\ (Proceeding(u) \/ Staying(u))
  <1>1. /\ InCall(u) /\ Executed(u) /\ initiator # 0 /\ Current(u).op \in AccessOps
        /\ Returned(u, semaphore = "host", Answer(u))
    BY DEF AccessAnswered, AtAccess, AtOp
  <1>2. Answer(u) \in Seq(Values) /\ (Current(u).op = "readStartStop" => Answer(u) = <<startStop>>)
    BY <1>1, AnswersAre
  <1>3. CASE Staying(u)
    BY <1>1, <1>3
  <1>4. ASSUME NEW b \in Seq(Values), Proceeds(u, initiator # 0, b),
               Current(u).op \notin {"request", "release"} => b = Answer(u),
               Current(u).op \in {"request", "release"} => running[u].phase = "read",
               Current(u).op = "request" => semaphore = "host",
               Current(u).op = "release" => semaphore # "host"
        PROVE  Proceeding(u)
    <2>1. Current(u).op \in {"request", "release"} => semaphore' = semaphore
      BY <1>1, <1>4 DEF Executed
    <2>2. (initiator # 0) \in BOOLEAN
      OBVIOUS
    <2>3. QED BY <1>1, <1>2, <1>4, <2>1, <2>2 DEF Proceeding
  <1>5. QED BY <1>1, <1>2, <1>3, <1>4, ReturnedMeans

\* An access to a memory object by its name.
LEMMA ObjectStepMeans ==
    ASSUME CallsInv, FpgaInv, NEW u \in Users, ObjectWritten(u) \/ ObjectUnknown(u)
    PROVE  InCall(u) /\ Touches(u) /\ (Proceeding(u) \/ Staying(u) \/ Leaving(u))
  <1>1. InCall(u) /\ Touches(u) /\ Current(u).op \in ObjectOps /\ Current(u).op \in AccessOps
    BY DEF ObjectWritten, ObjectUnknown, AtAccess, AtOp, UnknownObject, Touches, ObjectOps, AccessOps
  <1>2. \/ \E n \in {0, 1} : Again(u, n, 0) /\ ~LastTrial(u)
        \/ CallThrows(u, "LowerException")
        \/ Returned(u, FALSE, <<>>)
    BY DEF ObjectWritten, ObjectUnknown
  <1>3. CASE \E n \in {0, 1} : Again(u, n, 0) /\ ~LastTrial(u)
    BY <1>1, <1>3 DEF Staying
  <1>4. CASE CallThrows(u, "LowerException")
    BY <1>1, <1>4 DEF Leaving, Exceptions
  <1>5. CASE Returned(u, FALSE, <<>>)
    <2>1. <<>> \in Seq(Values)
      OBVIOUS
    <2>2. Staying(u) \/ \E b \in Seq(Values) : Proceeds(u, initiator # 0, b)
      BY <1>1, <1>5, <2>1, ReturnedMeans
    <2>3. Current(u).op \notin {"request", "release", "write", "writeStartStop", "readStartStop"}
      BY <1>1 DEF ObjectOps
    <2>4. (initiator # 0) \in BOOLEAN
      OBVIOUS
    <2>5. QED BY <1>1, <2>2, <2>3, <2>4 DEF Proceeding
  <1>6. QED BY <1>2, <1>3, <1>4, <1>5

\* Every step of a call goes on with it, stays where it is, or leaves it.
LEMMA UserStepMeans ==
    ASSUME CallsInv, FpgaInv, NEW u \in Users, UserStep(u)
    PROVE  InCall(u) /\ Touches(u) /\ (Proceeding(u) \/ Staying(u) \/ Leaving(u))
  <1>1. CASE Connect(u) \/ Disconnect(u) \/ OpenSocket(u) \/ CloseSocket(u)
    BY <1>1, ConnectionStepMeans DEF Touches
  <1>2. CASE AccessWithoutDevice(u)
    BY <1>2, AccessWithoutDeviceMeans DEF Touches
  <1>3. CASE AccessAnswered(u)
    BY <1>3, AccessAnsweredMeans DEF Touches
  <1>4. CASE ObjectWritten(u) \/ ObjectUnknown(u)
    BY <1>4, ObjectStepMeans
  <1>5. CASE CommandLost(u) \/ ReplyLost(u) \/ Refused(u) \/ TimeCodeFails(u)
    <2>1. InCall(u) /\ Touches(u)
      BY <1>5 DEF CommandLost, ReplyLost, Refused, TimeCodeFails, Fault, AtAccess, AtOp, Touches
    <2>2. \/ AccessTimesOut(u, 0) \/ AccessTimesOut(u, 1)
          \/ \E x \in Exceptions : CallThrows(u, x)
      BY <1>5 DEF CommandLost, ReplyLost, Refused, TimeCodeFails, Exceptions
    <2>3. QED BY <2>1, <2>2, LosingMeans DEF Leaving
  <1>6. QED BY <1>1, <1>2, <1>3, <1>4, <1>5 DEF UserStep
-----------------------------------------------------------------------------
(* The calls                                                               *)

\* What a step leaves as it is: the calls of the others.
OthersKept(u) ==
    /\ DOMAIN running' = Users /\ (\A v \in Users : v # u => running'[v] = running[v])
    /\ DOMAIN boardOutcome' = Users
    /\ (\A v \in Users : v # u => boardOutcome'[v] = boardOutcome[v])

\* A step that changes one call only.
LEMMA OneCallChanges ==
    ASSUME CallsInv, NEW u \in Users, NEW r2, NEW o2,
           running' = [running EXCEPT ![u] = r2],
           boardOutcome' = [boardOutcome EXCEPT ![u] = o2]
    PROVE  OthersKept(u) /\ running'[u] = r2 /\ boardOutcome'[u] = o2
  BY DEF OthersKept, CallsInv

\* The call goes on with its next element.
LEMMA NextElement ==
    ASSUME NEW r, Runs(r), r.at < Len(r.program), Len(r.program) \in Nat, NEW q,
           q = [r EXCEPT !.at = @ + 1, !.phase = "write", !.trial = 0,
                         !.executions = 0, !.timeouts = 0]
    PROVE  Runs(q) /\ q.call = r.call /\ q.program = r.program /\ q.at = r.at + 1 /\ q # Idle
  <1>1. /\ DOMAIN q = {"call", "program", "at", "phase", "trial", "executions", "timeouts"}
        /\ q.call = r.call /\ q.program = r.program /\ q.at = r.at + 1 /\ q.phase = "write"
        /\ q.trial = 0 /\ q.executions = 0 /\ q.timeouts = 0
    BY DEF Runs
  <1>2. DOMAIN Idle = {"call"}
    BY DEF Idle
  <1>3. q # Idle
    BY ONLY <1>1, <1>2
  <1>4. Runs(q)
    BY <1>1, BoardAssumption DEF Runs, PhaseNames
  <1>5. QED BY <1>1, <1>3, <1>4

\* The call goes on, or returns.
LEMMA ProceedsMeans ==
    ASSUME CallsInv, NEW u \in Users, InCall(u), NEW c \in BOOLEAN, NEW a \in Seq(Values),
           Proceeds(u, c, a)
    PROVE  /\ OthersKept(u) /\ Ends(boardOutcome'[u])
           /\ boardOutcome'[u].call = running[u].call
           /\ boardOutcome'[u].connected = (boardOutcome[u].connected /\ c)
           /\ boardOutcome'[u].answers = boardOutcome[u].answers \o a
           /\ \/ /\ running[u].at = Len(running[u].program) /\ running'[u] = Idle
                 /\ boardOutcome'[u].how = "ok"
              \/ /\ running[u].at < Len(running[u].program) /\ running'[u] # Idle
                 /\ Runs(running'[u])
                 /\ running'[u].call = running[u].call
                 /\ running'[u].program = running[u].program
                 /\ running'[u].at = running[u].at + 1
                 /\ boardOutcome'[u].how = "runs"
  <1> DEFINE r == running[u]
             o == boardOutcome[u]
             h == IF r.at = Len(r.program) THEN "ok" ELSE "runs"
             q == [r EXCEPT !.at = @ + 1, !.phase = "write", !.trial = 0,
                            !.executions = 0, !.timeouts = 0]
             b == o.answers \o a
             d == (o.connected /\ c)
             o2 == Outcome(r.call, h, d, b)
             r2 == IF r.at = Len(r.program) THEN Idle ELSE q
  <1>1. Runs(r) /\ r.at \in 1 .. Len(r.program) /\ Ends(o) /\ Len(r.program) \in Nat
    BY ElementNow DEF ProgramIs
  <1>2. running' = [running EXCEPT ![u] = r2] /\ boardOutcome' = [boardOutcome EXCEPT ![u] = o2]
    BY DEF Proceeds
  <1>3. b \in Seq(Values) /\ d \in BOOLEAN /\ r.call \in Calls
    BY <1>1 DEF Runs, Ends
  <1>4. Ends(o2) /\ o2.call = r.call /\ o2.how = h /\ o2.connected = d /\ o2.answers = b
    <2> HIDE DEF b, d, h, r
    <2>1. QED BY ONLY <1>3 DEF Ends, Outcome
  <1>5. r.at < Len(r.program) =>
            Runs(q) /\ q.call = r.call /\ q.program = r.program /\ q.at = r.at + 1 /\ q # Idle
    BY <1>1, NextElement
  <1> HIDE DEF o2, r2, q
  <1>6. OthersKept(u) /\ running'[u] = r2 /\ boardOutcome'[u] = o2
    BY <1>2, OneCallChanges
  <1>7. CASE r.at = Len(r.program)
    <2>1. r2 = Idle /\ h = "ok"
      BY <1>7 DEF r2
    <2>2. QED BY <1>4, <1>6, <1>7, <2>1
  <1>8. CASE r.at < Len(r.program)
    <2>1. r2 = q /\ h = "runs"
      BY <1>1, <1>8 DEF r2
    <2>2. QED BY <1>4, <1>5, <1>6, <1>8, <2>1
  <1>9. QED BY <1>1, <1>7, <1>8

\* One more trial of the access.
LEMMA NextTrial ==
    ASSUME NEW r, Runs(r), NEW n \in {0, 1}, NEW m \in {0, 1}, r.trial # MaxTrials - 1,
           n <= m \/ r.program[r.at].op \in ObjectOps, NEW q,
           q = [r EXCEPT !.trial = @ + 1, !.executions = @ + n, !.timeouts = @ + m]
    PROVE  Runs(q) /\ q.call = r.call /\ q.program = r.program /\ q.at = r.at /\ q # Idle
  <1>1. /\ DOMAIN q = {"call", "program", "at", "phase", "trial", "executions", "timeouts"}
        /\ q.call = r.call /\ q.program = r.program /\ q.at = r.at /\ q.phase = r.phase
        /\ q.trial = r.trial + 1 /\ q.executions = r.executions + n
        /\ q.timeouts = r.timeouts + m
    BY DEF Runs
  <1>2. DOMAIN Idle = {"call"}
    BY DEF Idle
  <1>3. q # Idle
    BY ONLY <1>1, <1>2
  <1>4. q.trial \in Nat /\ q.trial < MaxTrials /\ q.executions \in Nat /\ q.timeouts \in Nat
        /\ (r.program[r.at].op \notin ObjectOps => q.executions <= q.timeouts)
    BY <1>1, BoardAssumption DEF Runs
  <1>5. Runs(q)
    BY <1>1, <1>4 DEF Runs
  <1>6. QED BY <1>1, <1>3, <1>5

\* The next round of a loop for the semaphore.
LEMMA NextRound ==
    ASSUME NEW r, Runs(r), NEW phase \in PhaseNames, NEW q,
           q = [r EXCEPT !.phase = phase, !.trial = 0, !.executions = 0, !.timeouts = 0]
    PROVE  Runs(q) /\ q.call = r.call /\ q.program = r.program /\ q.at = r.at /\ q # Idle
  <1>1. /\ DOMAIN q = {"call", "program", "at", "phase", "trial", "executions", "timeouts"}
        /\ q.call = r.call /\ q.program = r.program /\ q.at = r.at /\ q.phase = phase
        /\ q.trial = 0 /\ q.executions = 0 /\ q.timeouts = 0
    BY DEF Runs
  <1>2. DOMAIN Idle = {"call"}
    BY DEF Idle
  <1>3. q # Idle
    BY ONLY <1>1, <1>2
  <1>4. Runs(q)
    BY <1>1, BoardAssumption DEF Runs
  <1>5. QED BY <1>1, <1>3, <1>4

\* What such a step leaves as it is.
Stays(u) ==
    /\ OthersKept(u) /\ Ends(boardOutcome'[u])
    /\ boardOutcome'[u].call = boardOutcome[u].call
    /\ boardOutcome'[u].how = boardOutcome[u].how
    /\ boardOutcome'[u].connected => boardOutcome[u].connected
    /\ boardOutcome'[u].answers = boardOutcome[u].answers
    /\ running'[u] # Idle /\ Runs(running'[u])
    /\ running'[u].call = running[u].call /\ running'[u].program = running[u].program
    /\ running'[u].at = running[u].at

\* The call stays at its element, with one more trial or another round.
LEMMA StayingMeans ==
    ASSUME CallsInv, NEW u \in Users, InCall(u), Staying(u)
    PROVE  Stays(u)
  <1> DEFINE r == running[u]
             o == boardOutcome[u]
  <1>1. Runs(r) /\ Ends(o) /\ Current(u) = r.program[r.at]
    BY ElementNow
  <1>2. CASE \E n, m \in {0, 1} :
                Again(u, n, m) /\ ~LastTrial(u) /\ (n <= m \/ Current(u).op \in ObjectOps)
    <2>1. PICK n \in {0, 1}, m \in {0, 1} :
                Again(u, n, m) /\ ~LastTrial(u) /\ (n <= m \/ Current(u).op \in ObjectOps)
      BY <1>2
    <2> DEFINE q == [r EXCEPT !.trial = @ + 1, !.executions = @ + n, !.timeouts = @ + m]
    <2>2. running' = [running EXCEPT ![u] = q] /\ boardOutcome' = boardOutcome
      BY <2>1 DEF Again
    <2>3. Runs(q) /\ q.call = r.call /\ q.program = r.program /\ q.at = r.at /\ q # Idle
      BY <1>1, <2>1, NextTrial DEF LastTrial
    <2> HIDE DEF q
    <2>4. OthersKept(u) /\ running'[u] = q /\ boardOutcome'[u] = o
      BY <2>2 DEF OthersKept, CallsInv
    <2>5. QED BY <1>1, <2>3, <2>4 DEF Stays
  <1>3. CASE \E phase \in PhaseNames : Looped(u, phase)
    <2>1. PICK phase \in PhaseNames : Looped(u, phase)
      BY <1>3
    <2> DEFINE q == [r EXCEPT !.phase = phase, !.trial = 0, !.executions = 0, !.timeouts = 0]
               d == (o.connected /\ initiator # 0)
               o2 == [o EXCEPT !.connected = d]
    <2>2. running' = [running EXCEPT ![u] = q] /\ boardOutcome' = [boardOutcome EXCEPT ![u] = o2]
      BY <2>1 DEF Looped
    <2>3. Runs(q) /\ q.call = r.call /\ q.program = r.program /\ q.at = r.at /\ q # Idle
      BY <1>1, NextRound
    <2>4. d \in BOOLEAN /\ (d => o.connected)
      OBVIOUS
    <2>5. /\ DOMAIN o2 = {"call", "how", "connected", "answers"} /\ o2.call = o.call
          /\ o2.how = o.how /\ o2.connected = d /\ o2.answers = o.answers
      <3> HIDE DEF d
      <3>1. QED BY <1>1 DEF Ends
    <2> HIDE DEF q, o2, d
    <2>6. Ends(o2)
      BY <1>1, <2>4, <2>5 DEF Ends
    <2>7. OthersKept(u) /\ running'[u] = q /\ boardOutcome'[u] = o2
      BY <2>2, OneCallChanges
    <2>8. QED BY <1>1, <2>3, <2>4, <2>5, <2>6, <2>7 DEF Stays
  <1>4. QED BY <1>2, <1>3 DEF Staying

\* The call ends otherwise than by returning.
LEMMA LeavingMeans ==
    ASSUME CallsInv, NEW u \in Users, InCall(u), Leaving(u)
    PROVE  /\ OthersKept(u) /\ Ends(boardOutcome'[u])
           /\ running'[u] = Idle /\ boardOutcome'[u].how \notin {"ok", "runs", "none"}
  <1> DEFINE r == running[u]
             o == boardOutcome[u]
  <1>1. Runs(r) /\ Ends(o)
    BY ElementNow
  <1>2. CASE Exits(u)
    <2> DEFINE o2 == [o EXCEPT !.how = "exit"]
    <2>1. running' = [running EXCEPT ![u] = Idle] /\ boardOutcome' = [boardOutcome EXCEPT ![u] = o2]
      BY <1>2 DEF Exits
    <2>2. Ends(o2) /\ o2.how = "exit"
      BY <1>1 DEF Ends
    <2> HIDE DEF o2
    <2>3. OthersKept(u) /\ running'[u] = Idle /\ boardOutcome'[u] = o2
      BY <2>1, OneCallChanges
    <2>4. QED BY <2>2, <2>3
  <1>3. CASE \E x \in Exceptions : CallThrows(u, x)
    <2>1. PICK x \in Exceptions : CallThrows(u, x)
      BY <1>3
    <2> DEFINE e == Escapes(r.call, x)
               o2 == Outcome(r.call, e, o.connected, <<>>)
    <2>2. e \notin {"ok", "runs", "none"}
      <3>1. Escapes(r.call, x) \in {"OpenDeviceFailed", "CloseDeviceFailed", "terminate", x}
        BY DEF Escapes
      <3>2. x \notin {"ok", "runs", "none"}
        BY DEF Exceptions
      <3>3. QED BY ONLY <3>1, <3>2
    <2>3. /\ running' = [running EXCEPT ![u] = Idle]
          /\ boardOutcome' = [boardOutcome EXCEPT ![u] = o2]
      BY <2>1 DEF CallThrows
    <2> HIDE DEF e
    <2>4. Ends(o2) /\ o2.how = e
      <3>1. r.call \in Calls /\ o.connected \in BOOLEAN
        BY <1>1 DEF Ends, Runs
      <3>2. <<>> \in Seq(Values)
        OBVIOUS
      <3> HIDE DEF r, o
      <3>3. QED BY ONLY <3>1, <3>2 DEF Ends, Outcome
    <2> HIDE DEF o2
    <2>5. OthersKept(u) /\ running'[u] = Idle /\ boardOutcome'[u] = o2
      BY <2>3, OneCallChanges
    <2>6. QED BY <2>2, <2>4, <2>5
  <1>4. QED BY <1>2, <1>3 DEF Leaving

\* A step of one call keeps the invariant of the calls if its own is left right.
LEMMA OneCallKept ==
    ASSUME CallsInv, NEW u \in Users, OthersKept(u), Ends(boardOutcome'[u]),
           boardOutcome'[u].how = "runs" <=> running'[u] # Idle,
           boardOutcome'[u].how = "ok" => MayRun(boardOutcome'[u].call),
           boardOutcome'[u].how # "none",
           running'[u] # Idle => Runs(running'[u]) /\ boardOutcome'[u].call = running'[u].call,
           running'[u] # Idle /\ running'[u].call.name = "isAcquisitionCompleted" =>
              boardOutcome'[u].answers = <<>>
    PROVE  CallsInv'
  <1>1. DOMAIN running' = Users /\ DOMAIN boardOutcome' = Users
    BY DEF OthersKept
  <1>2. ASSUME NEW v \in Users
        PROVE  /\ Ends(boardOutcome'[v])
               /\ boardOutcome'[v].how = "runs" <=> running'[v] # Idle
               /\ boardOutcome'[v].how = "ok" => MayRun(boardOutcome'[v].call)
               /\ boardOutcome'[v].how = "none" => boardOutcome'[v].call = NoCall
               /\ running'[v] # Idle => Runs(running'[v]) /\ boardOutcome'[v].call = running'[v].call
               /\ running'[v] # Idle /\ running'[v].call.name = "isAcquisitionCompleted" =>
                     boardOutcome'[v].answers = <<>>
    <2>1. CASE v = u
      BY <2>1
    <2>2. CASE v # u
      BY <2>2 DEF OthersKept, CallsInv, InCall
    <2>3. QED BY <2>1, <2>2
  <1>3. QED BY <1>1, <1>2 DEF CallsInv, InCall

\* The steps of a call keep the invariant of the calls,
LEMMA UserStepKeepsCalls ==
    ASSUME CallsInv, NEW u \in Users, InCall(u), Proceeding(u) \/ Staying(u) \/ Leaving(u)
    PROVE  CallsInv'
  <1>1. /\ Runs(running[u]) /\ ProgramIs(running[u].call, running[u].program)
        /\ boardOutcome[u].call = running[u].call /\ boardOutcome[u].how = "runs"
        /\ running[u].at \in 1 .. Len(running[u].program)
    BY ElementNow
  <1>2. CASE Proceeding(u)
    <2>1. PICK c \in BOOLEAN, a \in Seq(Values) : Proceeds(u, c, a)
      BY <1>2 DEF Proceeding
    <2>2. /\ OthersKept(u) /\ Ends(boardOutcome'[u])
          /\ boardOutcome'[u].call = running[u].call
          /\ \/ running'[u] = Idle /\ boardOutcome'[u].how = "ok"
             \/ /\ running[u].at < Len(running[u].program) /\ running'[u] # Idle
                /\ Runs(running'[u]) /\ running'[u].call = running[u].call
                /\ boardOutcome'[u].how = "runs"
      BY <2>1, ProceedsMeans
    <2>3. running[u].call.name = "isAcquisitionCompleted" => Len(running[u].program) = 1
      <3>1. Len(<<ReadStartStop>>) = 1
        OBVIOUS
      <3>2. running[u].call.name = "isAcquisitionCompleted" => running[u].program = <<ReadStartStop>>
        BY <1>1 DEF ProgramIs
      <3>3. QED BY ONLY <3>1, <3>2
    <2>4. ~(running[u].call.name = "isAcquisitionCompleted"
            /\ running[u].at < Len(running[u].program))
      <3> DEFINE n == running[u].at
                 l == Len(running[u].program)
      <3>1. n \in Nat /\ 1 <= n
        BY <1>1 DEF Runs
      <3>2. running[u].call.name = "isAcquisitionCompleted" => l = 1
        BY <2>3
      <3> HIDE DEF n, l
      <3>3. ~(running[u].call.name = "isAcquisitionCompleted" /\ n < l)
        BY ONLY <3>1, <3>2
      <3>4. QED BY <3>3 DEF n, l
    <2>5. MayRun(running[u].call)
      BY <1>1 DEF Runs, MayRun
    <2>6. QED BY <2>2, <2>4, <2>5, OneCallKept
  <1>3. CASE Staying(u)
    <2>1. Stays(u)
      BY <1>3, StayingMeans
    <2>2. running[u].call.name = "isAcquisitionCompleted" => boardOutcome[u].answers = <<>>
      BY DEF CallsInv
    <2>3. QED BY <1>1, <2>1, <2>2, OneCallKept DEF Stays
  <1>4. CASE Leaving(u)
    BY <1>4, LeavingMeans, OneCallKept
  <1>5. QED BY <1>2, <1>3, <1>4

\* A call that begins.
BegunWith(u, call) ==
    /\ ~InCall(u) /\ Legal(call) /\ call \in Calls /\ UNCHANGED <<handlerVars, fpgaVars>>
    /\ OthersKept(u) /\ Ends(boardOutcome'[u]) /\ boardOutcome'[u].call = call
    /\ \/ running'[u] = Idle /\ boardOutcome'[u].how = "InvalidChannelNumber"
       \/ /\ running'[u] # Idle /\ Runs(running'[u]) /\ running'[u].call = call
          /\ running'[u].at = 1
          /\ boardOutcome'[u].how = "runs" /\ boardOutcome'[u].answers = <<>>

\* What the begin of a call does,
LEMMA BeginMeans ==
    ASSUME CallsInv, NEW u \in Users, Begin(u)
    PROVE  \E call \in Calls : BegunWith(u, call)
  <1>1. ~InCall(u) /\ UNCHANGED <<handlerVars, fpgaVars>>
    BY DEF Begin
  <1>2. PICK call \in CallsOf[u] :
        /\ Legal(call)
        /\ \/ /\ IsForChannel(call) /\ call.channel \notin Channels
              /\ boardOutcome' = [boardOutcome EXCEPT
                                    ![u] = Outcome(call, "InvalidChannelNumber", FALSE, <<>>)]
              /\ UNCHANGED running
           \/ /\ IsForChannel(call) => call.channel \in Channels
              /\ boardOutcome' = [boardOutcome EXCEPT ![u] = Outcome(call, "runs", TRUE, <<>>)]
              /\ running' = [running EXCEPT
                    ![u] = [call |-> call, program |-> Program(call), at |-> 1,
                            phase |-> "write", trial |-> 0, executions |-> 0, timeouts |-> 0]]
    BY DEF Begin
  <1>3. call \in Calls
    BY <1>2 DEF Calls
  <1>4. <<>> \in Seq(Values)
    OBVIOUS
  <1>5. CASE /\ boardOutcome' = [boardOutcome EXCEPT
                                    ![u] = Outcome(call, "InvalidChannelNumber", FALSE, <<>>)]
             /\ UNCHANGED running
    <2> DEFINE o2 == Outcome(call, "InvalidChannelNumber", FALSE, <<>>)
    <2>1. Ends(o2) /\ o2.call = call /\ o2.how = "InvalidChannelNumber"
      BY ONLY <1>3, <1>4 DEF Ends, Outcome
    <2>2. boardOutcome' = [boardOutcome EXCEPT ![u] = o2] /\ running' = running
      BY <1>5
    <2> HIDE DEF o2
    <2>3. OthersKept(u) /\ boardOutcome'[u] = o2 /\ running'[u] = Idle
      BY <1>1, <2>2 DEF OthersKept, CallsInv, InCall
    <2>4. QED BY <1>1, <1>2, <1>3, <2>1, <2>3 DEF BegunWith
  <1>6. CASE /\ IsForChannel(call) => call.channel \in Channels
             /\ boardOutcome' = [boardOutcome EXCEPT ![u] = Outcome(call, "runs", TRUE, <<>>)]
             /\ running' = [running EXCEPT
                    ![u] = [call |-> call, program |-> Program(call), at |-> 1,
                            phase |-> "write", trial |-> 0, executions |-> 0, timeouts |-> 0]]
    <2> DEFINE o2 == Outcome(call, "runs", TRUE, <<>>)
               r2 == [call |-> call, program |-> Program(call), at |-> 1,
                      phase |-> "write", trial |-> 0, executions |-> 0, timeouts |-> 0]
    <2>1. Ends(o2) /\ o2.call = call /\ o2.how = "runs" /\ o2.answers = <<>>
      BY ONLY <1>3, <1>4 DEF Ends, Outcome
    <2>2. boardOutcome' = [boardOutcome EXCEPT ![u] = o2] /\ running' = [running EXCEPT ![u] = r2]
      BY <1>6
    <2>3. ProgramIs(call, Program(call))
      BY <1>3, <1>6, ProgramsAre
    <2>4. Len(Program(call)) \in Nat \ {0}
      BY <2>3 DEF ProgramIs
    <2>5. Runs(r2) /\ r2.call = call /\ r2.at = 1
      BY <1>3, <1>6, <2>4, BoardAssumption DEF Runs, PhaseNames
    <2>6. DOMAIN r2 = {"call", "program", "at", "phase", "trial", "executions", "timeouts"}
      OBVIOUS
    <2>7. DOMAIN Idle = {"call"}
      BY DEF Idle
    <2>8. r2 # Idle
      BY ONLY <2>6, <2>7
    <2> HIDE DEF o2, r2
    <2>9. OthersKept(u) /\ boardOutcome'[u] = o2 /\ running'[u] = r2
      BY <2>2, OneCallChanges
    <2>10. QED BY <1>1, <1>2, <1>3, <2>1, <2>5, <2>8, <2>9 DEF BegunWith
  <1>7. QED BY <1>2, <1>3, <1>5, <1>6

\* and that it keeps the invariant of the calls.
LEMMA BeginKeepsCalls ==
    ASSUME CallsInv, NEW u \in Users, NEW call, BegunWith(u, call)
    PROVE  CallsInv'
  BY OneCallKept DEF BegunWith
-----------------------------------------------------------------------------
(* The board                                                               *)

\* What an access does to the board.
LEMMA ExecutedMeans ==
    ASSUME FpgaInv, CallsInv, NEW u \in Users, InCall(u), Touches(u)
    PROVE  /\ FpgaInv'
           /\ semaphore' # semaphore =>
                 \/ Current(u).op = "request" /\ semaphore' = "host"
                 \/ Current(u).op = "release" /\ semaphore' = "free"
           /\ startStop' # startStop =>
                 Current(u).op = "writeStartStop" /\ startStop' = Current(u).channels
           /\ Current(u).op # "write" => registers' = registers
           /\ Current(u).op = "write" /\ Executed(u) =>
                 /\ DOMAIN registers' = DOMAIN Current(u).to \cup DOMAIN registers
                 /\ \A r \in DOMAIN registers' :
                       registers'[r] = IF r \in DOMAIN Current(u).to THEN Current(u).to[r]
                                       ELSE registers[r]
           /\ Current(u).op = "writeStartStop" /\ Executed(u) => startStop' = Current(u).channels
  <1>1. ElementIs(Current(u))
    BY ElementNow
  <1>2. CASE UNCHANGED fpgaVars /\ ~Executed(u)
    BY <1>2 DEF fpgaVars, FpgaInv
  <1>3. CASE Executed(u)
    <2>1. semaphore' = CASE Current(u).op = "request" /\ running[u].phase = "write"
                              /\ semaphore = "free" -> "host"
                         [] Current(u).op = "release" /\ running[u].phase = "write"
                              /\ semaphore = "host" -> "free"
                         [] OTHER -> semaphore
      BY <1>3 DEF Executed
    <2>2. startStop' = IF Current(u).op = "writeStartStop" THEN Current(u).channels ELSE startStop
      BY <1>3 DEF Executed
    <2>3. registers' = IF Current(u).op = "write" THEN Overwritten(Current(u).to) ELSE registers
      BY <1>3 DEF Executed
    <2>4. Current(u).op = "write" =>
             /\ DOMAIN registers' = DOMAIN Current(u).to \cup DOMAIN registers
             /\ \A r \in DOMAIN registers' :
                   registers'[r] = IF r \in DOMAIN Current(u).to THEN Current(u).to[r]
                                   ELSE registers[r]
      BY <2>3 DEF Overwritten
    <2>5. /\ DOMAIN registers' \subseteq Registers
          /\ \A r \in DOMAIN registers' : registers'[r] \in Contents(r)
      <3>1. CASE Current(u).op = "write"
        BY <1>1, <2>4, <3>1 DEF ElementIs, FpgaInv
      <3>2. CASE Current(u).op # "write"
        BY <2>3, <3>2 DEF FpgaInv
      <3>3. QED BY <3>1, <3>2
    <2>6. startStop' \subseteq Channels
      BY <1>1, <2>2 DEF ElementIs, FpgaInv
    <2>7. semaphore' \in {"free", "host", "logic"}
      BY <2>1 DEF FpgaInv
    <2>8. FpgaInv'
      BY <2>5, <2>6, <2>7 DEF FpgaInv
    <2>9. semaphore' # semaphore =>
                 \/ Current(u).op = "request" /\ semaphore' = "host"
                 \/ Current(u).op = "release" /\ semaphore' = "free"
      BY <2>1
    <2>10. QED BY <2>2, <2>3, <2>4, <2>8, <2>9
  <1>4. QED BY <1>2, <1>3 DEF Touches

\* A channel's live time counts; nothing else that was written changes.
LEMMA TickMeans ==
    ASSUME FpgaInv, LivetimeTicks
    PROVE  /\ FpgaInv'
           /\ DOMAIN registers \subseteq DOMAIN registers'
           /\ \A r \in DOMAIN registers' : r[1] \notin {"livetimeL", "livetimeH"} =>
                 r \in DOMAIN registers /\ registers'[r] = registers[r]
  <1> DEFINE counted == {<<"livetimeL", c>> : c \in startStop} \cup {<<"livetimeH", c>> : c \in startStop}
             h == [r \in counted |->
                     (ValueOf(r) + IF r[1] = "livetimeL"
                                      \/ ValueOf(<<"livetimeL", r[2]>>) = AllOnes
                                   THEN 1 ELSE 0) % HalfSpace]
  <1>1. registers' = Overwritten(h) /\ UNCHANGED <<startStop, semaphore>>
    BY DEF LivetimeTicks
  <1>2. \A r \in counted : /\ r \in Registers /\ Contents(r) = Half
                           /\ r[1] \in {"livetimeL", "livetimeH"}
    BY DEF FpgaInv, Registers, ChannelRegisters, Contents
  <1>3. \A r \in counted : h[r] \in Half
    <2>1. \A r \in counted : ValueOf(r) \in Nat
      BY <1>2, ValuesOfRegisters DEF Half
    <2>2. \A n \in Nat : (n + 1) % HalfSpace \in Half /\ (n + 0) % HalfSpace \in Half
      BY DEF Half
    <2>3. QED BY <2>1, <2>2
  <1>4. DOMAIN h = counted
    OBVIOUS
  <1> HIDE DEF counted, h
  <1>5. /\ DOMAIN registers' = counted \cup DOMAIN registers
        /\ \A r \in DOMAIN registers' :
              registers'[r] = IF r \in counted THEN h[r] ELSE registers[r]
    BY <1>1, <1>4 DEF Overwritten
  <1>6. FpgaInv'
    BY <1>1, <1>2, <1>3, <1>5 DEF FpgaInv
  <1>7. QED BY <1>2, <1>5, <1>6

\* What a call has done stays done.
ValueAfter(r) == IF r \in DOMAIN registers' THEN registers'[r] ELSE Cleared(r)
DoneAfter(e) ==
    /\ e.op = "write" => \A r \in DOMAIN e.to : ValueAfter(r) = e.to[r]
    /\ e.op = "writeStartStop" => startStop' \subseteq e.channels

\* What a method has done, its later accesses leave done.
LEMMA DoneStaysDone ==
    ASSUME FpgaInv, CallsInv, NEW u \in Users, InCall(u), Touches(u), NEW e, Done(e),
           Agree(e, Current(u)), ~(e.op = "writeStartStop" /\ Current(u).op = "writeStartStop")
    PROVE  DoneAfter(e)
  <1>1. ASSUME e.op = "write", NEW r \in DOMAIN e.to
        PROVE  ValueAfter(r) = e.to[r]
    <2>1. ValueOf(r) = e.to[r]
      BY <1>1 DEF Done
    <2>2. CASE Current(u).op # "write" \/ ~Executed(u)
      <3>1. registers' = registers
        BY <2>2, ExecutedMeans DEF Touches, fpgaVars
      <3>2. QED BY <2>1, <3>1 DEF ValueOf, ValueAfter
    <2>3. CASE Current(u).op = "write" /\ Executed(u)
      <3>1. /\ DOMAIN registers' = DOMAIN Current(u).to \cup DOMAIN registers
            /\ \A x \in DOMAIN registers' :
                  registers'[x] = IF x \in DOMAIN Current(u).to THEN Current(u).to[x]
                                  ELSE registers[x]
        BY <2>3, ExecutedMeans
      <3>2. r \in DOMAIN Current(u).to => Current(u).to[r] = e.to[r]
        BY <1>1, <2>3 DEF Agree
      <3>3. CASE r \in DOMAIN Current(u).to
        <4>1. r \in DOMAIN registers' /\ registers'[r] = Current(u).to[r]
          BY <3>1, <3>3
        <4>2. QED BY <3>2, <3>3, <4>1 DEF ValueAfter
      <3>4. CASE r \notin DOMAIN Current(u).to
        BY <2>1, <3>1, <3>4 DEF ValueOf, ValueAfter
      <3>5. QED BY <3>3, <3>4
    <2>4. QED BY <2>2, <2>3
  <1>2. ASSUME e.op = "writeStartStop"
        PROVE  startStop' \subseteq e.channels
    BY <1>2, ExecutedMeans DEF Done
  <1>3. QED BY <1>1, <1>2 DEF DoneAfter

\* An access that reached the board has done what it is for.
LEMMA ExecutedIsDone ==
    ASSUME FpgaInv, CallsInv, NEW u \in Users, InCall(u), Executed(u)
    PROVE  DoneAfter(Current(u))
  <1>1. Touches(u)
    BY DEF Touches
  <1>2. ASSUME Current(u).op = "write", NEW r \in DOMAIN Current(u).to
        PROVE  ValueAfter(r) = Current(u).to[r]
    <2>1. r \in DOMAIN registers' /\ registers'[r] = Current(u).to[r]
      BY <1>1, <1>2, ExecutedMeans
    <2>2. QED BY <2>1 DEF ValueAfter
  <1>3. Current(u).op = "writeStartStop" => startStop' \subseteq Current(u).channels
    BY <1>1, ExecutedMeans
  <1>4. QED BY <1>2, <1>3 DEF DoneAfter

\* The FPGA undoes nothing: it counts live time, which no method writes, and
\* stops channels.
LEMMA LogicKeepsDone ==
    ASSUME FpgaInv, NEW e, ElementIs(e), Done(e),
           LogicTakes \/ LogicReleases \/ LivetimeTicks
    PROVE  DoneAfter(e)
  <1>1. CASE LogicTakes \/ LogicReleases
    <2>1. registers' = registers /\ startStop' \subseteq startStop
      BY <1>1 DEF LogicTakes, LogicReleases
    <2>2. QED BY <2>1 DEF Done, DoneAfter, ValueOf, ValueAfter
  <1>2. CASE LivetimeTicks
    <2>1. startStop' = startStop
      BY <1>2 DEF LivetimeTicks
    <2>2. ASSUME e.op = "write", NEW r \in DOMAIN e.to
          PROVE  ValueAfter(r) = ValueOf(r)
      <3>1. r[1] \notin {"livetimeL", "livetimeH"}
        BY <2>2 DEF ElementIs
      <3>2. QED BY <1>2, <3>1, TickMeans DEF ValueOf, ValueAfter
    <2>3. QED BY <2>1, <2>2 DEF Done, DoneAfter
  <1>3. QED BY <1>1, <1>2
-----------------------------------------------------------------------------
(* The connection                                                          *)

\* What a step does to the call it is a step of.
Advances(u) ==
    /\ OthersKept(u)
    /\ \/ running'[u] = Idle
       \/ /\ running'[u] # Idle /\ Runs(running'[u]) /\ running'[u].call = running[u].call
          /\ running'[u].program = running[u].program
          /\ \/ running'[u].at = running[u].at
             \/ running'[u].at = running[u].at + 1

\* A step of a call leaves it at its element, at the next, or out of it.
LEMMA StepAdvances ==
    ASSUME CallsInv, NEW u \in Users, InCall(u), Proceeding(u) \/ Staying(u) \/ Leaving(u)
    PROVE  Advances(u)
  <1>1. CASE Proceeding(u)
    <2>1. PICK c \in BOOLEAN, a \in Seq(Values) : Proceeds(u, c, a)
      BY <1>1 DEF Proceeding
    <2>2. QED BY <2>1, ProceedsMeans DEF Advances
  <1>2. CASE Staying(u)
    BY <1>2, StayingMeans DEF Stays, Advances
  <1>3. CASE Leaving(u)
    BY <1>3, LeavingMeans DEF Advances
  <1>4. QED BY <1>1, <1>2, <1>3

\* The calls fit the connection.
CallFits(r, ini) ==
    r # Idle =>
        /\ r.program[r.at].op = "connect" => ini = 0
        /\ r.call.name \in {"startAcquisition", "stopAcquisition"} => ini # 0
        /\ r.call.name = "openDevice" /\ r.at > 1 => ini # 0
HandlerFits(i, ini, m, e) ==
    /\ m \in Nat /\ i \in Nat /\ i <= m /\ ini \in {0, i}
    /\ e = IF ini = 0 THEN {} ELSE {ini}

\* The invariant of the connection, by what it relates.
LEMMA HandlerInvIs ==
    HandlerInv <=> /\ HandlerFits(interface, initiator, made, engines)
                   /\ eventSocket \in BOOLEAN
                   /\ \A u \in Users : CallFits(running[u], initiator)
  BY DEF HandlerInv, HandlerFits, CallFits, InCall, Current

\* The same for the state after a step.
LEMMA HandlerInvKept ==
    ASSUME HandlerFits(interface', initiator', made', engines'), eventSocket' \in BOOLEAN,
           \A u \in Users : CallFits(running'[u], initiator')
    PROVE  HandlerInv'
  BY DEF HandlerInv, HandlerFits, CallFits, InCall, Current

\* A call never comes to connect again.
LEMMA OnlyFirstConnects ==
    ASSUME CallsInv, NEW u \in Users, InCall(u), Advances(u), running'[u] # Idle
    PROVE  /\ running'[u].program[running'[u].at].op = "connect" =>
                 running'[u].at = running[u].at /\ Current(u).op = "connect"
           /\ running'[u].call = running[u].call
           /\ running[u].call.name = "openDevice" /\ running[u].at = 1 => Current(u).op = "connect"
  <1> DEFINE p == running[u].program
             n == running[u].at
             m == running'[u].at
  <1>1. /\ ProgramIs(running[u].call, p) /\ n \in 1 .. Len(p) /\ Len(p) \in Nat
        /\ Current(u) = p[n]
    BY ElementNow DEF ProgramIs
  <1>2. m \in 1 .. Len(p) /\ (m = n \/ m = n + 1) /\ running'[u].program = p
        /\ running'[u].call = running[u].call
    <2>1. Runs(running'[u]) /\ running'[u].program = p /\ (m = n \/ m = n + 1)
          /\ running'[u].call = running[u].call
      BY DEF Advances
    <2>2. m \in Nat /\ 1 <= m /\ m <= Len(p)
      BY <2>1 DEF Runs
    <2>3. QED BY <1>1, <2>1, <2>2
  <1>3. p[m].op = "connect" => m = 1
    BY <1>1, <1>2 DEF ProgramIs
  <1>4. running[u].call.name = "openDevice" => p[1].op = "connect"
    BY <1>1 DEF ProgramIs
  <1> HIDE DEF p, n, m
  <1>5. p[m].op = "connect" => m = n
    BY <1>1, <1>2, <1>3
  <1>6. QED BY <1>1, <1>2, <1>3, <1>4, <1>5 DEF p, n, m

\* Accesses leave the connection alone.
LEMMA AccessKeepsHandler ==
    ASSUME HandlerInv, CallsInv, OneUser, NEW u \in Users, InCall(u), Advances(u),
           UNCHANGED handlerVars, Current(u).op # "connect"
    PROVE  HandlerInv'
  <1>1. HandlerFits(interface', initiator', made', engines') /\ eventSocket' \in BOOLEAN
        /\ initiator' = initiator /\ CallFits(running[u], initiator)
    BY HandlerInvIs DEF handlerVars
  <1>2. CallFits(running'[u], initiator')
    <2>1. CASE running'[u] = Idle
      BY <2>1 DEF CallFits
    <2>2. CASE running'[u] # Idle
      <3>1. running'[u].program[running'[u].at].op # "connect"
            /\ running'[u].call = running[u].call
            /\ (running[u].call.name = "openDevice" => running[u].at # 1)
        BY <2>2, OnlyFirstConnects
      <3>2. running[u].at \in Nat /\ running[u].at >= 1 /\ running[u] # Idle
        BY ElementNow DEF Runs, InCall
      <3>3. (running[u].call.name = "openDevice" => initiator # 0)
            /\ (running[u].call.name \in {"startAcquisition", "stopAcquisition"} => initiator # 0)
        BY <1>1, <3>1, <3>2 DEF CallFits
      <3>4. QED BY <1>1, <3>1, <3>3 DEF CallFits
    <2>3. QED BY <2>1, <2>2
  <1>3. \A v \in Users : v = u
    BY DEF OneUser
  <1>4. QED BY <1>1, <1>2, <1>3, HandlerInvKept

\* The steps of openDevice() and closeDevice() keep it.
LEMMA ConnectionKeepsHandler ==
    ASSUME HandlerInv, CallsInv, OneUser, NEW u \in Users,
           Connect(u) \/ Disconnect(u) \/ OpenSocket(u) \/ CloseSocket(u), Advances(u)
    PROVE  HandlerInv'
  <1>1. /\ HandlerFits(interface, initiator, made, engines) /\ eventSocket \in BOOLEAN
        /\ CallFits(running[u], initiator) /\ \A v \in Users : v = u
    BY HandlerInvIs DEF OneUser
  <1>2. InCall(u) /\ running[u] # Idle /\ Current(u) = running[u].program[running[u].at]
    BY ConnectionStepMeans DEF InCall, Current
  <1>3. ProgramIs(running[u].call, running[u].program)
        /\ running[u].at \in 1 .. Len(running[u].program)
    BY <1>2, ElementNow
  <1>4. CASE Connect(u)
    <2>1. /\ Current(u).op = "connect" /\ made' = made + 1 /\ interface' = made + 1
          /\ eventSocket' = eventSocket
          /\ \/ engines' = engines \cup {made + 1} /\ initiator' = made + 1
             \/ engines' = engines /\ initiator' = initiator /\ CallThrows(u, "CouldNotConnect")
      BY <1>4 DEF Connect, AtOp
    <2>2. initiator = 0 /\ engines = {}
      BY <1>1, <1>2, <2>1 DEF CallFits, HandlerFits
    <2>3. HandlerFits(interface', initiator', made', engines')
      BY <1>1, <2>1, <2>2 DEF HandlerFits
    <2>4. CallFits(running'[u], initiator')
      <3>1. CASE running'[u] = Idle
        BY <3>1 DEF CallFits
      <3>2. CASE running'[u] # Idle
        <4>1. initiator' = made + 1 /\ Proceeds(u, TRUE, <<>>)
          <5>1. CASE CallThrows(u, "CouldNotConnect")
            BY <3>2, <5>1 DEF CallThrows, CallsInv
          <5>2. QED BY <1>4, <2>1, <5>1 DEF Connect
        <4>2. initiator' # 0
          BY <1>1, <4>1 DEF HandlerFits
        <4>3. <<>> \in Seq(Values) /\ TRUE \in BOOLEAN
          OBVIOUS
        <4>4. running'[u].at = running[u].at + 1
          BY <1>2, <3>2, <4>1, <4>3, ProceedsMeans
        <4>5. running'[u].program[running'[u].at].op # "connect"
          BY <1>2, <1>3, <3>2, <4>4, OnlyFirstConnects
        <4>6. QED BY <4>2, <4>5 DEF CallFits
      <3>3. QED BY <3>1, <3>2
    <2>5. QED BY <1>1, <2>1, <2>3, <2>4, HandlerInvKept
  <1>5. CASE Disconnect(u)
    <2>1. /\ Current(u).op = "disconnect" /\ interface' = 0 /\ initiator' = 0
          /\ engines' = engines \ {initiator} /\ made' = made /\ eventSocket' = eventSocket
      BY <1>5 DEF Disconnect, AtOp
    <2>2. HandlerFits(interface', initiator', made', engines')
      BY <1>1, <2>1 DEF HandlerFits
    <2>3. running[u].call.name = "closeDevice"
      BY <1>2, <1>3, <2>1 DEF ProgramIs
    <2>4. CallFits(running'[u], initiator')
      BY <1>2, <2>1, <2>3, OnlyFirstConnects DEF CallFits
    <2>5. QED BY <1>1, <2>1, <2>2, <2>4, HandlerInvKept
  <1>6. CASE OpenSocket(u) \/ CloseSocket(u)
    <2>1. /\ Current(u).op \in {"openSocket", "closeSocket"}
          /\ UNCHANGED <<interface, initiator, made, engines>> /\ eventSocket' \in BOOLEAN
      BY <1>1, <1>6 DEF OpenSocket, CloseSocket, AtOp
    <2>2. CallFits(running'[u], initiator')
      <3>1. CASE running'[u] = Idle
        BY <3>1 DEF CallFits
      <3>2. CASE running'[u] # Idle
        <4>1. running'[u].program[running'[u].at].op # "connect"
              /\ running'[u].call = running[u].call
              /\ (running[u].call.name = "openDevice" => running[u].at # 1)
          BY <1>2, <2>1, <3>2, OnlyFirstConnects
        <4>2. running[u].at \in Nat /\ running[u].at >= 1
          BY <1>3
        <4>3. (running[u].call.name = "openDevice" => initiator # 0)
              /\ (running[u].call.name \in {"startAcquisition", "stopAcquisition"} => initiator # 0)
          BY <1>1, <1>2, <4>1, <4>2 DEF CallFits
        <4>4. QED BY <2>1, <4>1, <4>3 DEF CallFits
      <3>3. QED BY <3>1, <3>2
    <2>3. QED BY <1>1, <2>1, <2>2, HandlerInvKept
  <1>7. QED BY <1>4, <1>5, <1>6

\* A call that begins fits the connection: callers keep to Legal.
LEMMA BeginKeepsHandler ==
    ASSUME HandlerInv, CallsInv, OneUser, ~RetriesOpen, NEW u \in Users, NEW call, BegunWith(u, call)
    PROVE  HandlerInv'
  <1>1. /\ HandlerFits(interface', initiator', made', engines') /\ eventSocket' \in BOOLEAN
        /\ initiator' = initiator /\ \A v \in Users : v = u
    BY HandlerInvIs DEF BegunWith, handlerVars, OneUser
  <1>2. CASE running'[u] = Idle
    BY <1>1, <1>2, HandlerInvKept DEF CallFits
  <1>3. CASE running'[u] # Idle
    <2>1. Runs(running'[u]) /\ running'[u].call = call /\ running'[u].at = 1 /\ Legal(call)
      BY <1>3 DEF BegunWith
    <2>2. ProgramIs(call, running'[u].program)
      BY <2>1, ProgramsAre DEF Runs
    <2>3. running'[u].program[1].op = "connect" => call.name = "openDevice"
      BY <2>2 DEF ProgramIs
    <2>4. CallFits(running'[u], initiator')
      BY <1>1, <2>1, <2>3 DEF CallFits, Legal
    <2>5. QED BY <1>1, <2>4, HandlerInvKept
  <1>4. QED BY <1>2, <1>3
-----------------------------------------------------------------------------
(* The semaphore                                                           *)

\* Where a call is in its program, and who has the semaphore then.
HoldsAt(call, p, n, sem) ==
    /\ p[n].op = "writeStartStop" => sem = "host"
    /\ call.name \in SwitchingCalls /\ (\E i \in 1 .. n - 1 : p[i].op = "release") => sem # "host"
HoldsAfter(u, r, o, sem) ==
    /\ r # Idle => HoldsAt(r.call, r.program, r.at, sem)
    /\ o.how = "ok" /\ o.call.name \in SwitchingCalls => sem # "host"

\* The invariant of the semaphore, by what it relates.
LEMMA SemaphoreInvIs ==
    /\ SemaphoreInv <=> \A u \in Users : HoldsAfter(u, running[u], boardOutcome[u], semaphore)
    /\ (\A u \in Users : HoldsAfter(u, running'[u], boardOutcome'[u], semaphore')) => SemaphoreInv'
  BY DEF SemaphoreInv, HoldsAfter, Within, HoldsAt, InCall

\* How an access moves the semaphore, by the element it is made for.
LEMMA SemaphoreMoves ==
    ASSUME NEW call, NEW p, ProgramIs(call, p), NEW n \in 1 .. Len(p), NEW sem, NEW sem2,
           HoldsAt(call, p, n, sem),
           sem2 # sem => \/ p[n].op = "request" /\ sem2 = "host"
                         \/ p[n].op = "release" /\ sem2 = "free"
    PROVE  /\ HoldsAt(call, p, n, sem2)
           /\ /\ p[n].op = "request" => sem2 = "host"
              /\ call.name \in SwitchingCalls /\ p[n].op = "release" => sem2 # "host"
              => /\ n < Len(p) => HoldsAt(call, p, n + 1, sem2)
                 /\ n = Len(p) /\ call.name \in SwitchingCalls => sem2 # "host"
  <1>1. n \in Nat /\ 1 <= n /\ n <= Len(p) /\ Len(p) \in Nat
    BY DEF ProgramIs
  <1>2. ASSUME call.name \in SwitchingCalls, NEW i \in 1 .. n - 1, p[i].op = "release"
        PROVE  sem2 # "host"
    <2>1. p[n].op # "request"
      BY <1>2 DEF ProgramIs
    <2>2. sem # "host"
      BY <1>2 DEF HoldsAt
    <2>3. QED BY <2>1, <2>2
  <1>3. HoldsAt(call, p, n, sem2)
    BY <1>2 DEF HoldsAt
  <1>4. ASSUME p[n].op = "request" => sem2 = "host",
               call.name \in SwitchingCalls /\ p[n].op = "release" => sem2 # "host"
        PROVE  /\ n < Len(p) => HoldsAt(call, p, n + 1, sem2)
               /\ n = Len(p) /\ call.name \in SwitchingCalls => sem2 # "host"
    <2>1. ASSUME call.name \in SwitchingCalls, NEW i \in 1 .. n, p[i].op = "release"
          PROVE  sem2 # "host"
      <3>1. CASE i = n
        BY <1>4, <2>1, <3>1
      <3>2. CASE i # n
        BY <1>1, <1>2, <2>1, <3>2
      <3>3. QED BY <3>1, <3>2
    <2>2. n < Len(p) => (p[n + 1].op = "writeStartStop" => sem2 = "host")
      <3>1. n < Len(p) => n + 1 \in 1 .. Len(p) /\ (n + 1) - 1 = n
        BY <1>1
      <3>2. \A j \in 1 .. Len(p) : p[j].op = "writeStartStop" => p[j - 1].op = "request"
        BY DEF ProgramIs
      <3>3. QED BY <1>4, <3>1, <3>2
    <2>3. (n + 1) - 1 = n
      BY <1>1
    <2>4. n < Len(p) => HoldsAt(call, p, n + 1, sem2)
      BY <2>1, <2>2, <2>3 DEF HoldsAt
    <2>5. n = Len(p) /\ call.name \in SwitchingCalls => sem2 # "host"
      BY <2>1 DEF ProgramIs
    <2>6. QED BY <2>4, <2>5
  <1>5. QED BY <1>3, <1>4

\* The steps of a call keep the invariant of the semaphore,
LEMMA UserStepKeepsSemaphore ==
    ASSUME HandlerInv, FpgaInv, CallsInv, SemaphoreInv, OneUser, NEW u \in Users, InCall(u),
           Touches(u), Proceeding(u) \/ Staying(u) \/ Leaving(u)
    PROVE  SemaphoreInv'
  <1> DEFINE r == running[u]
             p == running[u].program
             n == running[u].at
             call == running[u].call
  <1>1. /\ ProgramIs(call, p) /\ n \in 1 .. Len(p) /\ Len(p) \in Nat
        /\ Current(u) = p[n] /\ boardOutcome[u].call = call /\ boardOutcome[u].how = "runs"
        /\ r # Idle
    BY ElementNow DEF ProgramIs, InCall
  <1>2. HoldsAt(call, p, n, semaphore)
    BY <1>1, SemaphoreInvIs DEF HoldsAfter
  <1>3. semaphore' # semaphore =>
            \/ p[n].op = "request" /\ semaphore' = "host"
            \/ p[n].op = "release" /\ semaphore' = "free"
    <2>1. semaphore' # semaphore =>
             \/ Current(u).op = "request" /\ semaphore' = "host"
             \/ Current(u).op = "release" /\ semaphore' = "free"
      BY ExecutedMeans
    <2>2. QED BY ONLY <1>1, <2>1
  <1>4. HoldsAt(call, p, n, semaphore')
    BY <1>1, <1>2, <1>3, SemaphoreMoves
  <1>5. HoldsAfter(u, running'[u], boardOutcome'[u], semaphore')
    <2>1. CASE Proceeding(u)
      <3>1. PICK c \in BOOLEAN, a \in Seq(Values) :
                /\ Proceeds(u, c, a)
                /\ Current(u).op = "request" => semaphore = "host" /\ semaphore' = "host"
                /\ Current(u).op = "release" =>
                      initiator = 0 \/ (semaphore # "host" /\ semaphore' # "host")
        BY <2>1 DEF Proceeding
      <3>2. call.name \in SwitchingCalls /\ p[n].op = "release" => initiator # 0
        <4>1. call.name = "openDevice" => p[1].op = "connect"
          BY <1>1 DEF ProgramIs
        <4>2. call.name = "openDevice" /\ p[n].op = "release" => n > 1
          BY <1>1, <4>1
        <4>3. QED BY <1>1, <4>2 DEF HandlerInv, InCall, SwitchingCalls
      <3>3. /\ p[n].op = "request" => semaphore' = "host"
            /\ call.name \in SwitchingCalls /\ p[n].op = "release" => semaphore' # "host"
        BY <1>1, <3>1, <3>2
      <3>4. /\ n < Len(p) => HoldsAt(call, p, n + 1, semaphore')
            /\ n = Len(p) /\ call.name \in SwitchingCalls => semaphore' # "host"
        BY <1>1, <1>2, <1>3, <3>3, SemaphoreMoves
      <3>5. /\ boardOutcome'[u].call = call
            /\ \/ n = Len(p) /\ running'[u] = Idle
               \/ /\ n < Len(p) /\ running'[u] # Idle /\ running'[u].call = call
                  /\ running'[u].program = p /\ running'[u].at = n + 1
                  /\ boardOutcome'[u].how = "runs"
        BY <3>1, ProceedsMeans
      <3> HIDE DEF p, n, call
      <3>6. QED BY <3>4, <3>5 DEF HoldsAfter
    <2>2. CASE Staying(u)
      <3>1. /\ running'[u].call = call /\ running'[u].program = p /\ running'[u].at = n
            /\ boardOutcome'[u].how = "runs"
        BY <1>1, <2>2, StayingMeans DEF Stays
      <3>2. QED BY <1>4, <3>1 DEF HoldsAfter
    <2>3. CASE Leaving(u)
      BY <2>3, LeavingMeans DEF HoldsAfter
    <2>4. QED BY <2>1, <2>2, <2>3
  <1>6. \A v \in Users : v = u
    BY DEF OneUser
  <1>7. QED BY <1>5, <1>6, SemaphoreInvIs

\* its begin does,
LEMMA BeginKeepsSemaphore ==
    ASSUME SemaphoreInv, CallsInv, OneUser, NEW u \in Users, NEW call, BegunWith(u, call)
    PROVE  SemaphoreInv'
  <1>1. \A v \in Users : v = u
    BY DEF OneUser
  <1>2. HoldsAfter(u, running'[u], boardOutcome'[u], semaphore')
    <2>1. CASE running'[u] = Idle
      BY <2>1 DEF HoldsAfter, BegunWith
    <2>2. CASE running'[u] # Idle
      <3>1. Runs(running'[u]) /\ running'[u].call = call /\ running'[u].at = 1
            /\ boardOutcome'[u].how = "runs"
        BY <2>2 DEF BegunWith
      <3>2. ProgramIs(call, running'[u].program)
        BY <3>1, ProgramsAre DEF Runs
      <3>3. running'[u].program[1].op # "writeStartStop"
        BY <3>2 DEF ProgramIs
      <3>4. ~\E i \in 1 .. 1 - 1 : running'[u].program[i].op = "release"
        OBVIOUS
      <3>5. QED BY <3>1, <3>3, <3>4 DEF HoldsAfter, HoldsAt
    <2>3. QED BY <2>1, <2>2
  <1>3. QED BY <1>1, <1>2, SemaphoreInvIs

\* and so does the FPGA.
LEMMA LogicKeepsSemaphore ==
    ASSUME SemaphoreInv, LogicTakes \/ LogicReleases \/ LivetimeTicks
    PROVE  SemaphoreInv'
  <1>1. /\ running' = running /\ boardOutcome' = boardOutcome
        /\ semaphore' # semaphore => semaphore # "host" /\ semaphore' # "host"
    BY DEF LogicTakes, LogicReleases, LivetimeTicks
  <1>2. QED BY <1>1, SemaphoreInvIs DEF HoldsAfter, HoldsAt
-----------------------------------------------------------------------------
(* What was done                                                           *)

DoneBefore(r, o) == r # Idle /\ o.connected => \A i \in 1 .. r.at - 1 : Done(r.program[i])
DoneAtOk(o) ==
    o.how = "ok" /\ o.connected =>
        /\ \A i \in DOMAIN Program(o.call) : Done(Program(o.call)[i])
        /\ o.call.name = "isAcquisitionCompleted" /\ o.answers = <<{}>> => startStop = {}
DoneBeforeAfter(r, o) == r # Idle /\ o.connected => \A i \in 1 .. r.at - 1 : DoneAfter(r.program[i])
DoneAtOkAfter(o) ==
    o.how = "ok" /\ o.connected =>
        /\ \A i \in DOMAIN Program(o.call) : DoneAfter(Program(o.call)[i])
        /\ o.call.name = "isAcquisitionCompleted" /\ o.answers = <<{}>> => startStop' = {}

\* The invariant of what was done, for one user.
LEMMA DoneInvIs ==
    /\ DoneInv <=> \A u \in Users : /\ DoneBefore(running[u], boardOutcome[u])
                                    /\ DoneAtOk(boardOutcome[u])
    /\ (\A u \in Users : /\ DoneBeforeAfter(running'[u], boardOutcome'[u])
                         /\ DoneAtOkAfter(boardOutcome'[u])) => DoneInv'
  BY DEF DoneInv, OkMeansDone, DoneBefore, DoneAtOk, DoneBeforeAfter, DoneAtOkAfter, InCall,
         Done, DoneAfter, ValueOf, ValueAfter

\* The steps of a call keep what it has done, and at its end all is done;
LEMMA UserStepKeepsDone ==
    ASSUME FpgaInv, CallsInv, DoneInv, OneUser, NEW u \in Users, InCall(u),
           Touches(u), Proceeding(u) \/ Staying(u) \/ Leaving(u)
    PROVE  DoneInv'
  <1> DEFINE r == running[u]
             o == boardOutcome[u]
             p == running[u].program
             n == running[u].at
             call == running[u].call
  <1>1. /\ ProgramIs(call, p) /\ n \in 1 .. Len(p) /\ Len(p) \in Nat /\ p = Program(call)
        /\ Current(u) = p[n] /\ o.call = call /\ o.how = "runs" /\ r # Idle
    BY ElementNow DEF ProgramIs, InCall, Runs
  <1>2. DoneBefore(r, o)
    BY DoneInvIs
  <1>3. o.connected => \A i \in 1 .. n - 1 : DoneAfter(p[i])
    <2>1. ASSUME o.connected, NEW i \in 1 .. n - 1
          PROVE  DoneAfter(p[i])
      <3>1. Done(p[i])
        BY <1>1, <1>2, <2>1 DEF DoneBefore
      <3>2. /\ Agree(p[i], p[n])
            /\ ~(p[i].op = "writeStartStop" /\ p[n].op = "writeStartStop")
        BY <1>1, <2>1 DEF ProgramIs
      <3>3. QED BY <1>1, <3>1, <3>2, DoneStaysDone
    <2>2. QED BY <2>1
  <1>4. DoneBeforeAfter(running'[u], boardOutcome'[u]) /\ DoneAtOkAfter(boardOutcome'[u])
    <2>1. CASE Proceeding(u)
      <3>1. PICK c \in BOOLEAN, a \in Seq(Values) :
                /\ Proceeds(u, c, a)
                /\ c /\ Current(u).op \in {"write", "writeStartStop"} => Executed(u)
                /\ c /\ Current(u).op = "readStartStop" => a = <<startStop>>
        BY <2>1 DEF Proceeding
      <3>2. c /\ Current(u).op \in {"write", "writeStartStop"} => DoneAfter(Current(u))
        BY <3>1, ExecutedIsDone
      <3>3. c => DoneAfter(p[n])
        BY <1>1, <3>2 DEF DoneAfter
      <3>4. o.connected /\ c => \A i \in 1 .. n : DoneAfter(p[i])
        <4>1. \A i \in 1 .. n : i = n \/ i \in 1 .. n - 1
          BY <1>1
        <4>2. QED BY <1>3, <3>3, <4>1
      <3>5. /\ boardOutcome'[u].call = call
            /\ boardOutcome'[u].connected = (o.connected /\ c)
            /\ boardOutcome'[u].answers = o.answers \o a
            /\ \/ n = Len(p) /\ running'[u] = Idle
               \/ /\ running'[u] # Idle
                  /\ running'[u].program = p /\ running'[u].at = n + 1
                  /\ boardOutcome'[u].how = "runs"
        BY <3>1, ProceedsMeans
      <3>6. call.name = "isAcquisitionCompleted" /\ boardOutcome'[u].connected
            /\ boardOutcome'[u].answers = <<{}>> => startStop' = {}
        <4>1. SUFFICES ASSUME call.name = "isAcquisitionCompleted", c,
                              o.answers \o a = <<{}>>
                       PROVE  startStop' = {}
          BY <3>1, <3>5
        <4>2. p = <<ReadStartStop>>
          BY <1>1, <4>1 DEF ProgramIs
        <4>3. Current(u).op = "readStartStop"
          <5>1. Len(<<ReadStartStop>>) = 1 /\ <<ReadStartStop>>[1] = ReadStartStop
            OBVIOUS
          <5>2. n = 1
            BY <1>1, <4>2, <5>1
          <5>3. QED BY <1>1, <4>2, <5>1, <5>2 DEF ReadStartStop
        <4>4. o.answers = <<>> /\ a = <<startStop>>
          BY <1>1, <3>1, <4>1, <4>3 DEF CallsInv
        <4>5. <<>> \o <<startStop>> = <<startStop>>
          OBVIOUS
        <4>6. startStop = {}
          BY <4>1, <4>4, <4>5
        <4>7. startStop' = startStop
          BY <4>3, ExecutedMeans
        <4>8. QED BY <4>6, <4>7
      <3>7. (n + 1) - 1 = n /\ DOMAIN p = 1 .. Len(p)
        BY <1>1 DEF ProgramIs
      <3>8. CASE n = Len(p) /\ running'[u] = Idle
        <4>1. DoneBeforeAfter(running'[u], boardOutcome'[u])
          BY <3>8 DEF DoneBeforeAfter
        <4>2. boardOutcome'[u].connected => \A i \in DOMAIN Program(call) : DoneAfter(Program(call)[i])
          BY <1>1, <3>4, <3>5, <3>7, <3>8
        <4>3. QED BY <3>5, <3>6, <4>1, <4>2 DEF DoneAtOkAfter
      <3>9. CASE /\ running'[u] # Idle /\ running'[u].program = p /\ running'[u].at = n + 1
                 /\ boardOutcome'[u].how = "runs"
        BY <3>4, <3>5, <3>7, <3>9 DEF DoneBeforeAfter, DoneAtOkAfter
      <3>10. QED BY <3>5, <3>8, <3>9
    <2>2. CASE Staying(u)
      <3>1. /\ running'[u].program = p /\ running'[u].at = n
            /\ boardOutcome'[u].how = "runs" /\ (boardOutcome'[u].connected => o.connected)
        BY <1>1, <2>2, StayingMeans DEF Stays
      <3>2. QED BY <1>3, <3>1 DEF DoneBeforeAfter, DoneAtOkAfter
    <2>3. CASE Leaving(u)
      BY <2>3, LeavingMeans DEF DoneBeforeAfter, DoneAtOkAfter
    <2>4. QED BY <2>1, <2>2, <2>3
  <1>5. \A v \in Users : v = u
    BY DEF OneUser
  <1>6. QED BY <1>4, <1>5, DoneInvIs

\* a begin keeps it,
LEMMA BeginKeepsDone ==
    ASSUME DoneInv, CallsInv, OneUser, NEW u \in Users, NEW call, BegunWith(u, call)
    PROVE  DoneInv'
  <1>1. \A v \in Users : v = u
    BY DEF OneUser
  <1>2. boardOutcome'[u].how # "ok" /\ (running'[u] # Idle => running'[u].at = 1)
    BY DEF BegunWith
  <1>3. \A i \in 1 .. 1 - 1 : FALSE
    OBVIOUS
  <1>4. DoneBeforeAfter(running'[u], boardOutcome'[u]) /\ DoneAtOkAfter(boardOutcome'[u])
    BY <1>2, <1>3 DEF DoneBeforeAfter, DoneAtOkAfter
  <1>5. QED BY <1>1, <1>4, DoneInvIs

\* and the FPGA does.
LEMMA LogicKeepsDoneInv ==
    ASSUME FpgaInv, CallsInv, DoneInv, LogicTakes \/ LogicReleases \/ LivetimeTicks
    PROVE  DoneInv'
  <1>1. running' = running /\ boardOutcome' = boardOutcome /\ startStop' \subseteq startStop
    BY DEF LogicTakes, LogicReleases, LivetimeTicks
  <1>2. ASSUME NEW u \in Users
        PROVE  DoneBeforeAfter(running[u], boardOutcome[u]) /\ DoneAtOkAfter(boardOutcome[u])
    <2>1. DoneBefore(running[u], boardOutcome[u]) /\ DoneAtOk(boardOutcome[u])
      BY DoneInvIs
    <2>2. ASSUME running[u] # Idle, boardOutcome[u].connected, NEW i \in 1 .. running[u].at - 1
          PROVE  DoneAfter(running[u].program[i])
      <3>1. ProgramIs(running[u].call, running[u].program)
            /\ running[u].at \in 1 .. Len(running[u].program)
        BY <2>2, ElementNow DEF InCall
      <3>2. i \in 1 .. Len(running[u].program)
        BY <2>2, <3>1 DEF ProgramIs
      <3>3. ElementIs(running[u].program[i])
        BY <3>1, <3>2 DEF ProgramIs
      <3>4. Done(running[u].program[i])
        BY <2>1, <2>2 DEF DoneBefore
      <3>5. QED BY <3>3, <3>4, LogicKeepsDone
    <2>3. ASSUME boardOutcome[u].how = "ok", boardOutcome[u].connected,
                 NEW i \in DOMAIN Program(boardOutcome[u].call)
          PROVE  DoneAfter(Program(boardOutcome[u].call)[i])
      <3>1. ProgramIs(boardOutcome[u].call, Program(boardOutcome[u].call))
        BY <2>3, ProgramsAre DEF CallsInv, MayRun
      <3>2. ElementIs(Program(boardOutcome[u].call)[i])
        BY <2>3, <3>1 DEF ProgramIs
      <3>3. Done(Program(boardOutcome[u].call)[i])
        BY <2>1, <2>3 DEF DoneAtOk
      <3>4. QED BY <3>2, <3>3, LogicKeepsDone
    <2>4. DoneBeforeAfter(running[u], boardOutcome[u])
      BY <2>2 DEF DoneBeforeAfter
    <2>5. DoneAtOkAfter(boardOutcome[u])
      BY <1>1, <2>1, <2>3 DEF DoneAtOkAfter, DoneAtOk
    <2>6. QED BY <2>4, <2>5
  <1>3. QED BY <1>1, <1>2, DoneInvIs
-----------------------------------------------------------------------------
(* The invariant is one, and what follows from it                          *)

\* The device is closed at first and nothing was written.
LEMMA InitiallyQuiet ==
    BoardInit => BoardIInv
  <1> SUFFICES ASSUME BoardInit
               PROVE  BoardIInv
    OBVIOUS
  <1>1. \A u \in Users : ~InCall(u) /\ boardOutcome[u] = Outcome(NoCall, "none", FALSE, <<>>)
    BY DEF BoardInit, InCall
  <1>2. HandlerInv
    <2>1. /\ interface = 0 /\ initiator = 0 /\ made = 0 /\ engines = {} /\ eventSocket = FALSE
          /\ \A u \in Users : running[u] = Idle
      BY DEF BoardInit
    <2>2. HandlerFits(interface, initiator, made, engines)
      BY <2>1 DEF HandlerFits
    <2>3. eventSocket \in BOOLEAN
      BY <2>1
    <2>4. \A u \in Users : CallFits(running[u], initiator)
      BY <2>1 DEF CallFits
    <2>5. QED BY <2>2, <2>3, <2>4, HandlerInvIs
  <1>3. DOMAIN registers = {}
    BY DEF BoardInit
  <1>4. FpgaInv
    BY <1>3, BoardAssumption DEF BoardInit, FpgaInv, Channels
  <1>5. <<>> \in Seq(Values)
    OBVIOUS
  <1>6. CallsInv
    BY <1>1, <1>5 DEF BoardInit, CallsInv, Ends, Outcome
  <1>7. SemaphoreInv /\ DoneInv
    BY <1>1 DEF SemaphoreInv, DoneInv, OkMeansDone, Outcome
  <1>8. QED BY <1>2, <1>4, <1>6, <1>7 DEF BoardIInv

\* The invariant is inductive: the steps of the calls,
LEMMA UserStepKeepsAll ==
    ASSUME BoardIInv, OneUser, NEW u \in Users, UserStep(u)
    PROVE  BoardIInv'
  <1>1. HandlerInv /\ FpgaInv /\ CallsInv /\ SemaphoreInv /\ DoneInv
    BY DEF BoardIInv
  <1>2. InCall(u) /\ Touches(u) /\ (Proceeding(u) \/ Staying(u) \/ Leaving(u))
    BY <1>1, UserStepMeans
  <1>3. Advances(u)
    BY <1>1, <1>2, StepAdvances
  <1>4. HandlerInv'
    <2>1. CASE Connect(u) \/ Disconnect(u) \/ OpenSocket(u) \/ CloseSocket(u)
      BY <1>1, <1>3, <2>1, ConnectionKeepsHandler
    <2>2. CASE \/ AccessWithoutDevice(u) \/ AccessAnswered(u) \/ ObjectWritten(u)
               \/ ObjectUnknown(u) \/ CommandLost(u) \/ ReplyLost(u) \/ Refused(u)
               \/ TimeCodeFails(u)
      <3>1. UNCHANGED handlerVars /\ AtAccess(u)
        BY <2>2 DEF AccessWithoutDevice, AccessAnswered, ObjectWritten, ObjectUnknown, CommandLost,
                    ReplyLost, Refused, TimeCodeFails, Fault
      <3>2. Current(u).op # "connect"
        BY <3>1 DEF AtAccess, AtOp, AccessOps
      <3>3. QED BY <1>1, <1>2, <1>3, <3>1, <3>2, AccessKeepsHandler
    <2>3. QED BY <2>1, <2>2 DEF UserStep
  <1>5. FpgaInv'
    BY <1>1, <1>2, ExecutedMeans
  <1>6. CallsInv'
    BY <1>1, <1>2, UserStepKeepsCalls
  <1>7. SemaphoreInv'
    BY <1>1, <1>2, UserStepKeepsSemaphore
  <1>8. DoneInv'
    BY <1>1, <1>2, UserStepKeepsDone
  <1>9. QED BY <1>4, <1>5, <1>6, <1>7, <1>8 DEF BoardIInv

\* their begins,
LEMMA BeginKeepsAll ==
    ASSUME BoardIInv, OneUser, ~RetriesOpen, NEW u \in Users, Begin(u)
    PROVE  BoardIInv'
  <1>1. HandlerInv /\ FpgaInv /\ CallsInv /\ SemaphoreInv /\ DoneInv
    BY DEF BoardIInv
  <1>2. PICK call \in Calls : BegunWith(u, call)
    BY <1>1, BeginMeans
  <1>3. FpgaInv'
    BY <1>1, <1>2 DEF BegunWith, fpgaVars, FpgaInv
  <1>4. HandlerInv' /\ CallsInv' /\ SemaphoreInv' /\ DoneInv'
    BY <1>1, <1>2, BeginKeepsHandler, BeginKeepsCalls, BeginKeepsSemaphore, BeginKeepsDone
  <1>5. QED BY <1>3, <1>4 DEF BoardIInv

\* the FPGA,
LEMMA LogicKeepsAll ==
    ASSUME BoardIInv, LogicTakes \/ LogicReleases \/ LivetimeTicks
    PROVE  BoardIInv'
  <1>1. HandlerInv /\ FpgaInv /\ CallsInv /\ SemaphoreInv /\ DoneInv
    BY DEF BoardIInv
  <1>2. UNCHANGED <<handlerVars, running, boardOutcome>>
    BY DEF LogicTakes, LogicReleases, LivetimeTicks
  <1>3. HandlerInv'
    BY <1>1, <1>2, HandlerInvIs, HandlerInvKept DEF handlerVars
  <1>4. CallsInv'
    BY <1>1, <1>2 DEF CallsInv, InCall
  <1>5. FpgaInv'
    <2>1. CASE LogicTakes \/ LogicReleases
      BY <1>1, <2>1 DEF LogicTakes, LogicReleases, FpgaInv
    <2>2. CASE LivetimeTicks
      BY <1>1, <2>2, TickMeans
    <2>3. QED BY <2>1, <2>2
  <1>6. SemaphoreInv' /\ DoneInv'
    BY <1>1, LogicKeepsSemaphore, LogicKeepsDoneInv
  <1>7. QED BY <1>3, <1>4, <1>5, <1>6 DEF BoardIInv

\* and a step of any of them.
LEMMA BoardIInvKept ==
    ASSUME BoardIInv, OneUser, ~RetriesOpen, [BoardNext]_boardVars
    PROVE  BoardIInv'
  <1>1. CASE UNCHANGED boardVars
    <2>1. /\ UNCHANGED <<interface, initiator, made, engines, eventSocket>>
          /\ UNCHANGED <<registers, startStop, semaphore>>
          /\ UNCHANGED <<running, boardOutcome>>
      BY <1>1 DEF boardVars, handlerVars, fpgaVars
    <2>2. HandlerInv' /\ FpgaInv' /\ CallsInv'
      BY <2>1 DEF BoardIInv, HandlerInv, FpgaInv, CallsInv, InCall, Current
    <2>3. SemaphoreInv'
      BY <2>1, SemaphoreInvIs DEF BoardIInv, HoldsAfter, HoldsAt
    <2>4. DoneInv'
      <3>1. \A u \in Users : DoneBefore(running[u], boardOutcome[u]) /\ DoneAtOk(boardOutcome[u])
        BY DoneInvIs DEF BoardIInv
      <3>2. registers' = registers /\ startStop' = startStop
        BY <2>1
      <3>3. ASSUME NEW e
            PROVE  Done(e) => DoneAfter(e)
        BY <3>2 DEF Done, DoneAfter, ValueOf, ValueAfter
      <3>4. ASSUME NEW u \in Users
            PROVE  DoneBeforeAfter(running'[u], boardOutcome'[u]) /\ DoneAtOkAfter(boardOutcome'[u])
        <4>1. running'[u] = running[u] /\ boardOutcome'[u] = boardOutcome[u]
          BY <2>1
        <4>2. DoneBeforeAfter(running[u], boardOutcome[u])
          BY <3>1, <3>3 DEF DoneBefore, DoneBeforeAfter
        <4>3. DoneAtOkAfter(boardOutcome[u])
          BY <3>1, <3>2, <3>3 DEF DoneAtOk, DoneAtOkAfter
        <4>4. QED BY <4>1, <4>2, <4>3
      <3>5. QED BY <3>4, DoneInvIs
    <2>5. QED BY <2>2, <2>3, <2>4 DEF BoardIInv
  <1>2. CASE BoardNext
    BY <1>2, UserStepKeepsAll, BeginKeepsAll, LogicKeepsAll DEF BoardNext
  <1>3. QED BY <1>1, <1>2

\* The properties follow.
LEMMA BoardIInvImplies ==
    ASSUME BoardIInv
    PROVE  BoardInv /\ OkMeansDone
  <1>1. HandlerInv /\ FpgaInv /\ CallsInv /\ SemaphoreInv /\ DoneInv
    BY DEF BoardIInv
  <1>2. ASSUME NEW u \in Users, InCall(u)
        PROVE  /\ running[u].at \in DOMAIN running[u].program
               /\ running[u].trial \in 0 .. MaxTrials - 1
               /\ Current(u).op \notin {"writeObject", "readObject"} =>
                     running[u].executions <= running[u].timeouts
    <2>1. Runs(running[u]) /\ ProgramIs(running[u].call, running[u].program)
          /\ running[u].at \in 1 .. Len(running[u].program)
          /\ Current(u) = running[u].program[running[u].at]
      BY <1>1, <1>2, ElementNow
    <2>2. running[u].at \in DOMAIN running[u].program
      BY <2>1 DEF ProgramIs
    <2>3. running[u].trial \in 0 .. MaxTrials - 1
      BY <2>1, BoardAssumption DEF Runs
    <2>4. QED BY <2>1, <2>2, <2>3 DEF Runs, ObjectOps
  <1>3. BoardTypeOK
    <2>1. made \in Nat /\ interface \in 0 .. made /\ initiator \in 0 .. made
          /\ engines \subseteq 1 .. made /\ eventSocket \in BOOLEAN
      BY <1>1 DEF HandlerInv
    <2>2. \A u \in Users : boardOutcome[u].how = "runs" <=> InCall(u)
      BY <1>1 DEF CallsInv
    <2>3. QED BY <1>1, <1>2, <2>1, <2>2 DEF FpgaInv, BoardTypeOK
  <1>4. AccessesLiveInterface
    BY <1>1 DEF HandlerInv, AccessesLiveInterface
  <1>5. RegisterAccessRepeatsOnlyAfterTimeout
    BY <1>2 DEF RegisterAccessRepeatsOnlyAfterTimeout
  <1>6. OkMeansDone
    BY <1>1 DEF DoneInv
  <1>7. SemaphoreReturned
    <2>1. SUFFICES ASSUME semaphore = "host", NEW u \in Users,
                          ~InCall(u), boardOutcome[u].how \in {"ok", "none", "runs"},
                          boardOutcome[u].call.name \in SwitchingCalls
                   PROVE  FALSE
      BY BoardAssumption DEF SemaphoreReturned, SwitchingCalls
    <2>2. boardOutcome[u].how # "runs"
      BY <1>1, <2>1 DEF CallsInv
    <2>3. boardOutcome[u].how # "ok"
      BY <1>1, <2>1 DEF SemaphoreInv
    <2>4. boardOutcome[u].how # "none"
      BY <1>1, <2>1 DEF CallsInv, NoCall, SwitchingCalls
    <2>5. QED BY <2>1, <2>2, <2>3, <2>4
  <1>8. QED BY <1>3, <1>4, <1>5, <1>6, <1>7 DEF BoardInv

\* StartStopRegister changes under the semaphore only.
LEMMA SwitchingStep ==
    ASSUME BoardIInv, [BoardNext]_boardVars
    PROVE  startStop' # startStop =>
             /\ semaphore # "free"
             /\ ~(startStop' \subseteq startStop) => semaphore = "host"
  <1>1. HandlerInv /\ FpgaInv /\ CallsInv /\ SemaphoreInv
    BY DEF BoardIInv
  <1>2. ASSUME NEW u \in Users, UserStep(u), startStop' # startStop
        PROVE  semaphore = "host"
    <2>1. InCall(u) /\ Touches(u)
      BY <1>1, <1>2, UserStepMeans
    <2>2. Current(u).op = "writeStartStop"
      BY <1>1, <1>2, <2>1, ExecutedMeans
    <2>3. QED BY <1>1, <2>1, <2>2 DEF SemaphoreInv, Within, Current
  <1>3. \A u \in Users : Begin(u) => startStop' = startStop
    BY DEF Begin, fpgaVars
  <1>4. LogicTakes \/ LivetimeTicks => startStop' = startStop
    BY DEF LogicTakes, LivetimeTicks
  <1>5. LogicReleases => semaphore = "logic" /\ startStop' \subseteq startStop
    BY DEF LogicReleases
  <1>6. CASE UNCHANGED boardVars
    BY <1>6 DEF boardVars, fpgaVars
  <1>7. CASE BoardNext
    BY <1>2, <1>3, <1>4, <1>5, <1>7 DEF BoardNext
  <1>8. QED BY <1>6, <1>7

\* BoardInv holds in every behaviour: no engine works on a deleted interface, no
\* access is repeated that was answered, and the semaphore is given back.
THEOREM BoardIsSound ==
    ASSUME OneUser, ~RetriesOpen
    PROVE  BoardSpec => []BoardInv
  <1>1. BoardInit => BoardIInv
    BY InitiallyQuiet
  <1>2. BoardIInv /\ [BoardNext]_boardVars => BoardIInv'
    BY BoardIInvKept
  <1>3. BoardIInv => BoardInv
    BY BoardIInvImplies
  <1>4. QED BY <1>1, <1>2, <1>3, PTL DEF BoardSpec

\* A method that returned has done all it is for, through timeouts and
\* repetitions.
THEOREM OkIsDone ==
    ASSUME OneUser, ~RetriesOpen
    PROVE  BoardSpec => []OkMeansDone
  <1>1. BoardInit => BoardIInv
    BY InitiallyQuiet
  <1>2. BoardIInv /\ [BoardNext]_boardVars => BoardIInv'
    BY BoardIInvKept
  <1>3. BoardIInv => OkMeansDone
    BY BoardIInvImplies
  <1>4. QED BY <1>1, <1>2, <1>3, PTL DEF BoardSpec

\* StartStopRegister changes only under the semaphore, as
\* ChannelManager.hh:76 asks.
THEOREM SwitchedUnderSemaphore ==
    ASSUME OneUser, ~RetriesOpen
    PROVE  BoardSpec => StartStopUnderSemaphore
  <1>1. BoardInit => BoardIInv
    BY InitiallyQuiet
  <1>2. BoardIInv /\ [BoardNext]_boardVars => BoardIInv'
    BY BoardIInvKept
  <1>3. BoardIInv /\ [BoardNext]_boardVars =>
            [startStop' # startStop =>
               /\ semaphore # "free"
               /\ ~(startStop' \subseteq startStop) => semaphore = "host"]_boardVars
    BY SwitchingStep
  <1>4. QED BY <1>1, <1>2, <1>3, PTL DEF BoardSpec, StartStopUnderSemaphore
=============================================================================
