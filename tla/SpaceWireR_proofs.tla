-------------------------- MODULE SpaceWireR_proofs --------------------------
(***************************************************************************)
(* Theorems about SpaceWire-R.  SlidingWindow: the window predicates, for  *)
(* every number space and window size.  SpaceWireR: what comes out of a    *)
(* channel is what was put in, whole and in order, for any messages,       *)
(* window, losses and delays, under the conditions of PlainChannel.        *)
(***************************************************************************)
EXTENDS SlidingWindow, SpaceWireR, CommonLemmas

-----------------------------------------------------------------------------
(* The windows.  The predicates compare 8-bit numbers case by case, and say *)
(* what they should.                                                       *)

-----------------------------------------------------------------------------
(* The cast, on the sums the predicates compute                            *)

\* A number that fits is left alone.
LEMMA WrapLow == ASSUME NEW x \in 0 .. M - 1 PROVE Wrap(x) = x
BY WindowAssumption DEF Wrap

\* A sum of two numbers that does not fit loses M once.
LEMMA WrapHigh == ASSUME NEW x \in M .. 2 * M - 1 PROVE Wrap(x) = x - M
BY WindowAssumption DEF Wrap

\* A negative difference of two numbers gains M once.
LEMMA WrapNegative == ASSUME NEW x \in -M .. -1 PROVE Wrap(x) = x + M
BY WindowAssumption DEF Wrap

-----------------------------------------------------------------------------
(* Membership                                                              *)

\* Distance from n forward to s.
Ahead(n, s) == IF n <= s THEN s - n ELSE s + M - n

\* The distance counts the steps from n to s, and there are fewer than M.
LEMMA AheadIsDistance ==
    ASSUME NEW n \in SN, NEW s \in SN
    PROVE  /\ Ahead(n, s) \in 0 .. M - 1
           /\ Wrap(n + Ahead(n, s)) = s
<1>1. CASE n <= s
  <2>1. n + Ahead(n, s) = s  BY <1>1, WindowAssumption DEF Ahead, SN
  <2>. QED  BY <1>1, <2>1, WrapLow, WindowAssumption DEF Ahead, SN
<1>2. CASE ~(n <= s)
  <2>1. n + Ahead(n, s) = s + M  BY <1>2, WindowAssumption DEF Ahead, SN
  <2>2. Wrap(s + M) = s + M - M  BY WrapHigh, WindowAssumption DEF SN
  <2>. QED  BY <1>2, <2>1, <2>2, WindowAssumption DEF Ahead, SN
<1>. QED  BY <1>1, <1>2

\* Going d steps forward from n, less than once round, is being d ahead.
LEMMA AheadOfSum ==
    ASSUME NEW n \in SN, NEW d \in 0 .. M - 1
    PROVE  /\ Wrap(n + d) \in SN
           /\ Ahead(n, Wrap(n + d)) = d
<1>1. CASE n + d < M
  <2>1. Wrap(n + d) = n + d  BY <1>1, WrapLow, WindowAssumption DEF SN
  <2>. QED  BY <1>1, <2>1, WindowAssumption DEF Ahead, SN
<1>2. CASE ~(n + d < M)
  <2>1. Wrap(n + d) = n + d - M  BY <1>2, WrapHigh, WindowAssumption DEF SN
  <2>. QED  BY <1>2, <2>1, WindowAssumption DEF Ahead, SN
<1>. QED  BY <1>1, <1>2

\* The numbers of a window are those less than its size ahead of its start.
LEMMA NumbersAhead ==
    ASSUME NEW n \in SN, NEW k \in 0 .. M, NEW s \in SN
    PROVE  s \in Numbers(n, k) <=> Ahead(n, s) < k
<1>1. ASSUME s \in Numbers(n, k) PROVE Ahead(n, s) < k
  <2>1. PICK j \in 0 .. k - 1 : s = Wrap(n + j)  BY <1>1 DEF Numbers
  <2>2. j \in 0 .. M - 1  BY WindowAssumption
  <2>. QED  BY <2>1, <2>2, AheadOfSum
<1>2. ASSUME Ahead(n, s) < k PROVE s \in Numbers(n, k)
  <2>1. Ahead(n, s) \in 0 .. k - 1  BY <1>2, AheadIsDistance, WindowAssumption
  <2>. QED  BY <2>1, AheadIsDistance DEF Numbers
<1>. QED  BY <1>1, <1>2

\* The last number of a window that starts at n.
LEMMA WindowEnd ==
    ASSUME NEW n \in SN
    PROVE  Wrap(n + K - 1) = IF n + K - 1 < M THEN n + K - 1 ELSE n + K - 1 - M
<1>1. CASE n + K - 1 < M
  BY <1>1, WrapLow, WindowAssumption DEF SN
<1>2. CASE ~(n + K - 1 < M)
  <2>1. n + K - 1 \in M .. 2 * M - 1  BY <1>2, WindowAssumption DEF SN
  <2>. QED  BY <1>2, <2>1, WrapHigh, WindowAssumption DEF SN
<1>. QED  BY <1>1, <1>2

\* insideForwardSlidingWindow() (SpaceWireRTEP.hh:294), on which the transmitter decides
\* whether there is room, holds exactly for the K numbers from n on.
THEOREM ForwardWindow ==
    ASSUME NEW n \in SN, NEW s \in SN
    PROVE  InsideForwardSlidingWindow(n, s) <=> s \in Numbers(n, K)
<1>1. InsideForwardSlidingWindow(n, s) <=> Ahead(n, s) < K
  BY WindowEnd, WindowAssumption DEF InsideForwardSlidingWindow, Between, Ahead, SN
<1>. QED  BY <1>1, NumbersAhead, WindowAssumption

\* insideForwardReceiveSlidingWindow() (SpaceWireRReceiveTEP.hh:313) compares with < where
\* the transmitter compares with <=, and still holds for the same K numbers.
THEOREM ForwardReceiveWindow ==
    ASSUME NEW n \in SN, NEW s \in SN
    PROVE  InsideForwardReceiveSlidingWindow(n, s) <=> s \in Numbers(n, K)
<1>1. InsideForwardReceiveSlidingWindow(n, s) <=> Ahead(n, s) < K
  BY WindowEnd, WindowAssumption DEF InsideForwardReceiveSlidingWindow, Between, Ahead, SN
<1>. QED  BY <1>1, NumbersAhead, WindowAssumption

\* insideBackwardReceiveSlidingWindow() (SpaceWireRReceiveTEP.hh:335) holds exactly for the
\* K numbers before n.
THEOREM BackwardReceiveWindow ==
    ASSUME NEW n \in SN, NEW s \in SN
    PROVE  InsideBackwardReceiveSlidingWindow(n, s) <=> s \in Numbers(Wrap(n - K), K)
<1>1. Wrap(n - K) = IF K <= n THEN n - K ELSE n - K + M
  <2>1. CASE K <= n
    BY <2>1, WrapLow, WindowAssumption DEF SN
  <2>2. CASE ~(K <= n)
    BY <2>2, WrapNegative, WindowAssumption DEF SN
  <2>. QED  BY <2>1, <2>2
<1>2. Wrap(n - 1) = IF 1 <= n THEN n - 1 ELSE M - 1
  <2>1. CASE 1 <= n
    BY <2>1, WrapLow, WindowAssumption DEF SN
  <2>2. CASE ~(1 <= n)
    BY <2>2, WrapNegative, WindowAssumption DEF SN
  <2>. QED  BY <2>1, <2>2
<1>3. Wrap(n - K) \in SN  BY <1>1, WindowAssumption DEF SN
<1>4. InsideBackwardReceiveSlidingWindow(n, s) <=> Ahead(Wrap(n - K), s) < K
  BY <1>1, <1>2, WindowAssumption DEF InsideBackwardReceiveSlidingWindow, Between, Ahead, SN
<1>. QED  BY <1>3, <1>4, NumbersAhead, WindowAssumption

\* The two windows of the receiver share no number (SpaceWireRReceiveTEP.hh:510-540): which
\* of them is asked first does not matter, and a segment that was released already is never
\* taken for a new one.
THEOREM ReceiveWindowsDisjoint ==
    ASSUME NEW n \in SN, NEW s \in SN
    PROVE  ~(/\ InsideForwardReceiveSlidingWindow(n, s)
             /\ InsideBackwardReceiveSlidingWindow(n, s))
BY WindowEnd, WindowAssumption
   DEF InsideForwardReceiveSlidingWindow, InsideBackwardReceiveSlidingWindow, Between, SN, Wrap

\* A packet at most K behind or less than K ahead of the start of the receive window is in
\* one of the two windows: as long as the transmitter's window starts within K of the
\* receiver's, no data packet closes the receiver (SpaceWireRReceiveTEP.hh:540-554).
THEOREM LatePacketInsideAWindow ==
    ASSUME NEW n \in SN, NEW d \in -K .. K - 1
    PROVE  \/ InsideForwardReceiveSlidingWindow(n, Wrap(n + d))
           \/ InsideBackwardReceiveSlidingWindow(n, Wrap(n + d))
<1>1. CASE d >= 0
  <2>1. Wrap(n + d) \in SN  BY <1>1, AheadOfSum, WindowAssumption
  <2>2. Wrap(n + d) \in Numbers(n, K)  BY <1>1 DEF Numbers
  <2>. QED  BY <2>1, <2>2, ForwardReceiveWindow
<1>2. CASE d < 0
  <2>1. Wrap(n - K) \in SN  BY WindowAssumption DEF Wrap, SN
  <2>2. Wrap(n + d) \in SN  BY WindowAssumption DEF Wrap, SN
  <2>3. Wrap(Wrap(n - K) + (K + d)) = Wrap(n + d)
    BY <1>2, WindowAssumption DEF Wrap, SN
  <2>4. Wrap(n + d) \in Numbers(Wrap(n - K), K)  BY <1>2, <2>3, WindowAssumption DEF Numbers
  <2>. QED  BY <2>2, <2>4, BackwardReceiveWindow
<1>. QED  BY <1>1, <1>2

-----------------------------------------------------------------------------
(* Sequence numbers.  Packets are counted from 0, the Open command, without*)
(* end; what is sent of a count is its cast.                               *)

\* A multiple of M and a number less than M, in one way only.
LEMMA OneQuotient ==
    ASSUME NEW p \in Nat, NEW q \in Nat, NEW s \in SN, NEW u \in SN, M * p + s = M * q + u
    PROVE  s = u
  <1>1. ASSUME NEW x \in Nat, NEW y \in Nat, NEW v \in SN, NEW w \in SN, x < y
        PROVE M * x + v < M * y + w
    <2>1. M * (x + 1) <= M * y
      BY <1>1, WindowAssumption
    <2>2. M * (x + 1) = M * x + M
      BY WindowAssumption
    <2>3. v < M /\ w >= 0 /\ v \in Nat /\ w \in Nat
      BY WindowAssumption DEF SN
    <2>4. M * x \in Nat /\ M * y \in Nat /\ M \in Nat
      BY WindowAssumption
    <2>5. QED BY <2>1, <2>2, <2>3, <2>4
  <1>2. ~(p < q) /\ ~(q < p)
    <2>1. M * p + s \in Nat /\ M * q + u \in Nat
      BY WindowAssumption DEF SN
    <2>2. QED BY <1>1, <2>1
  <1>3. p = q
    BY <1>2
  <1>4. QED BY <1>3, WindowAssumption DEF SN

\* The cast leaves the remainder by M.
LEMMA Quotient ==
    ASSUME NEW x \in Nat
    PROVE  Wrap(x) \in SN /\ \E q \in Nat : x = M * q + Wrap(x)
  <1>1. M \in Nat /\ M > 0
    BY WindowAssumption
  <1>2. x % M \in 0 .. M - 1
    BY ONLY <1>1, x \in Nat
  <1>3. x \div M \in Nat
    BY ONLY <1>1, x \in Nat
  <1>4. x = M * (x \div M) + (x % M)
    BY ONLY <1>1, x \in Nat
  <1>5. QED BY <1>2, <1>3, <1>4 DEF Wrap, SN

\* Casting a sum is casting its parts first.
LEMMA WrapSum ==
    ASSUME NEW x \in Nat, NEW d \in Nat
    PROVE  Wrap(x + d) = Wrap(Wrap(x) + d)
  <1>1. PICK p \in Nat : x = M * p + Wrap(x)
    BY Quotient
  <1>2. PICK q \in Nat : Wrap(x) + d = M * q + Wrap(Wrap(x) + d)
    BY Quotient DEF SN
  <1>3. PICK u \in Nat : x + d = M * u + Wrap(x + d)
    BY Quotient
  <1>4. /\ Wrap(x) \in SN /\ Wrap(x + d) \in SN /\ Wrap(Wrap(x) + d) \in SN
    BY Quotient DEF SN
  <1>5. M * (p + q) = M * p + M * q
    BY WindowAssumption
  <1>6. x + d = M * (p + q) + Wrap(Wrap(x) + d)
    <2>1. M * p \in Nat /\ M * q \in Nat
      BY WindowAssumption
    <2>2. QED BY <1>1, <1>2, <1>4, <1>5, <2>1 DEF SN
  <1>7. p + q \in Nat
    OBVIOUS
  <1> HIDE DEF Wrap
  <1>8. QED BY <1>3, <1>4, <1>6, <1>7, OneQuotient

\* Numbers that are cast to the same differ by M at least.
LEMMA WrapDiffers ==
    ASSUME NEW x \in Nat, NEW y \in Nat, x < y, y < x + M
    PROVE  Wrap(x) # Wrap(y)
  <1> DEFINE d == y - x
             w == Wrap(x)
  <1>1. d \in 1 .. M - 1 /\ d \in Nat /\ y = x + d
    BY WindowAssumption
  <1>2. w \in SN /\ w \in Nat
    BY Quotient DEF SN
  <1> HIDE DEF d
  <1>3. Wrap(y) = Wrap(w + d)
    BY <1>1, WrapSum
  <1> HIDE DEF w
  <1>4. CASE w + d < M
    <2>1. w + d \in 0 .. M - 1
      BY <1>1, <1>2, <1>4, WindowAssumption
    <2>2. Wrap(y) = w + d
      BY <1>3, <2>1, WrapLow
    <2>3. QED BY <1>1, <1>2, <2>2 DEF w
  <1>5. CASE ~(w + d < M)
    <2>1. w + d \in M .. 2 * M - 1
      BY <1>1, <1>2, <1>5, WindowAssumption DEF SN
    <2>2. Wrap(w + d) = w + d - M
      BY <1>1, <1>2, <2>1, WrapHigh, WindowAssumption
    <2>3. QED BY <1>1, <1>2, <1>3, <2>2, WindowAssumption DEF w
  <1>6. QED BY <1>4, <1>5

\* The same, for two of which neither is M away from the other.
LEMMA WrapSame ==
    ASSUME NEW x \in Nat, NEW y \in Nat, x < y + M, y < x + M, Wrap(x) = Wrap(y)
    PROVE  x = y
  <1>1. ~(x < y) /\ ~(y < x)
    BY WrapDiffers
  <1>2. QED BY <1>1

\* Going back, as far as once round.
LEMMA WrapBack ==
    ASSUME NEW x \in Nat, NEW d \in 0 .. M, d <= x
    PROVE  Wrap(Wrap(x) - d) = Wrap(x - d)
  <1> DEFINE y == x - d
             w == Wrap(y)
  <1>1. y \in Nat /\ x = y + d /\ d \in Nat /\ M \in Nat /\ M > 0
    BY WindowAssumption
  <1>2. w \in SN
    BY <1>1, Quotient
  <1>3. Wrap(x) = Wrap(w + d)
    BY <1>1, WrapSum
  <1> HIDE DEF y, w
  <1>4. CASE w + d < M
    <2>1. Wrap(x) = w + d
      BY <1>1, <1>2, <1>3, <1>4, WrapLow DEF SN
    <2>2. Wrap(x) - d = w
      BY <1>1, <1>2, <2>1 DEF SN
    <2>3. Wrap(w) = w
      BY <1>2, WrapLow DEF SN
    <2>4. QED BY <2>2, <2>3 DEF y, w
  <1>5. CASE w + d >= M /\ d < M
    <2>1. w + d \in M .. 2 * M - 1
      BY <1>1, <1>2, <1>5, WindowAssumption DEF SN
    <2>2. Wrap(x) - d = w - M
      BY <1>1, <1>2, <1>3, <2>1, WrapHigh DEF SN
    <2>3. w - M \in -M .. -1
      BY <1>1, <1>2 DEF SN
    <2>4. Wrap(w - M) = w
      BY <1>1, <1>2, <2>3, WrapNegative DEF SN
    <2>5. QED BY <2>2, <2>4 DEF y, w
  <1>6. CASE d = M
    <2>1. w + d \in M .. 2 * M - 1
      BY <1>1, <1>2, <1>6, WindowAssumption DEF SN
    <2>2. Wrap(x) - d = w - M
      BY <1>1, <1>2, <1>3, <1>6, <2>1, WrapHigh DEF SN
    <2>3. w - M \in -M .. -1
      BY <1>1, <1>2 DEF SN
    <2>4. Wrap(w - M) = w
      BY <1>1, <1>2, <2>3, WrapNegative DEF SN
    <2>5. QED BY <2>2, <2>4 DEF y, w
  <1>7. QED
    <2>1. (w + d < M) \/ (w + d >= M /\ d < M) \/ d = M
      BY <1>1, <1>2 DEF SN
    <2>2. QED BY <1>4, <1>5, <1>6, <2>1

\* The numbers of a window, counted from the first packet.
LEMMA NumbersOf ==
    ASSUME NEW x \in Nat, NEW k \in Nat, NEW n
    PROVE  n \in Numbers(Wrap(x), k) <=> \E y \in Nat : x <= y /\ y < x + k /\ n = Wrap(y)
  <1>1. ASSUME n \in Numbers(Wrap(x), k)
        PROVE  \E y \in Nat : x <= y /\ y < x + k /\ n = Wrap(y)
    <2>1. PICK j \in 0 .. k - 1 : n = Wrap(Wrap(x) + j)
      BY <1>1 DEF Numbers
    <2>2. j \in Nat /\ n = Wrap(x + j)
      BY <2>1, WrapSum
    <2>3. x + j \in Nat /\ x <= x + j /\ x + j < x + k
      BY <2>1, <2>2
    <2>4. QED BY <2>2, <2>3
  <1>2. ASSUME NEW y \in Nat, x <= y, y < x + k, n = Wrap(y)
        PROVE  n \in Numbers(Wrap(x), k)
    <2>1. y - x \in 0 .. k - 1 /\ y - x \in Nat /\ x + (y - x) = y
      BY <1>2
    <2>2. n = Wrap(Wrap(x) + (y - x))
      BY <1>2, <2>1, WrapSum
    <2>3. QED BY <2>1, <2>2 DEF Numbers
  <1>3. QED BY <1>1, <1>2

\* The window of the transmitter that starts with packet x has room for
\* packet y, if y is not farther than just behind it.
LEMMA RoomInWindow ==
    ASSUME NEW x \in Nat, NEW y \in Nat, x <= y, y <= x + K
    PROVE  InsideForwardSlidingWindow(Wrap(x), Wrap(y)) <=> y < x + K
  <1>1. K \in Nat /\ Wrap(x) \in SN /\ Wrap(y) \in SN /\ K < M /\ M \in Nat
    BY Quotient, WindowAssumption
  <1>2. InsideForwardSlidingWindow(Wrap(x), Wrap(y)) <=> Wrap(y) \in Numbers(Wrap(x), K)
    BY <1>1, ForwardWindow
  <1>3. ASSUME Wrap(y) \in Numbers(Wrap(x), K) PROVE y < x + K
    <2>1. PICK z \in Nat : x <= z /\ z < x + K /\ Wrap(y) = Wrap(z)
      BY <1>1, <1>3, NumbersOf
    <2>2. z < y + M /\ y < z + M
      BY <1>1, <2>1
    <2>3. QED BY <2>1, <2>2, WrapSame
  <1>4. ASSUME y < x + K PROVE Wrap(y) \in Numbers(Wrap(x), K)
    BY <1>1, <1>4, NumbersOf
  <1>5. QED BY <1>2, <1>3, <1>4

\* The receiver's windows, for any packet that can still arrive.
LEMMA ReceiveWindows ==
    ASSUME NEW x \in Nat, NEW y \in Nat, x <= y + K, y < x + K
    PROVE  /\ InsideForwardReceiveSlidingWindow(Wrap(x), Wrap(y)) <=> x <= y
           /\ y < x => InsideBackwardReceiveSlidingWindow(Wrap(x), Wrap(y))
  <1>1. K \in Nat /\ Wrap(x) \in SN /\ Wrap(y) \in SN /\ 2 * K <= M /\ M \in Nat
    BY Quotient, WindowAssumption
  <1>2. InsideForwardReceiveSlidingWindow(Wrap(x), Wrap(y)) <=> Wrap(y) \in Numbers(Wrap(x), K)
    BY <1>1, ForwardReceiveWindow
  <1>3. ASSUME Wrap(y) \in Numbers(Wrap(x), K) PROVE x <= y
    <2>1. PICK z \in Nat : x <= z /\ z < x + K /\ Wrap(y) = Wrap(z)
      BY <1>1, <1>3, NumbersOf
    <2>2. z < y + M /\ y < z + M
      BY <1>1, <2>1
    <2>3. QED BY <2>1, <2>2, WrapSame
  <1>4. ASSUME x <= y PROVE Wrap(y) \in Numbers(Wrap(x), K)
    BY <1>1, <1>4, NumbersOf
  <1>5. ASSUME y < x PROVE InsideBackwardReceiveSlidingWindow(Wrap(x), Wrap(y))
    <2> DEFINE d == x - y
    <2>1. d \in 1 .. K /\ d \in 0 .. M /\ d <= x /\ x - d = y /\ -d \in -K .. K - 1
      BY <1>1, <1>5, WindowAssumption
    <2>2. Wrap(Wrap(x) - d) = Wrap(y)
      BY <2>1, WrapBack
    <2>3. Wrap(x) + (-d) = Wrap(x) - d
      BY <1>1, <2>1 DEF SN
    <2>4. ~InsideForwardReceiveSlidingWindow(Wrap(x), Wrap(y))
      BY <1>2, <1>3, <1>5
    <2> HIDE DEF d
    <2>5. QED BY <1>1, <2>1, <2>2, <2>3, <2>4, LatePacketInsideAWindow
  <1>6. QED BY <1>2, <1>3, <1>4, <1>5

\* The loops of the slide methods stop at the first number that is not done.
LEMMA RunIs ==
    ASSUME NEW n, NEW done, NEW k \in 0 .. M - 1,
           \A j \in 0 .. k - 1 : Wrap(n + j) \in done, Wrap(n + k) \notin done
    PROVE  RunLength(n, done) = k
  <1> DEFINE Stops(m) == /\ \A j \in 0 .. m - 1 : Wrap(n + j) \in done
                         /\ m = M \/ Wrap(n + m) \notin done
  <1>1. M \in Nat /\ k \in 0 .. M /\ k # M /\ Stops(k)
    BY WindowAssumption
  <1>2. ASSUME NEW m \in 0 .. M, Stops(m) PROVE m = k
    <2>1. CASE m < k
      <3>1. m \in 0 .. k - 1 /\ m # M
        BY <1>1, <2>1
      <3>2. QED BY <1>2, <3>1
    <2>2. CASE m > k
      <3>1. k \in 0 .. m - 1
        BY <1>1, <2>2
      <3>2. QED BY <1>2, <3>1
    <2>3. QED BY <1>1, <2>1, <2>2
  <1>3. RunLength(n, done) = CHOOSE m \in 0 .. M : Stops(m)
    BY DEF RunLength
  <1> HIDE DEF Stops
  <1>4. QED BY <1>1, <1>2, <1>3

\* Where they stop, if one of the next numbers is not done.
LEMMA RunEnds ==
    ASSUME NEW x \in Nat, NEW done, NEW z \in Nat, x <= z, z < x + M, Wrap(z) \notin done
    PROVE  LET k == RunLength(Wrap(x), done)
           IN  /\ k \in Nat /\ x + k <= z
               /\ \A y \in Nat : x <= y /\ y < x + k => Wrap(y) \in done
               /\ Wrap(x + k) \notin done
  <1> DEFINE T == {y \in Nat : x <= y /\ Wrap(y) \notin done}
  <1>1. z \in T /\ T \in SUBSET Nat
    OBVIOUS
  <1> HIDE DEF T
  <1>2. PICK e \in T : \A y \in T : e <= y
    BY <1>1, LeastNumber
  <1>3. e \in Nat /\ x <= e /\ e <= z /\ Wrap(e) \notin done
        /\ \A y \in Nat : x <= y /\ y < e => Wrap(y) \in done
    <2>1. e \in Nat /\ x <= e /\ Wrap(e) \notin done
      BY <1>2 DEF T
    <2>2. e <= z
      BY <1>1, <1>2
    <2>3. ASSUME NEW y \in Nat, x <= y, y < e PROVE Wrap(y) \in done
      <3>1. y \notin T
        BY <1>2, <2>1, <2>3
      <3>2. QED BY <2>3, <3>1 DEF T
    <2>4. QED BY <2>1, <2>2, <2>3
  <1> DEFINE k == e - x
  <1>4. k \in 0 .. M - 1 /\ k \in Nat /\ x + k = e /\ M \in Nat
    BY <1>3, WindowAssumption
  <1>5. \A j \in 0 .. k - 1 : Wrap(Wrap(x) + j) \in done
    <2> SUFFICES ASSUME NEW j \in 0 .. k - 1 PROVE Wrap(Wrap(x) + j) \in done
      OBVIOUS
    <2>1. j \in Nat /\ x + j \in Nat /\ x <= x + j /\ x + j < e
      BY <1>4
    <2>2. QED BY <1>3, <2>1, WrapSum
  <1>6. Wrap(Wrap(x) + k) \notin done
    BY <1>3, <1>4, WrapSum
  <1> HIDE DEF k
  <1>7. RunLength(Wrap(x), done) = k
    BY <1>4, <1>5, <1>6, RunIs
  <1>8. QED BY <1>3, <1>4, <1>7

\* Appending to the second of two sequences that are joined.
LEMMA JoinedAppended ==
    ASSUME NEW S, NEW s \in Seq(S), NEW t \in Seq(S), NEW x \in S
    PROVE  s \o Append(t, x) = Append(s \o t, x)
  <1>1. <<x>> \in Seq(S) /\ s \o t \in Seq(S)
    BY ConcatProperties
  <1>2. Append(t, x) = t \o <<x>>
    BY AppendIsConcat
  <1>3. Append(s \o t, x) = (s \o t) \o <<x>>
    BY <1>1, AppendIsConcat
  <1>4. (s \o t) \o <<x>> = s \o (t \o <<x>>)
    BY <1>1, ConcatAssociative
  <1>5. QED BY <1>2, <1>3, <1>4

\* Sequences joined one after the other, f being what there is after each.
JoinedUpTo(s, f, n) ==
    /\ DOMAIN f = 1 .. n
    /\ \A i \in 1 .. n : f[i] = IF i = 1 THEN s[i] ELSE f[i - 1] \o s[i]

\* There is such an f.
LEMMA JoiningExists ==
    ASSUME NEW n \in Nat, NEW s
    PROVE  \E f : f = [i \in 1 .. n |-> IF i = 1 THEN s[i] ELSE f[i - 1] \o s[i]]
  <1> DEFINE G(f, m) == f = [i \in 1 .. m |-> IF i = 1 THEN s[i] ELSE f[i - 1] \o s[i]]
             T == {m \in Nat : \E f : G(f, m)}
  <1>1. 0 \in T
    <2>1. G([i \in 1 .. 0 |-> s], 0)
      OBVIOUS
    <2>2. QED BY <2>1
  <1>2. ASSUME NEW m \in Nat, m \in T PROVE m + 1 \in T
    <2>1. PICK f : G(f, m)
      BY <1>2
    <2> DEFINE h == [i \in 1 .. m + 1 |-> IF i <= m THEN f[i]
                                          ELSE IF i = 1 THEN s[i] ELSE f[m] \o s[i]]
    <2>2. \A i \in 1 .. m + 1 : h[i] = IF i = 1 THEN s[i] ELSE h[i - 1] \o s[i]
      <3> SUFFICES ASSUME NEW i \in 1 .. m + 1
                   PROVE  h[i] = IF i = 1 THEN s[i] ELSE h[i - 1] \o s[i]
        OBVIOUS
      <3>1. CASE i <= m
        <4>1. h[i] = f[i] /\ i \in 1 .. m
          BY <3>1
        <4>2. i # 1 => i - 1 \in 1 .. m + 1 /\ i - 1 <= m
          BY <3>1
        <4>3. i # 1 => h[i - 1] = f[i - 1]
          BY <4>2
        <4>4. f[i] = IF i = 1 THEN s[i] ELSE f[i - 1] \o s[i]
          BY <2>1, <4>1
        <4>5. QED BY <4>1, <4>3, <4>4
      <3>2. CASE ~(i <= m)
        <4>1. i = m + 1
          BY <3>2
        <4>2. i # 1 => i - 1 \in 1 .. m + 1 /\ i - 1 <= m /\ i - 1 = m
          BY <4>1
        <4>3. i # 1 => h[i - 1] = f[m]
          BY <4>2
        <4>4. h[i] = IF i = 1 THEN s[i] ELSE f[m] \o s[i]
          BY <3>2
        <4>5. QED BY <4>3, <4>4
      <3>3. QED BY <3>1, <3>2
    <2>3. G(h, m + 1)
      BY <2>2
    <2> HIDE DEF h, G
    <2>4. QED BY <2>3
  <1> HIDE DEF T
  <1>3. n \in T
    BY <1>1, <1>2, SetInductionOnNat
  <1>4. QED BY <1>3 DEF T

\* FlattenSeq() is its last value.
LEMMA FlattenIsJoining ==
    ASSUME NEW n \in Nat \ {0}, NEW s, Len(s) = n
    PROVE  \E f : JoinedUpTo(s, f, n) /\ FlattenSeq(s) = f[n]
  <1> DEFINE G(f) == f = [i \in 1 .. n |-> IF i = 1 THEN s[i] ELSE f[i - 1] \o s[i]]
             f == CHOOSE g : G(g)
  <1>1. \E g : G(g)
    BY JoiningExists
  <1>2. G(f)
    <2> HIDE DEF G
    <2>1. QED BY <1>1
  <1>3. FlattenSeq(s) = f[n]
    BY n # 0 DEF FlattenSeq
  <1> HIDE DEF f
  <1>4. JoinedUpTo(s, f, n)
    BY <1>2 DEF JoinedUpTo
  <1>5. QED BY <1>3, <1>4

\* What has been joined goes by the sequences so far.
LEMMA JoiningIsUnique ==
    ASSUME NEW m \in Nat, NEW n \in Nat, NEW s, NEW f, JoinedUpTo(s, f, m),
           NEW t, NEW g, JoinedUpTo(t, g, n), NEW k \in Nat, k <= m, k <= n,
           \A i \in 1 .. k : s[i] = t[i]
    PROVE  \A i \in 1 .. k : f[i] = g[i]
  <1> DEFINE T == {i \in Nat : i \in 1 .. k => f[i] = g[i]}
  <1>1. 0 \in T
    OBVIOUS
  <1>2. ASSUME NEW i \in Nat, i \in T PROVE i + 1 \in T
    <2> SUFFICES ASSUME i + 1 \in 1 .. k PROVE f[i + 1] = g[i + 1]
      OBVIOUS
    <2>1. i + 1 \in 1 .. m /\ i + 1 \in 1 .. n /\ s[i + 1] = t[i + 1] /\ (i + 1) - 1 = i
      OBVIOUS
    <2>2. i # 0 => f[i] = g[i]
      BY <1>2
    <2>3. /\ f[i + 1] = IF i + 1 = 1 THEN s[i + 1] ELSE f[i] \o s[i + 1]
          /\ g[i + 1] = IF i + 1 = 1 THEN t[i + 1] ELSE g[i] \o t[i + 1]
      BY <2>1 DEF JoinedUpTo
    <2>4. QED BY <2>1, <2>2, <2>3
  <1> HIDE DEF T
  <1>3. Nat \subseteq T
    BY <1>1, <1>2, SetInductionOnNat
  <1>4. QED BY <1>3 DEF T

-----------------------------------------------------------------------------
(* The segments given to the channel.                                      *)

\* Given, after s segments of message m.
GivenTo(m, s) ==
    FlattenSeq([l \in 1 .. m |-> SegmentsOf(l, IF l = m THEN s ELSE Messages[l])])

\* The first s segments of message m, and the next one.
LEMMA SegmentsInOrder ==
    ASSUME NEW m \in 1 .. Len(Messages), NEW s \in 0 .. Messages[m]
    PROVE  /\ SegmentsOf(m, s) \in Seq(Segments) /\ Len(SegmentsOf(m, s)) = s
           /\ s < Messages[m] => SegmentsOf(m, s + 1) = Append(SegmentsOf(m, s), <<m, s + 1>>)
           /\ s < Messages[m] => <<m, s + 1>> \in Segments
  <1>1. Messages[m] \in Nat \ {0} /\ s \in Nat
    BY ChannelAssumption
  <1>2. ASSUME NEW u \in 0 .. Messages[m]
        PROVE  SegmentsOf(m, u) \in Seq(Segments) /\ Len(SegmentsOf(m, u)) = u
    <2>1. u \in Nat /\ \A j \in 1 .. u : <<m, j>> \in Segments
      BY <1>1 DEF Segments
    <2>2. [j \in 1 .. u |-> <<m, j>>] \in Seq(Segments)
      BY <2>1, IsASeq
    <2>3. QED BY <2>1, <2>2 DEF SegmentsOf
  <1>3. ASSUME s < Messages[m]
        PROVE  /\ SegmentsOf(m, s + 1) = Append(SegmentsOf(m, s), <<m, s + 1>>)
               /\ <<m, s + 1>> \in Segments
    <2> DEFINE a == SegmentsOf(m, s)
               b == SegmentsOf(m, s + 1)
               c == Append(a, <<m, s + 1>>)
    <2>1. s + 1 \in 0 .. Messages[m] /\ s + 1 \in 1 .. Messages[m]
      BY <1>1, <1>3
    <2>2. <<m, s + 1>> \in Segments
      BY <2>1 DEF Segments
    <2>3. a \in Seq(Segments) /\ b \in Seq(Segments) /\ Len(a) = s /\ Len(b) = s + 1
      BY <1>2, <2>1
    <2>4. /\ \A j \in 1 .. s : a[j] = <<m, j>>
          /\ \A j \in 1 .. s + 1 : b[j] = <<m, j>>
      BY DEF SegmentsOf
    <2> HIDE DEF a, b
    <2>5. /\ c \in Seq(Segments) /\ Len(c) = s + 1
          /\ (\A j \in 1 .. s : c[j] = a[j]) /\ c[s + 1] = <<m, s + 1>>
      BY <2>2, <2>3, AppendProperties
    <2> HIDE DEF c
    <2>6. \A j \in 1 .. s + 1 : b[j] = c[j]
      <3> SUFFICES ASSUME NEW j \in 1 .. s + 1 PROVE b[j] = c[j]
        OBVIOUS
      <3>1. j \in 1 .. s \/ j = s + 1
        BY <1>1
      <3>2. QED BY <2>4, <2>5, <3>1
    <2>7. b = c
      BY <2>3, <2>5, <2>6, SeqEqual
    <2>8. QED BY <2>2, <2>7 DEF a, b, c
  <1>4. QED BY <1>2, <1>3

\* Sequences over S joined are one over S.
LEMMA JoinedIn ==
    ASSUME NEW S, NEW n \in Nat \ {0}, NEW s, NEW f, JoinedUpTo(s, f, n),
           \A i \in 1 .. n : s[i] \in Seq(S)
    PROVE  f[n] \in Seq(S)
  <1> DEFINE T == {i \in Nat : i \in 1 .. n => f[i] \in Seq(S)}
  <1>1. 0 \in T
    OBVIOUS
  <1>2. ASSUME NEW i \in Nat, i \in T PROVE i + 1 \in T
    <2> SUFFICES ASSUME i + 1 \in 1 .. n PROVE f[i + 1] \in Seq(S)
      OBVIOUS
    <2>1. s[i + 1] \in Seq(S) /\ (i + 1) - 1 = i
      OBVIOUS
    <2>2. i # 0 => f[i] \in Seq(S)
      BY <1>2
    <2>3. f[i + 1] = IF i + 1 = 1 THEN s[i + 1] ELSE f[i] \o s[i + 1]
      BY <2>1 DEF JoinedUpTo
    <2>4. CASE i = 0
      BY <2>1, <2>3, <2>4
    <2>5. CASE i # 0
      <3>1. f[i] \o s[i + 1] \in Seq(S)
        BY <2>1, <2>2, <2>5, ConcatProperties
      <3>2. QED BY <2>3, <2>5, <3>1
    <2>6. QED BY <2>4, <2>5
  <1> HIDE DEF T
  <1>3. n \in T
    BY <1>1, <1>2, SetInductionOnNat
  <1>4. QED BY <1>3 DEF T

\* The joining behind GivenTo.
Pieces(m, s) == [l \in 1 .. m |-> SegmentsOf(l, IF l = m THEN s ELSE Messages[l])]

\* GivenTo as the joining of its pieces.
LEMMA PiecesJoin ==
    ASSUME NEW m \in 1 .. Len(Messages), NEW s \in 0 .. Messages[m]
    PROVE  /\ \E f : JoinedUpTo(Pieces(m, s), f, m) /\ GivenTo(m, s) = f[m]
           /\ GivenTo(m, s) \in Seq(Segments)
  <1>1. m \in Nat \ {0}
    BY ChannelAssumption
  <1>2. Len(Pieces(m, s)) = m
    BY <1>1 DEF Pieces
  <1>3. PICK f : JoinedUpTo(Pieces(m, s), f, m) /\ FlattenSeq(Pieces(m, s)) = f[m]
    BY <1>1, <1>2, FlattenIsJoining
  <1>4. GivenTo(m, s) = FlattenSeq(Pieces(m, s))
    BY DEF GivenTo, Pieces
  <1>5. \A l \in 1 .. m : Pieces(m, s)[l] \in Seq(Segments)
    <2> SUFFICES ASSUME NEW l \in 1 .. m PROVE Pieces(m, s)[l] \in Seq(Segments)
      OBVIOUS
    <2>1. l \in 1 .. Len(Messages)
      BY <1>1, ChannelAssumption
    <2>2. Messages[l] \in Nat /\ Messages[l] \in 0 .. Messages[l]
      BY <2>1, ChannelAssumption
    <2>3. SegmentsOf(l, IF l = m THEN s ELSE Messages[l]) \in Seq(Segments)
      BY <2>1, <2>2, SegmentsInOrder
    <2>4. QED BY <2>3 DEF Pieces
  <1>6. f[m] \in Seq(Segments)
    BY <1>1, <1>3, <1>5, JoinedIn
  <1>7. QED BY <1>3, <1>4, <1>6

\* Before the first segment nothing has been given.
LEMMA NothingGiven == /\ \A s : GivenTo(0, s) = <<>>
                      /\ Len(Messages) > 0 => GivenTo(1, 0) = <<>>
  <1>1. \A s : GivenTo(0, s) = <<>>
    <2>1. \A s : Pieces(0, s) = <<>>
      BY DEF Pieces
    <2>2. FlattenSeq(<<>>) = <<>>
      BY DEF FlattenSeq
    <2>3. QED BY <2>1, <2>2 DEF GivenTo, Pieces
  <1>2. ASSUME Len(Messages) > 0 PROVE GivenTo(1, 0) = <<>>
    <2>1. 1 \in 1 .. Len(Messages) /\ 0 \in 0 .. Messages[1]
      BY <1>2, ChannelAssumption
    <2>2. PICK f : JoinedUpTo(Pieces(1, 0), f, 1) /\ GivenTo(1, 0) = f[1]
      BY <2>1, PiecesJoin
    <2>3. f[1] = Pieces(1, 0)[1]
      BY <2>2 DEF JoinedUpTo
    <2>4. Pieces(1, 0)[1] = SegmentsOf(1, 0)
      BY DEF Pieces
    <2>5. SegmentsOf(1, 0) = <<>>
      BY DEF SegmentsOf
    <2>6. QED BY <2>2, <2>3, <2>4, <2>5
  <1>3. QED BY <1>1, <1>2

\* Sending a segment appends it.
LEMMA GivenGrows ==
    ASSUME NEW m \in 1 .. Len(Messages), NEW s \in 0 .. Messages[m], s < Messages[m]
    PROVE  GivenTo(m, s + 1) = Append(GivenTo(m, s), <<m, s + 1>>)
  <1> DEFINE P == Pieces(m, s)
             Q == Pieces(m, s + 1)
  <1>0. m \in Nat \ {0} /\ s \in Nat /\ Messages[m] \in Nat /\ s + 1 \in 0 .. Messages[m]
    BY ChannelAssumption
  <1>1. PICK f : JoinedUpTo(P, f, m) /\ GivenTo(m, s) = f[m]
    BY PiecesJoin
  <1>2. PICK g : JoinedUpTo(Q, g, m) /\ GivenTo(m, s + 1) = g[m]
    BY <1>0, PiecesJoin
  <1>3. /\ P[m] = SegmentsOf(m, s) /\ Q[m] = SegmentsOf(m, s + 1)
        /\ \A i \in 1 .. m - 1 : P[i] = Q[i]
    BY <1>0 DEF Pieces
  <1>4. /\ Q[m] = Append(P[m], <<m, s + 1>>) /\ P[m] \in Seq(Segments)
        /\ <<m, s + 1>> \in Segments
    BY <1>3, SegmentsInOrder
  <1>5. /\ f[m] = IF m = 1 THEN P[m] ELSE f[m - 1] \o P[m]
        /\ g[m] = IF m = 1 THEN Q[m] ELSE g[m - 1] \o Q[m]
    <2>1. m \in 1 .. m
      BY <1>0
    <2> HIDE DEF P, Q
    <2>2. QED BY <1>1, <1>2, <2>1 DEF JoinedUpTo
  <1> HIDE DEF P, Q
  <1>6. CASE m = 1
    BY <1>1, <1>2, <1>4, <1>5, <1>6
  <1>7. CASE m # 1
    <2>1. m - 1 \in Nat \ {0} /\ m - 1 <= m /\ m - 1 \in 1 .. m - 1
      BY <1>0, <1>7
    <2>2. f[m - 1] = g[m - 1]
      BY <1>0, <1>1, <1>2, <1>3, <2>1, JoiningIsUnique
    <2>3. f[m - 1] \in Seq(Segments)
      <3> DEFINE h == [i \in 1 .. m - 1 |-> f[i]]
      <3>1. JoinedUpTo(P, h, m - 1)
        <4>1. DOMAIN h = 1 .. m - 1
          OBVIOUS
        <4>2. \A i \in 1 .. m - 1 : h[i] = IF i = 1 THEN P[i] ELSE h[i - 1] \o P[i]
          <5> SUFFICES ASSUME NEW i \in 1 .. m - 1
                       PROVE  h[i] = IF i = 1 THEN P[i] ELSE h[i - 1] \o P[i]
            OBVIOUS
          <5>1. i \in 1 .. m /\ h[i] = f[i] /\ (i # 1 => h[i - 1] = f[i - 1])
            BY <1>0
          <5>2. f[i] = IF i = 1 THEN P[i] ELSE f[i - 1] \o P[i]
            BY <1>1, <5>1 DEF JoinedUpTo
          <5>3. QED BY <5>1, <5>2
        <4>3. QED BY <4>1, <4>2 DEF JoinedUpTo
      <3>2. \A i \in 1 .. m - 1 : P[i] \in Seq(Segments)
        <4> SUFFICES ASSUME NEW i \in 1 .. m - 1 PROVE P[i] \in Seq(Segments)
          OBVIOUS
        <4>1. i \in 1 .. Len(Messages) /\ i # m /\ i \in 1 .. m
          BY <1>0, ChannelAssumption
        <4>2. Messages[i] \in 0 .. Messages[i]
          BY <4>1, ChannelAssumption
        <4>3. SegmentsOf(i, Messages[i]) \in Seq(Segments)
          BY <4>1, <4>2, SegmentsInOrder
        <4>4. QED BY <4>1, <4>3 DEF P, Pieces
      <3>3. h[m - 1] = f[m - 1]
        BY <2>1
      <3> HIDE DEF h
      <3>4. h[m - 1] \in Seq(Segments)
        BY <2>1, <3>1, <3>2, JoinedIn
      <3>5. QED BY <3>3, <3>4
    <2>4. f[m - 1] \o Append(P[m], <<m, s + 1>>) = Append(f[m - 1] \o P[m], <<m, s + 1>>)
      <3>1. ASSUME NEW u \in Seq(Segments), NEW v \in Seq(Segments), NEW x \in Segments
            PROVE  u \o Append(v, x) = Append(u \o v, x)
        BY JoinedAppended
      <3> HIDE DEF Segments
      <3>2. QED BY <1>4, <2>3, <3>1
    <2>5. QED BY <1>1, <1>2, <1>4, <1>5, <1>7, <2>2, <2>4
  <1>8. QED BY <1>6, <1>7

\* Beginning a message adds nothing yet.
LEMMA GivenStays ==
    ASSUME NEW m \in 1 .. Len(Messages), m + 1 \in 1 .. Len(Messages)
    PROVE  GivenTo(m + 1, 0) = GivenTo(m, Messages[m])
  <1> DEFINE P == Pieces(m, Messages[m])
             Q == Pieces(m + 1, 0)
  <1>0. m \in Nat \ {0} /\ Messages[m] \in 0 .. Messages[m] /\ 0 \in 0 .. Messages[m + 1]
    BY ChannelAssumption
  <1>1. PICK f : JoinedUpTo(P, f, m) /\ GivenTo(m, Messages[m]) = f[m]
    BY <1>0, PiecesJoin
  <1>2. PICK g : JoinedUpTo(Q, g, m + 1) /\ GivenTo(m + 1, 0) = g[m + 1]
    BY <1>0, PiecesJoin
  <1>3. /\ Q[m + 1] = SegmentsOf(m + 1, 0)
        /\ \A i \in 1 .. m : P[i] = Q[i]
    BY <1>0 DEF Pieces
  <1>4. Q[m + 1] = <<>>
    BY <1>3 DEF SegmentsOf
  <1>5. g[m + 1] = g[m] \o Q[m + 1]
    <2>1. m + 1 \in 1 .. m + 1 /\ m + 1 # 1 /\ (m + 1) - 1 = m
      BY <1>0
    <2>2. QED BY <1>2, <2>1 DEF JoinedUpTo
  <1> HIDE DEF P, Q
  <1>6. f[m] = g[m]
    <2>1. m \in Nat /\ m + 1 \in Nat /\ m <= m + 1 /\ m <= m /\ m \in 1 .. m
      BY <1>0
    <2>2. QED BY <1>1, <1>2, <1>3, <2>1, JoiningIsUnique
  <1>7. f[m] \in Seq(Segments)
    BY <1>0, <1>1, PiecesJoin
  <1>8. g[m] \o <<>> = g[m]
    BY <1>6, <1>7, ConcatEmptySeq
  <1>9. QED BY <1>1, <1>2, <1>4, <1>5, <1>6, <1>8

-----------------------------------------------------------------------------
(* The state of the channel.                                               *)

\* The transmitter is open, or about to be; the number of packets it has sent, Open included.
Live  == tstate \in {"Enabled", "Open"}
Count == IF opens = 0 THEN 0 ELSE 1 + Len(Given)

\* Segment y comes after segment x.
Follows(x, y) == IF x[2] < Messages[x[1]] THEN y = <<x[1], x[2] + 1>> ELSE y = <<x[1] + 1, 1>>

\* The segments of the messages from the first one, none left out.
InOrder(g) ==
    /\ g \in Seq(Segments)
    /\ g # <<>> => g[1] = <<1, 1>>
    /\ \A i \in 1 .. Len(g) - 1 : Follows(g[i], g[i + 1])

\* The stream ends with segment s of message m, or with the message before.
EndsAt(g, m, s) ==
    /\ g = <<>> => m = 0 \/ (m = 1 /\ s = 0)
    /\ g # <<>> => m > 0 /\ g[Len(g)] = IF s > 0 THEN <<m, s>> ELSE <<m - 1, Messages[m - 1]>>

\* The stream is in order, and sequenceNumber is the number of the next packet.
GivenInv ==
    /\ InOrder(Given)
    /\ EndsAt(Given, message, segment)
    /\ tstate = "Open" => sn = Wrap(Count)

\* Types of the variables.
AppTypes ==
    /\ tpc \in {"idle", "opening", "openSent", "openWait", "sending", "segmentSent", "waiting",
               "closing", "closeSent", "closeWait", "closed", "crashed"}
    /\ message \in 0 .. Len(Messages)
    /\ segment \in Nat /\ (message > 0 => segment <= Messages[message])
    /\ opens \in 0 .. MaxOpens
    /\ tstate \in {"Closed", "Enabled", "Open", "Closing"}
    /\ outstanding \in 0 .. K
    /\ retries \in [SN -> Nat]
    /\ beats \in 0 .. MaxHeartBeats /\ beatDue \in BOOLEAN
    /\ openAcked \in BOOLEAN /\ closeAcked \in BOOLEAN /\ consuming \in BOOLEAN
WindowTypes ==
    /\ sn \in SN /\ from \in SN
    /\ slots \in [SN -> Packets \cup {NoPacket}]
    /\ sent \in [SN -> BOOLEAN] /\ acked \in [SN -> BOOLEAN]
    /\ masn \in SN /\ masnLapped \in BOOLEAN
LinkTypes ==
    /\ ackInHand \in Acks \cup {NoAck}
    /\ toR \in Seq(Packets) /\ toT \in Seq(Acks)
    /\ losses \in 0 .. MaxLosses
ReceiverTypes ==
    /\ rpc \in {"consume", "drain", "linger", "stopped"}
    /\ rstate \in {"Closed", "Enabled", "Open", "Closing"}
    /\ rbuffer \in [SN -> Packets \cup {NoPacket}]
    /\ rfrom \in SN
    /\ hasReceivedDataPacket \in BOOLEAN

\* Before open().
Before ==
    /\ tpc = "idle" /\ tstate = "Closed" /\ toR = <<>> /\ toT = <<>> /\ ackInHand = NoAck
    /\ message = 0 /\ segment = 0 /\ from = 0 /\ ~openAcked
    /\ \A n \in SN : ~sent[n] /\ ~acked[n]
    /\ slots[0] # NoPacket => \A n \in SN : slots[n] # NoPacket

\* Where each thread can be, given the states of the end points; an open channel has
\* all its slots.
PlacesInv ==
    /\ ~beatDue /\ beats = 0
    /\ opens = 0 => Before
    /\ tpc \in {"opening", "openSent", "openWait"} => tstate = "Enabled"
    /\ tstate = "Enabled" =>
         /\ opens = 1 /\ message = 0 /\ segment = 0 /\ sn = 0
         /\ tpc \in {"opening", "openSent", "openWait", "idle"}
    /\ tpc \in {"sending", "segmentSent", "waiting"} => tstate = "Open" /\ message > 0
    /\ tstate = "Open" => opens = 1 /\ tpc \in {"idle", "sending", "segmentSent", "waiting"}
    /\ tpc = "sending" => segment < Messages[message]
    /\ tpc = "segmentSent" => segment > 0
    /\ tpc = "waiting" \/ (tstate = "Open" /\ tpc = "idle" /\ message > 0) =>
         segment = Messages[message]
    /\ Live => \A n \in SN : slots[n] # NoPacket
    /\ tpc \in {"closing", "closeSent", "closeWait", "closed"} <=> tstate = "Closing"
    /\ rpc \in {"drain", "linger"} => rstate = "Closing"
    /\ rpc = "stopped" => rstate = "Closed"

\* What is well formed about the state, whatever the numbers of the packets.
StateInv == AppTypes /\ WindowTypes /\ LinkTypes /\ ReceiverTypes /\ PlacesInv

\* Given is the stream up to where the application is.
LEMMA GivenIs == Given = GivenTo(message, segment)
  BY DEF Given, GivenTo

\* The stream stays in order when the next segment is appended.
LEMMA OrderGrows ==
    ASSUME NEW g, InOrder(g), NEW m \in 1 .. Len(Messages), NEW s \in 0 .. Messages[m],
           s < Messages[m], EndsAt(g, m, s)
    PROVE  LET h == Append(g, <<m, s + 1>>) IN InOrder(h) /\ EndsAt(h, m, s + 1)
  <1> DEFINE x == <<m, s + 1>>
             h == Append(g, x)
  <1>0. m \in Nat \ {0} /\ s \in Nat /\ \A l \in 1 .. Len(Messages) : Messages[l] \in Nat \ {0}
    BY ChannelAssumption
  <1>1. x \in Segments
    BY SegmentsInOrder
  <1>2. g \in Seq(Segments) /\ Len(g) \in Nat /\ (g = <<>> <=> Len(g) = 0)
    BY EmptySeq DEF InOrder
  <1>3. /\ h \in Seq(Segments) /\ h # <<>> /\ Len(h) = Len(g) + 1
        /\ (\A i \in 1 .. Len(g) : h[i] = g[i]) /\ h[Len(g) + 1] = x
    BY <1>1, <1>2, AppendProperties
  <1>4. g = <<>> => m = 1 /\ s = 0
    BY <1>0 DEF EndsAt
  <1>5. g # <<>> => Follows(g[Len(g)], x)
    <2> SUFFICES ASSUME g # <<>> PROVE Follows(g[Len(g)], x)
      OBVIOUS
    <2>1. g[Len(g)] = IF s > 0 THEN <<m, s>> ELSE <<m - 1, Messages[m - 1]>>
      BY DEF EndsAt
    <2>2. CASE s > 0
      BY <1>0, <2>1, <2>2 DEF Follows
    <2>3. CASE s = 0
      <3>1. Len(g) \in 1 .. Len(g)
        BY <1>2
      <3>2. g[Len(g)] \in Segments
        BY <1>2, <3>1, ElementOfSeq
      <3>3. g[Len(g)] = <<m - 1, Messages[m - 1]>>
        BY <2>1, <2>3
      <3>4. m - 1 \in 1 .. Len(Messages)
        BY <3>2, <3>3 DEF Segments
      <3>5. Messages[m - 1] \in Nat
        BY <1>0, <3>4
      <3>6. g[Len(g)][2] = Messages[m - 1] /\ g[Len(g)][1] = m - 1
        BY <3>3
      <3>7. ~(g[Len(g)][2] < Messages[g[Len(g)][1]])
        BY <3>5, <3>6
      <3>8. (m - 1) + 1 = m /\ s + 1 = 1
        BY <1>0, <2>3
      <3>9. QED BY <3>6, <3>7, <3>8 DEF Follows
    <2>4. QED BY <1>0, <2>2, <2>3
  <1> HIDE DEF h
  <1>6. InOrder(h)
    <2>1. h[1] = <<1, 1>>
      <3>1. CASE g = <<>>
        BY <1>2, <1>3, <1>4, <3>1
      <3>2. CASE g # <<>>
        <4>1. 1 \in 1 .. Len(g)
          BY <1>2, <3>2
        <4>2. QED BY <1>3, <3>2, <4>1 DEF InOrder
      <3>3. QED BY <3>1, <3>2
    <2>2. ASSUME NEW i \in 1 .. Len(h) - 1 PROVE Follows(h[i], h[i + 1])
      <3> HIDE DEF x
      <3>1. i \in 1 .. Len(g) /\ i \in Nat /\ i >= 1
        BY <1>2, <1>3
      <3>2. CASE i = Len(g)
        BY <1>2, <1>3, <1>5, <3>1, <3>2
      <3>3. CASE i # Len(g)
        <4>1. i \in 1 .. Len(g) - 1 /\ i + 1 \in 1 .. Len(g)
          BY <1>2, <3>1, <3>3
        <4>2. Follows(g[i], g[i + 1])
          BY <4>1 DEF InOrder
        <4>3. QED BY <1>3, <3>1, <4>1, <4>2
      <3>4. QED BY <3>2, <3>3
    <2>3. QED BY <1>3, <2>1, <2>2 DEF InOrder
  <1>7. EndsAt(h, m, s + 1)
    <2>1. s + 1 > 0 /\ m > 0 /\ h # <<>> /\ h[Len(h)] = <<m, s + 1>>
      BY <1>0, <1>3
    <2>2. QED BY <2>1 DEF EndsAt
  <1>8. QED BY <1>6, <1>7 DEF h

\* The cast gives a sequence number.
LEMMA WrapIn == \A x \in Int : Wrap(x) \in SN
  BY WindowAssumption DEF Wrap, SN

\* The slide methods come to an end.
LEMMA RunLengthIn ==
    ASSUME NEW n, NEW done
    PROVE  RunLength(n, done) \in 0 .. M
  <1> DEFINE Stops(m) == /\ \A j \in 0 .. m - 1 : Wrap(n + j) \in done
                         /\ m = M \/ Wrap(n + m) \notin done
             T == {j \in Nat : j < M /\ Wrap(n + j) \notin done}
  <1>1. M \in Nat
    BY WindowAssumption
  <1>2. \E k \in 0 .. M : Stops(k)
    <2>1. CASE T = {}
      <3>1. M \in 0 .. M /\ \A j \in 0 .. M - 1 : Wrap(n + j) \in done
        BY <1>1, <2>1
      <3>2. QED BY <3>1
    <2>2. CASE T # {}
      <3>1. T \in SUBSET Nat
        OBVIOUS
      <3> HIDE DEF T
      <3>2. PICK k \in T : \A j \in T : k <= j
        BY <2>2, <3>1, LeastNumber
      <3>3. k \in Nat /\ k < M /\ Wrap(n + k) \notin done
        BY DEF T
      <3>4. \A j \in 0 .. k - 1 : Wrap(n + j) \in done
        <4> SUFFICES ASSUME NEW j \in 0 .. k - 1, Wrap(n + j) \notin done PROVE FALSE
          OBVIOUS
        <4>1. j \in Nat /\ j < k /\ j < M
          BY <1>1, <3>3
        <4>2. j \in T
          BY <4>1 DEF T
        <4>3. QED BY <3>2, <3>3, <4>1, <4>2
      <3>5. k \in 0 .. M
        BY <1>1, <3>3
      <3>6. QED BY <3>3, <3>4, <3>5
    <2>3. QED BY <2>1, <2>2
  <1>3. RunLength(n, done) = CHOOSE k \in 0 .. M : Stops(k)
    BY DEF RunLength
  <1> HIDE DEF Stops
  <1>4. QED BY <1>2, <1>3

-----------------------------------------------------------------------------
(* The steps of the transmitter and its application keep the state well formed.*)

\* The packets that are sent are packets, and a missing one is not.
LEMMA SomePackets ==
    /\ \A n \in SN, m \in 1 .. Len(Messages) : \A s \in Nat :
           s < Messages[m] => DataPacket(n, m, s + 1) \in Packets
    /\ Packet("Open", 0) \in Packets /\ Packet("Close", 0) \in Packets
    /\ NoPacket \notin Packets
    /\ \A p \in Packets, n \in SN : [p EXCEPT !.sn = n] \in Packets
    /\ \A n \in SN : Packet("Blank", 0) \in Packets
  <1>0. 0 \in SN /\ -1 \notin SN
    BY WindowAssumption DEF SN
  <1>1. ASSUME NEW n \in SN, NEW m \in 1 .. Len(Messages), NEW s \in Nat, s < Messages[m]
        PROVE  DataPacket(n, m, s + 1) \in Packets
    <2>1. s \in 0 .. Messages[m]
      BY <1>1, ChannelAssumption
    <2>2. <<m, s + 1>> \in Segments
      BY <1>1, <2>1, SegmentsInOrder
    <2>3. FlagOf(m, s + 1) \in Flags
      BY DEF FlagOf, Flags
    <2>4. QED BY <1>1, <2>2, <2>3 DEF DataPacket, Packets, PacketTypes
  <1>2. /\ Packet("Open", 0) \in Packets /\ Packet("Close", 0) \in Packets
        /\ Packet("Blank", 0) \in Packets
    BY <1>0 DEF Packet, Packets, PacketTypes, Flags
  <1>3. NoPacket \notin Packets
    <2>1. NoPacket.sn = -1
      BY DEF NoPacket, Packet
    <2>2. \A p \in Packets : p.sn \in SN
      BY DEF Packets
    <2>3. QED BY <1>0, <2>1, <2>2
  <1>4. \A p \in Packets, n \in SN : [p EXCEPT !.sn = n] \in Packets
    BY DEF Packets
  <1>5. QED BY <1>1, <1>2, <1>3, <1>4

\* So are the acknowledgements.
LEMMA SomeAcks ==
    ASSUME NEW p \in Packets, rfrom \in SN
    PROVE  AckFor(p) \in Acks
  <1>1. MaximumAcceptableSequenceNumber(rfrom) \in SN
    BY WrapIn, WindowAssumption DEF SN, MaximumAcceptableSequenceNumber
  <1>2. p.sn \in SN
    BY DEF Packets
  <1>3. QED BY <1>1, <1>2 DEF AckFor, Acks, AckTypes

\* Sending, with or without loss, keeps the types of the link.
LEMMA SendingR ==
    ASSUME NEW p \in Packets, LinkTypes, SendToR(p)
    PROVE  toR' \in Seq(Packets) /\ losses' \in 0 .. MaxLosses
  <1>1. Append(toR, p) \in Seq(Packets)
    BY AppendProperties DEF LinkTypes
  <1>2. losses < MaxLosses => losses + 1 \in 0 .. MaxLosses
    BY ChannelAssumption DEF LinkTypes
  <1>3. QED BY <1>1, <1>2 DEF LinkTypes, SendToR, Lose

\* The same, towards the transmitter.
LEMMA SendingT ==
    ASSUME NEW p \in Acks, LinkTypes, SendToT(p)
    PROVE  toT' \in Seq(Acks) /\ losses' \in 0 .. MaxLosses
  <1>1. Append(toT, p) \in Seq(Acks)
    BY AppendProperties DEF LinkTypes
  <1>2. losses < MaxLosses => losses + 1 \in 0 .. MaxLosses
    BY ChannelAssumption DEF LinkTypes
  <1>3. QED BY <1>1, <1>2 DEF LinkTypes, SendToT, Lose

\* What is taken from the link.
LEMMA Queues ==
    /\ LinkTypes /\ toR # <<>> => Head(toR) \in Packets /\ Tail(toR) \in Seq(Packets)
    /\ LinkTypes /\ toT # <<>> => Head(toT) \in Acks /\ Tail(toT) \in Seq(Acks)
  BY HeadTailProperties DEF LinkTypes

\* StateInv holds at the start.
LEMMA StateInit == PlainChannel /\ Init => StateInv
  <1> SUFFICES ASSUME PlainChannel, Init PROVE StateInv
    OBVIOUS
  <1>0. 0 \in SN /\ M \in Nat /\ K \in Nat
    BY WindowAssumption DEF SN
  <1>1. AppTypes
    BY <1>0, ChannelAssumption DEF Init, AppTypes
  <1>2. WindowTypes
    BY <1>0, ChannelAssumption, SomePackets DEF Init, WindowTypes
  <1>3. LinkTypes
    BY ChannelAssumption DEF Init, LinkTypes
  <1>4. ReceiverTypes
    BY <1>0 DEF Init, ReceiverTypes
  <1>5. Packet("Blank", 0) # NoPacket
    BY <1>0, SomePackets
  <1>6. PlacesInv
    BY <1>0, <1>5 DEF Init, PlainChannel, PlacesInv, Before, Live
  <1>7. QED BY <1>1, <1>2, <1>3, <1>4, <1>6 DEF StateInv

\* Open.
LEMMA OpenKeepsState ==
    ASSUME PlainChannel, StateInv, Open
    PROVE  StateInv'
  <1>0. /\ AppTypes /\ WindowTypes /\ LinkTypes /\ ReceiverTypes /\ PlacesInv
        /\ M \in Nat /\ K \in Nat /\ 2 <= K /\ 0 \in SN /\ 1 \in SN /\ MaxRetries \in Nat
    BY WindowAssumption, ChannelAssumption DEF StateInv, SN
  <1>1. AppTypes'
    <2>1. opens + 1 \in 0 .. MaxOpens /\ 1 \in 0 .. K
      BY <1>0, ChannelAssumption DEF AppTypes, Open
    <2>2. QED BY <1>0, <2>1 DEF AppTypes, Open, Malfunction, beatVars
  <1>2. WindowTypes'
    <2>1. Packet("Open", 0) \in Packets
      BY SomePackets
    <2> HIDE DEF Packets
    <2>2. slots' \in [SN -> Packets \cup {NoPacket}]
      BY <1>0, <2>1 DEF WindowTypes, Open
    <2>3. QED BY <1>0, <2>2 DEF WindowTypes, Open, masnVars
  <1>3. LinkTypes'
    BY <1>0, SendingR, Queues, SomePackets DEF LinkTypes, Open, Malfunction, ackVars, linkVars
  <1>4. ReceiverTypes'
    BY <1>0 DEF ReceiverTypes, Open, rVars, dataVars
  <1>5. PlacesInv'
    BY SMTT(30), <1>0, SomePackets, ChannelAssumption
       DEF PlacesInv, Before, Live, AppTypes, WindowTypes, PlainChannel, Open, Malfunction,
           appVars, windowVars, masnVars, ackVars, beatVars, rVars, dataVars, linkVars
  <1>6. QED BY <1>1, <1>2, <1>3, <1>4, <1>5 DEF StateInv

\* Send.
LEMMA SendKeepsState ==
    ASSUME PlainChannel, StateInv, Send
    PROVE  StateInv'
  <1>0. /\ AppTypes /\ WindowTypes /\ LinkTypes /\ ReceiverTypes /\ PlacesInv
        /\ M \in Nat /\ K \in Nat /\ 2 <= K /\ 0 \in SN /\ 1 \in SN /\ MaxRetries \in Nat
    BY WindowAssumption, ChannelAssumption DEF StateInv, SN
  <1>1. AppTypes'
    BY <1>0, ChannelAssumption
       DEF AppTypes, PlacesInv, Send, appVars, windowVars, masnVars, ackVars, beatVars,
           PlainChannel
  <1>2. WindowTypes'
    BY <1>0, SomePackets, WrapIn
       DEF WindowTypes, AppTypes, PlacesInv, Send, appVars, windowVars, masnVars, ackVars,
           beatVars
  <1>3. LinkTypes'
    BY <1>0, SendingR, Queues, SomePackets DEF LinkTypes, Send, ackVars, linkVars
  <1>4. ReceiverTypes'
    BY <1>0 DEF ReceiverTypes, Send, rVars, dataVars
  <1>5. PlacesInv'
    <2>1. message \in Nat /\ message' \in 1 .. Len(Messages) /\ segment' = 0
      BY <1>0, ChannelAssumption DEF AppTypes, Send
    <2>2. 0 < Messages[message'] /\ message' > 0
      BY <2>1, ChannelAssumption
    <2>3. opens = 1
      BY <1>0 DEF Send, PlacesInv
    <2>4. QED BY <1>0, <2>1, <2>2, <2>3
                 DEF PlacesInv, Live, Send, windowVars, ackVars, beatVars, rVars
  <1>6. QED BY <1>1, <1>2, <1>3, <1>4, <1>5 DEF StateInv

\* Close.
LEMMA CloseKeepsState ==
    ASSUME PlainChannel, StateInv, Close
    PROVE  StateInv'
  <1>0. /\ AppTypes /\ WindowTypes /\ LinkTypes /\ ReceiverTypes /\ PlacesInv
        /\ M \in Nat /\ K \in Nat /\ 2 <= K /\ 0 \in SN /\ 1 \in SN /\ MaxRetries \in Nat
    BY WindowAssumption, ChannelAssumption DEF StateInv, SN
  <1>1. AppTypes'
    BY <1>0, ChannelAssumption
       DEF AppTypes, PlacesInv, Close, Malfunction, appVars, windowVars, masnVars, ackVars,
           beatVars, PlainChannel
  <1>2. WindowTypes'
    <2>1. Packet("Close", 0) \in Packets
      BY SomePackets
    <2> HIDE DEF Packets
    <2>2. slots' \in [SN -> Packets \cup {NoPacket}]
      BY <1>0, <2>1 DEF WindowTypes, Close
    <2>3. QED BY <1>0, <2>2 DEF WindowTypes, Close, masnVars
  <1>3. LinkTypes'
    BY <1>0, SendingR, Queues, SomePackets DEF LinkTypes, Close, Malfunction, ackVars, linkVars
  <1>4. ReceiverTypes'
    BY <1>0 DEF ReceiverTypes, Close, rVars, dataVars
  <1>5. PlacesInv'
    BY <1>0, SomePackets, ChannelAssumption
       DEF PlacesInv, Before, Live, AppTypes, WindowTypes, PlainChannel, Close, Malfunction,
           appVars, windowVars, masnVars, ackVars, beatVars, rVars, dataVars, linkVars
  <1>6. QED BY <1>1, <1>2, <1>3, <1>4, <1>5 DEF StateInv

\* CloseClosedChannel.
LEMMA CloseClosedChannelKeepsState ==
    ASSUME PlainChannel, StateInv, CloseClosedChannel
    PROVE  StateInv'
  <1>0. /\ AppTypes /\ WindowTypes /\ LinkTypes /\ ReceiverTypes /\ PlacesInv
        /\ M \in Nat /\ K \in Nat /\ 2 <= K /\ 0 \in SN /\ 1 \in SN /\ MaxRetries \in Nat
    BY WindowAssumption, ChannelAssumption DEF StateInv, SN
  <1>1. AppTypes'
    BY <1>0, ChannelAssumption
       DEF AppTypes, PlacesInv, CloseClosedChannel, InitialiseSlidingWindow, appVars, windowVars,
           masnVars, ackVars, beatVars, PlainChannel
  <1>2. WindowTypes'
    BY <1>0, SomePackets, WrapIn
       DEF WindowTypes, AppTypes, PlacesInv, CloseClosedChannel, InitialiseSlidingWindow,
           appVars, windowVars, masnVars, ackVars, beatVars
  <1>3. LinkTypes'
    BY <1>0, SendingR, Queues, SomePackets
       DEF LinkTypes, CloseClosedChannel, InitialiseSlidingWindow, ackVars, linkVars
  <1>4. ReceiverTypes'
    BY <1>0 DEF ReceiverTypes, CloseClosedChannel, InitialiseSlidingWindow, rVars, dataVars
  <1>5. PlacesInv'
    BY <1>0, SomePackets, ChannelAssumption
       DEF PlacesInv, Before, Live, AppTypes, WindowTypes, PlainChannel, CloseClosedChannel,
           InitialiseSlidingWindow, appVars, windowVars, masnVars, ackVars, beatVars, rVars,
           dataVars, linkVars
  <1>6. QED BY <1>1, <1>2, <1>3, <1>4, <1>5 DEF StateInv

\* SendOpenCommand.
LEMMA SendOpenCommandKeepsState ==
    ASSUME PlainChannel, StateInv, SendOpenCommand
    PROVE  StateInv'
  <1>0. /\ AppTypes /\ WindowTypes /\ LinkTypes /\ ReceiverTypes /\ PlacesInv
        /\ M \in Nat /\ K \in Nat /\ 2 <= K /\ 0 \in SN /\ 1 \in SN /\ MaxRetries \in Nat
    BY WindowAssumption, ChannelAssumption DEF StateInv, SN
  <1>1. AppTypes'
    BY <1>0, ChannelAssumption
       DEF AppTypes, PlacesInv, SendOpenCommand, appVars, windowVars, masnVars, ackVars,
           beatVars, PlainChannel
  <1>2. WindowTypes'
    BY <1>0, SomePackets, WrapIn
       DEF WindowTypes, AppTypes, PlacesInv, SendOpenCommand, appVars, windowVars, masnVars,
           ackVars, beatVars
  <1>3. LinkTypes'
    <2>1. slots[0] \in Packets
      BY <1>0 DEF PlacesInv, Live, SendOpenCommand, WindowTypes
    <2>2. toR' \in Seq(Packets) /\ losses' \in 0 .. MaxLosses
      BY <1>0, <2>1, SendingR DEF SendOpenCommand
    <2>3. QED BY <1>0, <2>2 DEF LinkTypes, SendOpenCommand, ackVars
  <1>4. ReceiverTypes'
    BY <1>0 DEF ReceiverTypes, SendOpenCommand, rVars, dataVars
  <1>5. PlacesInv'
    BY <1>0, SomePackets, ChannelAssumption
       DEF PlacesInv, Before, Live, AppTypes, WindowTypes, PlainChannel, SendOpenCommand,
           appVars, windowVars, masnVars, ackVars, beatVars, rVars, dataVars, linkVars
  <1>6. QED BY <1>1, <1>2, <1>3, <1>4, <1>5 DEF StateInv

\* OpenWaitEnds.
LEMMA OpenWaitEndsKeepsState ==
    ASSUME PlainChannel, StateInv, OpenWaitEnds
    PROVE  StateInv'
  <1>0. /\ AppTypes /\ WindowTypes /\ LinkTypes /\ ReceiverTypes /\ PlacesInv
        /\ M \in Nat /\ K \in Nat /\ 2 <= K /\ 0 \in SN /\ 1 \in SN /\ MaxRetries \in Nat
    BY WindowAssumption, ChannelAssumption DEF StateInv, SN
  <1>1. AppTypes'
    BY <1>0, ChannelAssumption
       DEF AppTypes, PlacesInv, OpenWaitEnds, appVars, windowVars, masnVars, ackVars, beatVars,
           PlainChannel
  <1>2. WindowTypes'
    BY <1>0, SomePackets, WrapIn
       DEF WindowTypes, AppTypes, PlacesInv, OpenWaitEnds, appVars, windowVars, masnVars,
           ackVars, beatVars
  <1>3. LinkTypes'
    BY <1>0, SendingR, Queues, SomePackets DEF LinkTypes, OpenWaitEnds, ackVars, linkVars
  <1>4. ReceiverTypes'
    BY <1>0 DEF ReceiverTypes, OpenWaitEnds, rVars, dataVars
  <1>5. PlacesInv'
    BY <1>0, SomePackets, ChannelAssumption
       DEF PlacesInv, Before, Live, AppTypes, WindowTypes, PlainChannel, OpenWaitEnds, appVars,
           windowVars, masnVars, ackVars, beatVars, rVars, dataVars, linkVars
  <1>6. QED BY <1>1, <1>2, <1>3, <1>4, <1>5 DEF StateInv

\* SendSegment.
LEMMA SendSegmentKeepsState ==
    ASSUME PlainChannel, StateInv, SendSegment
    PROVE  StateInv'
  <1>0. /\ AppTypes /\ WindowTypes /\ LinkTypes /\ ReceiverTypes /\ PlacesInv
        /\ M \in Nat /\ K \in Nat /\ 2 <= K /\ 0 \in SN /\ 1 \in SN /\ MaxRetries \in Nat
    BY WindowAssumption, ChannelAssumption DEF StateInv, SN
  <1>a. /\ message \in 1 .. Len(Messages) /\ segment \in Nat /\ segment < Messages[message]
        /\ Messages[message] \in Nat /\ tstate = "Open" /\ sn \in SN
    BY <1>0, ChannelAssumption DEF AppTypes, WindowTypes, PlacesInv, SendSegment
  <1>b. DataPacket(sn, message, segment + 1) \in Packets
    BY <1>a, SomePackets
  <1>1. AppTypes'
    BY SMTT(30), <1>0, ChannelAssumption
       DEF AppTypes, PlacesInv, SendSegment, Malfunction, appVars, windowVars, masnVars, ackVars,
           beatVars, PlainChannel
  <1>2. WindowTypes'
    <2>1. slots' \in [SN -> Packets \cup {NoPacket}]
      BY <1>0, <1>b DEF WindowTypes, SendSegment
    <2>2. Wrap(sn + 1) \in SN
      <3>1. sn + 1 \in Int
        BY <1>a DEF SN
      <3>2. QED BY <3>1, WrapIn
    <2>3. sn' \in SN /\ masnLapped' \in BOOLEAN
      BY <1>0, <2>2 DEF WindowTypes, SendSegment
    <2>4. QED BY <1>0, <2>1, <2>3 DEF WindowTypes, SendSegment
  <1>3. LinkTypes'
    <2>1. toR' \in Seq(Packets) /\ losses' \in 0 .. MaxLosses
      BY <1>0, <1>b, SendingR DEF LinkTypes, SendSegment
    <2>2. QED BY <1>0, <2>1 DEF LinkTypes, SendSegment, ackVars
  <1>4. ReceiverTypes'
    BY <1>0 DEF ReceiverTypes, SendSegment, rVars, dataVars
  <1>5. PlacesInv'
    <2>1. DataPacket(sn, message, segment + 1) # NoPacket
      BY <1>b, SomePackets
    <2>2. \A n \in SN : slots'[n] # NoPacket
      BY <1>0, <1>a, <2>1 DEF PlacesInv, Live, WindowTypes, SendSegment
    <2>3. segment' > 0 /\ opens = 1
      BY <1>0, <1>a DEF PlacesInv, SendSegment
    <2>4. \/ tpc' = "segmentSent" /\ tstate' = "Open"
          \/ tpc' = "crashed" /\ tstate' = "Closed"
      BY <1>a DEF SendSegment, Malfunction
    <2>5. QED BY <1>0, <1>a, <2>2, <2>3, <2>4 DEF PlacesInv, Live, SendSegment, beatVars, rVars
  <1>6. QED BY <1>1, <1>2, <1>3, <1>4, <1>5 DEF StateInv

\* MarkSent.
LEMMA MarkSentKeepsState ==
    ASSUME PlainChannel, StateInv, MarkSent
    PROVE  StateInv'
  <1>0. /\ AppTypes /\ WindowTypes /\ LinkTypes /\ ReceiverTypes /\ PlacesInv
        /\ M \in Nat /\ K \in Nat /\ 2 <= K /\ 0 \in SN /\ 1 \in SN /\ MaxRetries \in Nat
    BY WindowAssumption, ChannelAssumption DEF StateInv, SN
  <1>1. AppTypes'
    BY <1>0, ChannelAssumption
       DEF AppTypes, PlacesInv, MarkSent, Marking, appVars, windowVars, masnVars, ackVars,
           beatVars, PlainChannel
  <1>2. WindowTypes'
    BY <1>0, SomePackets, WrapIn
       DEF WindowTypes, AppTypes, PlacesInv, MarkSent, Marking, appVars, windowVars, masnVars,
           ackVars, beatVars
  <1>3. LinkTypes'
    BY <1>0, SendingR, Queues, SomePackets DEF LinkTypes, MarkSent, Marking, ackVars, linkVars
  <1>4. ReceiverTypes'
    BY <1>0 DEF ReceiverTypes, MarkSent, rVars, dataVars
  <1>5. PlacesInv'
    <2>1. tpc \in {"openSent", "closeSent", "segmentSent"}
      BY DEF MarkSent, Marking
    <2>2. opens # 0
      BY <1>0, <2>1 DEF PlacesInv, Before
    <2>3. CASE tpc = "openSent"
      BY <1>0, <2>2, <2>3 DEF PlacesInv, Live, MarkSent, beatVars, rVars
    <2>4. CASE tpc = "closeSent"
      BY <1>0, <2>2, <2>4 DEF PlacesInv, Live, MarkSent, beatVars, rVars
    <2>5. CASE tpc = "segmentSent"
      <3>1. segment \in Nat /\ message \in 1 .. Len(Messages) /\ Messages[message] \in Nat
            /\ segment <= Messages[message]
        BY <1>0, <2>5, ChannelAssumption DEF PlacesInv, AppTypes
      <3>2. \/ tpc' = "waiting" /\ segment = Messages[message]
            \/ tpc' = "sending" /\ segment < Messages[message]
        <4>1. tpc' = IF segment = Messages[message] THEN "waiting" ELSE "sending"
          BY <2>5 DEF MarkSent
        <4>2. QED BY <3>1, <4>1
      <3>3. QED BY <1>0, <2>2, <2>5, <3>1, <3>2 DEF PlacesInv, Live, MarkSent, beatVars, rVars
    <2>6. QED BY <2>1, <2>3, <2>4, <2>5
  <1>6. QED BY <1>1, <1>2, <1>3, <1>4, <1>5 DEF StateInv

\* SendTimesOut.
LEMMA SendTimesOutKeepsState ==
    ASSUME PlainChannel, StateInv, SendTimesOut
    PROVE  StateInv'
  <1>0. /\ AppTypes /\ WindowTypes /\ LinkTypes /\ ReceiverTypes /\ PlacesInv
        /\ M \in Nat /\ K \in Nat /\ 2 <= K /\ 0 \in SN /\ 1 \in SN /\ MaxRetries \in Nat
    BY WindowAssumption, ChannelAssumption DEF StateInv, SN
  <1>1. AppTypes'
    BY <1>0, ChannelAssumption
       DEF AppTypes, PlacesInv, SendTimesOut, Malfunction, appVars, windowVars, masnVars,
           ackVars, beatVars, PlainChannel
  <1>2. WindowTypes'
    BY <1>0, SomePackets, WrapIn
       DEF WindowTypes, AppTypes, PlacesInv, SendTimesOut, Malfunction, appVars, windowVars,
           masnVars, ackVars, beatVars
  <1>3. LinkTypes'
    BY <1>0, SendingR, Queues, SomePackets
       DEF LinkTypes, SendTimesOut, Malfunction, ackVars, linkVars
  <1>4. ReceiverTypes'
    BY <1>0 DEF ReceiverTypes, SendTimesOut, rVars, dataVars
  <1>5. PlacesInv'
    BY <1>0, SomePackets, ChannelAssumption
       DEF PlacesInv, Before, Live, AppTypes, WindowTypes, PlainChannel, SendTimesOut,
           Malfunction, appVars, windowVars, masnVars, ackVars, beatVars, rVars, dataVars,
           linkVars
  <1>6. QED BY <1>1, <1>2, <1>3, <1>4, <1>5 DEF StateInv

\* SendReturns.
LEMMA SendReturnsKeepsState ==
    ASSUME PlainChannel, StateInv, SendReturns
    PROVE  StateInv'
  <1>0. /\ AppTypes /\ WindowTypes /\ LinkTypes /\ ReceiverTypes /\ PlacesInv
        /\ M \in Nat /\ K \in Nat /\ 2 <= K /\ 0 \in SN /\ 1 \in SN /\ MaxRetries \in Nat
    BY WindowAssumption, ChannelAssumption DEF StateInv, SN
  <1>1. AppTypes'
    BY <1>0, ChannelAssumption
       DEF AppTypes, PlacesInv, SendReturns, appVars, windowVars, masnVars, ackVars, beatVars,
           PlainChannel
  <1>2. WindowTypes'
    BY <1>0, SomePackets, WrapIn
       DEF WindowTypes, AppTypes, PlacesInv, SendReturns, appVars, windowVars, masnVars, ackVars,
           beatVars
  <1>3. LinkTypes'
    BY <1>0, SendingR, Queues, SomePackets DEF LinkTypes, SendReturns, ackVars, linkVars
  <1>4. ReceiverTypes'
    BY <1>0 DEF ReceiverTypes, SendReturns, rVars, dataVars
  <1>5. PlacesInv'
    BY <1>0, SomePackets, ChannelAssumption
       DEF PlacesInv, Before, Live, AppTypes, WindowTypes, PlainChannel, SendReturns, appVars,
           windowVars, masnVars, ackVars, beatVars, rVars, dataVars, linkVars
  <1>6. QED BY <1>1, <1>2, <1>3, <1>4, <1>5 DEF StateInv

\* Retry.
LEMMA RetryKeepsState ==
    ASSUME PlainChannel, StateInv, NEW n \in SN, Retry(n)
    PROVE  StateInv'
  <1>0. /\ AppTypes /\ WindowTypes /\ LinkTypes /\ ReceiverTypes /\ PlacesInv
        /\ M \in Nat /\ K \in Nat /\ 2 <= K /\ 0 \in SN /\ 1 \in SN /\ MaxRetries \in Nat
    BY WindowAssumption, ChannelAssumption DEF StateInv, SN
  <1>1. AppTypes'
    <2>1. retries' \in [SN -> Nat]
      BY <1>0 DEF AppTypes, Retry
    <2>2. QED BY <1>0, <2>1 DEF AppTypes, Retry, Malfunction, ackVars, beatVars
  <1>2. WindowTypes'
    BY <1>0, SomePackets, WrapIn
       DEF WindowTypes, AppTypes, PlacesInv, Retry, Malfunction, appVars, windowVars, masnVars,
           ackVars, beatVars
  <1>3. LinkTypes'
    <2>1. slots[n] \in Packets
      BY <1>0 DEF PlacesInv, Live, Retry, WindowTypes
    <2>2. [slots[n] EXCEPT !.sn = n] \in Packets
      BY <2>1, SomePackets
    <2>3. toR' \in Seq(Packets) /\ losses' \in 0 .. MaxLosses
      BY <1>0, <2>2, SendingR DEF LinkTypes, Retry
    <2>4. QED BY <1>0, <2>3 DEF LinkTypes, Retry, ackVars
  <1>4. ReceiverTypes'
    BY <1>0 DEF ReceiverTypes, Retry, rVars, dataVars
  <1>5. PlacesInv'
    BY <1>0, SomePackets, ChannelAssumption
       DEF PlacesInv, Before, Live, AppTypes, WindowTypes, PlainChannel, Retry, Malfunction,
           appVars, windowVars, masnVars, ackVars, beatVars, rVars, dataVars, linkVars
  <1>6. QED BY <1>1, <1>2, <1>3, <1>4, <1>5 DEF StateInv

\* SendCloseCommand.
LEMMA SendCloseCommandKeepsState ==
    ASSUME PlainChannel, StateInv, SendCloseCommand
    PROVE  StateInv'
  <1>0. /\ AppTypes /\ WindowTypes /\ LinkTypes /\ ReceiverTypes /\ PlacesInv
        /\ M \in Nat /\ K \in Nat /\ 2 <= K /\ 0 \in SN /\ 1 \in SN /\ MaxRetries \in Nat
    BY WindowAssumption, ChannelAssumption DEF StateInv, SN
  <1>1. AppTypes'
    BY <1>0, ChannelAssumption
       DEF AppTypes, PlacesInv, SendCloseCommand, appVars, windowVars, masnVars, ackVars,
           beatVars, PlainChannel
  <1>2. WindowTypes'
    BY <1>0, SomePackets, WrapIn
       DEF WindowTypes, AppTypes, PlacesInv, SendCloseCommand, appVars, windowVars, masnVars,
           ackVars, beatVars
  <1>3. LinkTypes'
    BY <1>0, SendingR, Queues, SomePackets DEF LinkTypes, SendCloseCommand, ackVars, linkVars
  <1>4. ReceiverTypes'
    BY <1>0 DEF ReceiverTypes, SendCloseCommand, rVars, dataVars
  <1>5. PlacesInv'
    BY <1>0, SomePackets, ChannelAssumption
       DEF PlacesInv, Before, Live, AppTypes, WindowTypes, PlainChannel, SendCloseCommand,
           appVars, windowVars, masnVars, ackVars, beatVars, rVars, dataVars, linkVars
  <1>6. QED BY <1>1, <1>2, <1>3, <1>4, <1>5 DEF StateInv

\* CloseWaitEnds.
LEMMA CloseWaitEndsKeepsState ==
    ASSUME PlainChannel, StateInv, CloseWaitEnds
    PROVE  StateInv'
  <1>0. /\ AppTypes /\ WindowTypes /\ LinkTypes /\ ReceiverTypes /\ PlacesInv
        /\ M \in Nat /\ K \in Nat /\ 2 <= K /\ 0 \in SN /\ 1 \in SN /\ MaxRetries \in Nat
    BY WindowAssumption, ChannelAssumption DEF StateInv, SN
  <1>1. AppTypes'
    BY <1>0, ChannelAssumption
       DEF AppTypes, PlacesInv, CloseWaitEnds, appVars, windowVars, masnVars, ackVars, beatVars,
           PlainChannel
  <1>2. WindowTypes'
    BY <1>0, SomePackets, WrapIn
       DEF WindowTypes, AppTypes, PlacesInv, CloseWaitEnds, appVars, windowVars, masnVars,
           ackVars, beatVars
  <1>3. LinkTypes'
    BY <1>0, SendingR, Queues, SomePackets DEF LinkTypes, CloseWaitEnds, ackVars, linkVars
  <1>4. ReceiverTypes'
    BY <1>0 DEF ReceiverTypes, CloseWaitEnds, rVars, dataVars
  <1>5. PlacesInv'
    BY <1>0, SomePackets, ChannelAssumption
       DEF PlacesInv, Before, Live, AppTypes, WindowTypes, PlainChannel, CloseWaitEnds, appVars,
           windowVars, masnVars, ackVars, beatVars, rVars, dataVars, linkVars
  <1>6. QED BY <1>1, <1>2, <1>3, <1>4, <1>5 DEF StateInv

\* CloseReturns.
LEMMA CloseReturnsKeepsState ==
    ASSUME PlainChannel, StateInv, CloseReturns
    PROVE  StateInv'
  <1>0. /\ AppTypes /\ WindowTypes /\ LinkTypes /\ ReceiverTypes /\ PlacesInv
        /\ M \in Nat /\ K \in Nat /\ 2 <= K /\ 0 \in SN /\ 1 \in SN /\ MaxRetries \in Nat
    BY WindowAssumption, ChannelAssumption DEF StateInv, SN
  <1>1. AppTypes'
    BY <1>0, ChannelAssumption
       DEF AppTypes, PlacesInv, CloseReturns, InitialiseSlidingWindow, appVars, windowVars,
           masnVars, ackVars, beatVars, PlainChannel
  <1>2. WindowTypes'
    BY <1>0, SomePackets, WrapIn
       DEF WindowTypes, AppTypes, PlacesInv, CloseReturns, InitialiseSlidingWindow, appVars,
           windowVars, masnVars, ackVars, beatVars
  <1>3. LinkTypes'
    BY <1>0, SendingR, Queues, SomePackets
       DEF LinkTypes, CloseReturns, InitialiseSlidingWindow, ackVars, linkVars
  <1>4. ReceiverTypes'
    BY <1>0 DEF ReceiverTypes, CloseReturns, InitialiseSlidingWindow, rVars, dataVars
  <1>5. PlacesInv'
    BY <1>0, SomePackets, ChannelAssumption
       DEF PlacesInv, Before, Live, AppTypes, WindowTypes, PlainChannel, CloseReturns,
           InitialiseSlidingWindow, appVars, windowVars, masnVars, ackVars, beatVars, rVars,
           dataVars, linkVars
  <1>6. QED BY <1>1, <1>2, <1>3, <1>4, <1>5 DEF StateInv

\* TakeAck.
LEMMA TakeAckKeepsState ==
    ASSUME PlainChannel, StateInv, TakeAck
    PROVE  StateInv'
  <1>0. /\ AppTypes /\ WindowTypes /\ LinkTypes /\ ReceiverTypes /\ PlacesInv
        /\ M \in Nat /\ K \in Nat /\ 2 <= K /\ 0 \in SN /\ 1 \in SN /\ MaxRetries \in Nat
    BY WindowAssumption, ChannelAssumption DEF StateInv, SN
  <1>1. AppTypes'
    BY <1>0, ChannelAssumption
       DEF AppTypes, PlacesInv, TakeAck, DecrementNOfOutstandingPackets, Malfunction, appVars,
           windowVars, masnVars, ackVars, beatVars, PlainChannel
  <1>2. WindowTypes'
    BY <1>0, SomePackets, WrapIn
       DEF WindowTypes, AppTypes, PlacesInv, TakeAck, DecrementNOfOutstandingPackets,
           Malfunction, appVars, windowVars, masnVars, ackVars, beatVars
  <1>3. LinkTypes'
    BY <1>0, SendingR, Queues, SomePackets
       DEF LinkTypes, TakeAck, DecrementNOfOutstandingPackets, Malfunction, ackVars, linkVars
  <1>4. ReceiverTypes'
    BY <1>0 DEF ReceiverTypes, TakeAck, rVars, dataVars
  <1>5. PlacesInv'
    BY <1>0, SomePackets, ChannelAssumption
       DEF PlacesInv, Before, Live, AppTypes, WindowTypes, PlainChannel, TakeAck,
           DecrementNOfOutstandingPackets, Malfunction, appVars, windowVars, masnVars, ackVars,
           beatVars, rVars, dataVars, linkVars
  <1>6. QED BY <1>1, <1>2, <1>3, <1>4, <1>5 DEF StateInv

\* FinishAck.
LEMMA FinishAckKeepsState ==
    ASSUME PlainChannel, StateInv, FinishAck
    PROVE  StateInv'
  <1>0. /\ AppTypes /\ WindowTypes /\ LinkTypes /\ ReceiverTypes /\ PlacesInv
        /\ M \in Nat /\ K \in Nat /\ 2 <= K /\ 0 \in SN /\ 1 \in SN /\ MaxRetries \in Nat
    BY WindowAssumption, ChannelAssumption DEF StateInv, SN
  <1>1. AppTypes'
    <2>1. UNCHANGED <<message, segment, opens, outstanding, beats, beatDue>>
      BY DEF FinishAck, beatVars
    <2>2. tpc' \in {tpc, "crashed"} /\ tstate' \in {tstate, "Closed"}
      BY DEF FinishAck, Malfunction
    <2>3. openAcked' \in BOOLEAN /\ closeAcked' \in BOOLEAN /\ consuming' \in BOOLEAN
      BY <1>0 DEF FinishAck, AppTypes
    <2>4. retries' \in [SN -> Nat]
      <3>1. CASE SlideSlidingWindow
        BY <1>0, <3>1 DEF SlideSlidingWindow, AppTypes
      <3>2. CASE retries' = retries
        BY <1>0, <3>2 DEF AppTypes
      <3>3. QED BY <3>1, <3>2 DEF FinishAck
    <2>5. QED BY ONLY <1>0, <2>1, <2>2, <2>3, <2>4 DEF AppTypes
  <1>2. WindowTypes'
    <2>1. RunLength(from, {n \in SN : sent[n] /\ acked[n]}) \in 0 .. M
      BY RunLengthIn
    <2>2. from \in Nat /\ ackInHand \in Acks
      BY <1>0 DEF WindowTypes, LinkTypes, FinishAck, SN
    <2>3. from' \in SN /\ sent' \in [SN -> BOOLEAN] /\ acked' \in [SN -> BOOLEAN]
      <3>1. CASE SlideSlidingWindow
        <4>1. from + RunLength(from, {n \in SN : sent[n] /\ acked[n]}) \in Int
          BY <2>1, <2>2
        <4>2. Wrap(from + RunLength(from, {n \in SN : sent[n] /\ acked[n]})) \in SN
          BY <4>1, WrapIn
        <4> HIDE DEF RunLength, Numbers, Wrap
        <4>3. QED BY <1>0, <3>1, <4>2 DEF SlideSlidingWindow, WindowTypes
      <3>2. CASE UNCHANGED <<sent, acked, from>>
        BY <1>0, <3>2 DEF WindowTypes
      <3>3. QED BY <3>1, <3>2 DEF FinishAck
    <2>4. masn' \in SN /\ masnLapped' \in BOOLEAN
      BY <1>0, <2>2
         DEF FinishAck, WindowTypes, UpdateMaximumAcceptableSequenceNumber, masnVars, Acks
    <2>5. QED BY <1>0, <2>3, <2>4 DEF FinishAck, WindowTypes
  <1>3. LinkTypes'
    BY <1>0, SendingR, Queues, SomePackets
       DEF LinkTypes, FinishAck, Malfunction, UpdateMaximumAcceptableSequenceNumber,
           SlideSlidingWindow, ackVars, linkVars
  <1>4. ReceiverTypes'
    BY <1>0 DEF ReceiverTypes, FinishAck, rVars, dataVars
  <1>5. PlacesInv'
    BY <1>0, SomePackets, ChannelAssumption
       DEF PlacesInv, Before, Live, AppTypes, WindowTypes, PlainChannel, FinishAck, Malfunction,
           UpdateMaximumAcceptableSequenceNumber, SlideSlidingWindow, appVars, windowVars,
           masnVars, ackVars, beatVars, rVars, dataVars, linkVars
  <1>6. QED BY <1>1, <1>2, <1>3, <1>4, <1>5 DEF StateInv

\* TransmitterDiscards.
LEMMA TransmitterDiscardsKeepsState ==
    ASSUME PlainChannel, StateInv, TransmitterDiscards
    PROVE  StateInv'
  <1>0. /\ AppTypes /\ WindowTypes /\ LinkTypes /\ ReceiverTypes /\ PlacesInv
        /\ M \in Nat /\ K \in Nat /\ 2 <= K /\ 0 \in SN /\ 1 \in SN /\ MaxRetries \in Nat
    BY WindowAssumption, ChannelAssumption DEF StateInv, SN
  <1>1. AppTypes'
    BY <1>0, ChannelAssumption
       DEF AppTypes, PlacesInv, TransmitterDiscards, tVars, appVars, windowVars, masnVars,
           ackVars, beatVars, PlainChannel
  <1>2. WindowTypes'
    BY <1>0, SomePackets, WrapIn
       DEF WindowTypes, AppTypes, PlacesInv, TransmitterDiscards, tVars, appVars, windowVars,
           masnVars, ackVars, beatVars
  <1>3. LinkTypes'
    BY <1>0, Queues DEF LinkTypes, TransmitterDiscards, tVars, ackVars, linkVars
  <1>4. ReceiverTypes'
    BY <1>0 DEF ReceiverTypes, TransmitterDiscards, rVars, dataVars
  <1>5. PlacesInv'
    BY <1>0, SomePackets, ChannelAssumption
       DEF PlacesInv, Before, Live, AppTypes, WindowTypes, PlainChannel, TransmitterDiscards,
           tVars, appVars, windowVars, masnVars, ackVars, beatVars, rVars, dataVars, linkVars
  <1>6. QED BY <1>1, <1>2, <1>3, <1>4, <1>5 DEF StateInv

-----------------------------------------------------------------------------
(* So do those of the receiver.                                            *)

\* The types after the receive window has slid.
LEMMA SlidingState ==
    ASSUME NEW buffer \in [SN -> Packets \cup {NoPacket}], NEW state, ReceiverTypes,
           SlideReceiveSlidingWindow(buffer, state)
    PROVE  /\ rbuffer' \in [SN -> Packets \cup {NoPacket}]
           /\ rfrom' \in SN
           /\ hasReceivedDataPacket' \in BOOLEAN
           /\ rstate' = state \/ rstate' = "Closing"
  <1> DEFINE k == RunLength(rfrom, {n \in SN : buffer[n] # NoPacket})
  <1>1. k \in 0 .. M
    BY RunLengthIn
  <1>2. /\ rbuffer' = [n \in SN |-> IF n \in Numbers(rfrom, k) THEN NoPacket ELSE buffer[n]]
        /\ rfrom' = Wrap(rfrom + k)
        /\ hasReceivedDataPacket' =
             (hasReceivedDataPacket \/ \E n \in Numbers(rfrom, k) : buffer[n].type = "Data")
        /\ rstate' = state \/ rstate' = "Closing"
    BY DEF SlideReceiveSlidingWindow
  <1> HIDE DEF k
  <1>3. rfrom + k \in Int
    BY <1>1 DEF ReceiverTypes, SN
  <1>4. rfrom' \in SN
    BY <1>2, <1>3, WrapIn
  <1>5. QED BY <1>2, <1>4 DEF ReceiverTypes

\* No heart beat becomes due.
LEMMA HeartsDoNotBeat ==
    ASSUME PlainChannel, StateInv
    PROVE  ~HeartBeatDue /\ ~EmitHeartBeat
  BY DEF PlainChannel, StateInv, PlacesInv, HeartBeatDue, EmitHeartBeat

\* ReceiverOpen.
LEMMA ReceiverOpenKeepsState ==
    ASSUME StateInv, ReceiverOpen
    PROVE  StateInv'
  <1>0. /\ AppTypes /\ WindowTypes /\ LinkTypes /\ ReceiverTypes /\ PlacesInv /\ 0 \in SN
    BY WindowAssumption DEF StateInv, SN
  <1>1. AppTypes'
    BY <1>0 DEF AppTypes, ReceiverOpen, tVars, appVars, windowVars, masnVars, ackVars, beatVars
  <1>2. WindowTypes'
    BY <1>0 DEF WindowTypes, ReceiverOpen, tVars, appVars, windowVars, masnVars, ackVars, beatVars
  <1>3. LinkTypes'
    BY <1>0
       DEF LinkTypes, ReceiverOpen, tVars, appVars, windowVars, masnVars, ackVars, beatVars,
           linkVars
  <1>4. ReceiverTypes'
    BY <1>0 DEF ReceiverTypes, ReceiverOpen, rVars, dataVars
  <1>5. PlacesInv'
    BY <1>0
       DEF PlacesInv, Before, Live, ReceiverOpen, tVars, appVars, windowVars, masnVars, ackVars,
           beatVars, rVars, dataVars, linkVars
  <1>6. QED BY <1>1, <1>2, <1>3, <1>4, <1>5 DEF StateInv

\* Receive.
LEMMA ReceiveKeepsState ==
    ASSUME StateInv, Receive
    PROVE  StateInv'
  <1>0. /\ AppTypes /\ WindowTypes /\ LinkTypes /\ ReceiverTypes /\ PlacesInv /\ 0 \in SN
    BY WindowAssumption DEF StateInv, SN
  <1>1. AppTypes'
    BY <1>0 DEF AppTypes, Receive, tVars, appVars, windowVars, masnVars, ackVars, beatVars
  <1>2. WindowTypes'
    BY <1>0 DEF WindowTypes, Receive, tVars, appVars, windowVars, masnVars, ackVars, beatVars
  <1>3. LinkTypes'
    BY <1>0
       DEF LinkTypes, Receive, tVars, appVars, windowVars, masnVars, ackVars, beatVars, linkVars
  <1>4. ReceiverTypes'
    BY <1>0 DEF ReceiverTypes, Receive, rVars, dataVars
  <1>5. PlacesInv'
    BY <1>0
       DEF PlacesInv, Before, Live, Receive, tVars, appVars, windowVars, masnVars, ackVars,
           beatVars, rVars, dataVars, linkVars
  <1>6. QED BY <1>1, <1>2, <1>3, <1>4, <1>5 DEF StateInv

\* ReceiverDiscards.
LEMMA ReceiverDiscardsKeepsState ==
    ASSUME StateInv, ReceiverDiscards
    PROVE  StateInv'
  <1>0. /\ AppTypes /\ WindowTypes /\ LinkTypes /\ ReceiverTypes /\ PlacesInv /\ 0 \in SN
    BY WindowAssumption DEF StateInv, SN
  <1>1. AppTypes'
    BY <1>0
       DEF AppTypes, ReceiverDiscards, tVars, appVars, windowVars, masnVars, ackVars, beatVars
  <1>2. WindowTypes'
    BY <1>0
       DEF WindowTypes, ReceiverDiscards, tVars, appVars, windowVars, masnVars, ackVars,
           beatVars
  <1>a. toR # <<>> /\ Head(toR) \in Packets /\ Tail(toR) \in Seq(Packets) /\ opens # 0
    BY <1>0, Queues DEF ReceiverDiscards, PlacesInv, Before, ReceiverTypes
  <1>3. LinkTypes'
    <2> HIDE DEF Packets, Acks
    <2>1. QED BY <1>0, <1>a
                 DEF LinkTypes, ReceiverDiscards, tVars, appVars, windowVars, masnVars, ackVars,
                     beatVars
  <1>4. ReceiverTypes'
    BY <1>0 DEF ReceiverTypes, ReceiverDiscards, rVars, dataVars
  <1>5. PlacesInv'
    BY <1>0, <1>a
       DEF PlacesInv, Before, Live, ReceiverDiscards, tVars, appVars, windowVars, masnVars,
           ackVars, beatVars, rVars, dataVars, linkVars
  <1>6. QED BY <1>1, <1>2, <1>3, <1>4, <1>5 DEF StateInv

\* ReceiveData.
LEMMA ReceiveDataKeepsState ==
    ASSUME StateInv, ReceiveData
    PROVE  StateInv'
  <1>0. /\ AppTypes /\ WindowTypes /\ LinkTypes /\ ReceiverTypes /\ PlacesInv /\ 0 \in SN
    BY WindowAssumption DEF StateInv, SN
  <1>1. AppTypes'
    BY <1>0
       DEF AppTypes, ReceiveData, Consume, tVars, appVars, windowVars, masnVars, ackVars,
           beatVars
  <1>2. WindowTypes'
    BY <1>0
       DEF WindowTypes, ReceiveData, Consume, tVars, appVars, windowVars, masnVars, ackVars,
           beatVars
  <1>a. /\ toR # <<>> /\ Head(toR) \in Packets /\ Tail(toR) \in Seq(Packets)
        /\ AckFor(Head(toR)) \in Acks /\ opens # 0
    BY <1>0, Queues, SomeAcks DEF ReceiveData, Consume, PlacesInv, Before, ReceiverTypes
  <1>b. ASSUME SendToT(AckFor(Head(toR))) PROVE toT' \in Seq(Acks) /\ losses' \in 0 .. MaxLosses
    BY <1>0, <1>a, <1>b, SendingT
  <1>3. LinkTypes'
    <2> HIDE DEF Packets, Acks
    <2>1. QED BY <1>0, <1>a, <1>b
                 DEF LinkTypes, ReceiveData, Consume, tVars, appVars, windowVars, masnVars,
                     ackVars, beatVars
  <1>4. ReceiverTypes'
    <2> DEFINE p == Head(toR)
               b == [rbuffer EXCEPT ![p.sn] = p]
    <2>1. b \in [SN -> Packets \cup {NoPacket}]
      BY <1>0, <1>a DEF ReceiverTypes
    <2>2. rpc' \in {"consume", "drain", "linger", "stopped"}
      BY <1>0 DEF ReceiverTypes, ReceiveData, Consume
    <2>3. CASE SlideReceiveSlidingWindow(b, rstate)
      <3> HIDE DEF b
      <3>1. QED BY <1>0, <2>1, <2>2, <2>3, SlidingState DEF ReceiverTypes
    <2>4. CASE (rstate' = rstate \/ rstate' = "Closing") /\ UNCHANGED <<rbuffer, rfrom, dataVars>>
      BY <1>0, <2>2, <2>4 DEF ReceiverTypes, dataVars
    <2>5. QED BY <2>3, <2>4 DEF ReceiveData
  <1>5. PlacesInv'
    <2>1. rpc = "consume" /\ rpc' = "consume"
      BY DEF ReceiveData, Consume
    <2>2. QED BY <1>0, <1>a, <2>1
                 DEF PlacesInv, Live, ReceiveData, Consume, tVars, appVars, windowVars, masnVars,
                     ackVars, beatVars
  <1>6. QED BY <1>1, <1>2, <1>3, <1>4, <1>5 DEF StateInv

\* ReceiveOpenCommand.
LEMMA ReceiveOpenCommandKeepsState ==
    ASSUME StateInv, ReceiveOpenCommand
    PROVE  StateInv'
  <1>0. /\ AppTypes /\ WindowTypes /\ LinkTypes /\ ReceiverTypes /\ PlacesInv /\ 0 \in SN
    BY WindowAssumption DEF StateInv, SN
  <1>1. AppTypes'
    BY <1>0
       DEF AppTypes, ReceiveOpenCommand, Consume, tVars, appVars, windowVars, masnVars, ackVars,
           beatVars
  <1>2. WindowTypes'
    BY <1>0
       DEF WindowTypes, ReceiveOpenCommand, Consume, tVars, appVars, windowVars, masnVars,
           ackVars, beatVars
  <1>a. /\ toR # <<>> /\ Head(toR) \in Packets /\ Tail(toR) \in Seq(Packets)
        /\ AckFor(Head(toR)) \in Acks /\ opens # 0
    BY <1>0, Queues, SomeAcks DEF ReceiveOpenCommand, Consume, PlacesInv, Before, ReceiverTypes
  <1>b. ASSUME SendToT(AckFor(Head(toR))) PROVE toT' \in Seq(Acks) /\ losses' \in 0 .. MaxLosses
    BY <1>0, <1>a, <1>b, SendingT
  <1>3. LinkTypes'
    <2> HIDE DEF Packets, Acks
    <2>1. QED BY <1>0, <1>a, <1>b
                 DEF LinkTypes, ReceiveOpenCommand, Consume, tVars, appVars, windowVars,
                     masnVars, ackVars, beatVars
  <1>4. ReceiverTypes'
    <2> DEFINE p == Head(toR)
               b == [rbuffer EXCEPT ![p.sn] = p]
    <2>1. b \in [SN -> Packets \cup {NoPacket}]
      BY <1>0, <1>a DEF ReceiverTypes
    <2>2. rpc' \in {"consume", "drain", "linger", "stopped"}
      BY <1>0 DEF ReceiverTypes, ReceiveOpenCommand, Consume
    <2>3. CASE SlideReceiveSlidingWindow(b, "Open")
      <3> HIDE DEF b
      <3>1. QED BY <1>0, <2>1, <2>2, <2>3, SlidingState DEF ReceiverTypes
    <2>4. CASE (rstate' = rstate \/ rstate' = "Closing") /\ UNCHANGED <<rbuffer, rfrom, dataVars>>
      BY <1>0, <2>2, <2>4 DEF ReceiverTypes, dataVars
    <2>5. QED BY <2>3, <2>4 DEF ReceiveOpenCommand
  <1>5. PlacesInv'
    <2>1. rpc = "consume" /\ rpc' = "consume"
      BY DEF ReceiveOpenCommand, Consume
    <2>2. QED BY <1>0, <1>a, <2>1
                 DEF PlacesInv, Live, ReceiveOpenCommand, Consume, tVars, appVars, windowVars,
                     masnVars, ackVars, beatVars
  <1>6. QED BY <1>1, <1>2, <1>3, <1>4, <1>5 DEF StateInv

\* ReceiveCloseCommand.
LEMMA ReceiveCloseCommandKeepsState ==
    ASSUME StateInv, ReceiveCloseCommand
    PROVE  StateInv'
  <1>0. /\ AppTypes /\ WindowTypes /\ LinkTypes /\ ReceiverTypes /\ PlacesInv /\ 0 \in SN
    BY WindowAssumption DEF StateInv, SN
  <1>1. AppTypes'
    BY <1>0
       DEF AppTypes, ReceiveCloseCommand, Consume, tVars, appVars, windowVars, masnVars, ackVars,
           beatVars
  <1>2. WindowTypes'
    BY <1>0
       DEF WindowTypes, ReceiveCloseCommand, Consume, tVars, appVars, windowVars, masnVars,
           ackVars, beatVars
  <1>a. /\ toR # <<>> /\ Head(toR) \in Packets /\ Tail(toR) \in Seq(Packets)
        /\ AckFor(Head(toR)) \in Acks /\ opens # 0
    BY <1>0, Queues, SomeAcks DEF ReceiveCloseCommand, Consume, PlacesInv, Before, ReceiverTypes
  <1>b. ASSUME SendToT(AckFor(Head(toR))) PROVE toT' \in Seq(Acks) /\ losses' \in 0 .. MaxLosses
    BY <1>0, <1>a, <1>b, SendingT
  <1>3. LinkTypes'
    <2> HIDE DEF Packets, Acks
    <2>1. QED BY <1>0, <1>a, <1>b
                 DEF LinkTypes, ReceiveCloseCommand, Consume, tVars, appVars, windowVars,
                     masnVars, ackVars, beatVars
  <1>4. ReceiverTypes'
    BY <1>0 DEF ReceiverTypes, ReceiveCloseCommand, Consume, rVars, dataVars
  <1>5. PlacesInv'
    BY <1>0, <1>a
       DEF PlacesInv, Before, Live, ReceiveCloseCommand, Consume, tVars, appVars, windowVars,
           masnVars, ackVars, beatVars, rVars, dataVars, linkVars
  <1>6. QED BY <1>1, <1>2, <1>3, <1>4, <1>5 DEF StateInv

\* ReceiveHeartBeat.
LEMMA ReceiveHeartBeatKeepsState ==
    ASSUME StateInv, ReceiveHeartBeat
    PROVE  StateInv'
  <1>0. /\ AppTypes /\ WindowTypes /\ LinkTypes /\ ReceiverTypes /\ PlacesInv /\ 0 \in SN
    BY WindowAssumption DEF StateInv, SN
  <1>1. AppTypes'
    BY <1>0
       DEF AppTypes, ReceiveHeartBeat, Consume, tVars, appVars, windowVars, masnVars, ackVars,
           beatVars
  <1>2. WindowTypes'
    BY <1>0
       DEF WindowTypes, ReceiveHeartBeat, Consume, tVars, appVars, windowVars, masnVars, ackVars,
           beatVars
  <1>a. /\ toR # <<>> /\ Head(toR) \in Packets /\ Tail(toR) \in Seq(Packets)
        /\ AckFor(Head(toR)) \in Acks /\ opens # 0
    BY <1>0, Queues, SomeAcks DEF ReceiveHeartBeat, Consume, PlacesInv, Before, ReceiverTypes
  <1>b. ASSUME SendToT(AckFor(Head(toR))) PROVE toT' \in Seq(Acks) /\ losses' \in 0 .. MaxLosses
    BY <1>0, <1>a, <1>b, SendingT
  <1>3. LinkTypes'
    <2> HIDE DEF Packets, Acks
    <2>1. QED BY <1>0, <1>a, <1>b
                 DEF LinkTypes, ReceiveHeartBeat, Consume, tVars, appVars, windowVars, masnVars,
                     ackVars, beatVars
  <1>4. ReceiverTypes'
    BY <1>0 DEF ReceiverTypes, ReceiveHeartBeat, Consume, rVars, dataVars
  <1>5. PlacesInv'
    BY <1>0, <1>a
       DEF PlacesInv, Before, Live, ReceiveHeartBeat, Consume, tVars, appVars, windowVars,
           masnVars, ackVars, beatVars, rVars, dataVars, linkVars
  <1>6. QED BY <1>1, <1>2, <1>3, <1>4, <1>5 DEF StateInv

\* StartClosing.
LEMMA StartClosingKeepsState ==
    ASSUME StateInv, StartClosing
    PROVE  StateInv'
  <1>0. /\ AppTypes /\ WindowTypes /\ LinkTypes /\ ReceiverTypes /\ PlacesInv /\ 0 \in SN
    BY WindowAssumption DEF StateInv, SN
  <1>1. AppTypes'
    BY <1>0 DEF AppTypes, StartClosing, tVars, appVars, windowVars, masnVars, ackVars, beatVars
  <1>2. WindowTypes'
    BY <1>0 DEF WindowTypes, StartClosing, tVars, appVars, windowVars, masnVars, ackVars, beatVars
  <1>3. LinkTypes'
    BY <1>0
       DEF LinkTypes, StartClosing, tVars, appVars, windowVars, masnVars, ackVars, beatVars,
           linkVars
  <1>4. ReceiverTypes'
    BY <1>0 DEF ReceiverTypes, StartClosing, rVars, dataVars
  <1>5. PlacesInv'
    BY <1>0
       DEF PlacesInv, Before, Live, StartClosing, tVars, appVars, windowVars, masnVars, ackVars,
           beatVars, rVars, dataVars, linkVars
  <1>6. QED BY <1>1, <1>2, <1>3, <1>4, <1>5 DEF StateInv

\* Drain.
LEMMA DrainKeepsState ==
    ASSUME StateInv, Drain
    PROVE  StateInv'
  <1>0. /\ AppTypes /\ WindowTypes /\ LinkTypes /\ ReceiverTypes /\ PlacesInv /\ 0 \in SN
    BY WindowAssumption DEF StateInv, SN
  <1>1. AppTypes'
    BY <1>0 DEF AppTypes, Drain, tVars, appVars, windowVars, masnVars, ackVars, beatVars
  <1>2. WindowTypes'
    BY <1>0 DEF WindowTypes, Drain, tVars, appVars, windowVars, masnVars, ackVars, beatVars
  <1>a. /\ toR # <<>> /\ Head(toR) \in Packets /\ Tail(toR) \in Seq(Packets)
        /\ AckFor(Head(toR)) \in Acks /\ opens # 0
    BY <1>0, Queues, SomeAcks DEF Drain, PlacesInv, Before, ReceiverTypes
  <1>b. ASSUME SendToT(AckFor(Head(toR))) PROVE toT' \in Seq(Acks) /\ losses' \in 0 .. MaxLosses
    BY <1>0, <1>a, <1>b, SendingT
  <1>3. LinkTypes'
    <2> HIDE DEF Packets, Acks
    <2>1. QED BY <1>0, <1>a, <1>b
                 DEF LinkTypes, Drain, tVars, appVars, windowVars, masnVars, ackVars, beatVars
  <1>4. ReceiverTypes'
    BY <1>0 DEF ReceiverTypes, Drain, rVars, dataVars
  <1>5. PlacesInv'
    BY <1>0, <1>a
       DEF PlacesInv, Before, Live, Drain, tVars, appVars, windowVars, masnVars, ackVars,
           beatVars, rVars, dataVars, linkVars
  <1>6. QED BY <1>1, <1>2, <1>3, <1>4, <1>5 DEF StateInv

\* DrainEnds.
LEMMA DrainEndsKeepsState ==
    ASSUME StateInv, DrainEnds
    PROVE  StateInv'
  <1>0. /\ AppTypes /\ WindowTypes /\ LinkTypes /\ ReceiverTypes /\ PlacesInv /\ 0 \in SN
    BY WindowAssumption DEF StateInv, SN
  <1>1. AppTypes'
    BY <1>0 DEF AppTypes, DrainEnds, tVars, appVars, windowVars, masnVars, ackVars, beatVars
  <1>2. WindowTypes'
    BY <1>0 DEF WindowTypes, DrainEnds, tVars, appVars, windowVars, masnVars, ackVars, beatVars
  <1>3. LinkTypes'
    BY <1>0
       DEF LinkTypes, DrainEnds, tVars, appVars, windowVars, masnVars, ackVars, beatVars,
           linkVars
  <1>4. ReceiverTypes'
    BY <1>0 DEF ReceiverTypes, DrainEnds, rVars, dataVars
  <1>5. PlacesInv'
    BY <1>0
       DEF PlacesInv, Before, Live, DrainEnds, tVars, appVars, windowVars, masnVars, ackVars,
           beatVars, rVars, dataVars, linkVars
  <1>6. QED BY <1>1, <1>2, <1>3, <1>4, <1>5 DEF StateInv

\* ReceiverClosed.
LEMMA ReceiverClosedKeepsState ==
    ASSUME StateInv, ReceiverClosed
    PROVE  StateInv'
  <1>0. /\ AppTypes /\ WindowTypes /\ LinkTypes /\ ReceiverTypes /\ PlacesInv /\ 0 \in SN
    BY WindowAssumption DEF StateInv, SN
  <1>1. AppTypes'
    BY <1>0 DEF AppTypes, ReceiverClosed, tVars, appVars, windowVars, masnVars, ackVars, beatVars
  <1>2. WindowTypes'
    BY <1>0
       DEF WindowTypes, ReceiverClosed, tVars, appVars, windowVars, masnVars, ackVars, beatVars
  <1>3. LinkTypes'
    BY <1>0
       DEF LinkTypes, ReceiverClosed, tVars, appVars, windowVars, masnVars, ackVars, beatVars,
           linkVars
  <1>4. ReceiverTypes'
    BY <1>0 DEF ReceiverTypes, ReceiverClosed, rVars, dataVars
  <1>5. PlacesInv'
    BY <1>0
       DEF PlacesInv, Before, Live, ReceiverClosed, tVars, appVars, windowVars, masnVars,
           ackVars, beatVars, rVars, dataVars, linkVars
  <1>6. QED BY <1>1, <1>2, <1>3, <1>4, <1>5 DEF StateInv

-----------------------------------------------------------------------------
(* The stream of segments given.                                           *)

\* GivenInv holds at the start.
LEMMA GivenInit == Init => GivenInv
  <1> SUFFICES ASSUME Init PROVE GivenInv
    OBVIOUS
  <1>1. Given = <<>>
    BY GivenIs, NothingGiven DEF Init
  <1>2. InOrder(<<>>)
    BY EmptySeq DEF InOrder
  <1>3. EndsAt(<<>>, message, segment)
    BY DEF Init, EndsAt
  <1>4. QED BY <1>1, <1>2, <1>3 DEF GivenInv, Init

\* Types of the stream and of the number of packets.
LEMMA CountIn == GivenInv => Len(Given) \in Nat /\ Count \in Nat /\ Given \in Seq(Segments)
  <1>1. GivenInv => Given \in Seq(Segments)
    BY DEF GivenInv, InOrder
  <1>2. GivenInv => Len(Given) \in Nat
    BY <1>1, LenProperties
  <1>3. QED BY <1>1, <1>2 DEF Count

\* What the stream depends on.
LEMMA SameGiven ==
    ASSUME UNCHANGED <<message, segment>>
    PROVE  /\ Given' = Given
           /\ UNCHANGED opens => Count' = Count
  <1>1. Given' = Given
    BY DEF Given
  <1>2. QED BY <1>1 DEF Count

\* GivenInv, when the next message is begun ...
LEMMA SendKeepsGiven ==
    ASSUME PlainChannel, StateInv, GivenInv, Send
    PROVE  GivenInv' /\ Given' = Given
  <1>1. /\ message' = message + 1 /\ segment' = 0 /\ message \in Nat
        /\ message < Len(Messages) /\ tstate = "Open" /\ tpc = "idle"
        /\ UNCHANGED <<tstate, sn, opens>>
    BY DEF StateInv, AppTypes, Send
  <1>2. message > 0 => segment = Messages[message]
    BY <1>1 DEF StateInv, PlacesInv
  <1>3. Given' = GivenTo(message + 1, 0)
    BY <1>1, GivenIs DEF Given, GivenTo
  <1>4. CASE message = 0
    <2>1. Given = <<>> /\ Given' = <<>>
      BY <1>1, <1>3, <1>4, GivenIs, NothingGiven
    <2>2. EndsAt(Given', message', segment')
      BY <1>1, <1>4, <2>1 DEF EndsAt
    <2>3. QED BY <1>1, <2>1, <2>2 DEF GivenInv, Count
  <1>5. CASE message # 0
    <2>1. message \in 1 .. Len(Messages) /\ message + 1 \in 1 .. Len(Messages)
      BY <1>1, <1>5, ChannelAssumption
    <2>2. Given = GivenTo(message, Messages[message])
      BY <1>1, <1>2, <1>5, GivenIs
    <2>3. Given' = Given
      BY <1>3, <2>1, <2>2, GivenStays
    <2>4. segment \in Nat \ {0}
      BY <1>1, <1>2, <1>5, <2>1, ChannelAssumption
    <2>5. Given # <<>>
      BY <2>1, <2>4 DEF GivenInv, EndsAt
    <2>6. Given[Len(Given)] = <<message, Messages[message]>>
      BY <1>1, <1>2, <1>5, <2>4, <2>5 DEF GivenInv, EndsAt
    <2>7. EndsAt(Given', message', segment')
      <3>1. message' > 0 /\ ~(segment' > 0) /\ message' - 1 = message
        BY <1>1
      <3>2. QED BY <2>3, <2>5, <2>6, <3>1 DEF EndsAt
    <2>8. QED BY <1>1, <2>3, <2>7 DEF GivenInv, Count
  <1>6. QED BY <1>4, <1>5

\* ... and when a segment is sent, which is appended to the stream.
LEMMA SendSegmentGrows ==
    ASSUME PlainChannel, StateInv, GivenInv, SendSegment
    PROVE  /\ GivenInv' /\ opens = 1 /\ Count' = Count + 1 /\ Count = 1 + Len(Given) /\ Count \in Nat
           /\ Given' = Append(Given, <<message, segment + 1>>) /\ <<message, segment + 1>> \in Segments
           /\ sn = Wrap(Count)
  <1>1. /\ message \in 1 .. Len(Messages) /\ segment \in Nat /\ segment < Messages[message]
        /\ segment \in 0 .. Messages[message] /\ tstate = "Open" /\ opens = 1
        /\ message' = message /\ segment' = segment + 1 /\ sn' = Wrap(sn + 1) /\ opens' = opens
    BY ChannelAssumption DEF StateInv, AppTypes, PlacesInv, SendSegment
  <1>2. Given = GivenTo(message, segment) /\ Given' = GivenTo(message, segment + 1)
    BY <1>1, GivenIs DEF Given, GivenTo
  <1>3. Given' = Append(Given, <<message, segment + 1>>) /\ <<message, segment + 1>> \in Segments
    BY <1>1, <1>2, GivenGrows, SegmentsInOrder
  <1>4. InOrder(Given') /\ EndsAt(Given', message, segment + 1)
    BY <1>1, <1>3, OrderGrows DEF GivenInv
  <1>5. Given \in Seq(Segments) /\ Len(Given) \in Nat /\ Count \in Nat
    BY CountIn
  <1>6. Len(Given') = Len(Given) + 1
    BY <1>3, <1>5, AppendProperties
  <1>7. Count = 1 + Len(Given) /\ Count' = Count + 1
    BY <1>1, <1>5, <1>6 DEF Count
  <1>8. sn = Wrap(Count)
    BY <1>1 DEF GivenInv
  <1>9. Wrap(sn + 1) = Wrap(Count + 1)
    BY <1>5, <1>8, WrapSum
  <1>10. QED BY <1>1, <1>3, <1>4, <1>5, <1>7, <1>8, <1>9 DEF GivenInv

\* The other steps.
LEMMA OthersKeepGiven ==
    ASSUME PlainChannel, StateInv, GivenInv, [Next]_vars, ~Send, ~SendSegment
    PROVE  GivenInv' /\ UNCHANGED <<message, segment>>
  <1>0. ~HeartBeatDue /\ ~EmitHeartBeat
    BY HeartsDoNotBeat
  <1>1. UNCHANGED <<message, segment>>
    <2>1. CASE \/ Open \/ Close \/ CloseClosedChannel \/ CloseReturns
      BY <2>1 DEF Open, Close, CloseClosedChannel, CloseReturns, InitialiseSlidingWindow
    <2>2. CASE \/ SendOpenCommand \/ OpenWaitEnds \/ MarkSent \/ SendTimesOut \/ SendReturns
               \/ SendCloseCommand \/ CloseWaitEnds
      BY <2>2 DEF SendOpenCommand, OpenWaitEnds, MarkSent, SendTimesOut, SendReturns,
           SendCloseCommand, CloseWaitEnds
    <2>3. CASE \E n \in SN : Retry(n)
      BY <2>3 DEF Retry
    <2>4. CASE TransmitterRun
      BY <2>4 DEF TransmitterRun, TakeAck, FinishAck, TransmitterDiscards, tVars, appVars
    <2>5. CASE ReceiverOpen \/ Receive \/ ReceiverRun
      BY <2>5 DEF ReceiverOpen, Receive, ReceiverRun, ReceiverDiscards, ReceiveData,
           ReceiveOpenCommand, ReceiveCloseCommand, ReceiveHeartBeat, StartClosing, Drain, DrainEnds,
           ReceiverClosed, Consume, tVars, appVars
    <2>6. CASE UNCHANGED vars
      BY <2>6 DEF vars, tVars, appVars
    <2>7. QED BY <1>0, <2>1, <2>2, <2>3, <2>4, <2>5, <2>6 DEF Next, CallStep, HeartBeatRun
  <1>2. tstate' = "Open" => sn' = Wrap(Count')
    <2>1. CASE Open \/ Close \/ CloseClosedChannel \/ CloseReturns
      BY <2>1
         DEF Open, Close, CloseClosedChannel, CloseReturns, InitialiseSlidingWindow, Malfunction
    <2>2. CASE OpenWaitEnds
      <3>1. tpc = "openWait" /\ tstate = "Enabled" /\ opens = 1 /\ message = 0 /\ segment = 0
            /\ opens' = opens
        BY <2>2 DEF OpenWaitEnds, StateInv, PlacesInv
      <3>2. Given' = <<>>
        BY <1>1, <3>1, NothingGiven DEF Given, GivenTo
      <3>3. Count' = 1
        BY <3>1, <3>2, EmptySeq DEF Count
      <3>4. Wrap(1) = 1
        BY WrapLow, WindowAssumption
      <3>5. tstate' = "Open" => sn' = 1
        BY <2>2, <3>1 DEF OpenWaitEnds
      <3>6. QED BY <3>3, <3>4, <3>5
    <2>3. CASE tstate' # "Open" \/ UNCHANGED <<tstate, sn, opens>>
      BY <1>1, <2>3, SameGiven DEF GivenInv
    <2>4. CASE \/ SendOpenCommand \/ MarkSent \/ SendTimesOut \/ SendReturns
               \/ SendCloseCommand \/ CloseWaitEnds
      BY <2>3, <2>4 DEF SendOpenCommand, MarkSent, SendTimesOut, SendReturns, SendCloseCommand,
           CloseWaitEnds, Malfunction
    <2>5. CASE \E n \in SN : Retry(n)
      BY <2>3, <2>5 DEF Retry, Malfunction
    <2>6. CASE TransmitterRun
      BY <2>3, <2>6 DEF TransmitterRun, TakeAck, FinishAck, TransmitterDiscards, tVars, appVars,
           DecrementNOfOutstandingPackets, Malfunction
    <2>7. CASE ReceiverOpen \/ Receive \/ ReceiverRun
      BY <2>3, <2>7 DEF ReceiverOpen, Receive, ReceiverRun, ReceiverDiscards, ReceiveData,
           ReceiveOpenCommand, ReceiveCloseCommand, ReceiveHeartBeat, StartClosing, Drain, DrainEnds,
           ReceiverClosed, Consume, tVars, appVars
    <2>8. CASE UNCHANGED vars
      BY <2>3, <2>8 DEF vars, tVars, appVars
    <2>9. QED BY <1>0, <2>1, <2>2, <2>4, <2>5, <2>6, <2>7, <2>8 DEF Next, CallStep, HeartBeatRun
  <1>3. Given' = Given
    BY <1>1, SameGiven
  <1>4. QED BY <1>1, <1>2, <1>3 DEF GivenInv

-----------------------------------------------------------------------------
(* What the receiver makes of the segments.                                *)

\* Packet i of the stream; the Open command is its packet 0.
Carried(g, i) == IF i = 0 THEN Packet("Open", 0) ELSE DataPacket(Wrap(i), g[i][1], g[i][2])

\* The first m messages.
Whole(m) == [l \in 1 .. m |-> SegmentsOf(l, Messages[l])]

\* What has been reconstructed when n segments have been released.
Assembled(g, n, cur, out) ==
    IF n = 0 THEN cur = <<>> /\ out = <<>>
    ELSE IF g[n][2] < Messages[g[n][1]]
         THEN cur = SegmentsOf(g[n][1], g[n][2]) /\ out = Whole(g[n][1] - 1)
         ELSE cur = <<>> /\ out = Whole(g[n][1])

\* What reconstructApplicationData() works on.
Assemblies == [current : Seq(Segments), received : Seq(Seq(Segments)), segments : Seq(Segments),
               malfunction : BOOLEAN]

\* The next message is appended to those that are whole.
LEMMA WholeGrows ==
    ASSUME NEW m \in 1 .. Len(Messages)
    PROVE  /\ Whole(m) \in Seq(Seq(Segments)) /\ Whole(m - 1) \in Seq(Seq(Segments))
           /\ SegmentsOf(m, Messages[m]) \in Seq(Segments)
           /\ Append(Whole(m - 1), SegmentsOf(m, Messages[m])) = Whole(m)
  <1>0. m \in Nat /\ m > 0 /\ m - 1 \in Nat
    BY ChannelAssumption
  <1>1. \A l \in 1 .. Len(Messages) : SegmentsOf(l, Messages[l]) \in Seq(Segments)
    <2> SUFFICES ASSUME NEW l \in 1 .. Len(Messages)
                 PROVE  SegmentsOf(l, Messages[l]) \in Seq(Segments)
      OBVIOUS
    <2>1. Messages[l] \in 0 .. Messages[l]
      BY ChannelAssumption
    <2>2. QED BY <2>1, SegmentsInOrder
  <1>2. ASSUME NEW i \in Nat, i <= Len(Messages)
        PROVE  Whole(i) \in Seq(Seq(Segments)) /\ Len(Whole(i)) = i
    <2>1. \A l \in 1 .. i : SegmentsOf(l, Messages[l]) \in Seq(Segments)
      BY <1>1, <1>2, ChannelAssumption
    <2>2. [l \in 1 .. i |-> SegmentsOf(l, Messages[l])] \in Seq(Seq(Segments))
      BY <2>1, IsASeq
    <2>3. QED BY <2>2 DEF Whole
  <1> DEFINE a == Whole(m - 1)
             b == Whole(m)
             x == SegmentsOf(m, Messages[m])
             c == Append(a, x)
  <1>3. /\ a \in Seq(Seq(Segments)) /\ b \in Seq(Seq(Segments)) /\ Len(a) = m - 1 /\ Len(b) = m
        /\ x \in Seq(Segments)
    <2>1. m <= Len(Messages) /\ m - 1 <= Len(Messages)
      BY <1>0, ChannelAssumption
    <2>2. QED BY <1>0, <1>1, <1>2, <2>1
  <1>4. \A l \in 1 .. m - 1 : a[l] = b[l]
    BY <1>0 DEF Whole
  <1>5. b[m] = x
    BY <1>0 DEF Whole
  <1> HIDE DEF a, b, x
  <1>6. /\ c \in Seq(Seq(Segments)) /\ Len(c) = Len(a) + 1
        /\ (\A l \in 1 .. Len(a) : c[l] = a[l]) /\ c[Len(a) + 1] = x
    <2> HIDE DEF Segments
    <2>1. QED BY <1>3, AppendProperties
  <1> HIDE DEF c
  <1>7. \A l \in 1 .. Len(c) : c[l] = b[l]
    <2> SUFFICES ASSUME NEW l \in 1 .. Len(c) PROVE c[l] = b[l]
      OBVIOUS
    <2>1. l \in 1 .. m - 1 \/ l = m
      BY <1>0, <1>3, <1>6
    <2>2. QED BY <1>0, <1>3, <1>4, <1>5, <1>6, <2>1
  <1>8. c = b
    <2>1. Len(c) = Len(b)
      BY <1>0, <1>3, <1>6
    <2>2. QED BY <1>3, <1>6, <1>7, <2>1, SeqEqual
  <1>9. QED BY <1>3, <1>8 DEF a, b, c, x

\* The segment after the first n, when the assembly of these is at hand.
NextIs(g, n, cur, out) ==
    \E m \in 1 .. Len(Messages) : \E j \in 1 .. Messages[m] :
        /\ g[n + 1] = <<m, j>>
        /\ cur = SegmentsOf(m, j - 1) /\ out = Whole(m - 1)

\* What the assembly so far says of the segment that comes next.
LEMMA NextSegment ==
    ASSUME NEW g, InOrder(g), NEW n \in Nat, n < Len(g), NEW cur, NEW out,
           Assembled(g, n, cur, out)
    PROVE  NextIs(g, n, cur, out)
  <1>1. g \in Seq(Segments) /\ n + 1 \in 1 .. Len(g)
    <2>1. g \in Seq(Segments)
      BY DEF InOrder
    <2>2. Len(g) \in Nat
      BY <2>1, LenProperties
    <2>3. QED BY <2>1, <2>2
  <1>2. g[n + 1] \in Segments
    BY <1>1, ElementOfSeq
  <1>a. PICK m \in 1 .. Len(Messages) : \E j \in 1 .. Messages[m] : g[n + 1] = <<m, j>>
    BY <1>2 DEF Segments
  <1>3. PICK j \in 1 .. Messages[m] : g[n + 1] = <<m, j>>
    BY <1>a
  <1>4. m \in Nat /\ m > 0 /\ Messages[m] \in Nat /\ j \in Nat /\ j > 0
    BY <1>3, ChannelAssumption
  <1>5. \A l : SegmentsOf(l, 0) = <<>>
    BY DEF SegmentsOf
  <1>6. cur = SegmentsOf(m, j - 1) /\ out = Whole(m - 1)
    <2>1. CASE n = 0
      <3>1. g[1] = <<1, 1>>
        <4>1. g # <<>>
          BY <1>1, <2>1, EmptySeq
        <4>2. QED BY <4>1 DEF InOrder
      <3>2. m = 1 /\ j = 1 /\ j - 1 = 0 /\ m - 1 = 0
        BY <1>3, <2>1, <3>1
      <3>3. Whole(0) = <<>>
        BY DEF Whole
      <3>4. QED BY <1>5, <2>1, <3>2, <3>3 DEF Assembled
    <2>2. CASE n # 0
      <3>1. n \in 1 .. Len(g) /\ n \in 1 .. Len(g) - 1
        BY <1>1, <2>2, LenProperties
      <3>2. g[n] \in Segments
        BY <1>1, <3>1, ElementOfSeq
      <3>a. PICK u \in 1 .. Len(Messages) : \E v \in 1 .. Messages[u] : g[n] = <<u, v>>
        BY <3>2 DEF Segments
      <3>3. PICK v \in 1 .. Messages[u] : g[n] = <<u, v>>
        BY <3>a
      <3>4. u \in Nat /\ v \in Nat /\ Messages[u] \in Nat
        BY <3>3, ChannelAssumption
      <3>5. Follows(g[n], g[n + 1])
        BY <3>1 DEF InOrder
      <3>6. CASE v < Messages[u]
        <4>1. m = u /\ j = v + 1 /\ j - 1 = v
          BY <1>3, <3>3, <3>4, <3>5, <3>6 DEF Follows
        <4>2. cur = SegmentsOf(u, v) /\ out = Whole(u - 1)
          BY <2>2, <3>3, <3>6 DEF Assembled
        <4>3. QED BY <4>1, <4>2
      <3>7. CASE ~(v < Messages[u])
        <4>1. m = u + 1 /\ j = 1 /\ j - 1 = 0 /\ m - 1 = u
          BY <1>3, <3>3, <3>4, <3>5, <3>7 DEF Follows
        <4>2. cur = <<>> /\ out = Whole(u)
          BY <2>2, <3>3, <3>7 DEF Assembled
        <4>3. QED BY <1>5, <4>1, <4>2
      <3>8. QED BY <3>6, <3>7
    <2>3. QED BY <2>1, <2>2
  <1>7. QED BY <1>3, <1>6 DEF NextIs

\* reconstructApplicationData() given the segment that comes next.
LEMMA ReconstructStep ==
    ASSUME NEW g, InOrder(g), NEW n \in Nat, n < Len(g), NEW data \in Assemblies,
           NEW deliv \in Seq(Seq(Segments)), ~data.malfunction,
           Assembled(g, n, data.current, deliv \o data.received)
    PROVE  LET new == Reconstruct(data, Carried(g, n + 1))
           IN  /\ new \in Assemblies /\ ~new.malfunction
               /\ new.segments = Append(data.segments, g[n + 1])
               /\ Assembled(g, n + 1, new.current, deliv \o new.received)
  <1> DEFINE p   == Carried(g, n + 1)
             new == Reconstruct(data, p)
             cur == data.current
  <1> DEFINE Next1(m, j) == /\ g[n + 1] = <<m, j>>
                            /\ cur = SegmentsOf(m, j - 1)
                            /\ deliv \o data.received = Whole(m - 1)
  <1>a. PICK m \in 1 .. Len(Messages) : \E j \in 1 .. Messages[m] : Next1(m, j)
    <2>1. NextIs(g, n, cur, deliv \o data.received)
      BY NextSegment
    <2>2. QED BY <2>1 DEF NextIs
  <1>b. PICK j \in 1 .. Messages[m] : Next1(m, j)
    BY <1>a
  <1>1. /\ g[n + 1] = <<m, j>>
        /\ cur = SegmentsOf(m, j - 1) /\ deliv \o data.received = Whole(m - 1)
    BY <1>b
  <1>2. m \in Nat /\ m > 0 /\ Messages[m] \in Nat \ {0} /\ j \in Nat /\ j > 0 /\ j <= Messages[m]
        /\ j - 1 \in 0 .. Messages[m] /\ j - 1 < Messages[m] /\ (j - 1) + 1 = j /\ n + 1 # 0
    <2>1. Messages[m] \in Nat \ {0} /\ m \in Nat /\ m > 0
      BY ONLY ChannelAssumption
    <2>2. j \in 1 .. Messages[m] /\ n \in Nat
      OBVIOUS
    <2>3. QED BY ONLY <2>1, <2>2
  <1>3. p.type = "Data" /\ p.flag = FlagOf(m, j) /\ p.seg = <<m, j>>
    BY <1>1, <1>2 DEF Carried, DataPacket
  <1>4. /\ cur \in Seq(Segments) /\ Len(cur) = j - 1 /\ <<m, j>> \in Segments
        /\ Append(cur, <<m, j>>) = SegmentsOf(m, j)
    BY <1>1, <1>2, SegmentsInOrder
  <1>5. cur # <<>> <=> j # 1
    BY <1>2, <1>4, EmptySeq
  <1>6. /\ data.received \in Seq(Seq(Segments)) /\ data.segments \in Seq(Segments)
    BY DEF Assemblies
  <1>7. /\ Append(data.segments, <<m, j>>) \in Seq(Segments)
        /\ SegmentsOf(m, j) \in Seq(Segments)
    <2>1. SegmentsOf(m, j) \in Seq(Segments)
      <3>1. j \in 0 .. Messages[m]
        BY <1>2
      <3>2. QED BY <3>1, SegmentsInOrder
    <2> HIDE DEF Segments
    <2>2. QED BY <1>4, <1>6, <2>1, AppendProperties
  <1> HIDE DEF p
  <1>8. CASE j < Messages[m]
    <2>1. /\ new = [data EXCEPT !.current = SegmentsOf(m, j), !.segments = Append(@, <<m, j>>)]
      <3>1. CASE j = 1
        <4>1. FlagOf(m, j) = "First"
          BY <1>2, <1>8, <3>1 DEF FlagOf
        <4>2. new = [data EXCEPT !.current = <<p.seg>>, !.segments = Append(@, p.seg)]
          BY <1>3, <1>5, <3>1, <4>1 DEF Reconstruct
        <4>3. SegmentsOf(m, j) = <<p.seg>>
          <5>1. cur = <<>>
            BY <1>5, <3>1
          <5>2. Append(<<>>, p.seg) = <<p.seg>>
            OBVIOUS
          <5>3. QED BY <1>3, <1>4, <5>1, <5>2
        <4>4. QED BY <1>3, <4>2, <4>3
      <3>2. CASE j # 1
        <4>1. FlagOf(m, j) = "Continued"
          BY <1>2, <1>8, <3>2 DEF FlagOf
        <4>2. new = [data EXCEPT !.current = Append(@, p.seg), !.segments = Append(@, p.seg)]
          BY <1>3, <1>5, <3>2, <4>1 DEF Reconstruct
        <4>3. QED BY <1>3, <1>4, <4>2
      <3>3. QED BY <3>1, <3>2
    <2> HIDE DEF new
    <2>2. /\ new.current = SegmentsOf(m, j) /\ new.received = data.received
          /\ new.segments = Append(data.segments, <<m, j>>) /\ new.malfunction = data.malfunction
      BY <2>1 DEF Assemblies
    <2>3. new \in Assemblies
      <3> HIDE DEF Segments
      <3>1. QED BY <1>7, <2>1 DEF Assemblies
    <2>4. Assembled(g, n + 1, new.current, deliv \o new.received)
      <3>1. g[n + 1][1] = m /\ g[n + 1][2] = j
        BY <1>1
      <3>2. QED BY <1>1, <1>2, <1>8, <2>2, <3>1 DEF Assembled
    <2>5. QED BY <1>1, <2>2, <2>3, <2>4 DEF new, p
  <1>9. CASE j = Messages[m]
    <2> DEFINE s == SegmentsOf(m, j)
    <2>1. new = [data EXCEPT !.received = Append(@, s), !.current = <<>>,
                             !.segments = Append(@, <<m, j>>)]
      <3>1. FlagOf(m, j) = IF cur # <<>> THEN "Last" ELSE "Complete"
        BY <1>2, <1>5, <1>9 DEF FlagOf
      <3>2. new = CompleteServiceDataUnit(data, p)
        BY <1>3, <3>1 DEF Reconstruct
      <3>3. QED BY <1>3, <1>4, <3>2 DEF CompleteServiceDataUnit
    <2> HIDE DEF new
    <2>2. /\ new.current = <<>> /\ new.received = Append(data.received, s)
          /\ new.segments = Append(data.segments, <<m, j>>) /\ new.malfunction = data.malfunction
      BY <2>1 DEF Assemblies
    <2>a. s \in Seq(Segments)
      BY <1>7
    <2> HIDE DEF s
    <2>3. Append(data.received, s) \in Seq(Seq(Segments)) /\ <<>> \in Seq(Segments)
      <3> HIDE DEF Segments
      <3>1. QED BY <1>6, <2>a, AppendProperties, EmptySeq
    <2>4. new \in Assemblies
      <3> HIDE DEF Segments
      <3>1. QED BY <1>7, <2>1, <2>3 DEF Assemblies
    <2>5. deliv \o new.received = Whole(m)
      <3>1. deliv \o Append(data.received, s) = Append(deliv \o data.received, s)
        <4> DEFINE S == Seq(Segments)
                   d == data.received
        <4>1. d \in Seq(S) /\ deliv \in Seq(S) /\ s \in S
          BY <1>6, <2>a
        <4> HIDE DEF S, d
        <4>2. deliv \o Append(d, s) = Append(deliv \o d, s)
          BY <4>1, JoinedAppended
        <4>3. QED BY <4>2 DEF d
      <3>2. Append(Whole(m - 1), s) = Whole(m)
        BY <1>9, WholeGrows DEF s
      <3>3. QED BY <1>1, <2>2, <3>1, <3>2
    <2>6. Assembled(g, n + 1, new.current, deliv \o new.received)
      <3>1. g[n + 1][1] = m /\ g[n + 1][2] = j
        BY <1>1
      <3>2. QED BY <1>2, <1>9, <2>2, <2>5, <3>1 DEF Assembled
    <2>7. QED BY <1>1, <2>2, <2>4, <2>6 DEF new, p
  <1>10. QED BY <1>2, <1>8, <1>9

\* f[j] is what the first j packets after x in the buffer amount to.
Unrolls(f, k, start, buffer, x) ==
    f = [j \in 0 .. k |-> IF j = 0 THEN start
                          ELSE Reconstruct(f[j - 1], buffer[Wrap(x + j - 1)])]

\* There is such an f.
LEMMA ReconstructingExists ==
    ASSUME NEW k \in Nat, NEW start, NEW buffer, NEW x
    PROVE  \E f : Unrolls(f, k, start, buffer, x)
  <1> DEFINE Step(d, j) == Reconstruct(d, buffer[Wrap(x + j - 1)])
             G(f, m) == f = [j \in 0 .. m |-> IF j = 0 THEN start ELSE Step(f[j - 1], j)]
             T == {m \in Nat : \E f : G(f, m)}
  <1>1. 0 \in T
    <2> HIDE DEF Step
    <2>1. G([j \in 0 .. 0 |-> start], 0)
      OBVIOUS
    <2> HIDE DEF G
    <2>2. QED BY <2>1
  <1>2. ASSUME NEW m \in Nat, m \in T PROVE m + 1 \in T
    <2> HIDE DEF Step
    <2>1. PICK f : G(f, m)
      BY <1>2
    <2> DEFINE h == [j \in 0 .. m + 1 |-> IF j <= m THEN f[j] ELSE Step(f[m], j)]
    <2>2. \A j \in 0 .. m + 1 : h[j] = IF j = 0 THEN start ELSE Step(h[j - 1], j)
      <3> SUFFICES ASSUME NEW j \in 0 .. m + 1
                   PROVE  h[j] = IF j = 0 THEN start ELSE Step(h[j - 1], j)
        OBVIOUS
      <3>1. CASE j <= m
        <4>1. h[j] = f[j] /\ j \in 0 .. m
          BY <3>1
        <4>2. j # 0 => j - 1 \in 0 .. m + 1 /\ j - 1 <= m
          BY <3>1
        <4>3. j # 0 => h[j - 1] = f[j - 1]
          BY <4>2
        <4>4. f[j] = IF j = 0 THEN start ELSE Step(f[j - 1], j)
          BY <2>1, <4>1
        <4>5. QED BY <4>1, <4>3, <4>4
      <3>2. CASE ~(j <= m)
        <4>1. j = m + 1 /\ j # 0
          BY <3>2
        <4>2. j - 1 \in 0 .. m + 1 /\ j - 1 <= m /\ j - 1 = m
          BY <4>1
        <4>3. h[j - 1] = f[m]
          BY <4>2
        <4>4. h[j] = Step(f[m], j)
          BY <3>2
        <4>5. QED BY <4>1, <4>3, <4>4
      <3>3. QED BY <3>1, <3>2
    <2>3. G(h, m + 1)
      BY <2>2
    <2> HIDE DEF h, G
    <2>4. QED BY <2>3
  <1> HIDE DEF T
  <1>3. k \in T
    BY <1>1, <1>2, SetInductionOnNat
  <1>4. QED BY <1>3 DEF T, Unrolls

\* The numbers for which the buffer has a packet; the buffer without those passed.
Filled(buffer)          == {n \in SN : buffer[n] # NoPacket}
Emptied(buffer, passed) == [n \in SN |-> IF n \in passed THEN NoPacket ELSE buffer[n]]

\* The window slides by k packets, which f reconstructs.
SlidesBy(k, f, buffer, state) ==
    /\ f[0] = [current |-> current, received |-> received, segments |-> <<>>, malfunction |-> FALSE]
    /\ \A j \in 1 .. k : f[j] = Reconstruct(f[j - 1], buffer[Wrap(rfrom + j - 1)])
    /\ rbuffer' = Emptied(buffer, Numbers(rfrom, k))
    /\ rfrom' = Wrap(rfrom + k)
    /\ current' = f[k].current
    /\ received' = f[k].received
    /\ released' = released \o f[k].segments
    /\ rstate' = IF f[k].malfunction THEN "Closing" ELSE state

\* slideReceiveSlidingWindow() in these terms.
LEMMA Sliding ==
    ASSUME NEW buffer, NEW state, SlideReceiveSlidingWindow(buffer, state)
    PROVE  \E f : SlidesBy(RunLength(rfrom, Filled(buffer)), f, buffer, state)
  <1> DEFINE k == RunLength(rfrom, {n \in SN : buffer[n] # NoPacket})
             start == [current |-> current, received |-> received, segments |-> <<>>,
                       malfunction |-> FALSE]
             G(f) == f = [j \in 0 .. k |-> IF j = 0 THEN start
                                        ELSE Reconstruct(f[j - 1], buffer[Wrap(rfrom + j - 1)])]
             f == CHOOSE h : G(h)
  <1>1. k \in Nat
    BY RunLengthIn, WindowAssumption
  <1>2. \E h : G(h)
    <2> HIDE DEF k, start
    <2>1. \E h : Unrolls(h, k, start, buffer, rfrom)
      BY <1>1, ReconstructingExists
    <2>2. QED BY <2>1 DEF Unrolls
  <1>3. G(f)
    <2> HIDE DEF G
    <2>1. QED BY <1>2
  <1>4. /\ rbuffer' = [n \in SN |-> IF n \in Numbers(rfrom, k) THEN NoPacket ELSE buffer[n]]
        /\ rfrom' = Wrap(rfrom + k)
        /\ current' = f[k].current
        /\ received' = f[k].received
        /\ released' = released \o f[k].segments
        /\ rstate' = IF f[k].malfunction THEN "Closing" ELSE state
    BY DEF SlideReceiveSlidingWindow
  <1> HIDE DEF f, k, start
  <1>5. f[0] = start /\ \A j \in 1 .. k : f[j] = Reconstruct(f[j - 1], buffer[Wrap(rfrom + j - 1)])
    <2>1. 0 \in 0 .. k /\ \A j \in 1 .. k : j \in 0 .. k /\ j # 0
      BY <1>1
    <2> HIDE DEF Reconstruct
    <2>2. QED BY <1>3, <2>1
  <1>6. SlidesBy(k, f, buffer, state)
    <2> HIDE DEF Reconstruct
    <2>1. QED BY <1>4, <1>5 DEF start, SlidesBy, Emptied
  <1>7. k = RunLength(rfrom, Filled(buffer))
    BY DEF k, Filled
  <1>8. QED BY <1>6, <1>7

\* The run of packets that is released: its segments, and what they amount to.
LEMMA SegmentsReleased ==
    ASSUME NEW g, InOrder(g), NEW n \in Nat, NEW k \in Nat, n + k <= Len(g),
           NEW deliv \in Seq(Seq(Segments)), NEW f,
           f[0] \in Assemblies, ~f[0].malfunction, f[0].segments = <<>>,
           Assembled(g, n, f[0].current, deliv \o f[0].received),
           \A j \in 1 .. k : f[j] = Reconstruct(f[j - 1], Carried(g, n + j))
    PROVE  /\ f[k] \in Assemblies /\ ~f[k].malfunction
           /\ Len(f[k].segments) = k /\ \A i \in 1 .. k : f[k].segments[i] = g[n + i]
           /\ Assembled(g, n + k, f[k].current, deliv \o f[k].received)
  <1> DEFINE Good(j) == /\ f[j] \in Assemblies /\ ~f[j].malfunction
                        /\ Len(f[j].segments) = j
                        /\ \A i \in 1 .. j : f[j].segments[i] = g[n + i]
                        /\ Assembled(g, n + j, f[j].current, deliv \o f[j].received)
             T == {j \in Nat : j <= k => Good(j)}
  <1>0. g \in Seq(Segments) /\ Len(g) \in Nat
    BY LenProperties DEF InOrder
  <1>1. 0 \in T
    <2>1. Good(0)
      BY EmptySeq
    <2>2. QED BY <2>1
  <1>2. ASSUME NEW j \in Nat, j \in T PROVE j + 1 \in T
    <2> SUFFICES ASSUME j + 1 <= k PROVE Good(j + 1)
      OBVIOUS
    <2>1. Good(j)
      BY <1>2
    <2> DEFINE x == f[j]
               y == f[j + 1]
    <2>2. n + j \in Nat /\ n + j < Len(g) /\ (n + j) + 1 = n + (j + 1) /\ (j + 1) - 1 = j
          /\ j + 1 \in 1 .. k /\ n + (j + 1) \in 1 .. Len(g)
      <3>1. n \in Nat /\ k \in Nat /\ j \in Nat /\ Len(g) \in Nat /\ j + 1 <= k /\ n + k <= Len(g)
        BY <1>0
      <3>2. QED BY ONLY <3>1
    <2>3. y = Reconstruct(x, Carried(g, (n + j) + 1))
      BY <2>2
    <2>4. /\ x \in Assemblies /\ ~x.malfunction
          /\ Assembled(g, n + j, x.current, deliv \o x.received)
          /\ Len(x.segments) = j /\ \A i \in 1 .. j : x.segments[i] = g[n + i]
      BY <2>1
    <2> HIDE DEF x, y
    <2>5. /\ y \in Assemblies /\ ~y.malfunction
          /\ y.segments = Append(x.segments, g[(n + j) + 1])
          /\ Assembled(g, (n + j) + 1, y.current, deliv \o y.received)
      BY <2>2, <2>3, <2>4, ReconstructStep
    <2>6. x.segments \in Seq(Segments) /\ g[n + (j + 1)] \in Segments
      BY <1>0, <2>2, <2>4, ElementOfSeq DEF Assemblies
    <2>7. Len(y.segments) = j + 1 /\ \A i \in 1 .. j + 1 : y.segments[i] = g[n + i]
      <3> DEFINE s == x.segments
                 e == g[n + (j + 1)]
                 u == y.segments
      <3>1. s \in Seq(Segments) /\ e \in Segments /\ Len(s) = j /\ u = Append(s, e)
        BY <2>2, <2>4, <2>5, <2>6
      <3>2. \A i \in 1 .. j : s[i] = g[n + i]
        BY <2>4
      <3> HIDE DEF s, u
      <3>a. ASSUME NEW ee \in Segments, u = Append(s, ee)
            PROVE  Len(u) = j + 1 /\ (\A i \in 1 .. j : u[i] = s[i]) /\ u[j + 1] = ee
        <4> HIDE DEF Segments
        <4>1. QED BY <3>1, <3>a, AppendProperties
      <3>3. Len(u) = j + 1 /\ (\A i \in 1 .. j : u[i] = s[i]) /\ u[j + 1] = e
        BY <3>1, <3>a
      <3>4. \A i \in 1 .. j + 1 : u[i] = g[n + i]
        <4> SUFFICES ASSUME NEW i \in 1 .. j + 1 PROVE u[i] = g[n + i]
          OBVIOUS
        <4>1. i \in 1 .. j \/ i = j + 1
          OBVIOUS
        <4>2. QED BY <3>2, <3>3, <4>1
      <3>5. QED BY <3>3, <3>4 DEF u
    <2>8. QED BY <2>2, <2>5, <2>7 DEF x, y
  <1> HIDE DEF T, Good
  <1>3. k \in T
    BY <1>1, <1>2, SetInductionOnNat
  <1>4. Good(k)
    <2>1. k <= k
      OBVIOUS
    <2>2. QED BY <1>3, <2>1 DEF T
  <1>5. QED BY ONLY <1>4 DEF Good

-----------------------------------------------------------------------------
(* Positions: which packets of the stream are where.                       *)

\* The receiver has packet i.
Has(i, r, buffer) == i < r \/ (i < r + K /\ buffer[Wrap(i)] # NoPacket)

\* The buffer holds packets of the stream, behind packet r, before packet b.
BufferAt(g, r, b, buffer) ==
    \A n \in SN : buffer[n] # NoPacket =>
        \E i \in Nat : r < i /\ i < r + K /\ i < b /\ n = Wrap(i) /\ buffer[n] = Carried(g, i)

\* Packet p on the link is packet x of the stream, or a command.
Fits(g, p, x) == \/ p.type = "Data" /\ p = Carried(g, x)
                 \/ p \in {Packet("Open", 0), Packet("Close", 0)}

\* The packets on the link are those counted q[1], q[2], ... in the stream.
Match(g, packets, q) ==
    /\ q \in Seq(Nat) /\ Len(q) = Len(packets)
    /\ \A l \in 1 .. Len(q) : Fits(g, packets[l], q[l])

\* The acknowledgements on the link are of those counted t[1], t[2], ...
Number(acks, t) ==
    /\ t \in Seq(Nat) /\ Len(t) = Len(acks)
    /\ \A l \in 1 .. Len(t) : acks[l].sn = Wrap(t[l])

\* No packet is K or more behind one before it; none is farther than K behind b; all
\* are before c; none in q is K or more behind one in t.
Near(q)      == \A l \in 1 .. Len(q) : \A j \in 1 .. l - 1 : q[j] < q[l] + K
Above(b, q)  == \A l \in 1 .. Len(q) : b <= q[l] + K
Below(q, c)  == \A l \in 1 .. Len(q) : q[l] < c
Across(t, q) == \A j \in 1 .. Len(t), l \in 1 .. Len(q) : t[j] < q[l] + K

\* These orders, when the first is taken ...
LEMMA QueueHead ==
    ASSUME NEW q \in Seq(Nat), q # <<>>
    PROVE  /\ q[1] \in Nat /\ 1 \in 1 .. Len(q)
           /\ Tail(q) \in Seq(Nat) /\ Len(Tail(q)) = Len(q) - 1
           /\ \A l \in 1 .. Len(Tail(q)) : Tail(q)[l] = q[l + 1] /\ l + 1 \in 1 .. Len(q)
                                          /\ q[l + 1] \in Nat
           /\ Near(q) => Near(Tail(q)) /\ \A l \in 1 .. Len(Tail(q)) : q[1] < Tail(q)[l] + K
           /\ \A b : Above(b, q) => Above(b, Tail(q)) /\ b <= q[1] + K
           /\ \A c : Below(q, c) => Below(Tail(q), c) /\ q[1] < c
           /\ \A t : Across(t, q) => Across(t, Tail(q)) /\ \A j \in 1 .. Len(t) : t[j] < q[1] + K
           /\ \A t \in Seq(Nat) : Across(q, t) => Across(Tail(q), t) /\ Above(q[1] + 1, t)
  <1> DEFINE u == Tail(q)
  <1>1. Len(q) \in Nat \ {0} /\ \A l \in 1 .. Len(q) : q[l] \in Nat
    BY EmptySeq, ElementOfSeq
  <1>2. u \in Seq(Nat) /\ Len(u) = Len(q) - 1 /\ \A l \in 1 .. Len(u) : u[l] = q[l + 1]
    BY HeadTailProperties
  <1> HIDE DEF u
  <1>3. \A l \in 1 .. Len(u) : u[l] = q[l + 1] /\ l + 1 \in 1 .. Len(q) /\ q[l + 1] \in Nat
    BY <1>1, <1>2
  <1>4. ASSUME Near(q) PROVE Near(u) /\ \A l \in 1 .. Len(u) : q[1] < u[l] + K
    <2>1. ASSUME NEW l \in 1 .. Len(u), NEW j \in 1 .. l - 1 PROVE u[j] < u[l] + K
      <3>1. j + 1 \in 1 .. (l + 1) - 1 /\ j \in 1 .. Len(u)
        BY <1>1, <1>2
      <3>2. q[j + 1] < q[l + 1] + K
        BY <1>3, <1>4, <3>1 DEF Near
      <3>3. QED BY <1>3, <3>1, <3>2
    <2>2. ASSUME NEW l \in 1 .. Len(u) PROVE q[1] < u[l] + K
      <3>1. 1 \in 1 .. (l + 1) - 1
        OBVIOUS
      <3>2. q[1] < q[l + 1] + K
        BY <1>3, <1>4, <3>1 DEF Near
      <3>3. QED BY <1>3, <3>2
    <2>3. QED BY <2>1, <2>2 DEF Near
  <1>5. 1 \in 1 .. Len(q) /\ q[1] \in Nat
    BY <1>1
  <1>6. \A b : Above(b, q) => Above(b, u) /\ b <= q[1] + K
    BY <1>3, <1>5 DEF Above
  <1>7. \A c : Below(q, c) => Below(u, c) /\ q[1] < c
    BY <1>3, <1>5 DEF Below
  <1>8. \A t : Across(t, q) => Across(t, u) /\ \A j \in 1 .. Len(t) : t[j] < q[1] + K
    BY <1>3, <1>5 DEF Across
  <1>9. ASSUME NEW t \in Seq(Nat), Across(q, t) PROVE Across(u, t) /\ Above(q[1] + 1, t)
    <2>1. Across(u, t)
      BY <1>3, <1>9 DEF Across
    <2>2. \A l \in 1 .. Len(t) : q[1] < t[l] + K
      BY <1>5, <1>9 DEF Across
    <2>3. K \in Nat /\ \A l \in 1 .. Len(t) : t[l] \in Nat
      BY WindowAssumption, ElementOfSeq
    <2>4. QED BY <1>5, <2>1, <2>2, <2>3 DEF Above
  <1>10. QED BY <1>2, <1>3, <1>4, <1>5, <1>6, <1>7, <1>8, <1>9 DEF u

\* ... and when x comes last.
LEMMA QueueEnd ==
    ASSUME NEW q \in Seq(Nat), NEW x \in Nat
    PROVE  /\ Append(q, x) \in Seq(Nat) /\ Len(Append(q, x)) = Len(q) + 1
           /\ (\A l \in 1 .. Len(q) : Append(q, x)[l] = q[l]) /\ Append(q, x)[Len(q) + 1] = x
           /\ Near(q) /\ Below(q, x + K) => Near(Append(q, x))
           /\ \A b : Above(b, q) /\ b <= x + K => Above(b, Append(q, x))
           /\ \A c : Below(q, c) /\ x < c => Below(Append(q, x), c)
           /\ \A t : Across(t, q) /\ Below(t, x + K) => Across(t, Append(q, x))
           /\ \A t : Across(q, t) /\ (\A l \in 1 .. Len(t) : x < t[l] + K) => Across(Append(q, x), t)
  <1> DEFINE u == Append(q, x)
  <1>1. Len(q) \in Nat /\ \A l \in 1 .. Len(q) : q[l] \in Nat
    BY ElementOfSeq
  <1>2. /\ u \in Seq(Nat) /\ Len(u) = Len(q) + 1
        /\ (\A l \in 1 .. Len(q) : u[l] = q[l]) /\ u[Len(q) + 1] = x
    BY AppendProperties
  <1> HIDE DEF u
  <1>3. \A l \in 1 .. Len(u) : (l \in 1 .. Len(q) /\ u[l] = q[l]) \/ u[l] = x
    <2> SUFFICES ASSUME NEW l \in 1 .. Len(u), l \notin 1 .. Len(q) PROVE u[l] = x
      BY <1>2
    <2>1. l = Len(q) + 1
      BY <1>1, <1>2
    <2>2. QED BY <1>2, <2>1
  <1>4. ASSUME Near(q), Below(q, x + K) PROVE Near(u)
    <2> SUFFICES ASSUME NEW l \in 1 .. Len(u), NEW j \in 1 .. l - 1 PROVE u[j] < u[l] + K
      BY DEF Near
    <2>1. j \in 1 .. Len(q) /\ u[j] = q[j]
      BY <1>1, <1>2
    <2>2. QED BY <1>3, <1>4, <2>1 DEF Near, Below
  <1>5. \A b : Above(b, q) /\ b <= x + K => Above(b, u)
    BY <1>3 DEF Above
  <1>6. \A c : Below(q, c) /\ x < c => Below(u, c)
    BY <1>3 DEF Below
  <1>7. \A t : Across(t, q) /\ Below(t, x + K) => Across(t, u)
    BY <1>3 DEF Across, Below
  <1>8. \A t : Across(q, t) /\ (\A l \in 1 .. Len(t) : x < t[l] + K) => Across(u, t)
    BY <1>3 DEF Across
  <1>9. QED BY <1>2, <1>4, <1>5, <1>6, <1>7, <1>8 DEF u

\* The packets on the link, when the first is taken ...
LEMMA MatchHead ==
    ASSUME NEW g, NEW packets \in Seq(Packets), NEW q, Match(g, packets, q), packets # <<>>
    PROVE  /\ q \in Seq(Nat) /\ q # <<>> /\ Fits(g, Head(packets), q[1])
           /\ Match(g, Tail(packets), Tail(q))
  <1>1. q \in Seq(Nat) /\ q # <<>> /\ Len(q) = Len(packets) /\ Len(packets) \in Nat \ {0}
    <2>1. Len(packets) \in Nat \ {0}
      BY EmptySeq
    <2>2. QED BY <2>1, EmptySeq DEF Match
  <1>2. /\ Tail(packets) \in Seq(Packets) /\ Len(Tail(packets)) = Len(packets) - 1
        /\ \A l \in 1 .. Len(Tail(packets)) : Tail(packets)[l] = packets[l + 1]
    <2> HIDE DEF Packets
    <2>1. QED BY HeadTailProperties
  <1>3. /\ Tail(q) \in Seq(Nat) /\ Len(Tail(q)) = Len(q) - 1 /\ 1 \in 1 .. Len(q)
        /\ \A l \in 1 .. Len(Tail(q)) : Tail(q)[l] = q[l + 1] /\ l + 1 \in 1 .. Len(q)
    BY <1>1, QueueHead
  <1>4. Head(packets) = packets[1]
    OBVIOUS
  <1>5. Match(g, Tail(packets), Tail(q))
    <2> DEFINE p == Tail(packets)
               u == Tail(q)
    <2> HIDE DEF p, u
    <2>1. \A l \in 1 .. Len(u) : l \in 1 .. Len(p) /\ p[l] = packets[l + 1] /\ u[l] = q[l + 1]
                                 /\ l + 1 \in 1 .. Len(q)
      BY <1>1, <1>2, <1>3 DEF p, u
    <2>2. \A l \in 1 .. Len(u) : Fits(g, p[l], u[l])
      BY <2>1 DEF Match
    <2>3. Len(u) = Len(p) /\ u \in Seq(Nat)
      BY <1>1, <1>2, <1>3 DEF p, u
    <2>4. QED BY <2>2, <2>3 DEF Match, p, u
  <1>6. QED BY <1>1, <1>3, <1>4, <1>5 DEF Match

\* ... and when one is sent.
LEMMA MatchEnd ==
    ASSUME NEW g, NEW packets \in Seq(Packets), NEW q, Match(g, packets, q),
           NEW p \in Packets, NEW x \in Nat, Fits(g, p, x)
    PROVE  Match(g, Append(packets, p), Append(q, x))
  <1> DEFINE a == Append(packets, p)
             u == Append(q, x)
  <1>1. q \in Seq(Nat) /\ Len(q) = Len(packets) /\ Len(q) \in Nat
    BY LenProperties DEF Match
  <1>2. /\ Len(a) = Len(packets) + 1
        /\ (\A l \in 1 .. Len(packets) : a[l] = packets[l]) /\ a[Len(packets) + 1] = p
    <2> HIDE DEF Packets
    <2>1. QED BY AppendProperties
  <1>3. /\ u \in Seq(Nat) /\ Len(u) = Len(q) + 1
        /\ (\A l \in 1 .. Len(q) : u[l] = q[l]) /\ u[Len(q) + 1] = x
    BY <1>1, AppendProperties
  <1> HIDE DEF a, u
  <1>4. \A l \in 1 .. Len(u) : Fits(g, a[l], u[l])
    <2> SUFFICES ASSUME NEW l \in 1 .. Len(u) PROVE Fits(g, a[l], u[l])
      OBVIOUS
    <2>1. l \in 1 .. Len(q) \/ l = Len(q) + 1
      BY <1>1, <1>3
    <2>2. QED BY <1>1, <1>2, <1>3, <2>1 DEF Match
  <1>5. QED BY <1>1, <1>2, <1>3, <1>4 DEF Match, a, u

\* The acknowledgements on the link, when the first is taken ...
LEMMA NumberHead ==
    ASSUME NEW acks \in Seq(Acks), NEW t, Number(acks, t), acks # <<>>
    PROVE  /\ t \in Seq(Nat) /\ t # <<>> /\ Head(acks).sn = Wrap(t[1])
           /\ Number(Tail(acks), Tail(t))
  <1>1. t \in Seq(Nat) /\ t # <<>> /\ Len(t) = Len(acks) /\ Len(acks) \in Nat \ {0}
    <2>1. Len(acks) \in Nat \ {0}
      BY EmptySeq
    <2>2. QED BY <2>1, EmptySeq DEF Number
  <1>2. /\ Tail(acks) \in Seq(Acks) /\ Len(Tail(acks)) = Len(acks) - 1
        /\ \A l \in 1 .. Len(Tail(acks)) : Tail(acks)[l] = acks[l + 1]
    <2> HIDE DEF Acks
    <2>1. QED BY HeadTailProperties
  <1>3. /\ Tail(t) \in Seq(Nat) /\ Len(Tail(t)) = Len(t) - 1 /\ 1 \in 1 .. Len(t)
        /\ \A l \in 1 .. Len(Tail(t)) : Tail(t)[l] = t[l + 1] /\ l + 1 \in 1 .. Len(t)
    BY <1>1, QueueHead
  <1>4. Head(acks) = acks[1]
    OBVIOUS
  <1>5. Number(Tail(acks), Tail(t))
    <2> DEFINE p == Tail(acks)
               u == Tail(t)
    <2> HIDE DEF p, u
    <2>1. \A l \in 1 .. Len(u) : l \in 1 .. Len(p) /\ p[l] = acks[l + 1] /\ u[l] = t[l + 1]
                                 /\ l + 1 \in 1 .. Len(t)
      BY <1>1, <1>2, <1>3 DEF p, u
    <2>2. \A l \in 1 .. Len(u) : p[l].sn = Wrap(u[l])
      BY <2>1 DEF Number
    <2>3. Len(u) = Len(p) /\ u \in Seq(Nat)
      BY <1>1, <1>2, <1>3 DEF p, u
    <2>4. QED BY <2>2, <2>3 DEF Number, p, u
  <1>6. QED BY <1>1, <1>3, <1>4, <1>5 DEF Number

\* ... and when one is sent.
LEMMA NumberEnd ==
    ASSUME NEW acks \in Seq(Acks), NEW t, Number(acks, t),
           NEW p \in Acks, NEW x \in Nat, p.sn = Wrap(x)
    PROVE  Number(Append(acks, p), Append(t, x))
  <1> DEFINE a == Append(acks, p)
             u == Append(t, x)
  <1>1. t \in Seq(Nat) /\ Len(t) = Len(acks) /\ Len(t) \in Nat
    BY LenProperties DEF Number
  <1>2. /\ Len(a) = Len(acks) + 1
        /\ (\A l \in 1 .. Len(acks) : a[l] = acks[l]) /\ a[Len(acks) + 1] = p
    <2> HIDE DEF Acks
    <2>1. QED BY AppendProperties
  <1>3. /\ u \in Seq(Nat) /\ Len(u) = Len(t) + 1
        /\ (\A l \in 1 .. Len(t) : u[l] = t[l]) /\ u[Len(t) + 1] = x
    BY <1>1, AppendProperties
  <1> HIDE DEF a, u
  <1>4. \A l \in 1 .. Len(u) : a[l].sn = Wrap(u[l])
    <2> SUFFICES ASSUME NEW l \in 1 .. Len(u) PROVE a[l].sn = Wrap(u[l])
      OBVIOUS
    <2>1. l \in 1 .. Len(t) \/ l = Len(t) + 1
      BY <1>1, <1>3
    <2>2. QED BY <1>1, <1>2, <1>3, <2>1 DEF Number
  <1>5. QED BY <1>1, <1>2, <1>3, <1>4 DEF Number, a, u

\* What is carried is a packet of its number and segment.
LEMMA CarriedIs ==
    ASSUME NEW g, NEW x \in Nat
    PROVE  /\ Carried(g, x).sn = Wrap(x) /\ Wrap(x) \in SN
           /\ Carried(g, x) # NoPacket
           /\ x = 0 => Carried(g, x) = Packet("Open", 0)
           /\ x > 0 => /\ Carried(g, x).type = "Data" /\ Carried(g, x).seg = <<g[x][1], g[x][2]>>
                       /\ Carried(g, x) = DataPacket(Wrap(x), g[x][1], g[x][2])
  <1>1. Wrap(x) \in SN
    BY Quotient
  <1>2. 0 \in SN /\ -1 \notin SN /\ Wrap(0) = 0
    BY WrapLow, WindowAssumption DEF SN
  <1>3. Packet("Open", 0).sn = 0 /\ NoPacket.sn = -1
    BY DEF Packet, NoPacket
  <1>4. Carried(g, x).sn = Wrap(x)
    BY <1>2, <1>3 DEF Carried, DataPacket
  <1>5. Carried(g, x) # NoPacket
    BY <1>1, <1>2, <1>3, <1>4
  <1>6. QED BY <1>1, <1>4, <1>5 DEF Carried, DataPacket

\* The receive window has slid by k packets after packet x has come.
SlidTo(g, r, b, buf, x, buffer, k, new, c) ==
    /\ k \in Nat /\ r + k <= r + K /\ r + k <= c
    /\ \A y \in Nat : r <= y /\ y < r + k => buffer[Wrap(y)] = Carried(g, y)
    /\ BufferAt(g, r + k, c, new)
    /\ \A i \in Nat : Has(i, r, buf) => Has(i, r + k, new)
    /\ Has(x, r + k, new)
    /\ x = r => k > 0

\* The window of the receiver after packet x has come, and been passed as
\* far as there is no gap.
LEMMA WindowSlides ==
    ASSUME NEW g, NEW r \in Nat, NEW b \in Nat, r <= b, NEW buf, BufferAt(g, r, b, buf),
           DOMAIN buf = SN, NEW x \in Nat, r <= x, x < r + K, NEW buffer,
           buffer = [buf EXCEPT ![Wrap(x)] = Carried(g, x)]
    PROVE  LET k == RunLength(Wrap(r), Filled(buffer))
           IN  SlidTo(g, r, b, buf, x, buffer, k, Emptied(buffer, Numbers(Wrap(r), k)),
                      IF b <= x THEN x + 1 ELSE b)
  <1> DEFINE k    == RunLength(Wrap(r), Filled(buffer))
             new  == Emptied(buffer, Numbers(Wrap(r), k))
             c    == IF b <= x THEN x + 1 ELSE b
             done == Filled(buffer)
  <1>c. c \in Nat /\ b <= c /\ x < c
    OBVIOUS
  <1>d. \A n \in SN : n \in done <=> buffer[n] # NoPacket
    BY DEF Filled
  <1>n. \A n \in SN : new[n] = IF n \in Numbers(Wrap(r), k) THEN NoPacket ELSE buffer[n]
    BY DEF Emptied
  <1>k. k = RunLength(Wrap(r), done)
    OBVIOUS
  <1> HIDE DEF c, done, new, k
  <1>0. K \in Nat /\ M \in Nat /\ K < M /\ 0 < K
    BY WindowAssumption
  <1>1. /\ Wrap(x) \in SN /\ Carried(g, x) # NoPacket /\ buffer[Wrap(x)] = Carried(g, x)
        /\ \A n \in SN : n # Wrap(x) => buffer[n] = buf[n]
    BY CarriedIs
  <1>2. ASSUME NEW n \in SN, buffer[n] # NoPacket
        PROVE  \E i \in Nat : r <= i /\ i < r + K /\ i < c /\ n = Wrap(i) /\ buffer[n] = Carried(g, i)
    <2>1. CASE n = Wrap(x)
      BY <1>1, <1>c, <2>1
    <2>2. CASE n # Wrap(x)
      <3>1. buf[n] # NoPacket /\ buffer[n] = buf[n]
        BY <1>1, <1>2, <2>2
      <3>2. PICK i \in Nat : r < i /\ i < r + K /\ i < b /\ n = Wrap(i) /\ buf[n] = Carried(g, i)
        BY <3>1 DEF BufferAt
      <3>3. r <= i /\ i < c
        BY <3>2, <1>c
      <3>4. QED BY <3>1, <3>2, <3>3
    <2>3. QED BY <2>1, <2>2
  <1>3. ASSUME NEW y \in Nat, r <= y, y <= r + K, Wrap(y) \in done
        PROVE  y < r + K /\ y < c /\ buffer[Wrap(y)] = Carried(g, y)
    <2>1. PICK i \in Nat : r <= i /\ i < r + K /\ i < c /\ Wrap(y) = Wrap(i)
                           /\ buffer[Wrap(y)] = Carried(g, i)
      BY <1>d, <1>2, <1>3, Quotient
    <2>2. i < y + M /\ y < i + M
      BY <1>0, <1>3, <2>1
    <2>3. i = y
      BY <2>1, <2>2, WrapSame
    <2>4. QED BY <2>1, <2>3
  <1>4. Wrap(r + K) \notin done
    <2> SUFFICES ASSUME Wrap(r + K) \in done PROVE FALSE
      OBVIOUS
    <2>1. r + K \in Nat /\ r <= r + K /\ r + K <= r + K /\ ~(r + K < r + K)
      BY <1>0
    <2> HIDE DEF done
    <2>2. QED BY <1>3, <2>1
  <1>5. /\ k \in Nat /\ r + k <= r + K
        /\ \A y \in Nat : r <= y /\ y < r + k => Wrap(y) \in done
        /\ Wrap(r + k) \notin done
    <2> DEFINE z == r + K
    <2>1. z \in Nat /\ r <= z /\ z < r + M /\ Wrap(z) \notin done
      BY <1>0, <1>4
    <2>2. k = RunLength(Wrap(r), done)
      BY <1>k
    <2> HIDE DEF z, done
    <2>3. /\ k \in Nat /\ r + k <= z
          /\ \A y \in Nat : r <= y /\ y < r + k => Wrap(y) \in done
          /\ Wrap(r + k) \notin done
      BY <2>1, <2>2, RunEnds
    <2>4. QED BY <2>3 DEF z
  <1>6. ASSUME NEW y \in Nat, r <= y, y < r + k
        PROVE  buffer[Wrap(y)] = Carried(g, y) /\ y < c
    <2>1. Wrap(y) \in done /\ y <= r + K
      BY <1>0, <1>5, <1>6
    <2> HIDE DEF done
    <2>2. QED BY <1>3, <1>6, <2>1
  <1>7. r + k <= c
    <2>1. CASE k = 0
      BY <1>c, <2>1
    <2>2. CASE k # 0
      <3>1. r + k - 1 \in Nat /\ r <= r + k - 1 /\ r + k - 1 < r + k
        BY <1>5, <2>2
      <3>2. r + k - 1 < c
        BY <1>6, <3>1
      <3>3. QED BY <1>c, <1>5, <3>1, <3>2
    <2>3. QED BY <2>1, <2>2
  <1>8. ASSUME NEW n \in SN
        PROVE  n \in Numbers(Wrap(r), k) <=> \E y \in Nat : r <= y /\ y < r + k /\ n = Wrap(y)
    <2>1. k \in Nat
      BY <1>5
    <2>2. QED BY ONLY <2>1, r \in Nat, NumbersOf
  <1>9. BufferAt(g, r + k, c, new)
    <2> SUFFICES ASSUME NEW n \in SN, new[n] # NoPacket
                 PROVE  \E i \in Nat : r + k < i /\ i < r + k + K /\ i < c /\ n = Wrap(i)
                                       /\ new[n] = Carried(g, i)
      BY DEF BufferAt
    <2>1. n \notin Numbers(Wrap(r), k) /\ new[n] = buffer[n] /\ buffer[n] # NoPacket /\ n \in done
      BY <1>d, <1>n
    <2>2. PICK i \in Nat : r <= i /\ i < r + K /\ i < c /\ n = Wrap(i) /\ buffer[n] = Carried(g, i)
      BY <1>2, <2>1
    <2>3. ~(i < r + k)
      BY <1>8, <2>1, <2>2
    <2>4. i # r + k
      BY <1>5, <2>1, <2>2
    <2>5. r + k < i /\ i < r + k + K
      BY <1>0, <1>5, <2>2, <2>3, <2>4
    <2>6. QED BY <2>1, <2>2, <2>5
  <1>10. ASSUME NEW i \in Nat, i < r + k \/ (r <= i /\ i < r + K /\ buffer[Wrap(i)] # NoPacket)
         PROVE  Has(i, r + k, new)
    <2>1. CASE i < r + k
      BY <2>1 DEF Has
    <2>2. CASE ~(i < r + k)
      <3>1. r <= i /\ i < r + K /\ buffer[Wrap(i)] # NoPacket /\ Wrap(i) \in SN
        BY <1>10, <2>2, Quotient
      <3>2. Wrap(i) \notin Numbers(Wrap(r), k)
        <4> SUFFICES ASSUME Wrap(i) \in Numbers(Wrap(r), k) PROVE FALSE
          OBVIOUS
        <4>1. PICK y \in Nat : r <= y /\ y < r + k /\ Wrap(i) = Wrap(y)
          BY <1>8, <3>1
        <4>2. y < i + M /\ i < y + M
          BY <1>0, <1>5, <3>1, <4>1
        <4>3. i = y
          BY <4>1, <4>2, WrapSame
        <4>4. QED BY <2>2, <4>1, <4>3
      <3>3. new[Wrap(i)] # NoPacket
        BY <1>n, <3>1, <3>2
      <3>4. i < r + k + K
        BY <1>0, <1>5, <3>1
      <3>5. QED BY <3>3, <3>4 DEF Has
    <2>3. QED BY <2>1, <2>2
  <1>11. ASSUME NEW i \in Nat, Has(i, r, buf) PROVE Has(i, r + k, new)
    <2>1. CASE i < r
      <3>1. i < r + k
        BY <1>5, <2>1
      <3>2. QED BY <1>10, <3>1
    <2>2. CASE ~(i < r)
      <3>1. i < r + K /\ buf[Wrap(i)] # NoPacket /\ r <= i /\ Wrap(i) \in SN
        BY <1>11, <2>2, Quotient DEF Has
      <3>2. buffer[Wrap(i)] # NoPacket
        BY <1>1, <3>1
      <3>3. QED BY <1>10, <3>1, <3>2
    <2>3. QED BY <2>1, <2>2
  <1>12. Has(x, r + k, new)
    BY <1>1, <1>10
  <1>13. x = r => k > 0
    <2> SUFFICES ASSUME x = r, ~(k > 0) PROVE FALSE
      OBVIOUS
    <2>1. r + k = x
      BY <1>5
    <2>2. Wrap(x) \in done
      BY <1>1, <1>d
    <2>3. QED BY <1>5, <2>1, <2>2
  <1>14. QED BY <1>5, <1>6, <1>7, <1>9, <1>11, <1>12, <1>13 DEF SlidTo, k, new, c

\* The slots hold the last packets of the stream.
SlotsAt(g, c, slot) == \A i \in Nat : i < c /\ c <= i + M => slot[Wrap(i)] = Carried(g, i)

\* The packets marked as sent are in the window; the flag of packet 0 can be left over from
\* the Open command as long as the numbers have not come round.
SentAt(a, c, flag) ==
    \A n \in SN : flag[n] =>
        \/ \E i \in Nat : a <= i /\ i < c /\ n = Wrap(i)
        \/ n = 0 /\ a > 0 /\ c <= M

\* The packets marked as acknowledged are in the window, and the receiver has them.
AckedAt(a, h, r, flag, buffer) ==
    \A n \in SN : flag[n] =>
        \E i \in Nat : a <= i /\ i < h /\ n = Wrap(i) /\ Has(i, r, buffer)

\* An acknowledgement of Open on the link is the first, and the only one.
OpenAckFirst(t, a, flag) == \A l \in 1 .. Len(t) : t[l] = 0 => l = 1 /\ a = 0 /\ ~flag[0]

\* The receiver, waiting for packet r, having packets before b at most, with the packets
\* counted q on the link.
ReceiverAt(r, b, q) ==
    /\ rfrom = Wrap(r)
    /\ r <= b /\ b <= Count /\ Count <= r + K
    /\ Len(released) = (IF r = 0 THEN 0 ELSE r - 1)
    /\ rstate \in {"Closed", "Enabled"} => r = 0
    /\ Count > 1 => r > 0
    /\ BufferAt(Given, r, b, rbuffer)
    /\ Match(Given, toR, q) /\ Near(q) /\ Above(b, q) /\ Below(q, Count)

\* The transmitter, whose window starts with packet a, and which has had no
\* acknowledgement of a packet from h on.
SenderAt(a, h, r) ==
    /\ from = Wrap(a)
    /\ a <= r /\ a <= h /\ h <= Count /\ Count <= a + K
    /\ SlotsAt(Given, Count, slots)
    /\ SentAt(a, Count, sent)
    /\ AckedAt(a, h, r, acked, rbuffer)
    /\ ackInHand # NoAck \/ openAcked \/ tstate = "Open" => r > 0
    /\ tpc = "segmentSent" => a < Count /\ ~acked[Wrap(Count - 1)]

\* The acknowledgements on the link, counted t: the receiver has those packets.
AnswersAt(a, h, r, q, t) ==
    /\ Number(toT, t) /\ Near(t) /\ Above(h, t) /\ Below(t, Count)
    /\ \A l \in 1 .. Len(t) : Has(t[l], r, rbuffer)
    /\ OpenAckFirst(t, a, acked)
    /\ Above(h, q) /\ Across(t, q)
    /\ \A l \in 1 .. Len(toR) : toR[l].type # "Close"

\* The numbers on the link and in both windows, modulo M, are those of packets of the
\* stream that are never so far apart that one could be taken for another.
PositionsInv ==
    rpc # "stopped" =>
        \E r, b \in Nat, q \in Seq(Nat) :
            /\ ReceiverAt(r, b, q)
            /\ Live => \E a, h \in Nat, t \in Seq(Nat) : SenderAt(a, h, r) /\ AnswersAt(a, h, r, q, t)

\* The segments in g are of the first m messages.
OfMessages(g, m) == \A i \in 1 .. Len(g) : g[i][1] <= m

\* What has come out is the first messages, whole.
IsWhole(out, m)  == \E k \in 0 .. m : out = Whole(k)

\* What has been given is of the messages begun.
MessageInv == OfMessages(Given, message)

\* What has been released is the beginning of the stream, and the messages are made of it.
ReleasedInv ==
    /\ current \in Seq(Segments)
    /\ received \in Seq(Seq(Segments)) /\ delivered \in Seq(Seq(Segments))
    /\ released \in Seq(Segments)
    /\ Len(released) <= Len(Given)
    /\ \A i \in 1 .. Len(released) : released[i] = Given[i]
    /\ rpc # "stopped" => Assembled(Given, Len(released), current, delivered \o received)
    /\ IsWhole(delivered \o received, message)

-----------------------------------------------------------------------------
(* The flags and slots of the transmitter.                                 *)

\* One more segment is given.
LEMMA StreamGrows ==
    ASSUME NEW g \in Seq(Segments), NEW s \in Segments, NEW h, h = Append(g, s),
           NEW c, c = 1 + Len(g)
    PROVE  /\ \A i \in Nat : i < c => Carried(h, i) = Carried(g, i)
           /\ c \in Nat /\ c > 0 /\ h[c] = s
           /\ \A r, b, buf : b \in Nat /\ b <= c /\ BufferAt(g, r, b, buf) => BufferAt(h, r, b, buf)
           /\ \A pk, q : Match(g, pk, q) /\ Below(q, c) => Match(h, pk, q)
  <1>1. Len(g) \in Nat
    BY LenProperties
  <1>2. h[Len(g) + 1] = s /\ \A i \in 1 .. Len(g) : h[i] = g[i]
    <2> HIDE DEF Segments
    <2>1. QED BY AppendProperties
  <1>3. ASSUME NEW i \in Nat, i < c PROVE Carried(h, i) = Carried(g, i)
    <2>1. CASE i = 0
      BY <2>1 DEF Carried
    <2>2. CASE i # 0
      <3>1. i \in 1 .. Len(g)
        BY <1>1, <1>3, <2>2
      <3>2. QED BY <1>2, <3>1 DEF Carried
    <2>3. QED BY <2>1, <2>2
  <1>4. c \in Nat /\ c > 0 /\ h[c] = s
    BY <1>1, <1>2
  <1>5. ASSUME NEW r, NEW b \in Nat, NEW buf, b <= c, BufferAt(g, r, b, buf)
        PROVE  BufferAt(h, r, b, buf)
    <2> SUFFICES ASSUME NEW n \in SN, buf[n] # NoPacket
                 PROVE  \E i \in Nat : r < i /\ i < r + K /\ i < b /\ n = Wrap(i)
                                       /\ buf[n] = Carried(h, i)
      BY DEF BufferAt
    <2>1. PICK i \in Nat : r < i /\ i < r + K /\ i < b /\ n = Wrap(i) /\ buf[n] = Carried(g, i)
      BY <1>5 DEF BufferAt
    <2>2. i < c
      BY ONLY <1>4, <1>5, <2>1, b \in Nat, i \in Nat
    <2>3. QED BY <1>3, <2>1, <2>2
  <1>6. ASSUME NEW pk, NEW q, Match(g, pk, q), Below(q, c)
        PROVE  Match(h, pk, q)
    <2>1. q \in Seq(Nat) /\ \A l \in 1 .. Len(q) : q[l] \in Nat /\ q[l] < c /\ Fits(g, pk[l], q[l])
      BY <1>6, ElementOfSeq DEF Match, Below
    <2>2. \A l \in 1 .. Len(q) : Fits(h, pk[l], q[l])
      BY <1>3, <2>1 DEF Fits
    <2>3. QED BY <1>6, <2>2 DEF Match
  <1>7. QED BY <1>3, <1>4, <1>5, <1>6

\* The slots when packet c is put into its own.
LEMMA SlotsGrow ==
    ASSUME NEW g, NEW h, NEW c \in Nat, \A i \in Nat : i < c => Carried(h, i) = Carried(g, i),
           NEW slot, DOMAIN slot = SN, SlotsAt(g, c, slot)
    PROVE  SlotsAt(h, c + 1, [slot EXCEPT ![Wrap(c)] = Carried(h, c)])
  <1>1. M \in Nat /\ M > 0
    BY WindowAssumption
  <1> SUFFICES ASSUME NEW i \in Nat, i < c + 1, c + 1 <= i + M
               PROVE  [slot EXCEPT ![Wrap(c)] = Carried(h, c)][Wrap(i)] = Carried(h, i)
    BY DEF SlotsAt
  <1>2. Wrap(i) \in SN /\ Wrap(c) \in SN
    BY Quotient
  <1>3. CASE i = c
    BY <1>2, <1>3
  <1>4. CASE i # c
    <2>1. i < c /\ c < i + M /\ c <= i + M
      BY <1>1, <1>4
    <2>2. Wrap(i) # Wrap(c)
      BY <2>1, WrapDiffers
    <2>3. slot[Wrap(i)] = Carried(g, i)
      BY <2>1 DEF SlotsAt
    <2>4. QED BY <1>2, <2>1, <2>2, <2>3
  <1>5. QED BY <1>3, <1>4

\* The flags of packets sent, with a longer stream ...
LEMMA SentGrows ==
    ASSUME NEW a \in Nat, NEW c \in Nat, a <= c, NEW flag, SentAt(a, c, flag)
    PROVE  SentAt(a, c + 1, flag)
  <1>1. M \in Nat /\ M > 0 /\ Wrap(M) = 0
    BY WindowAssumption DEF Wrap
  <1> SUFFICES ASSUME NEW n \in SN, flag[n]
               PROVE  \/ \E i \in Nat : a <= i /\ i < c + 1 /\ n = Wrap(i)
                      \/ n = 0 /\ a > 0 /\ c + 1 <= M
    BY DEF SentAt
  <1>2. CASE \E i \in Nat : a <= i /\ i < c /\ n = Wrap(i)
    <2>1. PICK i \in Nat : a <= i /\ i < c /\ n = Wrap(i)
      BY <1>2
    <2>2. i < c + 1
      BY <2>1
    <2>3. QED BY <2>1, <2>2
  <1>3. CASE n = 0 /\ a > 0 /\ c <= M
    <2>1. CASE c = M
      <3>1. M \in Nat /\ a <= M /\ M < c + 1 /\ n = Wrap(M)
        BY <1>1, <1>3, <2>1
      <3>2. QED BY <3>1
    <2>2. CASE c # M
      BY <1>1, <1>3, <2>2
    <2>3. QED BY <2>1, <2>2
  <1>4. QED BY <1>2, <1>3 DEF SentAt

\* ... and with one more of them marked.
LEMMA SentMarked ==
    ASSUME NEW a \in Nat, NEW c \in Nat, NEW flag \in [SN -> BOOLEAN], SentAt(a, c, flag),
           NEW n \in SN,
           (\E i \in Nat : a <= i /\ i < c /\ n = Wrap(i)) \/ (n = 0 /\ a > 0 /\ c <= M)
    PROVE  SentAt(a, c, [flag EXCEPT ![n] = TRUE])
  <1> SUFFICES ASSUME NEW m \in SN, [flag EXCEPT ![n] = TRUE][m]
               PROVE  \/ \E i \in Nat : a <= i /\ i < c /\ m = Wrap(i)
                      \/ m = 0 /\ a > 0 /\ c <= M
    BY DEF SentAt
  <1>1. m = n \/ flag[m]
    OBVIOUS
  <1>2. QED BY <1>1 DEF SentAt

\* The flags of packets acknowledged, while the receiver has what it had.
LEMMA AckedKept ==
    ASSUME NEW a, NEW h, NEW r, NEW s, NEW flag, NEW buf, NEW new, AckedAt(a, h, r, flag, buf),
           \A i \in Nat : Has(i, r, buf) => Has(i, s, new)
    PROVE  AckedAt(a, h, s, flag, new)
  BY DEF AckedAt

\* The acknowledgement of packet x.
LEMMA AckTaken ==
    ASSUME NEW a \in Nat, NEW h \in Nat, NEW c \in Nat, a <= h, h <= c, c <= a + K,
           NEW flag, SentAt(a, c, flag),
           NEW ack \in [SN -> BOOLEAN], NEW r, NEW buf, AckedAt(a, h, r, ack, buf),
           NEW x \in Nat, h <= x + K, x < c, x = 0 => a = 0, Has(x, r, buf),
           flag[Wrap(x)]
    PROVE  /\ a <= x
           /\ AckedAt(a, IF h <= x THEN x + 1 ELSE h, r, [ack EXCEPT ![Wrap(x)] = TRUE], buf)
  <1>1. M \in Nat /\ K \in Nat /\ 0 < K /\ 2 * K <= M /\ Wrap(x) \in SN
    BY WindowAssumption, Quotient
  <1>2. a <= x
    <2>1. CASE \E i \in Nat : a <= i /\ i < c /\ Wrap(x) = Wrap(i)
      <3>1. PICK i \in Nat : a <= i /\ i < c /\ Wrap(x) = Wrap(i)
        BY <2>1
      <3>2. x < i + M /\ i < x + M
        BY <1>1, <3>1
      <3>3. x = i
        BY <3>1, <3>2, WrapSame
      <3>4. QED BY <3>1, <3>3
    <2>2. CASE Wrap(x) = 0 /\ a > 0 /\ c <= M
      <3>1. x < 0 + M /\ 0 < x + M /\ Wrap(0) = 0
        BY <1>1, <2>2, WrapLow DEF SN
      <3>2. x = 0
        BY <2>2, <3>1, WrapSame
      <3>3. QED BY <2>2, <3>2
    <2>3. QED BY <1>1, <2>1, <2>2 DEF SentAt
  <1> DEFINE z == IF h <= x THEN x + 1 ELSE h
  <1>3. z \in Nat /\ h <= z /\ x < z
    OBVIOUS
  <1> HIDE DEF z
  <1>4. AckedAt(a, z, r, [ack EXCEPT ![Wrap(x)] = TRUE], buf)
    <2> SUFFICES ASSUME NEW n \in SN, [ack EXCEPT ![Wrap(x)] = TRUE][n]
                 PROVE  \E i \in Nat : a <= i /\ i < z /\ n = Wrap(i) /\ Has(i, r, buf)
      BY DEF AckedAt
    <2>1. CASE n = Wrap(x)
      BY <1>2, <1>3, <2>1
    <2>2. CASE n # Wrap(x)
      <3>1. ack[n]
        BY <2>2
      <3>2. PICK i \in Nat : a <= i /\ i < h /\ n = Wrap(i) /\ Has(i, r, buf)
        BY <3>1 DEF AckedAt
      <3>3. i < z
        BY <1>3, <3>2
      <3>4. QED BY <3>2, <3>3
    <2>3. QED BY <2>1, <2>2
  <1>5. QED BY <1>2, <1>4 DEF z

\* The numbers sent and acknowledged; the flags without those passed.
Settled(flag, ack)    == {n \in SN : flag[n] /\ ack[n]}
Cleared(flag, passed) == [n \in SN |-> flag[n] /\ n \notin passed]

\* The window of the transmitter, passed as far as there is no gap.
LEMMA SenderSlides ==
    ASSUME NEW g, NEW a \in Nat, NEW h \in Nat, NEW c \in Nat, NEW r \in Nat, NEW b, NEW buf,
           a <= r, a <= h, h <= c, c <= a + K, BufferAt(g, r, b, buf),
           NEW flag, SentAt(a, c, flag), NEW ack, AckedAt(a, h, r, ack, buf)
    PROVE  LET k == RunLength(Wrap(a), Settled(flag, ack))
           IN  /\ k \in Nat /\ a + k <= h /\ a + k <= r
               /\ SentAt(a + k, c, Cleared(flag, Numbers(Wrap(a), k)))
               /\ AckedAt(a + k, h, r, Cleared(ack, Numbers(Wrap(a), k)), buf)
               /\ \A y \in Nat : a <= y /\ y < a + k => ack[Wrap(y)]
  <1> DEFINE k     == RunLength(Wrap(a), Settled(flag, ack))
             flag1 == Cleared(flag, Numbers(Wrap(a), k))
             ack1  == Cleared(ack, Numbers(Wrap(a), k))
             done == {n \in SN : flag[n] /\ ack[n]}
  <1>1. M \in Nat /\ K \in Nat /\ 0 < K /\ K < M
    BY WindowAssumption
  <1>2. ASSUME NEW y \in Nat, a <= y, y <= a + K, ack[Wrap(y)]
        PROVE  y < h /\ Has(y, r, buf)
    <2>1. Wrap(y) \in SN
      BY Quotient
    <2>2. PICK i \in Nat : a <= i /\ i < h /\ Wrap(y) = Wrap(i) /\ Has(i, r, buf)
      BY <1>2, <2>1 DEF AckedAt
    <2>3. i < y + M /\ y < i + M
      BY <1>1, <1>2, <2>2
    <2>4. i = y
      BY <2>2, <2>3, WrapSame
    <2>5. QED BY <2>2, <2>4
  <1>3. Wrap(c) \notin done
    <2> SUFFICES ASSUME ack[Wrap(c)] PROVE FALSE
      OBVIOUS
    <2>1. a <= c /\ c <= a + K /\ ~(c < h)
      OBVIOUS
    <2>2. QED BY <1>2, <2>1
  <1>4. /\ k \in Nat /\ a + k <= c
        /\ \A y \in Nat : a <= y /\ y < a + k => Wrap(y) \in done
    <2>1. a <= c /\ c < a + M
      BY <1>1
    <2>2. k = RunLength(Wrap(a), done)
      BY DEF Settled
    <2> HIDE DEF done, k
    <2>3. LET l == RunLength(Wrap(a), done)
          IN  /\ l \in Nat /\ a + l <= c
              /\ \A y \in Nat : a <= y /\ y < a + l => Wrap(y) \in done
              /\ Wrap(a + l) \notin done
      BY <1>3, <2>1, RunEnds
    <2>4. QED BY <2>2, <2>3
  <1> HIDE DEF k
  <1>5. ASSUME NEW y \in Nat, a <= y, y < a + k
        PROVE  ack[Wrap(y)] /\ y < h /\ Has(y, r, buf)
    <2>1. ack[Wrap(y)]
      BY <1>4, <1>5 DEF Settled
    <2>2. y <= a + K
      BY <1>1, <1>4, <1>5
    <2>3. QED BY <1>2, <1>5, <2>1, <2>2
  <1> HIDE DEF done, k, flag1, ack1
  <1>6. a + k <= h
    <2>1. CASE k = 0
      BY <2>1
    <2>2. CASE k # 0
      <3>1. a + k - 1 \in Nat /\ a <= a + k - 1 /\ a + k - 1 < a + k
        BY <1>4, <2>2
      <3>2. a + k - 1 < h
        BY <1>5, <3>1
      <3>3. QED BY <1>4, <3>1, <3>2
    <2>3. QED BY <2>1, <2>2
  <1>7. a + k <= r
    <2> SUFFICES ASSUME r < a + k PROVE FALSE
      BY <1>4
    <2>1. Has(r, r, buf)
      BY <1>5
    <2>2. buf[Wrap(r)] # NoPacket /\ Wrap(r) \in SN
      BY <2>1, Quotient DEF Has
    <2>3. PICK i \in Nat : r < i /\ i < r + K /\ Wrap(r) = Wrap(i)
      BY <2>2 DEF BufferAt
    <2>4. i < r + M
      BY <1>1, <2>3
    <2>5. QED BY <2>3, <2>4, WrapDiffers
  <1>8. ASSUME NEW n \in SN
        PROVE  n \in Numbers(Wrap(a), k) <=> \E y \in Nat : a <= y /\ y < a + k /\ n = Wrap(y)
    <2>1. k \in Nat
      BY <1>4
    <2>2. QED BY ONLY <2>1, a \in Nat, NumbersOf
  <1>9. SentAt(a + k, c, flag1)
    <2> SUFFICES ASSUME NEW n \in SN, flag1[n]
                 PROVE  \/ \E i \in Nat : a + k <= i /\ i < c /\ n = Wrap(i)
                        \/ n = 0 /\ a + k > 0 /\ c <= M
      BY DEF SentAt
    <2>1. flag[n] /\ n \notin Numbers(Wrap(a), k)
      BY DEF Cleared, flag1, ack1
    <2>2. CASE \E i \in Nat : a <= i /\ i < c /\ n = Wrap(i)
      <3>1. PICK i \in Nat : a <= i /\ i < c /\ n = Wrap(i)
        BY <2>2
      <3>2. ~(i < a + k)
        BY <1>8, <2>1, <3>1
      <3>3. a + k <= i
        BY <1>4, <3>2
      <3>4. QED BY <3>1, <3>3
    <2>3. CASE n = 0 /\ a > 0 /\ c <= M
      BY <1>4, <2>3
    <2>4. QED BY <2>1, <2>2, <2>3 DEF SentAt
  <1>10. AckedAt(a + k, h, r, ack1, buf)
    <2> SUFFICES ASSUME NEW n \in SN, ack1[n]
                 PROVE  \E i \in Nat : a + k <= i /\ i < h /\ n = Wrap(i) /\ Has(i, r, buf)
      BY DEF AckedAt
    <2>1. ack[n] /\ n \notin Numbers(Wrap(a), k)
      BY DEF Cleared, flag1, ack1
    <2>2. PICK i \in Nat : a <= i /\ i < h /\ n = Wrap(i) /\ Has(i, r, buf)
      BY <2>1 DEF AckedAt
    <2>3. ~(i < a + k)
      BY <1>8, <2>1, <2>2
    <2>4. a + k <= i
      BY <1>4, <2>3
    <2>5. QED BY <2>2, <2>4
  <1>11. QED BY <1>4, <1>5, <1>6, <1>7, <1>9, <1>10 DEF k, flag1, ack1

-----------------------------------------------------------------------------
(* The steps and the positions: calls of the applications.                 *)

\* ReceiverAt depends on these only.
LEMMA ReceiverSame ==
    ASSUME NEW r \in Nat, NEW b \in Nat, NEW q \in Seq(Nat), ReceiverAt(r, b, q),
           UNCHANGED <<rfrom, released, rbuffer, toR>>,
           rstate' \in {"Closed", "Enabled"} => rstate \in {"Closed", "Enabled"},
           Given' = Given, Count' = Count
    PROVE  ReceiverAt(r, b, q)'
  BY DEF ReceiverAt

\* ReceiverAt, when packet x is sent, or sent again.
LEMMA ReceiverPush ==
    ASSUME NEW r \in Nat, NEW b \in Nat, NEW q \in Seq(Nat), ReceiverAt(r, b, q),
           NEW p \in Packets, NEW x \in Nat, Fits(Given, p, x),
           x < Count, Count <= x + K, SendToR(p), toR \in Seq(Packets), Count \in Nat,
           UNCHANGED <<rfrom, released, rbuffer, rstate>>, Given' = Given, Count' = Count
    PROVE  \E u \in Seq(Nat) :
             /\ ReceiverAt(r, b, u)'
             /\ \A h \in Nat : h <= Count /\ Above(h, q) => Above(h, u)
             /\ \A t \in Seq(Nat) : Across(t, q) /\ Below(t, Count) => Across(t, u)
             /\ p.type # "Close" /\ (\A l \in 1 .. Len(toR) : toR[l].type # "Close") =>
                  \A l \in 1 .. Len(toR') : toR'[l].type # "Close"
  <1>0. K \in Nat
    BY WindowAssumption
  <1>1. CASE UNCHANGED toR
    <2>1. ReceiverAt(r, b, q)'
      BY <1>1, ReceiverSame
    <2>2. \A l \in 1 .. Len(toR) : toR[l].type # "Close" => toR'[l].type # "Close"
      BY <1>1
    <2>3. QED BY <1>1, <2>1
  <1>2. CASE toR' = Append(toR, p)
    <2> DEFINE u == Append(q, x)
    <2>1. /\ rfrom = Wrap(r) /\ r <= b /\ b <= Count /\ Count <= r + K
          /\ Len(released) = (IF r = 0 THEN 0 ELSE r - 1)
          /\ rstate \in {"Closed", "Enabled"} => r = 0
          /\ Count > 1 => r > 0
          /\ BufferAt(Given, r, b, rbuffer)
          /\ Match(Given, toR, q) /\ Near(q) /\ Above(b, q) /\ Below(q, Count)
      BY DEF ReceiverAt
    <2>2. Below(q, x + K)
      <3>1. \A l \in 1 .. Len(q) : q[l] \in Nat
        BY ElementOfSeq
      <3>2. QED BY <1>0, <2>1, <3>1 DEF Below
    <2>3. /\ u \in Seq(Nat) /\ Near(u) /\ Above(b, u) /\ Below(u, Count)
          /\ \A h : Above(h, q) /\ h <= x + K => Above(h, u)
          /\ \A t : Across(t, q) /\ Below(t, x + K) => Across(t, u)
      <3>1. b <= x + K
        BY <1>0, <2>1
      <3>2. QED BY <2>1, <2>2, <3>1, QueueEnd
    <2>4. Match(Given, Append(toR, p), u)
      BY <2>1, MatchEnd
    <2> HIDE DEF u
    <2>5. ReceiverAt(r, b, u)'
      BY <1>2, <2>1, <2>3, <2>4 DEF ReceiverAt
    <2>6. ASSUME NEW h \in Nat, h <= Count, Above(h, q) PROVE Above(h, u)
      <3>1. h <= x + K
        BY <1>0, <2>6
      <3>2. QED BY <2>3, <2>6, <3>1
    <2>7. ASSUME NEW t \in Seq(Nat), Across(t, q), Below(t, Count) PROVE Across(t, u)
      <3>1. \A l \in 1 .. Len(t) : t[l] \in Nat
        BY ElementOfSeq
      <3>2. Below(t, x + K)
        BY <1>0, <2>7, <3>1 DEF Below
      <3>3. QED BY <2>3, <2>7, <3>2
    <2>8. ASSUME p.type # "Close", \A l \in 1 .. Len(toR) : toR[l].type # "Close",
                 NEW l \in 1 .. Len(toR')
          PROVE  toR'[l].type # "Close"
      <3>1. /\ Len(toR') = Len(toR) + 1 /\ Len(toR) \in Nat
            /\ (\A i \in 1 .. Len(toR) : toR'[i] = toR[i]) /\ toR'[Len(toR) + 1] = p
        <4> HIDE DEF Packets
        <4>1. QED BY <1>2, AppendProperties
      <3>2. l \in 1 .. Len(toR) \/ l = Len(toR) + 1
        BY <3>1
      <3>3. QED BY <2>8, <3>1, <3>2
    <2>9. QED BY <2>3, <2>5, <2>6, <2>7, <2>8
  <1>3. QED BY <1>1, <1>2 DEF SendToR

\* What the transmitter knows of its packets.
SenderParts == <<from, slots, sent, acked, ackInHand, openAcked, toT>>

\* SenderAt and AnswersAt depend on these only.
LEMMA SenderSame ==
    ASSUME NEW a \in Nat, NEW h \in Nat, NEW r \in Nat, NEW q \in Seq(Nat), NEW u \in Seq(Nat),
           NEW t \in Seq(Nat), SenderAt(a, h, r), AnswersAt(a, h, r, q, t),
           UNCHANGED <<SenderParts, rbuffer>>, Given' = Given, Count' = Count,
           \A l \in 1 .. Len(toR') : toR'[l].type # "Close",
           Above(h, u), Across(t, u),
           tstate' = "Open" => tstate = "Open" \/ openAcked,
           tpc' = "segmentSent" => tpc = "segmentSent"
    PROVE  SenderAt(a, h, r)' /\ AnswersAt(a, h, r, u, t)'
  <1>1. UNCHANGED <<from, slots, sent, acked, ackInHand, openAcked, toT, rbuffer>>
    BY DEF SenderParts
  <1>2. SenderAt(a, h, r)'
    BY <1>1 DEF SenderAt
  <1>3. AnswersAt(a, h, r, u, t)'
    BY <1>1 DEF AnswersAt
  <1>4. QED BY <1>2, <1>3

\* Steps that leave the windows and the link alone, or end the life of the transmitter.
LEMMA SamePositions ==
    ASSUME PositionsInv, rpc' # "stopped" => rpc # "stopped",
           UNCHANGED <<rfrom, released, rbuffer, toR>>, Given' = Given, Count' = Count,
           rstate' \in {"Closed", "Enabled"} => rstate \in {"Closed", "Enabled"},
           Live' => /\ Live /\ UNCHANGED SenderParts
                    /\ tstate' = "Open" => tstate = "Open" \/ openAcked
                    /\ tpc' = "segmentSent" => tpc = "segmentSent"
    PROVE  PositionsInv'
  <1> SUFFICES ASSUME rpc' # "stopped"
               PROVE  (\E r, b \in Nat, q \in Seq(Nat) :
                         /\ ReceiverAt(r, b, q)
                         /\ Live => \E a, h \in Nat, t \in Seq(Nat) :
                                       SenderAt(a, h, r) /\ AnswersAt(a, h, r, q, t))'
    BY DEF PositionsInv
  <1>1. PICK r \in Nat, b \in Nat, q \in Seq(Nat) :
            /\ ReceiverAt(r, b, q)
            /\ Live => \E a, h \in Nat, t \in Seq(Nat) :
                          SenderAt(a, h, r) /\ AnswersAt(a, h, r, q, t)
    BY DEF PositionsInv
  <1>3. ReceiverAt(r, b, q)'
    BY <1>1, ReceiverSame
  <1>4. ASSUME Live'
        PROVE  \E a, h \in Nat, t \in Seq(Nat) : SenderAt(a, h, r)' /\ AnswersAt(a, h, r, q, t)'
    <2>1. PICK a \in Nat, h \in Nat, t \in Seq(Nat) : SenderAt(a, h, r) /\ AnswersAt(a, h, r, q, t)
      BY <1>1, <1>4
    <2>2. Above(h, q) /\ Across(t, q) /\ \A l \in 1 .. Len(toR') : toR'[l].type # "Close"
      BY <2>1 DEF AnswersAt
    <2>3. QED BY <1>4, <2>1, <2>2, SenderSame
  <1>5. QED BY <1>3, <1>4

\* The calls that send nothing and the steps that take nothing in.
LEMMA CallsKeepPositions ==
    ASSUME PlainChannel, StateInv, GivenInv, PositionsInv,
           \/ OpenWaitEnds \/ Send \/ SendTimesOut \/ SendReturns \/ CloseWaitEnds
           \/ Close \/ CloseClosedChannel \/ CloseReturns \/ ReceiverOpen \/ StartClosing \/ DrainEnds
           \/ Receive \/ TransmitterDiscards \/ UNCHANGED vars
    PROVE  PositionsInv'
  <1>1. CASE OpenWaitEnds
    <2>1. tstate = "Enabled" /\ UNCHANGED <<message, segment, opens>>
      BY <1>1 DEF OpenWaitEnds, StateInv, PlacesInv
    <2>2. Given' = Given /\ Count' = Count
      BY <2>1, SameGiven
    <2>3. QED BY <1>1, <2>1, <2>2, SamePositions DEF OpenWaitEnds, SenderParts, Live, rVars,
             linkVars, ackVars, dataVars
  <1>2. CASE Send
    <2>1. Given' = Given /\ Count' = Count
      BY <1>2, SendKeepsGiven DEF Count, Send
    <2>2. QED BY <1>2, <2>1, SamePositions DEF Send, SenderParts, Live, rVars, linkVars, ackVars,
             dataVars, windowVars
  <1>3. CASE SendTimesOut
    <2>1. UNCHANGED <<message, segment, opens>>
      BY <1>3 DEF SendTimesOut
    <2>2. Given' = Given /\ Count' = Count
      BY <2>1, SameGiven
    <2>3. QED BY <1>3, <2>2, SamePositions
                 DEF SendTimesOut, Malfunction, SenderParts, Live, rVars, linkVars, dataVars
  <1>4. CASE SendReturns
    <2>1. UNCHANGED <<message, segment, opens>>
      BY <1>4 DEF SendReturns
    <2>2. Given' = Given /\ Count' = Count
      BY <2>1, SameGiven
    <2>3. QED BY <1>4, <2>2, SamePositions
                 DEF SendReturns, SenderParts, Live, rVars, linkVars, ackVars, dataVars,
                     windowVars
  <1>5. CASE CloseWaitEnds
    <2>1. UNCHANGED <<message, segment, opens>>
      BY <1>5 DEF CloseWaitEnds
    <2>2. Given' = Given /\ Count' = Count
      BY <2>1, SameGiven
    <2>3. QED BY <1>5, <2>2, SamePositions
                 DEF CloseWaitEnds, SenderParts, Live, rVars, linkVars, ackVars, dataVars
  <1>6. CASE Close
    <2>1. UNCHANGED <<message, segment, opens>>
      BY <1>6 DEF Close
    <2>2. Given' = Given /\ Count' = Count
      BY <2>1, SameGiven
    <2>3. QED BY <1>6, <2>2, SamePositions DEF Close, Malfunction, Live, rVars, linkVars, dataVars
  <1>7. CASE CloseClosedChannel \/ CloseReturns
    <2>1. UNCHANGED <<message, segment, opens>>
      BY <1>7 DEF CloseClosedChannel, CloseReturns, InitialiseSlidingWindow
    <2>2. Given' = Given /\ Count' = Count
      BY <2>1, SameGiven
    <2>3. QED BY <1>7, <2>2, SamePositions
                 DEF CloseClosedChannel, CloseReturns, InitialiseSlidingWindow, Live, rVars,
       linkVars, dataVars
  <1>8. CASE ReceiverOpen
    <2>1. UNCHANGED <<message, segment, opens>>
      BY <1>8 DEF ReceiverOpen, tVars, appVars
    <2>2. Given' = Given /\ Count' = Count
      BY <2>1, SameGiven
    <2>3. QED BY <1>8, <2>2, SamePositions
                 DEF ReceiverOpen, tVars, appVars, windowVars, ackVars, SenderParts, Live,
       linkVars, dataVars
  <1>9. CASE StartClosing
    <2>1. UNCHANGED <<message, segment, opens>>
      BY <1>9 DEF StartClosing, tVars, appVars
    <2>2. Given' = Given /\ Count' = Count
      BY <2>1, SameGiven
    <2>3. QED BY <1>9, <2>2, SamePositions
                 DEF StartClosing, tVars, appVars, windowVars, ackVars, SenderParts, Live,
       linkVars, dataVars
  <1>10. CASE DrainEnds
    <2>1. UNCHANGED <<message, segment, opens>>
      BY <1>10 DEF DrainEnds, tVars, appVars
    <2>2. Given' = Given /\ Count' = Count
      BY <2>1, SameGiven
    <2>3. QED BY <1>10, <2>2, SamePositions
                 DEF DrainEnds, tVars, appVars, windowVars, ackVars, SenderParts, Live,
       linkVars, dataVars
  <1>11. CASE Receive
    <2>1. UNCHANGED <<message, segment, opens>>
      BY <1>11 DEF Receive, tVars, appVars
    <2>2. Given' = Given /\ Count' = Count
      BY <2>1, SameGiven
    <2>3. QED BY <1>11, <2>2, SamePositions
                 DEF Receive, tVars, appVars, windowVars, ackVars, SenderParts, Live,
       linkVars, dataVars
  <1>12. CASE TransmitterDiscards
    <2>1. UNCHANGED <<message, segment, opens>>
      BY <1>12 DEF TransmitterDiscards, tVars, appVars
    <2>2. Given' = Given /\ Count' = Count
      BY <2>1, SameGiven
    <2>3. QED BY <1>12, <2>2, SamePositions
                 DEF TransmitterDiscards, tVars, appVars, rVars, Live, dataVars
  <1>13. CASE UNCHANGED vars
    <2>1. UNCHANGED <<message, segment, opens>>
      BY <1>13 DEF vars, tVars, appVars
    <2>2. Given' = Given /\ Count' = Count
      BY <2>1, SameGiven
    <2>3. QED BY <1>13, <2>2, SamePositions
                 DEF vars, tVars, appVars, windowVars, ackVars, SenderParts, Live, rVars,
       linkVars, dataVars
  <1>14. QED BY <1>1, <1>2, <1>3, <1>4, <1>5, <1>6, <1>7, <1>8, <1>9, <1>10, <1>11, <1>12, <1>13

-----------------------------------------------------------------------------
(* Packets and acknowledgements sent, taken and marked.                    *)

\* open() is where the positions begin.
LEMMA OpenKeepsPositions ==
    ASSUME PlainChannel, StateInv, GivenInv, PositionsInv, Open
    PROVE  PositionsInv'
  <1>0. K \in Nat /\ M \in Nat /\ 2 <= K /\ K < M /\ 0 \in SN /\ Wrap(0) = 0
    BY WindowAssumption, WrapLow DEF SN
  <1>1. /\ opens = 0 /\ opens' = 1
        /\ UNCHANGED <<message, segment, rfrom, released, rbuffer, rstate, rpc, toR, toT, from, sent,
                       acked, ackInHand>>
        /\ openAcked' = FALSE
    <2>1. opens \in 0 .. MaxOpens /\ opens < MaxOpens /\ MaxOpens <= 1 /\ MaxOpens \in Nat
      BY ChannelAssumption DEF Open, PlainChannel, StateInv, AppTypes
    <2>2. opens = 0
      BY <2>1
    <2>3. QED BY <2>2 DEF Open, rVars, linkVars, dataVars
  <1>2. /\ toR = <<>> /\ toT = <<>> /\ ackInHand = NoAck /\ message = 0 /\ from = 0
        /\ \A n \in SN : ~sent[n] /\ ~acked[n]
    BY <1>1 DEF StateInv, PlacesInv, Before
  <1>3. Given = <<>> /\ Given' = Given
    BY <1>1, <1>2, GivenIs, NothingGiven, SameGiven
  <1>4. Count = 0 /\ Count' = 1 /\ Len(Given) = 0
    <2>1. Len(Given) = 0
      BY <1>3
    <2>2. Count' = IF opens' = 0 THEN 0 ELSE 1 + Len(Given')
      BY DEF Count
    <2>3. QED BY <1>1, <1>3, <2>1, <2>2 DEF Count
  <1> SUFFICES ASSUME rpc' # "stopped"
               PROVE  (\E r, b \in Nat, q \in Seq(Nat) :
                         /\ ReceiverAt(r, b, q)
                         /\ Live => \E a, h \in Nat, t \in Seq(Nat) :
                                       SenderAt(a, h, r) /\ AnswersAt(a, h, r, q, t))'
    BY DEF PositionsInv
  <1>5. PICK r \in Nat, b \in Nat, q \in Seq(Nat) : ReceiverAt(r, b, q)
    BY <1>1 DEF PositionsInv
  <1>6. r = 0 /\ b = 0 /\ Len(q) = 0
    <2>1. r <= b /\ b <= 0 /\ Len(q) = Len(toR)
      BY <1>4, <1>5 DEF ReceiverAt, Match
    <2>2. QED BY <1>2, <2>1
  <1>7. ReceiverAt(0, 0, q)'
    <2>1. /\ rfrom = Wrap(0) /\ Len(released) = 0
          /\ BufferAt(Given, 0, 0, rbuffer) /\ Match(Given, toR, q)
      BY <1>5, <1>6 DEF ReceiverAt
    <2>2. Near(q) /\ Above(0, q) /\ Below(q, 1)
      BY <1>6 DEF Near, Above, Below
    <2>3. 1 <= 0 + K
      BY <1>0
    <2>4. QED BY <1>1, <1>3, <1>4, <2>1, <2>2, <2>3 DEF ReceiverAt
  <1>8. ASSUME Live' PROVE SenderAt(0, 0, 0)' /\ AnswersAt(0, 0, 0, q, <<>>)'
    <2>1. slots' = [slots EXCEPT ![0] = Packet("Open", 0)] /\ tstate' = "Enabled" /\ tpc' = "opening"
      BY <1>8 DEF Open, Live, Malfunction
    <2>2. SlotsAt(Given, 1, slots')
      <3>1. slots'[0] = Packet("Open", 0)
        BY <1>0, <2>1 DEF StateInv, WindowTypes
      <3>2. \A i \in Nat : i < 1 => i = 0
        OBVIOUS
      <3>3. Carried(Given, 0) = Packet("Open", 0)
        BY DEF Carried
      <3>4. QED BY <1>0, <3>1, <3>2, <3>3 DEF SlotsAt
    <2>3. SentAt(0, 1, sent) /\ AckedAt(0, 0, 0, acked, rbuffer)
      BY <1>2 DEF SentAt, AckedAt
    <2>4. 1 <= 0 + K
      BY <1>0
    <2>5. SenderAt(0, 0, 0)'
      BY <1>0, <1>1, <1>2, <1>3, <1>4, <2>1, <2>2, <2>3, <2>4 DEF SenderAt
    <2>6. Len(<<>>) = 0 /\ <<>> \in Seq(Nat)
      OBVIOUS
    <2>7. /\ Number(<<>>, <<>>) /\ Near(<<>>) /\ Above(0, <<>>) /\ Below(<<>>, 1)
          /\ \A l \in 1 .. Len(<<>>) : Has(<<>>[l], 0, rbuffer)
          /\ OpenAckFirst(<<>>, 0, acked) /\ Above(0, q) /\ Across(<<>>, q)
      BY <1>6, <2>6 DEF Number, Near, Above, Below, OpenAckFirst, Across
    <2>8. \A l \in 1 .. Len(toR) : toR[l].type # "Close"
      BY <1>2
    <2>9. AnswersAt(0, 0, 0, q, <<>>)'
      BY <1>1, <1>2, <1>4, <2>7, <2>8 DEF AnswersAt
    <2>10. QED BY <2>5, <2>9
  <1>9. 0 \in Nat /\ <<>> \in Seq(Nat)
    OBVIOUS
  <1>10. QED BY <1>7, <1>8, <1>9

\* A packet is sent, or sent again.
LEMMA PushKeepsPositions ==
    ASSUME StateInv, GivenInv, PositionsInv, UNCHANGED rpc,
           NEW p \in Packets, SendToR(p),
           Live => \A a \in Nat, h \in Nat, r \in Nat : SenderAt(a, h, r) =>
                     /\ p.type # "Close"
                     /\ \E x \in Nat : Fits(Given, p, x) /\ x < Count /\ Count <= x + K,
           ~Live => \E x \in Nat : Fits(Given, p, x) /\ x < Count /\ Count <= x + K,
           UNCHANGED <<rfrom, released, rbuffer, rstate, message, segment, opens>>,
           Live' => /\ Live /\ UNCHANGED SenderParts /\ UNCHANGED tstate
                    /\ tpc' = "segmentSent" => tpc = "segmentSent"
    PROVE  PositionsInv'
  <1> SUFFICES ASSUME rpc # "stopped"
               PROVE  (\E r, b \in Nat, q \in Seq(Nat) :
                         /\ ReceiverAt(r, b, q)
                         /\ Live => \E a, h \in Nat, t \in Seq(Nat) :
                                       SenderAt(a, h, r) /\ AnswersAt(a, h, r, q, t))'
    BY DEF PositionsInv
  <1>1. PICK r \in Nat, b \in Nat, q \in Seq(Nat) :
            /\ ReceiverAt(r, b, q)
            /\ Live => \E a, h \in Nat, t \in Seq(Nat) :
                          SenderAt(a, h, r) /\ AnswersAt(a, h, r, q, t)
    BY DEF PositionsInv
  <1>2. Given' = Given /\ Count' = Count /\ Count \in Nat /\ toR \in Seq(Packets)
    BY SameGiven, CountIn DEF StateInv, LinkTypes
  <1>3. PICK x \in Nat : Fits(Given, p, x) /\ x < Count /\ Count <= x + K
    BY <1>1
  <1>4. PICK u \in Seq(Nat) :
             /\ ReceiverAt(r, b, u)'
             /\ \A h \in Nat : h <= Count /\ Above(h, q) => Above(h, u)
             /\ \A t \in Seq(Nat) : Across(t, q) /\ Below(t, Count) => Across(t, u)
             /\ p.type # "Close" /\ (\A l \in 1 .. Len(toR) : toR[l].type # "Close") =>
                  \A l \in 1 .. Len(toR') : toR'[l].type # "Close"
    <2> HIDE DEF Packets
    <2>1. QED BY <1>1, <1>2, <1>3, ReceiverPush
  <1>5. ASSUME Live'
        PROVE  \E a, h \in Nat, t \in Seq(Nat) : SenderAt(a, h, r)' /\ AnswersAt(a, h, r, u, t)'
    <2>1. PICK a \in Nat, h \in Nat, t \in Seq(Nat) : SenderAt(a, h, r) /\ AnswersAt(a, h, r, q, t)
      BY <1>1, <1>5
    <2>2. h <= Count /\ Above(h, q) /\ Across(t, q) /\ Below(t, Count)
      BY <2>1 DEF SenderAt, AnswersAt
    <2>3. Above(h, u) /\ Across(t, u)
      BY <1>4, <2>2
    <2>4. \A l \in 1 .. Len(toR') : toR'[l].type # "Close"
      <3>1. p.type # "Close"
        BY <1>5, <2>1
      <3>2. QED BY <1>4, <2>1, <3>1 DEF AnswersAt
    <2>5. UNCHANGED <<SenderParts, rbuffer>> /\ Given' = Given /\ Count' = Count
      BY <1>2, <1>5
    <2>6. tstate' = tstate /\ (tpc' = "segmentSent" => tpc = "segmentSent")
      BY <1>5
    <2>7. SenderAt(a, h, r)' /\ AnswersAt(a, h, r, u, t)'
      <3> HIDE DEF SenderParts
      <3>1. QED BY <2>1, <2>3, <2>4, <2>5, <2>6, SenderSame
    <2>8. QED BY <2>7
  <1>6. QED BY <1>4, <1>5

\* The Open command is sent, or sent again.
LEMMA SendOpenCommandKeepsPositions ==
    ASSUME PlainChannel, StateInv, GivenInv, PositionsInv, SendOpenCommand
    PROVE  PositionsInv'
  <1>0. K \in Nat /\ M \in Nat /\ 2 <= K /\ K < M /\ 0 \in SN /\ Wrap(0) = 0
    BY WindowAssumption, WrapLow DEF SN
  <1>1. /\ tstate = "Enabled" /\ opens = 1 /\ message = 0 /\ Live
        /\ slots \in [SN -> Packets \cup {NoPacket}] /\ \A n \in SN : slots[n] # NoPacket
    BY DEF SendOpenCommand, StateInv, PlacesInv, WindowTypes, Live
  <1>2. Count = 1 /\ Given = <<>>
    <2>1. Given = <<>>
      BY <1>1, GivenIs, NothingGiven
    <2>2. Len(Given) = 0
      BY <2>1
    <2>3. QED BY <1>1, <2>1, <2>2 DEF Count
  <1> DEFINE p == slots[0]
  <1>3. p \in Packets
    BY <1>0, <1>1
  <1>4. ASSUME NEW a \in Nat, NEW h \in Nat, NEW r \in Nat, SenderAt(a, h, r)
        PROVE  /\ p.type # "Close"
               /\ \E x \in Nat : Fits(Given, p, x) /\ x < Count /\ Count <= x + K
    <2>1. SlotsAt(Given, 1, slots)
      BY <1>2, <1>4 DEF SenderAt
    <2>2. slots[0] = Carried(Given, 0)
      BY <1>0, <2>1 DEF SlotsAt
    <2>3. p = Packet("Open", 0)
      BY <2>2 DEF Carried
    <2>4. p.type # "Close" /\ Fits(Given, p, 0) /\ 0 < Count /\ Count <= 0 + K /\ 0 \in Nat
      BY <1>0, <1>2, <2>3 DEF Fits, Packet
    <2>5. QED BY <2>4
  <1>5. /\ SendToR(p) /\ UNCHANGED <<rfrom, released, rbuffer, rstate, rpc, message, segment, opens>>
        /\ UNCHANGED SenderParts /\ UNCHANGED tstate /\ tpc' # "segmentSent"
    BY DEF SendOpenCommand, SenderParts, windowVars, ackVars, rVars, dataVars
  <1>6. Live' => Live
    BY <1>1
  <1> HIDE DEF p, Packets, SenderParts
  <1>7. QED BY <1>1, <1>3, <1>4, <1>5, <1>6, PushKeepsPositions

\* The Close command is sent, when the positions of the transmitter no longer matter.
LEMMA SendCloseCommandKeepsPositions ==
    ASSUME PlainChannel, StateInv, GivenInv, PositionsInv, SendCloseCommand
    PROVE  PositionsInv'
  <1>0. K \in Nat /\ 2 <= K
    BY WindowAssumption
  <1>1. tstate = "Closing" /\ tstate' = tstate /\ ~Live /\ ~Live' /\ opens # 0
    BY DEF SendCloseCommand, StateInv, PlacesInv, Before, Live
  <1>2. Count \in Nat /\ Count > 0
    BY <1>1, CountIn DEF Count
  <1> DEFINE p == Packet("Close", 0)
  <1>3. p \in Packets
    BY SomePackets
  <1>4. \E x \in Nat : Fits(Given, p, x) /\ x < Count /\ Count <= x + K
    <2>1. Count - 1 \in Nat /\ Count - 1 < Count /\ Count <= (Count - 1) + K
      BY <1>0, <1>2
    <2>2. Fits(Given, p, Count - 1)
      BY DEF Fits
    <2>3. QED BY <2>1, <2>2
  <1>5. SendToR(p) /\ UNCHANGED <<rfrom, released, rbuffer, rstate, rpc, message, segment, opens>>
    BY DEF SendCloseCommand, rVars, dataVars
  <1> HIDE DEF p, Packets, SenderParts
  <1>6. QED BY <1>1, <1>3, <1>4, <1>5, PushKeepsPositions

\* A packet in the window is sent again.
LEMMA RetryKeepsPositions ==
    ASSUME PlainChannel, StateInv, GivenInv, PositionsInv, NEW n \in SN, Retry(n)
    PROVE  PositionsInv'
  <1>0. K \in Nat /\ M \in Nat /\ 2 <= K /\ K < M /\ 0 \in SN /\ Wrap(0) = 0
    BY WindowAssumption, WrapLow DEF SN
  <1>1. /\ tstate = "Open" /\ opens = 1 /\ Live
        /\ slots \in [SN -> Packets \cup {NoPacket}] /\ \A m \in SN : slots[m] # NoPacket
        /\ sent[n]
    BY DEF Retry, RetryTimerExpired, StateInv, PlacesInv, WindowTypes, Live
  <1>2. Count \in Nat /\ Count > 0
    BY <1>1, CountIn DEF Count
  <1>3. /\ UNCHANGED <<rfrom, released, rbuffer, rstate, rpc, message, segment, opens>>
        /\ UNCHANGED SenderParts
    BY DEF Retry, SenderParts, ackVars, rVars, dataVars
  <1> DEFINE p == [slots[n] EXCEPT !.sn = n]
  <1>4. p \in Packets
    BY <1>1, SomePackets
  <1>5. ASSUME NEW a \in Nat, NEW h \in Nat, NEW r \in Nat, SenderAt(a, h, r)
        PROVE  /\ p.type # "Close"
               /\ \E x \in Nat : Fits(Given, p, x) /\ x < Count /\ Count <= x + K
    <2>1. SlotsAt(Given, Count, slots) /\ SentAt(a, Count, sent) /\ Count <= a + K
      BY <1>5 DEF SenderAt
    <2>2. slots[n] \in Packets
      BY <1>1
    <2>3. slots[n].sn = n => p = slots[n]
      BY <2>2 DEF Packets
    <2>4. CASE \E i \in Nat : a <= i /\ i < Count /\ n = Wrap(i)
      <3>1. PICK i \in Nat : a <= i /\ i < Count /\ n = Wrap(i)
        BY <2>4
      <3>2. Count <= i + K /\ Count <= i + M
        BY <1>0, <1>2, <2>1, <3>1
      <3>3. slots[n] = Carried(Given, i)
        BY <2>1, <3>1, <3>2 DEF SlotsAt
      <3>4. p = Carried(Given, i)
        BY <2>3, <3>1, <3>3, CarriedIs
      <3>5. p.type # "Close" /\ Fits(Given, p, i)
        <4> HIDE DEF p
        <4>1. CASE i = 0
          <5>1. p = Packet("Open", 0)
            BY <3>4, <4>1, CarriedIs
          <5>2. QED BY <5>1 DEF Fits, Packet
        <4>2. CASE i # 0
          <5>1. p.type = "Data"
            <6>1. i \in Nat /\ i > 0
              BY <4>2
            <6>2. Carried(Given, i).type = "Data"
              BY ONLY <6>1, CarriedIs
            <6>3. QED BY <3>4, <6>2
          <5>2. QED BY <3>4, <5>1 DEF Fits
        <4>3. QED BY <4>1, <4>2
      <3>6. QED BY <3>1, <3>2, <3>5
    <2>5. CASE n = 0 /\ a > 0 /\ Count <= M
      <3>1. slots[0] = Carried(Given, 0)
        BY <1>0, <1>2, <2>1, <2>5 DEF SlotsAt
      <3>2. slots[0] = Packet("Open", 0)
        BY <3>1 DEF Carried
      <3>3. p = Packet("Open", 0)
        BY <2>3, <2>5, <3>2 DEF Packet
      <3>4. p.type # "Close" /\ Fits(Given, p, Count - 1)
        BY <3>3 DEF Fits, Packet
      <3>5. Count - 1 \in Nat /\ Count - 1 < Count /\ Count <= (Count - 1) + K
        BY <1>0, <1>2
      <3>6. QED BY <3>4, <3>5
    <2>6. QED BY <1>1, <2>1, <2>4, <2>5 DEF SentAt
  <1>6. CASE SendToR(p) /\ UNCHANGED <<tpc, tstate>>
    <2>1. (Live' => Live) /\ (tpc' = "segmentSent" => tpc = "segmentSent")
      BY <1>1, <1>6
    <2> HIDE DEF p, Packets, SenderParts
    <2>2. QED BY <1>1, <1>3, <1>4, <1>5, <1>6, <2>1, PushKeepsPositions
  <1>7. CASE Malfunction /\ UNCHANGED <<toR, losses>>
    <2>1. Given' = Given /\ Count' = Count /\ ~Live' /\ toR' = toR
      BY <1>3, <1>7, SameGiven DEF Malfunction, Live
    <2>2. QED BY <1>3, <2>1, SamePositions
  <1>8. QED BY <1>6, <1>7 DEF Retry

\* A step of the transmitter that only touches what SenderAt and AnswersAt speak of.
LEMMA SenderMoves ==
    ASSUME PositionsInv,
           UNCHANGED <<rfrom, released, rbuffer, toR, rstate, rpc>>, Given' = Given, Count' = Count,
           Live' => Live,
           Live' => \A r, b, a, h \in Nat, q, t \in Seq(Nat) :
                ReceiverAt(r, b, q) /\ SenderAt(a, h, r) /\ AnswersAt(a, h, r, q, t) =>
                   \E a1, h1 \in Nat, t1 \in Seq(Nat) :
                      (SenderAt(a1, h1, r))' /\ (AnswersAt(a1, h1, r, q, t1))'
    PROVE  PositionsInv'
  <1> SUFFICES ASSUME rpc' # "stopped"
               PROVE  (\E r, b \in Nat, q \in Seq(Nat) :
                         /\ ReceiverAt(r, b, q)
                         /\ Live => \E a, h \in Nat, t \in Seq(Nat) :
                                       SenderAt(a, h, r) /\ AnswersAt(a, h, r, q, t))'
    BY DEF PositionsInv
  <1>1. PICK r \in Nat, b \in Nat, q \in Seq(Nat) :
            /\ ReceiverAt(r, b, q)
            /\ Live => \E a, h \in Nat, t \in Seq(Nat) :
                          SenderAt(a, h, r) /\ AnswersAt(a, h, r, q, t)
    BY DEF PositionsInv
  <1>2. ReceiverAt(r, b, q)'
    BY <1>1, ReceiverSame
  <1>3. ASSUME Live'
        PROVE  \E a, h \in Nat, t \in Seq(Nat) : SenderAt(a, h, r)' /\ AnswersAt(a, h, r, q, t)'
    <2>1. PICK a \in Nat, h \in Nat, t \in Seq(Nat) : SenderAt(a, h, r) /\ AnswersAt(a, h, r, q, t)
      BY <1>1, <1>3
    <2>2. QED BY <1>1, <1>3, <2>1
  <1>4. QED BY <1>2, <1>3

\* A packet is marked as sent.
LEMMA MarkSentKeepsPositions ==
    ASSUME PlainChannel, StateInv, GivenInv, PositionsInv, MarkSent
    PROVE  PositionsInv'
  <1>0. K \in Nat /\ M \in Nat /\ 2 <= K /\ K < M /\ 0 \in SN /\ Wrap(0) = 0
    BY WindowAssumption, WrapLow DEF SN
  <1>1. /\ UNCHANGED <<rfrom, released, rbuffer, toR, rstate, rpc, message, segment, opens, tstate>>
        /\ UNCHANGED <<from, slots, acked, ackInHand, openAcked, toT>> /\ tpc' # "segmentSent"
    BY DEF MarkSent, rVars, dataVars, linkVars, ackVars
  <1>2. Given' = Given /\ Count' = Count /\ Count \in Nat
    BY <1>1, SameGiven, CountIn
  <1>3. PICK n \in SN : Marking(n) /\ sent' = [sent EXCEPT ![n] = TRUE]
    BY DEF MarkSent
  <1>4. ASSUME Live,
               NEW r \in Nat, NEW b \in Nat, NEW a \in Nat, NEW h \in Nat, NEW q \in Seq(Nat),
               NEW t \in Seq(Nat), SenderAt(a, h, r), AnswersAt(a, h, r, q, t)
        PROVE  SenderAt(a, h, r)' /\ AnswersAt(a, h, r, q, t)'
    <2>1. SentAt(a, Count, sent) /\ a <= Count /\ (tpc = "segmentSent" => a < Count)
      BY <1>2, <1>4 DEF SenderAt
    <2>2. (\E i \in Nat : a <= i /\ i < Count /\ n = Wrap(i)) \/ (n = 0 /\ a > 0 /\ Count <= M)
      <3>1. CASE tpc = "segmentSent" /\ n = Wrap(sn - 1)
        <4>1. tstate = "Open"
          BY <3>1 DEF StateInv, PlacesInv
        <4>2. sn = Wrap(Count)
          BY <4>1 DEF GivenInv
        <4>3. a <= Count - 1 /\ Count - 1 \in Nat /\ Count - 1 < Count /\ 1 \in 0 .. M /\ 1 <= Count
          BY <1>0, <1>2, <2>1, <3>1
        <4>4. Wrap(Wrap(Count) - 1) = Wrap(Count - 1)
          BY <1>2, <4>3, WrapBack
        <4>5. QED BY <3>1, <4>2, <4>3, <4>4
      <3>2. CASE tpc \in {"openSent", "closeSent"} /\ n = 0
        <4>1. tstate = "Enabled" /\ message = 0 /\ opens = 1
          BY <1>4, <3>2 DEF StateInv, PlacesInv, Live
        <4>2. Given = <<>>
          BY <4>1, GivenIs, NothingGiven
        <4>3. Len(Given) = 0
          BY <4>2
        <4>4. Count = 1
          BY <4>1, <4>3 DEF Count
        <4>5. CASE a = 0
          BY <1>0, <3>2, <4>4, <4>5
        <4>6. CASE a # 0
          BY <1>0, <3>2, <4>4, <4>6
        <4>7. QED BY <4>5, <4>6
      <3>3. QED BY <1>3, <3>1, <3>2 DEF Marking
    <2>3. SentAt(a, Count, sent')
      <3>1. sent \in [SN -> BOOLEAN]
        BY DEF StateInv, WindowTypes
      <3>2. QED BY <1>2, <1>3, <2>1, <2>2, <3>1, SentMarked
    <2>4. SenderAt(a, h, r)'
      BY <1>1, <1>2, <1>4, <2>3 DEF SenderAt
    <2>5. AnswersAt(a, h, r, q, t)'
      BY <1>1, <1>2, <1>4 DEF AnswersAt
    <2>6. QED BY <2>4, <2>5
  <1>5. Live' => Live
    BY <1>1 DEF Live
  <1>6. QED BY <1>1, <1>2, <1>4, <1>5, SenderMoves

\* An acknowledgement is taken: it can be of no packet but the one it is for.
LEMMA TakeAckKeepsPositions ==
    ASSUME PlainChannel, StateInv, GivenInv, PositionsInv, TakeAck
    PROVE  PositionsInv'
  <1>0. K \in Nat /\ M \in Nat /\ 2 <= K /\ K < M /\ 0 \in SN /\ Wrap(0) = 0
    BY WindowAssumption, WrapLow DEF SN
  <1> DEFINE n == Head(toT).sn
  <1>1. /\ UNCHANGED <<rfrom, released, rbuffer, toR, rstate, rpc, message, segment, opens>>
        /\ UNCHANGED <<from, slots, sent, openAcked>>
        /\ toT # <<>> /\ toT' = Tail(toT) /\ ~Marking(n)
        /\ \/ ~sent[n] /\ UNCHANGED <<acked, tpc, tstate>>
           \/ /\ sent[n] /\ acked' = [acked EXCEPT ![n] = TRUE]
              /\ UNCHANGED <<tpc, tstate>> \/ Malfunction
    BY DEF TakeAck, DecrementNOfOutstandingPackets, rVars, dataVars, PlainChannel
  <1>2. Given' = Given /\ Count' = Count /\ Count \in Nat
    BY <1>1, SameGiven, CountIn
  <1>3. /\ toT \in Seq(Acks) /\ acked \in [SN -> BOOLEAN] /\ sn \in SN /\ M \in Nat
    BY <1>0 DEF StateInv, LinkTypes, WindowTypes
  <1> HIDE DEF n
  <1>4. Live' => UNCHANGED <<tpc, tstate>>
    BY <1>1 DEF Live, Malfunction
  <1>5. ASSUME Live',
               NEW r \in Nat, NEW b \in Nat, NEW a \in Nat, NEW h \in Nat, NEW q \in Seq(Nat),
               NEW t \in Seq(Nat), ReceiverAt(r, b, q), SenderAt(a, h, r), AnswersAt(a, h, r, q, t)
        PROVE  \E a1, h1 \in Nat, t1 \in Seq(Nat) :
                  (SenderAt(a1, h1, r))' /\ (AnswersAt(a1, h1, r, q, t1))'
    <2> DEFINE u == Tail(t)
               x == t[1]
               z == IF h <= x THEN x + 1 ELSE h
    <2>1. /\ Number(toT, t) /\ Near(t) /\ Above(h, t) /\ Below(t, Count)
          /\ \A l \in 1 .. Len(t) : Has(t[l], r, rbuffer)
          /\ OpenAckFirst(t, a, acked)
          /\ Above(h, q) /\ Across(t, q)
          /\ \A l \in 1 .. Len(toR) : toR[l].type # "Close"
      BY <1>5 DEF AnswersAt
    <2>2. t # <<>> /\ n = Wrap(x) /\ Number(toT', u)
      <3> HIDE DEF Acks
      <3>1. QED BY <1>1, <1>3, <2>1, NumberHead DEF n
    <2>3. /\ x \in Nat /\ 1 \in 1 .. Len(t) /\ u \in Seq(Nat) /\ Len(u) = Len(t) - 1
          /\ \A l \in 1 .. Len(u) : u[l] = t[l + 1] /\ l + 1 \in 1 .. Len(t) /\ t[l + 1] \in Nat
          /\ Near(u) /\ \A l \in 1 .. Len(u) : x < u[l] + K
          /\ Above(h, u) /\ h <= x + K /\ Below(u, Count) /\ x < Count
          /\ Across(u, q) /\ Above(x + 1, q)
      BY <2>1, <2>2, QueueHead
    <2> HIDE DEF u, x
    <2>4. /\ z \in Nat /\ z <= Count /\ h <= z /\ Above(z, u) /\ Above(z, q)
      <3>1. Above(x + 1, u)
        <4>1. \A l \in 1 .. Len(u) : u[l] \in Nat /\ x < u[l] + K
          BY <2>3
        <4>2. ASSUME NEW l \in 1 .. Len(u) PROVE x + 1 <= u[l] + K
          <5>1. u[l] \in Nat /\ x < u[l] + K /\ x \in Nat /\ K \in Nat
            BY <1>0, <2>3, <4>1
          <5>2. QED BY ONLY <5>1
        <4>3. QED BY <4>2 DEF Above
      <3>2. h <= Count
        BY <1>5 DEF SenderAt
      <3>3. QED BY <1>2, <2>1, <2>3, <3>1, <3>2
    <2>5. x = 0 => a = 0 /\ ~acked[0]
      BY <2>1, <2>3 DEF OpenAckFirst, x
    <2>6. \A l \in 1 .. Len(u) : u[l] # 0
      <3> SUFFICES ASSUME NEW l \in 1 .. Len(u), u[l] = 0 PROVE FALSE
        OBVIOUS
      <3>1. t[l + 1] = 0 /\ l + 1 \in 1 .. Len(t)
        <4>1. u[l] = t[l + 1] /\ l + 1 \in 1 .. Len(t)
          BY ONLY <2>3
        <4>2. QED BY <4>1
      <3>2. l + 1 # 1
        OBVIOUS
      <3>3. QED BY <2>1, <3>1, <3>2 DEF OpenAckFirst
    <2>7. Has(x, r, rbuffer) /\ \A l \in 1 .. Len(u) : Has(u[l], r, rbuffer)
      BY <2>1, <2>3 DEF x
    <2>8. /\ from = Wrap(a)
          /\ a <= r /\ a <= h /\ h <= Count /\ Count <= a + K
          /\ SlotsAt(Given, Count, slots)
          /\ SentAt(a, Count, sent)
          /\ AckedAt(a, h, r, acked, rbuffer)
          /\ tpc = "segmentSent" => a < Count /\ ~acked[Wrap(Count - 1)]
      BY <1>5 DEF SenderAt
    <2>9. r > 0
      <3> SUFFICES ASSUME r = 0 PROVE FALSE
        OBVIOUS
      <3>1. Count <= 1 /\ b <= Count /\ BufferAt(Given, r, b, rbuffer)
        BY <1>2, <1>5 DEF ReceiverAt
      <3>2. rbuffer[Wrap(x)] # NoPacket /\ Wrap(x) \in SN
        BY <2>3, <2>7, Quotient DEF Has
      <3>3. PICK i \in Nat : r < i /\ i < b
        BY <3>1, <3>2 DEF BufferAt
      <3>4. QED BY <1>2, <3>1, <3>3
    <2>10. AckedAt(a, z, r, acked', rbuffer)
      <3>1. CASE ~sent[n] /\ UNCHANGED acked
        <4>1. AckedAt(a, z, r, acked, rbuffer)
          <5>1. \A i \in Nat : i < h => i < z
            BY <2>4
          <5> HIDE DEF z
          <5>2. QED BY <2>8, <5>1 DEF AckedAt
        <4>2. QED BY <3>1, <4>1
      <3>2. CASE sent[n] /\ acked' = [acked EXCEPT ![n] = TRUE]
        <4>1. sent[Wrap(x)] /\ acked' = [acked EXCEPT ![Wrap(x)] = TRUE]
          BY <2>2, <3>2
        <4>2. AckedAt(a, z, r, [acked EXCEPT ![Wrap(x)] = TRUE], rbuffer)
          <5>1. a <= h /\ h <= Count /\ Count <= a + K /\ SentAt(a, Count, sent)
            BY <2>8
          <5>2. AckedAt(a, h, r, acked, rbuffer) /\ Has(x, r, rbuffer) /\ sent[Wrap(x)]
            BY <2>7, <2>8, <4>1
          <5>3. h <= x + K /\ x < Count /\ (x = 0 => a = 0)
            BY <2>3, <2>5
          <5>4. x \in Nat /\ Count \in Nat /\ acked \in [SN -> BOOLEAN]
            BY <1>2, <1>3, <2>3
          <5>5. QED BY <5>1, <5>2, <5>3, <5>4, AckTaken
        <4>3. QED BY <4>1, <4>2
      <3>3. QED BY <1>1, <3>1, <3>2
    <2>11. tpc = "segmentSent" => ~acked'[Wrap(Count - 1)]
      <3> SUFFICES ASSUME tpc = "segmentSent" PROVE ~acked'[Wrap(Count - 1)]
        OBVIOUS
      <3>1. tstate = "Open"
        BY DEF StateInv, PlacesInv
      <3>2. sn = Wrap(Count)
        BY <3>1 DEF GivenInv
      <3>3. 1 \in 0 .. M /\ 1 <= Count
        BY <1>0, <1>2, <2>8
      <3>4. Wrap(sn - 1) = Wrap(Count - 1)
        BY <1>2, <3>2, <3>3, WrapBack
      <3>5. n # Wrap(Count - 1)
        BY <1>1, <3>4 DEF Marking
      <3>6. ~acked[Wrap(Count - 1)]
        BY <2>8
      <3>7. Wrap(Count - 1) \in SN
        BY <1>2, <3>3, Quotient
      <3>8. QED BY <1>1, <1>3, <3>5, <3>6, <3>7
    <2> HIDE DEF z
    <2>12. SenderAt(a, z, r)'
      <3>1. a <= z
        BY <2>4, <2>8
      <3>2. QED BY <1>1, <1>2, <1>4, <1>5, <2>4, <2>8, <2>9, <2>10, <2>11, <3>1 DEF SenderAt
    <2>13. OpenAckFirst(u, a, acked')
      BY <2>6 DEF OpenAckFirst
    <2>14. AnswersAt(a, z, r, q, u)'
      BY <1>1, <1>2, <2>1, <2>2, <2>3, <2>4, <2>7, <2>13 DEF AnswersAt
    <2>15. QED BY <2>3, <2>4, <2>12, <2>14
  <1>6. Live' => Live
    BY <1>4 DEF Live
  <1>7. QED BY <1>1, <1>2, <1>5, <1>6, SenderMoves

\* The window of the transmitter slides.
LEMMA FinishAckKeepsPositions ==
    ASSUME PlainChannel, StateInv, GivenInv, PositionsInv, FinishAck
    PROVE  PositionsInv'
  <1>0. K \in Nat /\ M \in Nat /\ 2 <= K /\ K < M /\ 0 \in SN /\ Wrap(0) = 0
    BY WindowAssumption, WrapLow DEF SN
  <1>1. /\ UNCHANGED <<rfrom, released, rbuffer, toR, rstate, rpc, message, segment, opens>>
        /\ UNCHANGED <<slots, toT>> /\ ackInHand # NoAck
        /\ (SlideSlidingWindow /\ UNCHANGED <<tpc, tstate>>) \/ Malfunction
    BY DEF FinishAck, rVars, dataVars, linkVars
  <1>2. Given' = Given /\ Count' = Count /\ Count \in Nat
    BY <1>1, SameGiven, CountIn
  <1>3. acked \in [SN -> BOOLEAN] /\ sent \in [SN -> BOOLEAN] /\ toT \in Seq(Acks)
    BY DEF StateInv, LinkTypes, WindowTypes
  <1>4. Live' => SlideSlidingWindow /\ UNCHANGED <<tpc, tstate>>
    BY <1>1 DEF Live, Malfunction
  <1>5. ASSUME Live',
               NEW r \in Nat, NEW b \in Nat, NEW a \in Nat, NEW h \in Nat, NEW q \in Seq(Nat),
               NEW t \in Seq(Nat), ReceiverAt(r, b, q), SenderAt(a, h, r), AnswersAt(a, h, r, q, t)
        PROVE  \E a1, h1 \in Nat, t1 \in Seq(Nat) :
                  (SenderAt(a1, h1, r))' /\ (AnswersAt(a1, h1, r, q, t1))'
    <2>0. PICK k \in Nat : k = RunLength(Wrap(a), Settled(sent, acked))
      <3>1. RunLength(Wrap(a), Settled(sent, acked)) \in Nat
        BY <1>0, RunLengthIn
      <3>2. QED BY <3>1
    <2>1. /\ from = Wrap(a)
          /\ a <= r /\ a <= h /\ h <= Count /\ Count <= a + K
          /\ SlotsAt(Given, Count, slots)
          /\ SentAt(a, Count, sent)
          /\ AckedAt(a, h, r, acked, rbuffer)
          /\ r > 0
          /\ tpc = "segmentSent" => a < Count /\ ~acked[Wrap(Count - 1)]
      BY <1>1, <1>5 DEF SenderAt
    <2>2. BufferAt(Given, r, b, rbuffer)
      BY <1>5 DEF ReceiverAt
    <2>3. /\ sent' = Cleared(sent, Numbers(Wrap(a), k))
          /\ acked' = Cleared(acked, Numbers(Wrap(a), k))
          /\ from' = Wrap(Wrap(a) + k)
      BY <1>4, <1>5, <2>0, <2>1 DEF SlideSlidingWindow, Settled, Cleared
    <2>5. /\ k \in Nat /\ a + k <= h /\ a + k <= r
          /\ SentAt(a + k, Count, sent') /\ AckedAt(a + k, h, r, acked', rbuffer)
          /\ \A y \in Nat : a <= y /\ y < a + k => acked[Wrap(y)]
      <3>1. a <= r /\ a <= h /\ h <= Count /\ Count <= a + K
        BY <2>1
      <3>2. SentAt(a, Count, sent) /\ AckedAt(a, h, r, acked, rbuffer)
        BY <2>1
      <3>3. Count \in Nat
        BY <1>2
      <3>4. LET l == RunLength(Wrap(a), Settled(sent, acked))
            IN  /\ l \in Nat /\ a + l <= h /\ a + l <= r
                /\ SentAt(a + l, Count, Cleared(sent, Numbers(Wrap(a), l)))
                /\ AckedAt(a + l, h, r, Cleared(acked, Numbers(Wrap(a), l)), rbuffer)
                /\ \A y \in Nat : a <= y /\ y < a + l => acked[Wrap(y)]
        BY <2>2, <3>1, <3>2, <3>3, SenderSlides
      <3>5. QED BY <2>0, <2>3, <3>4
    <2>6. from' = Wrap(a + k)
      BY <2>3, <2>5, WrapSum
    <2>7. \A n \in SN : acked'[n] => acked[n]
      BY <2>3 DEF Cleared
    <2>8. tpc = "segmentSent" => a + k < Count /\ ~acked'[Wrap(Count - 1)]
      <3> SUFFICES ASSUME tpc = "segmentSent"
                   PROVE  a + k < Count /\ ~acked'[Wrap(Count - 1)]
        OBVIOUS
      <3>1. a < Count /\ ~acked[Wrap(Count - 1)] /\ Count - 1 \in Nat
        BY <1>2, <2>1
      <3>2. ~(Count - 1 < a + k)
        BY <1>2, <2>5, <3>1
      <3>3. a + k < Count
        BY <1>2, <2>5, <3>1, <3>2
      <3>4. Wrap(Count - 1) \in SN
        BY <3>1, Quotient
      <3>5. QED BY <2>7, <3>1, <3>3, <3>4
    <2>9. SenderAt(a + k, h, r)'
      <3>1. /\ h <= Count' /\ Count' <= (a + k) + K
            /\ tpc' = "segmentSent" => a + k < Count' /\ ~acked'[Wrap(Count' - 1)]
        BY <1>0, <1>2, <1>4, <1>5, <2>1, <2>5, <2>8
      <3>2. /\ from' = Wrap(a + k) /\ a + k <= r /\ a + k <= h /\ r > 0
            /\ AckedAt(a + k, h, r, acked', rbuffer')
        BY <1>1, <2>1, <2>5, <2>6
      <3>3. SlotsAt(Given', Count', slots') /\ SentAt(a + k, Count', sent')
        BY <1>1, <1>2, <2>1, <2>5
      <3>4. QED BY <3>1, <3>2, <3>3 DEF SenderAt
    <2>10. /\ Number(toT, t) /\ Near(t) /\ Above(h, t) /\ Below(t, Count)
           /\ \A l \in 1 .. Len(t) : Has(t[l], r, rbuffer)
           /\ OpenAckFirst(t, a, acked)
           /\ Above(h, q) /\ Across(t, q)
           /\ \A l \in 1 .. Len(toR) : toR[l].type # "Close"
      BY <1>5 DEF AnswersAt
    <2>11. OpenAckFirst(t, a + k, acked')
      <3> SUFFICES ASSUME NEW l \in 1 .. Len(t), t[l] = 0
                   PROVE  l = 1 /\ a + k = 0 /\ ~acked'[0]
        BY DEF OpenAckFirst
      <3>1. l = 1 /\ a = 0 /\ ~acked[0]
        BY <2>10 DEF OpenAckFirst
      <3>2. ~(0 < a + k)
        BY <1>0, <2>5, <3>1
      <3>3. QED BY <1>0, <2>5, <2>7, <3>1, <3>2
    <2>12. AnswersAt(a + k, h, r, q, t)'
      BY <1>1, <1>2, <2>10, <2>11 DEF AnswersAt
    <2>13. a + k \in Nat
      BY <2>5
    <2>14. QED BY <2>9, <2>12, <2>13
  <1>6. Live' => Live
    BY <1>4 DEF Live
  <1>7. QED BY <1>1, <1>2, <1>5, <1>6, SenderMoves

\* A segment is sent for the first time, in a slot that is free.
LEMMA SendSegmentKeepsPositions ==
    ASSUME PlainChannel, StateInv, GivenInv, PositionsInv, SendSegment
    PROVE  PositionsInv'
  <1>0. K \in Nat /\ M \in Nat /\ 2 <= K /\ K < M
    BY WindowAssumption
  <1> DEFINE s == <<message, segment + 1>>
             p == DataPacket(sn, message, segment + 1)
             g == Given
             h == Append(g, s)
  <1>c. PICK c \in Nat : c = Count
    BY CountIn
  <1>1. /\ c = Count /\ opens = 1 /\ Count' = c + 1 /\ c = 1 + Len(g) /\ c \in Nat
        /\ Given' = h /\ s \in Segments /\ sn = Wrap(c) /\ g \in Seq(Segments) /\ Len(g) \in Nat
    BY <1>c, SendSegmentGrows, CountIn
  <1>2. /\ UNCHANGED <<rfrom, released, rbuffer, rstate, rpc, toT, from, sent, acked, ackInHand, openAcked>>
        /\ slots' = [slots EXCEPT ![sn] = p] /\ InsideForwardSlidingWindow(from, sn)
        /\ \/ SendToR(p) /\ tpc' = "segmentSent" /\ UNCHANGED tstate
           \/ Malfunction /\ UNCHANGED toR
    BY DEF SendSegment, rVars, dataVars, ackVars
  <1>3. /\ tstate = "Open" /\ Live /\ toR \in Seq(Packets) /\ slots \in [SN -> Packets \cup {NoPacket}]
        /\ DOMAIN slots = SN
    BY DEF SendSegment, StateInv, PlacesInv, LinkTypes, WindowTypes, Live
  <1>4. p = Carried(h, c) /\ p \in Packets /\ p.type = "Data" /\ c > 0
    <2>1. c > 0 /\ h[c] = s
      BY <1>1, StreamGrows
    <2>2. s[1] = message /\ s[2] = segment + 1
      OBVIOUS
    <2>3. p = Carried(h, c)
      BY <1>1, <2>1, <2>2 DEF Carried
    <2>4. p \in Packets
      <3>1. message \in 1 .. Len(Messages) /\ segment \in Nat /\ segment < Messages[message] /\ sn \in SN
        BY ChannelAssumption DEF StateInv, AppTypes, WindowTypes, PlacesInv, SendSegment
      <3>2. QED BY <3>1, SomePackets
    <2>5. p.type = "Data"
      BY DEF DataPacket
    <2>6. QED BY <2>1, <2>3, <2>4, <2>5
  <1>5. /\ \A i \in Nat : i < c => Carried(h, i) = Carried(g, i)
        /\ \A r, b, buf : b \in Nat /\ b <= c /\ BufferAt(g, r, b, buf) => BufferAt(h, r, b, buf)
        /\ \A pk, q : Match(g, pk, q) /\ Below(q, c) => Match(h, pk, q)
    <2>1. PICK g1, s1, h1 : g1 = g /\ s1 = s /\ h1 = h
      OBVIOUS
    <2>2. g1 \in Seq(Segments) /\ s1 \in Segments /\ h1 = Append(g1, s1) /\ c = 1 + Len(g1)
      BY <1>1, <2>1
    <2>3. /\ \A i \in Nat : i < c => Carried(h1, i) = Carried(g1, i)
          /\ \A r, b, buf : b \in Nat /\ b <= c /\ BufferAt(g1, r, b, buf)
                           => BufferAt(h1, r, b, buf)
          /\ \A pk, q : Match(g1, pk, q) /\ Below(q, c) => Match(h1, pk, q)
      BY ONLY <2>2, StreamGrows, ZenonT(40)
    <2>4. QED BY <2>1, <2>3
  <1> SUFFICES ASSUME rpc' # "stopped"
               PROVE  (\E r, b \in Nat, q \in Seq(Nat) :
                         /\ ReceiverAt(r, b, q)
                         /\ Live => \E a, h1 \in Nat, t \in Seq(Nat) :
                                       SenderAt(a, h1, r) /\ AnswersAt(a, h1, r, q, t))'
    BY DEF PositionsInv
  <1>6. PICK r \in Nat, b \in Nat, q \in Seq(Nat) :
            /\ ReceiverAt(r, b, q)
            /\ \E a, h1 \in Nat, t \in Seq(Nat) :
                          SenderAt(a, h1, r) /\ AnswersAt(a, h1, r, q, t)
    BY <1>2, <1>3 DEF PositionsInv
  <1>7. PICK a \in Nat, h1 \in Nat, t \in Seq(Nat) : SenderAt(a, h1, r) /\ AnswersAt(a, h1, r, q, t)
    BY <1>6
  <1>8. /\ rfrom = Wrap(r) /\ r <= b /\ b <= c /\ c <= r + K
        /\ Len(released) = (IF r = 0 THEN 0 ELSE r - 1)
        /\ rstate \in {"Closed", "Enabled"} => r = 0
        /\ BufferAt(g, r, b, rbuffer)
        /\ Match(g, toR, q) /\ Near(q) /\ Above(b, q) /\ Below(q, c)
    BY <1>1, <1>6 DEF ReceiverAt
  <1>9. /\ from = Wrap(a)
        /\ a <= r /\ a <= h1 /\ h1 <= c /\ c <= a + K
        /\ SlotsAt(g, c, slots)
        /\ SentAt(a, c, sent)
        /\ AckedAt(a, h1, r, acked, rbuffer)
        /\ r > 0
    BY <1>1, <1>3, <1>7 DEF SenderAt
  <1>10. /\ Number(toT, t) /\ Near(t) /\ Above(h1, t) /\ Below(t, c)
         /\ \A l \in 1 .. Len(t) : Has(t[l], r, rbuffer)
         /\ OpenAckFirst(t, a, acked)
         /\ Above(h1, q) /\ Across(t, q)
         /\ \A l \in 1 .. Len(toR) : toR[l].type # "Close"
    BY <1>1, <1>7 DEF AnswersAt
  <1> HIDE DEF s, p, g, h
  <1>11. c < a + K
    <2>1. a <= c
      BY <1>1, <1>9
    <2>2. QED BY <1>1, <1>2, <1>9, <2>1, RoomInWindow
  <1>u. PICK u \in Seq(Nat) : u = Append(q, c)
    BY <1>1, QueueEnd
  <1>12. /\ u \in Seq(Nat) /\ Near(u) /\ Above(b, u) /\ Below(u, c + 1)
         /\ Above(h1, u) /\ Across(t, u) /\ Below(q, c + 1) /\ Below(t, c + 1)
    <2>1. (\A l \in 1 .. Len(q) : q[l] \in Nat) /\ (\A l \in 1 .. Len(t) : t[l] \in Nat)
      BY ElementOfSeq
    <2>2. Below(q, c + K) /\ Below(q, c + 1) /\ Below(t, c + K) /\ Below(t, c + 1)
      <3>1. \A x \in Nat : x < c => x < c + K /\ x < c + 1
        BY ONLY <1>0, <1>1
      <3>2. QED BY <1>8, <1>10, <2>1, <3>1 DEF Below
    <2>3. c < c + 1 /\ b <= c + K /\ h1 <= c + K
      BY <1>0, <1>1, <1>8, <1>9
    <2>4. QED BY <1>1, <1>u, <1>8, <1>10, <2>2, <2>3, QueueEnd
  <1>13. Match(h, toR, q)
    BY <1>5, <1>8
  <1>14. Match(h, Append(toR, p), u)
    <2>1. Fits(h, p, c)
      BY <1>4 DEF Fits
    <2> HIDE DEF Packets
    <2>2. QED BY <1>1, <1>u, <1>3, <1>4, <1>13, <2>1, MatchEnd
  <1>15. BufferAt(h, r, b, rbuffer)
    BY <1>5, <1>8
  <1>16. c + 1 <= r + K /\ b <= c + 1
    BY <1>0, <1>1, <1>8, <1>9, <1>11
  <1>17. ASSUME NEW v \in Seq(Nat), Match(h, toR', v), Near(v), Above(b, v), Below(v, c + 1)
         PROVE  ReceiverAt(r, b, v)'
    <2>1. /\ rfrom' = Wrap(r) /\ r <= b /\ b <= Count' /\ Count' <= r + K
          /\ Len(released') = (IF r = 0 THEN 0 ELSE r - 1)
          /\ rstate' \in {"Closed", "Enabled"} => r = 0
          /\ Count' > 1 => r > 0
      BY <1>1, <1>2, <1>8, <1>9, <1>16
    <2>2. /\ BufferAt(Given', r, b, rbuffer')
          /\ Match(Given', toR', v) /\ Near(v) /\ Above(b, v) /\ Below(v, Count')
      BY <1>1, <1>2, <1>15, <1>17
    <2>3. QED BY <2>1, <2>2 DEF ReceiverAt
  <1>18. CASE Malfunction /\ UNCHANGED toR
    <2>1. ReceiverAt(r, b, q)'
      BY <1>8, <1>12, <1>13, <1>17, <1>18
    <2>2. ~Live'
      BY <1>18 DEF Malfunction, Live
    <2>3. QED BY <2>1, <2>2
  <1>19. CASE SendToR(p) /\ tpc' = "segmentSent" /\ UNCHANGED tstate
    <2>1. PICK v \in Seq(Nat) : /\ ReceiverAt(r, b, v)'
                                /\ Above(h1, v) /\ Across(t, v)
                                /\ \A l \in 1 .. Len(toR') : toR'[l].type # "Close"
      <3>1. CASE UNCHANGED toR
        <4>1. ReceiverAt(r, b, q)'
          BY <1>8, <1>12, <1>13, <1>17, <3>1
        <4>2. QED BY <1>10, <3>1, <4>1
      <3>2. CASE toR' = Append(toR, p)
        <4>1. ReceiverAt(r, b, u)'
          BY <1>12, <1>14, <1>17, <3>2
        <4>2. ASSUME NEW l \in 1 .. Len(toR') PROVE toR'[l].type # "Close"
          <5>1. /\ Len(toR') = Len(toR) + 1 /\ Len(toR) \in Nat
                /\ (\A i \in 1 .. Len(toR) : toR'[i] = toR[i]) /\ toR'[Len(toR) + 1] = p
            <6> HIDE DEF Packets
            <6>1. QED BY <1>3, <1>4, <3>2, AppendProperties
          <5>2. l \in 1 .. Len(toR) \/ l = Len(toR) + 1
            BY <5>1
          <5>3. QED BY <1>4, <1>10, <5>1, <5>2
        <4>3. QED BY <1>12, <4>1, <4>2
      <3>3. QED BY <1>19, <3>1, <3>2 DEF SendToR
    <2>2. SlotsAt(h, c + 1, slots')
      <3>1. slots' = [slots EXCEPT ![Wrap(c)] = Carried(h, c)]
        BY <1>1, <1>2, <1>4
      <3>2. SlotsAt(h, c + 1, [slots EXCEPT ![Wrap(c)] = Carried(h, c)])
        BY <1>1, <1>3, <1>5, <1>9, SlotsGrow
      <3>3. QED BY <3>1, <3>2
    <2>3. SentAt(a, c + 1, sent)
      <3>1. a <= c
        BY <1>1, <1>9
      <3>2. QED BY <1>1, <1>9, <3>1, SentGrows
    <2>4. ~acked[Wrap(c)]
      <3> SUFFICES ASSUME acked[Wrap(c)] PROVE FALSE
        OBVIOUS
      <3>1. Wrap(c) \in SN
        BY <1>1, Quotient
      <3>2. PICK i \in Nat : a <= i /\ i < h1 /\ Wrap(c) = Wrap(i)
        BY <1>9, <3>1 DEF AckedAt
      <3>3. i < c /\ c < i + M
        BY <1>0, <1>1, <1>9, <3>2
      <3>4. QED BY <1>1, <3>2, <3>3, WrapDiffers
    <2>5. SenderAt(a, h1, r)'
      <3>1. h1 <= Count' /\ Count' <= a + K /\ a < Count' /\ Count' - 1 = c
        BY <1>0, <1>1, <1>9, <1>11
      <3>2. /\ from' = Wrap(a) /\ a <= r /\ a <= h1 /\ r > 0
            /\ AckedAt(a, h1, r, acked', rbuffer') /\ ~acked'[Wrap(Count' - 1)]
        BY <1>2, <1>9, <2>4, <3>1
      <3>3. SlotsAt(Given', Count', slots') /\ SentAt(a, Count', sent')
        BY <1>1, <1>2, <2>2, <2>3
      <3>4. QED BY <3>1, <3>2, <3>3 DEF SenderAt
    <2>6. AnswersAt(a, h1, r, v, t)'
      <3>1. /\ Number(toT', t) /\ Near(t) /\ Above(h1, t) /\ Below(t, Count')
            /\ \A l \in 1 .. Len(t) : Has(t[l], r, rbuffer')
            /\ OpenAckFirst(t, a, acked')
        BY <1>1, <1>2, <1>10, <1>12
      <3>2. QED BY <2>1, <3>1 DEF AnswersAt
    <2>7. QED BY <2>1, <2>5, <2>6
  <1>20. QED BY <1>2, <1>18, <1>19

-----------------------------------------------------------------------------
(* Packets that reach the receiver.                                        *)

\* What the receiver has released when its window has come to packet r.
ReleasedAt(g, r, released1, current1, out) ==
    /\ released1 \in Seq(Segments) /\ Len(released1) = (IF r = 0 THEN 0 ELSE r - 1)
    /\ Len(released1) <= Len(g)
    /\ \A i \in 1 .. Len(released1) : released1[i] = g[i]
    /\ Assembled(g, Len(released1), current1, out)

\* ReleasedAt from its parts.
LEMMA ReleasedAtFrom ==
    ASSUME NEW g, NEW r, NEW rel, NEW cur, NEW out,
           rel \in Seq(Segments), Len(rel) = (IF r = 0 THEN 0 ELSE r - 1), Len(rel) <= Len(g),
           \A i \in 1 .. Len(rel) : rel[i] = g[i], Assembled(g, Len(rel), cur, out)
    PROVE  ReleasedAt(g, r, rel, cur, out)
BY Zenon DEF ReleasedAt

\* What the receiver releases when its window slides by k packets.
LEMMA RunReleases ==
    ASSUME NEW g, InOrder(g), NEW r \in Nat, NEW k \in Nat, r + k <= 1 + Len(g),
           r = 0 => k <= 1,
           NEW rel, NEW cur \in Seq(Segments), NEW rec \in Seq(Seq(Segments)),
           NEW deliv \in Seq(Seq(Segments)),
           ReleasedAt(g, r, rel, cur, deliv \o rec),
           NEW f,
           f[0] = [current |-> cur, received |-> rec, segments |-> <<>>, malfunction |-> FALSE],
           \A j \in 1 .. k : f[j] = Reconstruct(f[j - 1], Carried(g, r + (j - 1)))
    PROVE  /\ f[k] \in Assemblies /\ ~f[k].malfunction
           /\ ReleasedAt(g, r + k, rel \o f[k].segments, f[k].current, deliv \o f[k].received)
  <1>1. f[0] \in Assemblies /\ ~f[0].malfunction /\ f[0].segments = <<>>
        /\ f[0].current = cur /\ f[0].received = rec
    <2>1. <<>> \in Seq(Segments)
      BY EmptySeq
    <2> HIDE DEF Segments
    <2>2. QED BY <2>1 DEF Assemblies
  <1>2. rel \in Seq(Segments) /\ Len(rel) \in Nat /\ Len(g) \in Nat /\ g \in Seq(Segments)
    BY LenProperties DEF ReleasedAt, InOrder
  <1>3. CASE r = 0
    <2>1. f[k] = f[0]
      <3>1. CASE k = 0
        BY <3>1
      <3>2. CASE k # 0
        <4>1. k = 1 /\ 1 \in 1 .. k
          BY <1>3, <3>2
        <4>2. f[1] = Reconstruct(f[0], Carried(g, 0))
          BY <1>3, <4>1
        <4>3. Carried(g, 0).type = "Open"
          BY DEF Carried, Packet
        <4>4. Reconstruct(f[0], Carried(g, 0)) = f[0]
          BY <4>3 DEF Reconstruct
        <4>5. QED BY <4>1, <4>2, <4>4
      <3>3. QED BY <3>1, <3>2
    <2>2. rel \o f[k].segments = rel
      <3>1. f[k].segments = <<>>
        BY <1>1, <2>1
      <3> HIDE DEF Segments
      <3>2. rel \o <<>> = rel
        BY <1>2, ConcatEmptySeq
      <3>3. QED BY <3>1, <3>2
    <2>3. Len(rel) = 0 /\ (IF r + k = 0 THEN 0 ELSE r + k - 1) = 0
      <3>1. k = 0 \/ k = 1
        BY <1>3
      <3>2. QED BY <1>3, <3>1 DEF ReleasedAt
    <2>4. QED BY <1>1, <1>3, <2>1, <2>2, <2>3 DEF ReleasedAt
  <1>4. CASE r # 0
    <2> DEFINE n == r - 1
    <2>1. n \in Nat /\ n = Len(rel) /\ n + k <= Len(g)
      BY <1>2, <1>4 DEF ReleasedAt
    <2>2. \A j \in 1 .. k : f[j] = Reconstruct(f[j - 1], Carried(g, n + j))
      <3> SUFFICES ASSUME NEW j \in 1 .. k
                   PROVE  f[j] = Reconstruct(f[j - 1], Carried(g, n + j))
        OBVIOUS
      <3>1. n + j = r + (j - 1)
        BY <1>4
      <3>2. QED BY <3>1
    <2>3. Assembled(g, n, f[0].current, deliv \o f[0].received)
      BY <1>1, <2>1 DEF ReleasedAt
    <2> HIDE DEF n
    <2>4. /\ f[k] \in Assemblies /\ ~f[k].malfunction
          /\ Len(f[k].segments) = k /\ \A i \in 1 .. k : f[k].segments[i] = g[n + i]
          /\ Assembled(g, n + k, f[k].current, deliv \o f[k].received)
      BY <1>1, <2>1, <2>2, <2>3, SegmentsReleased
    <2> DEFINE new == f[k].segments
               all == rel \o new
    <2>5. new \in Seq(Segments) /\ Len(new) = k /\ \A i \in 1 .. k : new[i] = g[n + i]
      <3>1. new \in Seq(Segments)
        BY <2>4 DEF Assemblies
      <3>2. QED BY <2>4, <3>1
    <2> HIDE DEF new
    <2>6. /\ all \in Seq(Segments) /\ Len(all) = Len(rel) + Len(new)
          /\ \A i \in 1 .. Len(rel) + Len(new) :
                all[i] = IF i <= Len(rel) THEN rel[i] ELSE new[i - Len(rel)]
      <3> HIDE DEF Segments
      <3>1. QED BY <1>2, <2>5, ConcatProperties
    <2> HIDE DEF all
    <2>7. ASSUME NEW i \in 1 .. Len(all) PROVE all[i] = g[i]
      <3>1. i \in Nat /\ i >= 1 /\ i <= n + k
        BY <2>1, <2>5, <2>6
      <3>2. CASE i <= n
        <4>1. i \in 1 .. Len(rel)
          BY <2>1, <3>1, <3>2
        <4>2. QED BY <2>1, <2>5, <2>6, <3>1, <3>2, <4>1 DEF ReleasedAt
      <3>3. CASE ~(i <= n)
        <4>1. i - n \in 1 .. k /\ n + (i - n) = i
          BY <2>1, <3>1, <3>3
        <4>2. all[i] = new[i - n]
          BY <2>1, <2>5, <2>6, <3>1, <3>3
        <4>3. new[i - n] = g[n + (i - n)]
          BY <2>5, <4>1
        <4>4. QED BY <4>1, <4>2, <4>3
      <3>4. QED BY <3>2, <3>3
    <2>8. Len(all) = n + k /\ n + k = r + k - 1 /\ r + k # 0 /\ n + k <= Len(g)
      BY <1>4, <2>1, <2>5, <2>6 DEF n
    <2>9. ReleasedAt(g, r + k, all, f[k].current, deliv \o f[k].received)
      <3>1. Assembled(g, Len(all), f[k].current, deliv \o f[k].received)
        BY <2>4, <2>8
      <3>2. Len(all) = (IF r + k = 0 THEN 0 ELSE r + k - 1) /\ Len(all) <= Len(g)
        BY <2>8
      <3>3. all \in Seq(Segments)
        BY <2>6
      <3>4. \A i \in 1 .. Len(all) : all[i] = g[i]
        BY ONLY <2>7
      <3>5. ASSUME NEW s, s = r + k, NEW cur1, cur1 = f[k].current,
                   NEW out1, out1 = deliv \o f[k].received
            PROVE  ReleasedAt(g, s, all, cur1, out1)
        <4>1. Assembled(g, Len(all), cur1, out1)
          BY <3>1, <3>5
        <4>2. Len(all) = (IF s = 0 THEN 0 ELSE s - 1) /\ Len(all) <= Len(g)
          BY <3>2, <3>5
        <4>3. QED BY ONLY <3>3, <3>4, <4>1, <4>2, ReleasedAtFrom
      <3>6. QED BY <3>5
    <2>10. QED BY <2>4, <2>9 DEF all, new
  <1>5. QED BY <1>3, <1>4

\* What has come out whole is no more than the messages begun.
LEMMA OnlyWholeMessages ==
    ASSUME NEW g, InOrder(g), NEW m \in Nat, OfMessages(g, m),
           NEW n \in Nat, n <= Len(g), NEW cur, NEW out, Assembled(g, n, cur, out)
    PROVE  IsWhole(out, m)
  <1>1. g \in Seq(Segments) /\ Len(g) \in Nat
    BY LenProperties DEF InOrder
  <1>2. CASE n = 0
    <2>1. out = <<>> /\ Whole(0) = <<>>
      BY <1>2 DEF Assembled, Whole
    <2>2. QED BY <2>1 DEF IsWhole
  <1>3. CASE n # 0
    <2>1. n \in 1 .. Len(g)
      BY <1>1, <1>3
    <2>2. g[n] \in Segments
      BY <1>1, <2>1, ElementOfSeq
    <2>3. g[n][1] \in Nat /\ g[n][1] >= 1
      BY <2>2, ChannelAssumption DEF Segments
    <2>4. g[n][1] \in 0 .. m /\ g[n][1] - 1 \in 0 .. m
      BY <2>1, <2>3 DEF OfMessages
    <2>5. out = Whole(g[n][1]) \/ out = Whole(g[n][1] - 1)
      BY <1>3 DEF Assembled
    <2>6. QED BY <2>4, <2>5 DEF IsWhole
  <1>4. QED BY <1>2, <1>3

\* Packet x has come, and the receive window slides.
LEMMA ReceiverSlides ==
    ASSUME StateInv, GivenInv, MessageInv, ReleasedInv, rpc # "stopped",
           UNCHANGED <<delivered, message, segment, opens>>,
           NEW r \in Nat, NEW b \in Nat, NEW q \in Seq(Nat), ReceiverAt(r, b, q),
           NEW x \in Nat, r <= x, x < Count,
           NEW state, state \notin {"Closed", "Enabled"},
           SlideReceiveSlidingWindow([rbuffer EXCEPT ![Wrap(x)] = Carried(Given, x)], state),
           NEW u \in Seq(Nat), Match(Given, toR', u), Near(u), Above(b, u), Above(x + 1, u),
           Below(u, Count)
    PROVE  /\ \E s, c \in Nat :
                 /\ ReceiverAt(s, c, u)' /\ r <= s /\ s > 0
                 /\ \A i \in Nat : Has(i, r, rbuffer) => Has(i, s, rbuffer')
                 /\ Has(x, s, rbuffer')
           /\ ReleasedInv' /\ rstate' = state /\ Len(released) <= Len(released')
  <1>0. K \in Nat /\ M \in Nat /\ 2 <= K /\ K < M
    BY WindowAssumption
  <1>1. Given' = Given /\ Count' = Count /\ Count \in Nat /\ Given \in Seq(Segments)
        /\ Len(Given) \in Nat /\ InOrder(Given)
    BY SameGiven, CountIn DEF GivenInv
  <1>2. /\ rfrom = Wrap(r) /\ r <= b /\ b <= Count /\ Count <= r + K
        /\ Len(released) = (IF r = 0 THEN 0 ELSE r - 1)
        /\ Count > 1 => r > 0
        /\ BufferAt(Given, r, b, rbuffer)
    BY DEF ReceiverAt
  <1>3. /\ current \in Seq(Segments)
        /\ received \in Seq(Seq(Segments)) /\ delivered \in Seq(Seq(Segments))
        /\ ReleasedAt(Given, r, released, current, delivered \o received)
    BY <1>2 DEF ReleasedInv, ReleasedAt
  <1>4. PICK buffer : buffer = [rbuffer EXCEPT ![Wrap(x)] = Carried(Given, x)]
    OBVIOUS
  <1>5. PICK k \in Nat : k = RunLength(Wrap(r), Filled(buffer))
    <2>1. RunLength(Wrap(r), Filled(buffer)) \in Nat
      BY <1>0, RunLengthIn
    <2>2. QED BY <2>1
  <1>6. PICK c \in Nat : c = IF b <= x THEN x + 1 ELSE b
    OBVIOUS
  <1>7. x < r + K /\ DOMAIN rbuffer = SN
    BY <1>0, <1>1, <1>2 DEF StateInv, ReceiverTypes
  <1>8. /\ r + k <= r + K /\ r + k <= c
        /\ \A y \in Nat : r <= y /\ y < r + k => buffer[Wrap(y)] = Carried(Given, y)
        /\ BufferAt(Given, r + k, c, Emptied(buffer, Numbers(Wrap(r), k)))
        /\ \A i \in Nat : Has(i, r, rbuffer) => Has(i, r + k, Emptied(buffer, Numbers(Wrap(r), k)))
        /\ Has(x, r + k, Emptied(buffer, Numbers(Wrap(r), k)))
        /\ x = r => k > 0
    <2>1. LET l == RunLength(Wrap(r), Filled(buffer))
          IN  SlidTo(Given, r, b, rbuffer, x, buffer, l, Emptied(buffer, Numbers(Wrap(r), l)),
                     IF b <= x THEN x + 1 ELSE b)
      <3>1. r <= b /\ BufferAt(Given, r, b, rbuffer) /\ DOMAIN rbuffer = SN
        BY <1>2, <1>7
      <3>2. r <= x /\ x < r + K /\ buffer = [rbuffer EXCEPT ![Wrap(x)] = Carried(Given, x)]
        BY <1>4, <1>7
      <3>3. r \in Nat /\ b \in Nat /\ x \in Nat
        OBVIOUS
      <3>4. QED BY ONLY <3>1, <3>2, <3>3, WindowSlides
    <2>2. QED BY <1>5, <1>6, <2>1 DEF SlidTo
  <1>9. PICK f :
          /\ f[0] = [current |-> current, received |-> received, segments |-> <<>>,
                     malfunction |-> FALSE]
          /\ \A j \in 1 .. k : f[j] = Reconstruct(f[j - 1], buffer[Wrap(Wrap(r) + j - 1)])
          /\ rbuffer' = Emptied(buffer, Numbers(Wrap(r), k))
          /\ rfrom' = Wrap(Wrap(r) + k)
          /\ current' = f[k].current
          /\ received' = f[k].received
          /\ released' = released \o f[k].segments
          /\ rstate' = IF f[k].malfunction THEN "Closing" ELSE state
    <2>1. SlideReceiveSlidingWindow(buffer, state)
      BY <1>4
    <2>2. k = RunLength(rfrom, Filled(buffer)) /\ rfrom = Wrap(r)
      BY <1>2, <1>5
    <2>3. PICK f : SlidesBy(RunLength(rfrom, Filled(buffer)), f, buffer, state)
      BY ONLY <2>1, Sliding
    <2> HIDE DEF Reconstruct
    <2>4. QED BY <2>2, <2>3 DEF SlidesBy
  <1>10. \A j \in 1 .. k : f[j] = Reconstruct(f[j - 1], Carried(Given, r + (j - 1)))
    <2> SUFFICES ASSUME NEW j \in 1 .. k
                 PROVE  f[j] = Reconstruct(f[j - 1], Carried(Given, r + (j - 1)))
      OBVIOUS
    <2>1. j - 1 \in Nat /\ r + (j - 1) \in Nat /\ r <= r + (j - 1) /\ r + (j - 1) < r + k
      OBVIOUS
    <2>2. Wrap(r) \in Nat
      BY <1>0, Quotient DEF SN
    <2>3. Wrap(r) + j - 1 = Wrap(r) + (j - 1)
      BY <2>1, <2>2
    <2>4. Wrap(Wrap(r) + (j - 1)) = Wrap(r + (j - 1))
      BY <2>1, WrapSum
    <2>5. buffer[Wrap(r + (j - 1))] = Carried(Given, r + (j - 1))
      BY <1>8, <2>1
    <2>6. QED BY <1>9, <2>3, <2>4, <2>5
  <1>11. c <= Count /\ r + k <= Count /\ Count <= 1 + Len(Given) /\ (r = 0 => k <= 1)
    <2>1. c <= Count
      BY <1>1, <1>2, <1>6
    <2>2. Count <= 1 + Len(Given)
      BY <1>1 DEF Count
    <2>3. r + k <= Count
      BY <1>1, <1>8, <2>1
    <2>4. QED BY <1>1, <1>2, <2>1, <2>2, <2>3
  <1>12. /\ f[k] \in Assemblies /\ ~f[k].malfunction
         /\ ReleasedAt(Given, r + k, released \o f[k].segments, f[k].current,
                       delivered \o f[k].received)
    <2>1. r + k <= 1 + Len(Given)
      BY <1>1, <1>11
    <2> HIDE DEF Reconstruct
    <2>2. QED BY <1>1, <1>3, <1>9, <1>10, <1>11, <2>1, RunReleases
  <1>13. rstate' = state
    BY <1>9, <1>12
  <1>14. ReleasedAt(Given, r + k, released', current', delivered' \o received')
    BY <1>9, <1>12
  <1>15. ReleasedInv'
    <2>1. current' \in Seq(Segments) /\ received' \in Seq(Seq(Segments))
      <3> HIDE DEF Segments
      <3>1. QED BY <1>9, <1>12 DEF Assemblies
    <2>2. IsWhole(delivered' \o received', message)
      <3>1. Assembled(Given, Len(released'), current', delivered' \o received')
            /\ Len(released') \in Nat /\ Len(released') <= Len(Given)
        BY <1>14, LenProperties DEF ReleasedAt
      <3>2. message \in Nat /\ OfMessages(Given, message)
        BY ChannelAssumption DEF MessageInv, StateInv, AppTypes
      <3>3. InOrder(Given)
        BY <1>1
      <3>4. QED BY ONLY <3>1, <3>2, <3>3, OnlyWholeMessages
    <2>3. delivered' \in Seq(Seq(Segments))
      BY <1>3
    <2>4. QED BY <1>1, <1>14, <2>1, <2>2, <2>3 DEF ReleasedInv, ReleasedAt
  <1>16. r + k > 0
    <2> SUFFICES ASSUME r = 0 PROVE k > 0
      OBVIOUS
    <2>1. Count <= 1
      BY <1>1, <1>2
    <2>2. x = r
      BY <1>1, <2>1
    <2>3. QED BY <1>8, <2>2
  <1>17. ReceiverAt(r + k, c, u)'
    <2>1. rfrom' = Wrap(r + k)
      BY <1>9, WrapSum
    <2>2. r + k <= c /\ c <= Count' /\ Count' <= (r + k) + K
      <3>1. Count \in Nat /\ K \in Nat /\ r \in Nat /\ k \in Nat /\ Count <= r + K
        BY <1>0, <1>1, <1>2
      <3>2. Count <= (r + k) + K
        BY ONLY <3>1
      <3>3. r + k <= c /\ c <= Count /\ Count' = Count
        BY <1>1, <1>8, <1>11
      <3>4. QED BY ONLY <3>2, <3>3
    <2>3. Len(released') = (IF r + k = 0 THEN 0 ELSE r + k - 1)
      BY <1>14 DEF ReleasedAt
    <2>4. BufferAt(Given', r + k, c, rbuffer')
      BY <1>1, <1>8, <1>9
    <2>5. Match(Given', toR', u) /\ Near(u) /\ Below(u, Count')
      BY <1>1
    <2>6. Above(c, u)
      BY <1>6
    <2>7. QED BY <1>13, <1>16, <2>1, <2>2, <2>3, <2>4, <2>5, <2>6 DEF ReceiverAt
  <1>18. /\ r <= r + k /\ r + k \in Nat
         /\ \A i \in Nat : Has(i, r, rbuffer) => Has(i, r + k, rbuffer')
         /\ Has(x, r + k, rbuffer')
    BY <1>8, <1>9
  <1>19. Len(released) <= Len(released')
    <2>1. Len(released') = (IF r + k = 0 THEN 0 ELSE r + k - 1)
      BY <1>14 DEF ReleasedAt
    <2>2. QED BY <1>2, <2>1
  <1>20. QED BY <1>13, <1>15, <1>16, <1>17, <1>18, <1>19

\* The head of the queue and what is left of it.
LEMMA TakeHead ==
    ASSUME StateInv, toR # <<>>, toR' = Tail(toR),
           NEW r, NEW b, NEW q \in Seq(Nat), ReceiverAt(r, b, q), Given' = Given, Count' = Count
    PROVE  /\ Tail(q) \in Seq(Nat) /\ q # <<>> /\ q[1] \in Nat
           /\ Fits(Given, Head(toR), q[1]) /\ Head(toR) \in Packets
           /\ q[1] < Count /\ b <= q[1] + K
           /\ Match(Given, toR', Tail(q)) /\ Near(Tail(q)) /\ Above(b, Tail(q))
           /\ Above(q[1] + 1, Tail(q)) /\ Below(Tail(q), Count)
           /\ UNCHANGED <<rfrom, released, rbuffer>>
              /\ (rstate' \in {"Closed", "Enabled"} => rstate \in {"Closed", "Enabled"}) =>
                ReceiverAt(r, b, Tail(q))'
  <1>1. /\ Match(Given, toR, q) /\ Near(q) /\ Above(b, q) /\ Below(q, Count)
    BY DEF ReceiverAt
  <1>2. toR \in Seq(Packets) /\ Head(toR) \in Packets
    BY Queues DEF StateInv, LinkTypes
  <1>3. q # <<>> /\ Fits(Given, Head(toR), q[1]) /\ Match(Given, toR', Tail(q))
    <2> HIDE DEF Packets
    <2>1. QED BY <1>1, <1>2, MatchHead
  <1>4. /\ q[1] \in Nat /\ Tail(q) \in Seq(Nat)
        /\ Near(Tail(q)) /\ \A l \in 1 .. Len(Tail(q)) : q[1] < Tail(q)[l] + K
        /\ Above(b, Tail(q)) /\ b <= q[1] + K
        /\ Below(Tail(q), Count) /\ q[1] < Count
    BY <1>1, <1>3, QueueHead
  <1>5. Above(q[1] + 1, Tail(q))
    <2> SUFFICES ASSUME NEW l \in 1 .. Len(Tail(q)) PROVE q[1] + 1 <= Tail(q)[l] + K
      BY DEF Above
    <2>1. Tail(q)[l] \in Nat
      BY <1>4, ElementOfSeq
    <2>2. q[1] \in Nat /\ q[1] < Tail(q)[l] + K /\ K \in Nat
      BY <1>4, WindowAssumption
    <2>3. QED BY ONLY <2>1, <2>2
  <1>6. ASSUME UNCHANGED <<rfrom, released, rbuffer>>,
               rstate' \in {"Closed", "Enabled"} => rstate \in {"Closed", "Enabled"}
        PROVE  ReceiverAt(r, b, Tail(q))'
    BY <1>3, <1>4, <1>6 DEF ReceiverAt
  <1>7. QED BY <1>2, <1>3, <1>4, <1>5, <1>6

\* The head of the queue is thrown away.
LEMMA DropKeepsPositions ==
    ASSUME StateInv, GivenInv, PositionsInv, toR # <<>>, toR' = Tail(toR),
           Head(toR).type = "Close" \/ UNCHANGED toT,
           UNCHANGED <<tVars, rpc, rfrom, released, rbuffer>>,
           rstate' \in {"Closed", "Enabled"} => rstate \in {"Closed", "Enabled"}
    PROVE  PositionsInv'
  <1>1. /\ UNCHANGED <<message, segment, opens, tstate, tpc, from, slots, sent, acked, ackInHand,
                       openAcked>>
    BY DEF tVars, appVars, windowVars, ackVars
  <1>2. Given' = Given /\ Count' = Count
    BY <1>1, SameGiven
  <1> SUFFICES ASSUME rpc' # "stopped"
               PROVE  (\E r, b \in Nat, q \in Seq(Nat) :
                         /\ ReceiverAt(r, b, q)
                         /\ Live => \E a, h \in Nat, t \in Seq(Nat) :
                                       SenderAt(a, h, r) /\ AnswersAt(a, h, r, q, t))'
    BY DEF PositionsInv
  <1>3. PICK r \in Nat, b \in Nat, q \in Seq(Nat) :
            /\ ReceiverAt(r, b, q)
            /\ Live => \E a, h \in Nat, t \in Seq(Nat) :
                          SenderAt(a, h, r) /\ AnswersAt(a, h, r, q, t)
    BY DEF PositionsInv
  <1>4. PICK u \in Seq(Nat) : u = Tail(q) /\ ReceiverAt(r, b, u)' /\ q # <<>>
    BY <1>2, <1>3, TakeHead
  <1>5. ASSUME Live'
        PROVE  \E a, h \in Nat, t \in Seq(Nat) : SenderAt(a, h, r)' /\ AnswersAt(a, h, r, u, t)'
    <2>1. PICK a \in Nat, h \in Nat, t \in Seq(Nat) : SenderAt(a, h, r) /\ AnswersAt(a, h, r, q, t)
      BY <1>1, <1>3, <1>5 DEF Live
    <2>2. Above(h, q) /\ Across(t, q) /\ \A l \in 1 .. Len(toR) : toR[l].type # "Close"
      BY <2>1 DEF AnswersAt
    <2>3. Above(h, u) /\ Across(t, u)
      BY <1>4, <2>2, QueueHead
    <2>4. toR \in Seq(Packets)
      BY DEF StateInv, LinkTypes
    <2>5. /\ 1 \in 1 .. Len(toR) /\ Head(toR) = toR[1]
          /\ Len(toR') = Len(toR) - 1 /\ \A l \in 1 .. Len(toR') : toR'[l] = toR[l + 1]
      <3> HIDE DEF Packets
      <3>1. Len(toR) \in Nat \ {0}
        BY <2>4, EmptySeq
      <3>2. QED BY <2>4, <3>1, HeadTailProperties
    <2>6. \A l \in 1 .. Len(toR') : toR'[l].type # "Close"
      BY <2>2, <2>4, <2>5
    <2>7. UNCHANGED toT
      BY <2>2, <2>5
    <2>8. UNCHANGED <<SenderParts, rbuffer>>
      BY <1>1, <2>7 DEF SenderParts
    <2>9. SenderAt(a, h, r)' /\ AnswersAt(a, h, r, u, t)'
      BY <1>1, <1>2, <2>1, <2>3, <2>6, <2>8, SenderSame
    <2>10. QED BY <2>9
  <1>6. QED BY <1>4, <1>5

\* Packet x, the head of the queue, is acknowledged.
LEMMA AnswerGoesOut ==
    ASSUME StateInv, GivenInv, toR # <<>>, toR' = Tail(toR), UNCHANGED tVars,
           NEW ack \in Acks, SendToT(ack),
           NEW r \in Nat, NEW b \in Nat, NEW q \in Seq(Nat), NEW s \in Nat,
           NEW a \in Nat, NEW h \in Nat, NEW t \in Seq(Nat),
           ReceiverAt(r, b, q), SenderAt(a, h, r), AnswersAt(a, h, r, q, t),
           ack.sn = Wrap(q[1]),
           q[1] # 0 \/ (t = <<>> /\ a = 0 /\ ~acked[0]),
           r <= s, r > 0 => s > 0, Has(q[1], s, rbuffer'),
           \A i \in Nat : Has(i, r, rbuffer) => Has(i, s, rbuffer')
    PROVE  \E v \in Seq(Nat) : SenderAt(a, h, s)' /\ AnswersAt(a, h, s, Tail(q), v)'
  <1>0. K \in Nat
    BY WindowAssumption
  <1>1. /\ UNCHANGED <<message, segment, opens, tstate, tpc, from, slots, sent, acked, ackInHand,
                       openAcked>>
    BY DEF tVars, appVars, windowVars, ackVars
  <1>2. Given' = Given /\ Count' = Count /\ Count \in Nat
    BY <1>1, SameGiven, CountIn
  <1>3. /\ from = Wrap(a)
        /\ a <= r /\ a <= h /\ h <= Count /\ Count <= a + K
        /\ SlotsAt(Given, Count, slots)
        /\ SentAt(a, Count, sent)
        /\ AckedAt(a, h, r, acked, rbuffer)
        /\ ackInHand # NoAck \/ openAcked \/ tstate = "Open" => r > 0
        /\ tpc = "segmentSent" => a < Count /\ ~acked[Wrap(Count - 1)]
    BY DEF SenderAt
  <1>4. SenderAt(a, h, s)'
    <2>1. AckedAt(a, h, s, acked, rbuffer')
      BY <1>3, AckedKept
    <2>2. a <= s
      BY <1>3
    <2>3. QED BY <1>1, <1>2, <1>3, <2>1, <2>2 DEF SenderAt
  <1>5. /\ Number(toT, t) /\ Near(t) /\ Above(h, t) /\ Below(t, Count)
        /\ \A l \in 1 .. Len(t) : Has(t[l], r, rbuffer)
        /\ OpenAckFirst(t, a, acked)
        /\ Above(h, q) /\ Across(t, q)
        /\ \A l \in 1 .. Len(toR) : toR[l].type # "Close"
    BY DEF AnswersAt
  <1>6. PICK x \in Nat : x = q[1] /\ x < Count /\ q # <<>>
    BY <1>2, TakeHead
  <1>7. PICK u \in Seq(Nat) : /\ u = Tail(q) /\ Above(h, u) /\ Across(t, u)
                              /\ \A l \in 1 .. Len(u) : x < u[l] + K
    <2>1. Near(q)
      BY DEF ReceiverAt
    <2>2. QED BY <1>5, <1>6, <2>1, QueueHead
  <1>8. Below(t, x + K) /\ h <= x + K
    <2>1. (\A j \in 1 .. Len(t) : t[j] < x + K) /\ h <= x + K
      BY <1>5, <1>6, QueueHead
    <2>2. QED BY <2>1 DEF Below
  <1>9. toR \in Seq(Packets) /\ toT \in Seq(Acks)
    BY DEF StateInv, LinkTypes
  <1>10. \A l \in 1 .. Len(toR') : toR'[l].type # "Close"
    <2> HIDE DEF Packets
    <2>1. Len(toR) \in Nat \ {0}
      BY <1>9, EmptySeq
    <2>2. Len(toR') = Len(toR) - 1 /\ \A l \in 1 .. Len(toR') : toR'[l] = toR[l + 1]
      BY <1>9, HeadTailProperties
    <2>3. QED BY <1>5, <2>1, <2>2
  <1>11. \A l \in 1 .. Len(t) : t[l] \in Nat /\ Has(t[l], s, rbuffer')
    BY <1>5, ElementOfSeq
  <1>12. CASE UNCHANGED toT
    <2>1. AnswersAt(a, h, s, u, t)'
      BY <1>1, <1>2, <1>5, <1>7, <1>10, <1>11, <1>12 DEF AnswersAt
    <2>2. QED BY <1>4, <1>7, <2>1
  <1>13. CASE toT' = Append(toT, ack)
    <2>1. PICK v \in Seq(Nat) : v = Append(t, x)
      BY QueueEnd
    <2>2. /\ Len(v) = Len(t) + 1 /\ (\A l \in 1 .. Len(t) : v[l] = t[l]) /\ v[Len(t) + 1] = x
          /\ Near(v) /\ Above(h, v) /\ Below(v, Count) /\ Across(v, u)
      <3>1. /\ Len(v) = Len(t) + 1 /\ (\A l \in 1 .. Len(t) : v[l] = t[l]) /\ v[Len(t) + 1] = x
            /\ Near(t) /\ Below(t, x + K) => Near(v)
            /\ Above(h, t) /\ h <= x + K => Above(h, v)
            /\ Below(t, Count) /\ x < Count => Below(v, Count)
            /\ Across(t, u) /\ (\A l \in 1 .. Len(u) : x < u[l] + K) => Across(v, u)
        BY ONLY <2>1, QueueEnd
      <3>2. QED BY <1>5, <1>6, <1>7, <1>8, <3>1
    <2>3. Number(toT', v)
      <3> HIDE DEF Acks
      <3>1. QED BY <1>5, <1>6, <1>9, <1>13, <2>1, NumberEnd
    <2>4. Len(t) \in Nat /\ \A l \in 1 .. Len(v) : (l \in 1 .. Len(t) /\ v[l] = t[l]) \/ (l = Len(t) + 1 /\ v[l] = x)
      <3>1. Len(t) \in Nat
        BY LenProperties
      <3>2. ASSUME NEW l \in 1 .. Len(v) PROVE l \in 1 .. Len(t) \/ l = Len(t) + 1
        BY <2>2, <3>1
      <3>3. QED BY <2>2, <3>1, <3>2
    <2>5. \A l \in 1 .. Len(v) : Has(v[l], s, rbuffer')
      BY <1>6, <1>11, <2>4
    <2>6. OpenAckFirst(v, a, acked)
      <3> SUFFICES ASSUME NEW l \in 1 .. Len(v), v[l] = 0 PROVE l = 1 /\ a = 0 /\ ~acked[0]
        BY DEF OpenAckFirst
      <3>1. CASE l \in 1 .. Len(t) /\ v[l] = t[l]
        BY <1>5, <3>1 DEF OpenAckFirst
      <3>2. CASE l = Len(t) + 1 /\ v[l] = x
        <4>1. t = <<>> /\ a = 0 /\ ~acked[0]
          BY <1>6, <3>2
        <4>2. Len(t) = 0
          BY <4>1
        <4>3. QED BY <3>2, <4>1, <4>2
      <3>3. QED BY <2>4, <3>1, <3>2
    <2>7. AnswersAt(a, h, s, u, v)'
      BY <1>1, <1>2, <1>5, <1>7, <1>10, <2>2, <2>3, <2>5, <2>6 DEF AnswersAt
    <2>8. QED BY <1>4, <1>7, <2>7
  <1>14. QED BY <1>12, <1>13 DEF SendToT

\* A data packet comes: it is inside one of the windows, and answered with what the
\* receiver then has.
LEMMA ReceiveDataKeepsPositions ==
    ASSUME PlainChannel, StateInv, GivenInv, MessageInv, ReleasedInv, PositionsInv, ReceiveData
    PROVE  PositionsInv' /\ ReleasedInv' /\ rstate' = rstate /\ Len(released) <= Len(released')
  <1>0. K \in Nat /\ M \in Nat /\ 2 <= K /\ K < M
    BY WindowAssumption
  <1>1. /\ rpc = "consume" /\ rpc' = rpc /\ rstate # "Closed" /\ toR # <<>> /\ toR' = Tail(toR)
        /\ Head(toR).type = "Data" /\ UNCHANGED <<tVars, delivered>>
    BY DEF ReceiveData, Consume
  <1>2. /\ UNCHANGED <<message, segment, opens, tstate, tpc, from, slots, sent, acked, ackInHand,
                       openAcked>>
    BY <1>1 DEF tVars, appVars, windowVars, ackVars
  <1>3. Given' = Given /\ Count' = Count /\ Count \in Nat
    BY <1>2, SameGiven, CountIn
  <1>4. PICK r \in Nat, b \in Nat, q \in Seq(Nat) :
            /\ ReceiverAt(r, b, q)
            /\ Live => \E a, h \in Nat, t \in Seq(Nat) :
                          SenderAt(a, h, r) /\ AnswersAt(a, h, r, q, t)
    BY <1>1 DEF PositionsInv
  <1>5. PICK x \in Nat, u \in Seq(Nat) : x = q[1] /\ u = Tail(q)
    BY <1>1, <1>3, <1>4, TakeHead
  <1>6. /\ Fits(Given, Head(toR), x) /\ Head(toR) \in Packets
        /\ x < Count /\ b <= x + K
        /\ Match(Given, toR', u) /\ Near(u) /\ Above(b, u) /\ Above(x + 1, u) /\ Below(u, Count)
        /\ (UNCHANGED <<rfrom, released, rbuffer>> /\ UNCHANGED rstate => ReceiverAt(r, b, u)')
    BY <1>1, <1>3, <1>4, <1>5, TakeHead
  <1> DEFINE p == Head(toR)
  <1>7. p = Carried(Given, x) /\ p.sn = Wrap(x) /\ x # 0 /\ Wrap(x) \in SN
    <2>1. p = Carried(Given, x)
      BY <1>1, <1>6 DEF Fits, Packet
    <2>2. x # 0
      BY <1>1, <2>1 DEF Carried, Packet
    <2>3. QED BY <2>1, <2>2, CarriedIs
  <1>8. /\ rfrom = Wrap(r) /\ r <= b /\ b <= Count /\ Count <= r + K
        /\ rstate \in {"Closed", "Enabled"} => r = 0
        /\ Count > 1 => r > 0
    BY <1>4 DEF ReceiverAt
  <1>9. x < r + K /\ r <= x + K /\ r > 0 /\ rstate \notin {"Closed", "Enabled"}
    BY <1>0, <1>3, <1>6, <1>7, <1>8
  <1>10. /\ InsideForwardReceiveSlidingWindow(rfrom, p.sn) <=> r <= x
         /\ ~(r <= x) => InsideBackwardReceiveSlidingWindow(rfrom, p.sn)
    BY <1>7, <1>8, <1>9, ReceiveWindows
  <1>11. rfrom \in SN /\ AckFor(p) \in Acks /\ AckFor(p).sn = Wrap(x)
    <2>1. rfrom \in SN
      BY DEF StateInv, ReceiverTypes
    <2>2. AckFor(p) \in Acks
      BY <1>6, <2>1, SomeAcks
    <2>3. AckFor(p).sn = p.sn
      BY DEF AckFor
    <2>4. QED BY <1>7, <2>1, <2>2, <2>3
  <1>12. SendToT(AckFor(p))
    BY <1>10 DEF ReceiveData
  <1> HIDE DEF p
  <1>13. ASSUME NEW s \in Nat, NEW c \in Nat, ReceiverAt(s, c, u)', r <= s, s > 0,
                \A i \in Nat : Has(i, r, rbuffer) => Has(i, s, rbuffer'), Has(x, s, rbuffer')
         PROVE  PositionsInv'
    <2>1. ASSUME Live'
          PROVE  \E a, h \in Nat, t \in Seq(Nat) : SenderAt(a, h, s)' /\ AnswersAt(a, h, s, u, t)'
      <3>1. PICK a \in Nat, h \in Nat, t \in Seq(Nat) : SenderAt(a, h, r) /\ AnswersAt(a, h, r, q, t)
        BY <1>2, <1>4, <2>1 DEF Live
      <3>2. \E v \in Seq(Nat) : SenderAt(a, h, s)' /\ AnswersAt(a, h, s, Tail(q), v)'
        <4>1. AckFor(p).sn = Wrap(q[1]) /\ q[1] # 0 /\ Has(q[1], s, rbuffer')
          BY <1>5, <1>7, <1>11, <1>13
        <4>2. PICK ack \in Acks : ack = AckFor(p)
          BY <1>11
        <4>3. SendToT(ack) /\ ack.sn = Wrap(q[1])
          BY <1>12, <4>1, <4>2
        <4> HIDE DEF Acks
        <4>4. QED BY <1>1, <1>4, <1>13, <3>1, <4>1, <4>3, AnswerGoesOut
      <3>3. QED BY <1>5, <3>2
    <2>2. QED BY <1>13, <2>1 DEF PositionsInv
  <1>14. CASE UNCHANGED <<rstate, rbuffer, rfrom, dataVars>> /\ Has(x, r, rbuffer)
    <2>1. UNCHANGED <<rfrom, released, rbuffer, rstate, current, received, delivered>>
      BY <1>1, <1>14 DEF dataVars
    <2>2. ReceiverAt(r, b, u)'
      BY <1>6, <2>1
    <2>3. PositionsInv'
      BY <1>9, <1>13, <1>14, <2>1, <2>2
    <2>4. ReleasedInv'
      BY <1>1, <1>2, <1>3, <2>1 DEF ReleasedInv
    <2>5. Len(released) <= Len(released')
      BY <2>1, LenProperties DEF ReleasedInv
    <2>6. QED BY <2>1, <2>3, <2>4, <2>5
  <1>15. CASE /\ r <= x
              /\ SlideReceiveSlidingWindow([rbuffer EXCEPT ![p.sn] = p], rstate)
    <2>1. PICK state : state = rstate
      OBVIOUS
    <2>2. SlideReceiveSlidingWindow([rbuffer EXCEPT ![Wrap(x)] = Carried(Given, x)], state)
      BY <1>7, <1>15, <2>1
    <2>3. state \notin {"Closed", "Enabled"}
      BY <1>9, <2>1
    <2>4. rpc # "stopped" /\ UNCHANGED <<delivered, message, segment, opens>>
      BY <1>1, <1>2
    <2>5. Match(Given, toR', u) /\ Near(u) /\ Above(b, u) /\ Above(x + 1, u) /\ Below(u, Count) /\ x < Count
      BY <1>6
    <2>6. /\ \E s, c \in Nat :
                 /\ ReceiverAt(s, c, u)' /\ r <= s /\ s > 0
                 /\ \A i \in Nat : Has(i, r, rbuffer) => Has(i, s, rbuffer')
                 /\ Has(x, s, rbuffer')
           /\ ReleasedInv' /\ rstate' = state /\ Len(released) <= Len(released')
      BY <1>4, <1>15, <2>2, <2>3, <2>4, <2>5, ReceiverSlides
    <2>7. QED BY <1>13, <2>1, <2>6
  <1>16. \/ UNCHANGED <<rstate, rbuffer, rfrom, dataVars>> /\ Has(x, r, rbuffer)
         \/ r <= x /\ SlideReceiveSlidingWindow([rbuffer EXCEPT ![p.sn] = p], rstate)
    <2>1. CASE r <= x
      <3>1. \/ SlideReceiveSlidingWindow([rbuffer EXCEPT ![p.sn] = p], rstate)
            \/ rbuffer[p.sn] # NoPacket /\ UNCHANGED <<rstate, rbuffer, rfrom, dataVars>>
        BY <1>10, <2>1 DEF ReceiveData, p
      <3>2. rbuffer[p.sn] # NoPacket => Has(x, r, rbuffer)
        BY <1>7, <1>9 DEF Has
      <3>3. QED BY <2>1, <3>1, <3>2
    <2>2. CASE ~(r <= x)
      <3>1. UNCHANGED <<rstate, rbuffer, rfrom, dataVars>>
        BY <1>10, <2>2 DEF ReceiveData, p
      <3>2. Has(x, r, rbuffer)
        BY <2>2 DEF Has
      <3>3. QED BY <3>1, <3>2
    <2>3. QED BY <2>1, <2>2
  <1>17. QED BY <1>14, <1>15, <1>16

\* Nothing has been answered while the receiver waits for the Open command.
LEMMA NothingAnswered ==
    ASSUME StateInv, GivenInv, NEW b \in Nat, NEW q \in Seq(Nat), ReceiverAt(0, b, q), b <= 1,
           Count <= 1, NEW a \in Nat, NEW h \in Nat, NEW t \in Seq(Nat),
           SenderAt(a, h, 0), AnswersAt(a, h, 0, q, t)
    PROVE  t = <<>> /\ a = 0 /\ ~acked[0]
  <1>0. Wrap(0) = 0 /\ 0 \in SN
    BY WrapLow, WindowAssumption DEF SN
  <1>1. ~Has(0, 0, rbuffer)
    <2> SUFFICES ASSUME rbuffer[0] # NoPacket PROVE FALSE
      BY <1>0 DEF Has
    <2>1. BufferAt(Given, 0, b, rbuffer)
      BY DEF ReceiverAt
    <2>2. PICK i \in Nat : 0 < i /\ i < b
      BY <1>0, <2>1 DEF BufferAt
    <2>3. QED BY <2>2
  <1>2. Count \in Nat
    BY CountIn
  <1>3. a = 0 /\ h <= Count /\ AckedAt(a, h, 0, acked, rbuffer)
    BY DEF SenderAt
  <1>4. ~acked[0]
    <2> SUFFICES ASSUME acked[0] PROVE FALSE
      OBVIOUS
    <2>1. PICK i \in Nat : i < h /\ Has(i, 0, rbuffer)
      BY <1>0, <1>3 DEF AckedAt
    <2>2. i = 0
      BY <1>2, <1>3, <2>1
    <2>3. QED BY <1>1, <2>1, <2>2
  <1>5. t = <<>>
    <2> SUFFICES ASSUME t # <<>> PROVE FALSE
      OBVIOUS
    <2>1. 1 \in 1 .. Len(t) /\ t[1] \in Nat
      BY QueueHead
    <2>2. t[1] < Count /\ Has(t[1], 0, rbuffer)
      BY <2>1 DEF AnswersAt, Below
    <2>3. t[1] = 0
      BY <1>2, <2>1, <2>2
    <2>4. QED BY <1>1, <2>2, <2>3
  <1>6. QED BY <1>3, <1>4, <1>5

\* The Open command is taken.
LEMMA OpenCommandTaken ==
    ASSUME PlainChannel, StateInv, GivenInv, MessageInv, ReleasedInv, PositionsInv,
           ReceiveOpenCommand, rstate = "Enabled", SendToT(AckFor(Head(toR))),
           SlideReceiveSlidingWindow([rbuffer EXCEPT ![Head(toR).sn] = Head(toR)], "Open")
    PROVE  PositionsInv' /\ ReleasedInv' /\ Len(released) <= Len(released')
  <1>0. K \in Nat /\ Wrap(0) = 0 /\ 0 \in SN
    BY WrapLow, WindowAssumption DEF SN
  <1>1. /\ rpc = "consume" /\ rpc' = rpc /\ toR # <<>> /\ toR' = Tail(toR)
        /\ Head(toR).type = "Open" /\ UNCHANGED <<tVars, delivered>>
    BY DEF ReceiveOpenCommand, Consume
  <1>2. /\ UNCHANGED <<message, segment, opens, tstate, tpc, from, slots, sent, acked, ackInHand,
                       openAcked>>
    BY <1>1 DEF tVars, appVars, windowVars, ackVars
  <1>3. Given' = Given /\ Count' = Count /\ Count \in Nat
    BY <1>2, SameGiven, CountIn
  <1>4. PICK r \in Nat, b \in Nat, q \in Seq(Nat) :
            /\ ReceiverAt(r, b, q)
            /\ Live => \E a, h \in Nat, t \in Seq(Nat) :
                          SenderAt(a, h, r) /\ AnswersAt(a, h, r, q, t)
    BY <1>1 DEF PositionsInv
  <1>5. PICK x \in Nat, u \in Seq(Nat) : x = q[1] /\ u = Tail(q)
    BY <1>1, <1>3, <1>4, TakeHead
  <1>6. /\ Fits(Given, Head(toR), x) /\ Head(toR) \in Packets
        /\ x < Count /\ b <= x + K
        /\ Match(Given, toR', u) /\ Near(u) /\ Above(b, u) /\ Above(x + 1, u) /\ Below(u, Count)
    BY <1>1, <1>3, <1>4, <1>5, TakeHead
  <1>7. r = 0 /\ b <= Count /\ (Count > 1 => r > 0)
    BY <1>4 DEF ReceiverAt
  <1>8. x = 0 /\ Count = 1 /\ b <= 1
    BY <1>3, <1>6, <1>7
  <1>9. Head(toR) = Packet("Open", 0) /\ Head(toR).sn = 0
    BY <1>1, <1>6 DEF Fits, Packet
  <1>10. Head(toR) = Carried(Given, 0)
    BY <1>9 DEF Carried
  <1>11. PICK ack \in Acks : ack = AckFor(Head(toR)) /\ ack.sn = Wrap(0)
    <2>1. rfrom \in SN
      BY DEF StateInv, ReceiverTypes
    <2>2. AckFor(Head(toR)) \in Acks
      BY <1>6, <2>1, SomeAcks
    <2>3. AckFor(Head(toR)).sn = Head(toR).sn
      BY DEF AckFor
    <2>4. QED BY <1>0, <1>9, <2>2, <2>3
  <1>12. /\ \E s, c \in Nat :
                /\ ReceiverAt(s, c, u)' /\ 0 <= s /\ s > 0
                /\ \A i \in Nat : Has(i, 0, rbuffer) => Has(i, s, rbuffer')
                /\ Has(0, s, rbuffer')
         /\ ReleasedInv' /\ rstate' = "Open" /\ Len(released) <= Len(released')
    <2>1. PICK state : state = "Open"
      OBVIOUS
    <2>2. SlideReceiveSlidingWindow([rbuffer EXCEPT ![Wrap(0)] = Carried(Given, 0)], state)
      BY <1>0, <1>9, <1>10, <2>1
    <2>3. state \notin {"Closed", "Enabled"}
      BY <2>1
    <2>4. rpc # "stopped" /\ UNCHANGED <<delivered, message, segment, opens>>
      BY <1>1, <1>2
    <2>5. Match(Given, toR', u) /\ Near(u) /\ Above(b, u) /\ Above(0 + 1, u) /\ Below(u, Count)
          /\ 0 < Count /\ 0 <= 0 /\ 0 \in Nat
      BY <1>6, <1>8
    <2>6. ReceiverAt(0, b, q)
      BY <1>4, <1>7
    <2>7. /\ \E s, c \in Nat :
                 /\ ReceiverAt(s, c, u)' /\ 0 <= s /\ s > 0
                 /\ \A i \in Nat : Has(i, 0, rbuffer) => Has(i, s, rbuffer')
                 /\ Has(0, s, rbuffer')
          /\ ReleasedInv' /\ rstate' = state /\ Len(released) <= Len(released')
      BY <2>2, <2>3, <2>4, <2>5, <2>6, ReceiverSlides
    <2>8. QED BY <2>1, <2>7
  <1>13. PICK s \in Nat, c \in Nat :
                /\ ReceiverAt(s, c, u)' /\ s > 0
                /\ \A i \in Nat : Has(i, 0, rbuffer) => Has(i, s, rbuffer')
                /\ Has(0, s, rbuffer')
    BY <1>12
  <1>14. ASSUME Live'
         PROVE  \E a, h \in Nat, t \in Seq(Nat) : SenderAt(a, h, s)' /\ AnswersAt(a, h, s, u, t)'
    <2>1. PICK a \in Nat, h \in Nat, t \in Seq(Nat) : SenderAt(a, h, 0) /\ AnswersAt(a, h, 0, q, t)
      BY <1>2, <1>4, <1>7, <1>14 DEF Live
    <2>2. ReceiverAt(0, b, q)
      BY <1>4, <1>7
    <2>3. t = <<>> /\ a = 0 /\ ~acked[0]
      BY <1>8, <2>1, <2>2, NothingAnswered
    <2>4. /\ SendToT(ack) /\ ack.sn = Wrap(q[1]) /\ Has(q[1], s, rbuffer')
          /\ r <= s /\ (r > 0 => s > 0)
          /\ \A i \in Nat : Has(i, r, rbuffer) => Has(i, s, rbuffer')
      BY <1>5, <1>7, <1>8, <1>11, <1>13
    <2>5. ReceiverAt(r, b, q) /\ SenderAt(a, h, r) /\ AnswersAt(a, h, r, q, t)
      BY <1>4, <1>7, <2>1
    <2> HIDE DEF Acks
    <2>6. \E v \in Seq(Nat) : SenderAt(a, h, s)' /\ AnswersAt(a, h, s, Tail(q), v)'
      BY <1>1, <2>3, <2>4, <2>5, AnswerGoesOut
    <2>7. QED BY <1>5, <2>6
  <1>15. PositionsInv'
    BY <1>13, <1>14 DEF PositionsInv
  <1>16. QED BY <1>12, <1>15

\* Steps that hand nothing over.
LEMMA QuietKeepsReleased ==
    ASSUME ReleasedInv, UNCHANGED <<current, received, delivered, released, message, segment>>,
           rpc' # "stopped" => rpc # "stopped"
    PROVE  ReleasedInv'
  <1>1. Given' = Given
    BY SameGiven
  <1>2. QED BY <1>1 DEF ReleasedInv

\* The receiver finds no heart beat.
LEMMA NoHeartBeatComes ==
    ASSUME StateInv, GivenInv, PositionsInv, ReceiveHeartBeat
    PROVE  FALSE
  <1>1. rpc # "stopped" /\ toR # <<>> /\ Head(toR).type = "HeartBeat"
    BY DEF ReceiveHeartBeat, Consume
  <1>2. PICK r \in Nat, b \in Nat, q \in Seq(Nat) : ReceiverAt(r, b, q)
    BY <1>1 DEF PositionsInv
  <1>3. toR \in Seq(Packets) /\ Match(Given, toR, q)
    BY <1>2 DEF StateInv, LinkTypes, ReceiverAt
  <1>4. Fits(Given, Head(toR), q[1])
    <2> HIDE DEF Packets
    <2>1. QED BY <1>1, <1>3, MatchHead
  <1>5. QED BY <1>1, <1>4 DEF Fits, Packet

\* An Open command comes, and is taken or refused.
LEMMA ReceiveOpenCommandKeepsPositions ==
    ASSUME PlainChannel, StateInv, GivenInv, MessageInv, ReleasedInv, PositionsInv,
           ReceiveOpenCommand
    PROVE  PositionsInv' /\ ReleasedInv' /\ Len(released) <= Len(released')
  <1>1. CASE /\ rstate = "Enabled" /\ SendToT(AckFor(Head(toR)))
             /\ SlideReceiveSlidingWindow([rbuffer EXCEPT ![Head(toR).sn] = Head(toR)], "Open")
    BY <1>1, OpenCommandTaken
  <1>2. CASE rstate' = "Closing" /\ UNCHANGED <<rbuffer, rfrom, dataVars, toT, losses>>
    <2>1. /\ rpc = "consume" /\ rpc' = rpc /\ toR # <<>> /\ toR' = Tail(toR)
          /\ UNCHANGED <<tVars, delivered>>
      BY DEF ReceiveOpenCommand, Consume
    <2>2. UNCHANGED <<current, received, released, message, segment>>
      BY <1>2, <2>1 DEF dataVars, tVars, appVars
    <2>3. PositionsInv'
      BY <1>2, <2>1, <2>2, DropKeepsPositions
    <2>4. ReleasedInv'
      BY <2>1, <2>2, QuietKeepsReleased
    <2>5. Len(released) <= Len(released')
      BY <2>2, LenProperties DEF ReleasedInv
    <2>6. QED BY <2>3, <2>4, <2>5
  <1>3. QED BY <1>1, <1>2 DEF ReceiveOpenCommand

\* A packet comes and is not looked into.
LEMMA DiscardingKeepsPositions ==
    ASSUME StateInv, GivenInv, ReleasedInv, PositionsInv,
           ReceiverDiscards \/ ReceiveCloseCommand \/ Drain
    PROVE  PositionsInv' /\ ReleasedInv'
  <1>1. CASE ReceiverDiscards \/ Drain
    <2>1. /\ toR # <<>> /\ toR' = Tail(toR) /\ UNCHANGED <<tVars, rVars>>
          /\ Head(toR).type = "Close" \/ UNCHANGED toT
      BY <1>1 DEF ReceiverDiscards, Drain
    <2>2. UNCHANGED <<rpc, rstate, rfrom, rbuffer, current, received, released, delivered, message,
                      segment>>
      BY <2>1 DEF rVars, dataVars, tVars, appVars
    <2>3. PositionsInv'
      BY <2>1, <2>2, DropKeepsPositions
    <2>4. ReleasedInv'
      BY <2>2, QuietKeepsReleased
    <2>5. QED BY <2>3, <2>4
  <1>2. CASE ReceiveCloseCommand
    <2>1. /\ toR # <<>> /\ toR' = Tail(toR) /\ UNCHANGED <<tVars, rpc, delivered>>
          /\ Head(toR).type = "Close" /\ rstate' = "Closing"
          /\ UNCHANGED <<rbuffer, rfrom, dataVars>>
      BY <1>2 DEF ReceiveCloseCommand, Consume
    <2>2. UNCHANGED <<rpc, rfrom, rbuffer, current, received, released, delivered, message,
                      segment>>
      BY <2>1 DEF dataVars, tVars, appVars
    <2>3. PositionsInv'
      BY <2>1, <2>2, DropKeepsPositions
    <2>4. ReleasedInv'
      BY <2>2, QuietKeepsReleased
    <2>5. QED BY <2>3, <2>4
  <1>3. QED BY <1>1, <1>2

\* The messages nobody fetched are deleted.
LEMMA DeletingKeepsReleased ==
    ASSUME StateInv, ReleasedInv, ReceiverClosed
    PROVE  PositionsInv' /\ ReleasedInv'
  <1>1. /\ rpc' = "stopped" /\ received' = <<>> /\ UNCHANGED <<tVars, current, released, delivered>>
    BY DEF ReceiverClosed
  <1>2. UNCHANGED <<message, segment>> /\ message \in Nat
    BY <1>1, ChannelAssumption DEF tVars, appVars, StateInv, AppTypes
  <1>3. Given' = Given
    BY <1>2, SameGiven
  <1>4. IsWhole(delivered' \o received', message')
    <2>1. /\ received \in Seq(Seq(Segments)) /\ delivered \in Seq(Seq(Segments))
          /\ IsWhole(delivered \o received, message)
      BY DEF ReleasedInv
    <2>2. PICK k \in 0 .. message : delivered \o received = Whole(k)
      BY <2>1 DEF IsWhole
    <2>3. k \in Nat /\ Len(Whole(k)) = k /\ \A l \in 1 .. k : Whole(k)[l] = SegmentsOf(l, Messages[l])
      BY <1>2, <2>2 DEF Whole
    <2>4. PICK n \in Nat : n = Len(delivered)
      BY <2>1, LenProperties
    <2> HIDE DEF Segments
    <2>5. /\ Len(received) \in Nat /\ Len(delivered \o received) = n + Len(received)
          /\ \A l \in 1 .. n : (delivered \o received)[l] = delivered[l]
      BY <2>1, <2>4, LenProperties, ConcatProperties
    <2>6. n <= k
      BY <2>2, <2>3, <2>5
    <2>7. delivered = Whole(n)
      <3>1. delivered = [l \in 1 .. n |-> delivered[l]]
        BY <2>1, <2>4
      <3>2. \A l \in 1 .. n : delivered[l] = SegmentsOf(l, Messages[l])
        BY <2>2, <2>3, <2>5, <2>6
      <3>3. QED BY <3>1, <3>2 DEF Whole
    <2>8. delivered' \o received' = delivered
      BY <1>1, <2>1
    <2>9. QED BY <1>2, <2>6, <2>7, <2>8 DEF IsWhole
  <1>5. received' \in Seq(Seq(Segments))
    BY <1>1, EmptySeq
  <1>6. ReleasedInv'
    BY <1>1, <1>3, <1>4, <1>5 DEF ReleasedInv
  <1>7. PositionsInv'
    BY <1>1 DEF PositionsInv
  <1>8. QED BY <1>6, <1>7

-----------------------------------------------------------------------------
(* What has been given and released.                                       *)

\* More messages may have been begun.
LEMMA MoreMessages ==
    ASSUME NEW out, NEW m \in Nat, NEW n \in Nat, m <= n, IsWhole(out, m)
    PROVE  IsWhole(out, n)
  BY DEF IsWhole

\* A message is begun.
LEMMA SendKeepsReleased ==
    ASSUME PlainChannel, StateInv, GivenInv, MessageInv, ReleasedInv, Send
    PROVE  MessageInv' /\ ReleasedInv'
  <1>1. message' = message + 1 /\ message \in Nat /\ UNCHANGED rVars
    BY ChannelAssumption DEF Send, StateInv, AppTypes
  <1>2. Given' = Given /\ Given \in Seq(Segments) /\ Len(Given) \in Nat
    BY SendKeepsGiven, CountIn
  <1>3. MessageInv'
    <2>1. ASSUME NEW i \in 1 .. Len(Given) PROVE Given[i][1] <= message + 1
      <3>1. Given[i] \in Segments
        <4> HIDE DEF Segments
        <4>1. QED BY <1>2, ElementOfSeq
      <3>2. Given[i][1] \in Nat
        BY <3>1, ChannelAssumption DEF Segments
      <3>3. Given[i][1] <= message
        BY DEF MessageInv, OfMessages
      <3>4. QED BY <1>1, <3>2, <3>3
    <2>2. QED BY <1>1, <1>2, <2>1 DEF MessageInv, OfMessages
  <1>4. IsWhole(delivered \o received, message + 1)
    <2>1. IsWhole(delivered \o received, message) /\ message <= message + 1 /\ message + 1 \in Nat
      BY <1>1 DEF ReleasedInv
    <2>2. QED BY <1>1, <2>1, MoreMessages
  <1>5. ReleasedInv'
    BY <1>1, <1>2, <1>4 DEF ReleasedInv, rVars, dataVars
  <1>6. QED BY <1>3, <1>5

\* A segment is given.
LEMMA SendSegmentKeepsReleased ==
    ASSUME PlainChannel, StateInv, GivenInv, MessageInv, ReleasedInv, SendSegment
    PROVE  MessageInv' /\ ReleasedInv'
  <1>1. message' = message /\ message \in Nat /\ UNCHANGED rVars
    BY ChannelAssumption DEF SendSegment, StateInv, AppTypes
  <1>2. /\ Given' = Append(Given, <<message, segment + 1>>)
        /\ <<message, segment + 1>> \in Segments
    BY SendSegmentGrows
  <1>3. Given \in Seq(Segments) /\ Len(Given) \in Nat
    BY CountIn
  <1>4. /\ Len(Given') = Len(Given) + 1 /\ (\A i \in 1 .. Len(Given) : Given'[i] = Given[i])
        /\ Given'[Len(Given) + 1] = <<message, segment + 1>>
    <2> HIDE DEF Segments
    <2>1. QED BY <1>2, <1>3, AppendProperties
  <1>5. MessageInv'
    <2>1. ASSUME NEW i \in 1 .. Len(Given') PROVE Given'[i][1] <= message
      <3>1. i \in 1 .. Len(Given) \/ i = Len(Given) + 1
        BY <1>3, <1>4
      <3>2. i \in 1 .. Len(Given) => Given[i][1] <= message
        BY DEF MessageInv, OfMessages
      <3>3. QED BY <1>1, <1>4, <3>1, <3>2
    <2>2. QED BY <1>1, <2>1 DEF MessageInv, OfMessages
  <1>6. UNCHANGED <<rpc, current, received, released, delivered>>
    BY <1>1 DEF rVars, dataVars
  <1>7. ReleasedInv'
    <2>0. Len(released) \in Nat /\ Len(released) <= Len(Given)
      BY LenProperties DEF ReleasedInv
    <2>1. \A i \in 1 .. Len(released) : Given'[i] = Given[i] /\ released[i] = Given[i]
      BY <1>3, <1>4, <2>0 DEF ReleasedInv
    <2>2. rpc # "stopped" => Assembled(Given', Len(released), current, delivered \o received)
      <3> SUFFICES ASSUME rpc # "stopped"
                   PROVE  Assembled(Given', Len(released), current, delivered \o received)
        OBVIOUS
      <3>1. Assembled(Given, Len(released), current, delivered \o received)
        BY DEF ReleasedInv
      <3>2. Len(released) = 0 \/ Len(released) \in 1 .. Len(released)
        BY <2>0
      <3>3. Len(released) = 0 \/ Given'[Len(released)] = Given[Len(released)]
        BY <2>1, <3>2
      <3>4. QED BY <3>1, <3>3 DEF Assembled
    <2>3. Len(released) <= Len(Given')
      BY <1>3, <1>4, <2>0
    <2>4. QED BY <1>1, <1>6, <2>1, <2>2, <2>3 DEF ReleasedInv
  <1>8. QED BY <1>5, <1>7

\* A message is fetched.
LEMMA ReceiveKeepsReleased ==
    ASSUME ReleasedInv, Receive
    PROVE  ReleasedInv'
  <1>1. /\ received # <<>> /\ delivered' = Append(delivered, Head(received))
        /\ received' = Tail(received)
        /\ UNCHANGED <<rpc, current, released, message, segment>>
    BY DEF Receive, tVars, appVars
  <1>2. Given' = Given
    BY <1>1, SameGiven
  <1>3. received \in Seq(Seq(Segments)) /\ delivered \in Seq(Seq(Segments))
    BY DEF ReleasedInv
  <1> HIDE DEF Segments
  <1>4. /\ delivered' \in Seq(Seq(Segments)) /\ received' \in Seq(Seq(Segments))
        /\ delivered' \o received' = delivered \o received
    <2>1. PICK S : S = Seq(Segments)
      OBVIOUS
    <2>2. received \in Seq(S) /\ delivered \in Seq(S)
      BY <1>3, <2>1
    <2>3. Head(received) \in S /\ Tail(received) \in Seq(S)
      BY <1>1, <2>2, HeadTailProperties
    <2>4. Append(delivered, Head(received)) \in Seq(S)
      BY <2>2, <2>3
    <2>5. Append(delivered, Head(received)) \o Tail(received) = delivered \o received
      BY <1>1, <2>2, <2>3
    <2>6. QED BY <1>1, <2>1, <2>3, <2>4, <2>5
  <1>5. QED BY <1>1, <1>2, <1>4 DEF ReleasedInv

-----------------------------------------------------------------------------
(* The channel.                                                            *)

\* The inductive invariant.
StreamInv == StateInv /\ GivenInv /\ MessageInv /\ ReleasedInv /\ PositionsInv

\* It holds at the start ...
LEMMA StreamInit == PlainChannel /\ Init => StreamInv
  <1> SUFFICES ASSUME PlainChannel, Init PROVE StreamInv
    OBVIOUS
  <1>1. StateInv /\ GivenInv
    BY StateInit, GivenInit
  <1>2. Given = <<>> /\ Len(Given) = 0 /\ Count = 0
    <2>1. Given = <<>>
      BY GivenIs, NothingGiven DEF Init
    <2>2. QED BY <2>1 DEF Count, Init
  <1>3. MessageInv
    BY <1>2 DEF MessageInv, OfMessages
  <1>4. ReleasedInv
    <2>1. delivered = <<>> /\ received = <<>> /\ delivered \o received = <<>>
          /\ current = <<>> /\ released = <<>> /\ Len(released) = 0 /\ message = 0
      BY DEF Init
    <2>2. Assembled(Given, 0, <<>>, <<>>)
      BY DEF Assembled
    <2>3. IsWhole(<<>>, 0)
      <3>1. <<>> = Whole(0)
        BY DEF Whole
      <3>2. QED BY <3>1 DEF IsWhole
    <2>4. <<>> \in Seq(Segments) /\ <<>> \in Seq(Seq(Segments))
      BY EmptySeq
    <2>5. QED BY <1>2, <2>1, <2>2, <2>3, <2>4 DEF ReleasedInv
  <1>5. PositionsInv
    <2>1. /\ rfrom = 0 /\ rstate = "Closed" /\ toR = <<>> /\ released = <<>> /\ tstate = "Closed"
          /\ \A n \in SN : rbuffer[n] = NoPacket
      BY DEF Init
    <2>2. Wrap(0) = 0 /\ K \in Nat
      BY WrapLow, WindowAssumption
    <2>3. <<>> \in Seq(Nat) /\ Len(<<>>) = 0
      BY EmptySeq
    <2>4. BufferAt(Given, 0, 0, rbuffer)
      BY <2>1 DEF BufferAt
    <2>5. Match(Given, toR, <<>>) /\ Near(<<>>) /\ Above(0, <<>>) /\ Below(<<>>, Count)
      BY <2>1, <2>3 DEF Match, Near, Above, Below
    <2>6. ReceiverAt(0, 0, <<>>)
      BY <1>2, <2>1, <2>2, <2>4, <2>5 DEF ReceiverAt
    <2>7. ~Live
      BY <2>1 DEF Live
    <2>8. QED BY <2>3, <2>6, <2>7 DEF PositionsInv
  <1>6. QED BY <1>1, <1>3, <1>4, <1>5 DEF StreamInv

\* ... and every step keeps each of its parts.
LEMMA StateKept ==
    ASSUME PlainChannel, StateInv, [Next]_vars
    PROVE  StateInv'
  <1>1. CASE Open \/ Send \/ Close \/ CloseClosedChannel
    BY <1>1, OpenKeepsState, SendKeepsState, CloseKeepsState, CloseClosedChannelKeepsState
  <1>2. CASE \/ SendOpenCommand \/ OpenWaitEnds \/ SendSegment \/ MarkSent \/ SendTimesOut
             \/ SendReturns
    BY <1>2, SendOpenCommandKeepsState, OpenWaitEndsKeepsState, SendSegmentKeepsState,
       MarkSentKeepsState, SendTimesOutKeepsState, SendReturnsKeepsState
  <1>3. CASE \/ (\E n \in SN : Retry(n)) \/ SendCloseCommand \/ CloseWaitEnds \/ CloseReturns
    BY <1>3, RetryKeepsState, SendCloseCommandKeepsState, CloseWaitEndsKeepsState,
       CloseReturnsKeepsState
  <1>4. CASE TakeAck \/ FinishAck \/ TransmitterDiscards
    BY <1>4, TakeAckKeepsState, FinishAckKeepsState, TransmitterDiscardsKeepsState
  <1>5. CASE \/ ReceiverOpen \/ Receive \/ ReceiverDiscards \/ ReceiveData \/ ReceiveOpenCommand
    BY <1>5, ReceiverOpenKeepsState, ReceiveKeepsState, ReceiverDiscardsKeepsState,
       ReceiveDataKeepsState, ReceiveOpenCommandKeepsState
  <1>6. CASE \/ ReceiveCloseCommand \/ ReceiveHeartBeat \/ StartClosing \/ Drain \/ DrainEnds
             \/ ReceiverClosed
    BY <1>6, ReceiveCloseCommandKeepsState, ReceiveHeartBeatKeepsState, StartClosingKeepsState,
       DrainKeepsState, DrainEndsKeepsState, ReceiverClosedKeepsState
  <1>7. CASE UNCHANGED vars
    BY <1>7 DEF vars, tVars, appVars, windowVars, masnVars, ackVars, beatVars, rVars, dataVars,
       linkVars, StateInv, AppTypes, WindowTypes, LinkTypes, ReceiverTypes, PlacesInv, Before, Live
  <1>8. ~HeartBeatDue /\ ~EmitHeartBeat
    BY HeartsDoNotBeat
  <1>9. QED
    BY <1>1, <1>2, <1>3, <1>4, <1>5, <1>6, <1>7, <1>8
       DEF Next, CallStep, TransmitterRun, HeartBeatRun, ReceiverRun

\* The stream.
LEMMA GivenKept ==
    ASSUME PlainChannel, StateInv, GivenInv, [Next]_vars
    PROVE  GivenInv'
  BY SendKeepsGiven, SendSegmentGrows, OthersKeepGiven

\* The positions.
LEMMA PositionsKept ==
    ASSUME PlainChannel, StreamInv, [Next]_vars
    PROVE  PositionsInv'
  <1>0. StateInv /\ GivenInv /\ MessageInv /\ ReleasedInv /\ PositionsInv
    BY DEF StreamInv
  <1>1. CASE Open
    BY <1>0, <1>1, OpenKeepsPositions
  <1>2. CASE \/ OpenWaitEnds \/ Send \/ SendTimesOut \/ SendReturns \/ CloseWaitEnds
             \/ Close \/ CloseClosedChannel \/ CloseReturns \/ ReceiverOpen \/ StartClosing
             \/ DrainEnds \/ Receive \/ TransmitterDiscards \/ UNCHANGED vars
    BY <1>0, <1>2, CallsKeepPositions
  <1>3. CASE \/ SendOpenCommand \/ SendCloseCommand \/ \E n \in SN : Retry(n)
    BY <1>0, <1>3, SendOpenCommandKeepsPositions, SendCloseCommandKeepsPositions,
       RetryKeepsPositions
  <1>4. CASE SendSegment \/ MarkSent \/ TakeAck \/ FinishAck
    BY <1>0, <1>4, SendSegmentKeepsPositions, MarkSentKeepsPositions, TakeAckKeepsPositions,
       FinishAckKeepsPositions
  <1>5. CASE ReceiveData \/ ReceiveOpenCommand
    BY <1>0, <1>5, ReceiveDataKeepsPositions, ReceiveOpenCommandKeepsPositions
  <1>6. CASE ReceiverDiscards \/ ReceiveCloseCommand \/ Drain
    BY <1>0, <1>6, DiscardingKeepsPositions
  <1>7. CASE ReceiverClosed
    BY <1>0, <1>7, DeletingKeepsReleased
  <1>8. ~HeartBeatDue /\ ~EmitHeartBeat /\ ~ReceiveHeartBeat
    BY <1>0, HeartsDoNotBeat, NoHeartBeatComes
  <1>9. QED
    BY <1>1, <1>2, <1>3, <1>4, <1>5, <1>6, <1>7, <1>8
       DEF Next, CallStep, TransmitterRun, HeartBeatRun, ReceiverRun

\* What has been released, which never gets less.
LEMMA ReleasedKept ==
    ASSUME PlainChannel, StreamInv, [Next]_vars
    PROVE  MessageInv' /\ ReleasedInv' /\ Len(released) <= Len(released')
  <1>0. StateInv /\ GivenInv /\ MessageInv /\ ReleasedInv /\ PositionsInv
    BY DEF StreamInv
  <1>1. Len(released) \in Nat
    BY <1>0, LenProperties DEF ReleasedInv
  <1>2. ASSUME ~Send, ~SendSegment PROVE MessageInv'
    <2>1. UNCHANGED <<message, segment>>
      BY <1>0, <1>2, OthersKeepGiven
    <2>2. QED BY <1>0, <2>1, SameGiven DEF MessageInv
  <1>3. CASE Send
    <2>1. UNCHANGED released
      BY <1>3 DEF Send, rVars, dataVars
    <2>2. QED BY <1>0, <1>1, <1>3, <2>1, SendKeepsReleased
  <1>4. CASE SendSegment
    <2>1. UNCHANGED released
      BY <1>4 DEF SendSegment, rVars, dataVars
    <2>2. QED BY <1>0, <1>1, <1>4, <2>1, SendSegmentKeepsReleased
  <1>5. CASE ~Send /\ ~SendSegment /\ (ReceiveData \/ ReceiveOpenCommand)
    BY <1>0, <1>2, <1>5, ReceiveDataKeepsPositions, ReceiveOpenCommandKeepsPositions
  <1>6. CASE ~Send /\ ~SendSegment /\ ReceiverClosed
    <2>1. UNCHANGED released
      BY <1>6 DEF ReceiverClosed
    <2>2. QED BY <1>0, <1>1, <1>2, <1>6, <2>1, DeletingKeepsReleased
  <1>7. CASE ~Send /\ ~SendSegment /\ Receive
    <2>1. UNCHANGED released
      BY <1>7 DEF Receive
    <2>2. QED BY <1>0, <1>1, <1>2, <1>7, <2>1, ReceiveKeepsReleased
  <1>8. CASE ~Send /\ ~SendSegment /\ (ReceiverDiscards \/ ReceiveCloseCommand \/ Drain)
    <2>1. UNCHANGED released
      BY <1>8 DEF ReceiverDiscards, ReceiveCloseCommand, Drain, rVars, dataVars
    <2>2. QED BY <1>0, <1>1, <1>2, <1>8, <2>1, DiscardingKeepsPositions
  <1>9. ASSUME ~Send, ~SendSegment, UNCHANGED <<rpc, dataVars, delivered>>
        PROVE  MessageInv' /\ ReleasedInv' /\ Len(released) <= Len(released')
    <2>1. UNCHANGED <<message, segment>>
      BY <1>0, <1>9, OthersKeepGiven
    <2>2. UNCHANGED <<rpc, current, received, released, delivered>>
      BY <1>9 DEF dataVars
    <2>3. ReleasedInv'
      BY <1>0, <2>1, <2>2, QuietKeepsReleased
    <2>4. QED BY <1>1, <1>2, <1>9, <2>2, <2>3
  <1>10. CASE ~Send /\ ~SendSegment /\ (StartClosing \/ DrainEnds \/ ReceiverOpen)
    <2>1. UNCHANGED <<message, segment>>
      BY <1>0, <1>10, OthersKeepGiven
    <2>2. UNCHANGED <<current, received, released, delivered>> /\ (rpc' # "stopped" => rpc # "stopped")
      BY <1>10 DEF StartClosing, DrainEnds, ReceiverOpen, dataVars
    <2>3. ReleasedInv'
      BY <1>0, <2>1, <2>2, QuietKeepsReleased
    <2>4. QED BY <1>1, <1>2, <1>10, <2>2, <2>3
  <1>11. CASE ~Send /\ ~SendSegment
             /\ (\/ Open \/ Close \/ CloseClosedChannel \/ SendOpenCommand \/ OpenWaitEnds
                 \/ MarkSent \/ SendTimesOut \/ SendReturns \/ (\E n \in SN : Retry(n))
                 \/ SendCloseCommand \/ CloseWaitEnds \/ CloseReturns)
    <2>1. UNCHANGED rVars
      BY <1>11 DEF Open, Close, CloseClosedChannel, SendOpenCommand, OpenWaitEnds, MarkSent,
         SendTimesOut, SendReturns, Retry, SendCloseCommand, CloseWaitEnds, CloseReturns,
         InitialiseSlidingWindow
    <2>2. QED BY <1>9, <1>11, <2>1 DEF rVars
  <1>12. CASE ~Send /\ ~SendSegment
             /\ (TakeAck \/ FinishAck \/ TransmitterDiscards \/ UNCHANGED vars)
    <2>1. UNCHANGED rVars
      BY <1>12 DEF TakeAck, FinishAck, TransmitterDiscards, vars
    <2>2. QED BY <1>9, <1>12, <2>1 DEF rVars
  <1>13. ~HeartBeatDue /\ ~EmitHeartBeat /\ ~ReceiveHeartBeat
    BY <1>0, HeartsDoNotBeat, NoHeartBeatComes
  <1>14. QED
    BY <1>3, <1>4, <1>5, <1>6, <1>7, <1>8, <1>10, <1>11, <1>12, <1>13
       DEF Next, CallStep, TransmitterRun, HeartBeatRun, ReceiverRun

\* Together.
LEMMA StreamKept ==
    ASSUME PlainChannel, StreamInv, [Next]_vars
    PROVE  StreamInv'
  BY StateKept, GivenKept, PositionsKept, ReleasedKept DEF StreamInv

\* StreamInv is an invariant.
LEMMA StreamHolds == PlainChannel => (Spec => []StreamInv)
  <1> SUFFICES ASSUME PlainChannel PROVE Spec => []StreamInv
    OBVIOUS
  <1>1. Init => StreamInv
    BY StreamInit
  <1>2. StreamInv /\ [Next]_vars => StreamInv'
    BY StreamKept
  <1>3. QED BY <1>1, <1>2, PTL DEF Spec

\* A packet that is taken for acknowledged has come.
LEMMA AckedHasCome ==
    ASSUME StreamInv
    PROVE  AckedWasReceived
  <1> SUFFICES ASSUME rpc # "stopped", tstate = "Open", NEW n \in SN,
                      sent[n], acked[n], slots[n].type = "Data"
               PROVE  slots[n].seg \in Accepted
    BY DEF AckedWasReceived
  <1>0. K \in Nat /\ M \in Nat /\ K < M
    BY WindowAssumption
  <1>1. GivenInv /\ ReleasedInv /\ PositionsInv /\ Live
    BY DEF StreamInv, Live
  <1>2. PICK r \in Nat, b \in Nat, q \in Seq(Nat), a \in Nat, h \in Nat, t \in Seq(Nat) :
            ReceiverAt(r, b, q) /\ SenderAt(a, h, r) /\ AnswersAt(a, h, r, q, t)
    BY <1>1 DEF PositionsInv
  <1>3. /\ h <= Count /\ Count <= a + K /\ Count \in Nat
        /\ SlotsAt(Given, Count, slots) /\ AckedAt(a, h, r, acked, rbuffer)
    BY <1>1, <1>2, CountIn DEF SenderAt
  <1>4. /\ Count <= r + K /\ Len(released) = (IF r = 0 THEN 0 ELSE r - 1)
        /\ BufferAt(Given, r, b, rbuffer)
    BY <1>2 DEF ReceiverAt
  <1>5. PICK i \in Nat : a <= i /\ i < h /\ n = Wrap(i) /\ Has(i, r, rbuffer)
    BY <1>3 DEF AckedAt
  <1>6. i < Count /\ Count <= i + M
    BY <1>0, <1>3, <1>5
  <1>7. slots[n] = Carried(Given, i)
    BY <1>3, <1>5, <1>6 DEF SlotsAt
  <1>8. i > 0 /\ slots[n].seg = <<Given[i][1], Given[i][2]>>
    <2>1. i # 0
      BY <1>7 DEF Carried, Packet
    <2>2. Carried(Given, i).seg = <<Given[i][1], Given[i][2]>>
      BY <2>1 DEF Carried, DataPacket
    <2>3. QED BY <1>7, <2>1, <2>2
  <1>9. CASE i < r
    <2>1. i \in 1 .. Len(released)
      BY <1>4, <1>8, <1>9
    <2>2. released[i] = Given[i] /\ released \in Seq(Segments)
      BY <1>1, <2>1 DEF ReleasedInv
    <2>3. released[i] \in Segments
      <3> HIDE DEF Segments
      <3>1. QED BY <2>1, <2>2, ElementOfSeq
    <2>4. released[i] = <<released[i][1], released[i][2]>>
      BY <2>3 DEF Segments
    <2>5. slots[n].seg = released[i]
      BY <1>8, <2>2, <2>4
    <2>6. DOMAIN released = 1 .. Len(released)
      <3> HIDE DEF Segments
      <3>1. QED BY <2>2, LenProperties
    <2>7. QED BY <2>1, <2>5, <2>6 DEF Accepted
  <1>10. CASE ~(i < r)
    <2>1. i < r + K /\ rbuffer[n] # NoPacket
      BY <1>5, <1>10 DEF Has
    <2>2. PICK j \in Nat : r < j /\ j < r + K /\ n = Wrap(j) /\ rbuffer[n] = Carried(Given, j)
      BY <1>4, <2>1 DEF BufferAt
    <2>3. i < j + M /\ j < i + M /\ Wrap(i) = Wrap(j)
      BY <1>0, <1>5, <1>10, <2>1, <2>2
    <2>4. i = j
      BY <2>3, WrapSame
    <2>5. rbuffer[n].seg = slots[n].seg
      BY <1>7, <2>2, <2>4
    <2>6. QED BY <2>5 DEF Accepted
  <1>11. QED BY <1>9, <1>10

\* The types of all variables.
LEMMA TypesHold ==
    ASSUME StreamInv
    PROVE  TypeOK
  BY DEF StreamInv, StateInv, AppTypes, WindowTypes, LinkTypes, ReceiverTypes, ReleasedInv, TypeOK

\* ChannelInv: the transmitter takes a segment for acknowledged (SpaceWireRTransmitTEP.hh:363-366)
\* only if the receiver has it, whatever is lost, late or sent again, and however often the
\* numbers come round.
THEOREM ChannelIsSound == PlainChannel => (Spec => []ChannelInv)
  <1> SUFFICES ASSUME PlainChannel PROVE Spec => []ChannelInv
    OBVIOUS
  <1>1. Spec => []StreamInv
    BY StreamHolds
  <1>2. StreamInv => ChannelInv
    BY AckedHasCome, TypesHold DEF ChannelInv
  <1>3. QED BY <1>1, <1>2, PTL

\* MessagesIntact: the messages passed to send() come out of receive()
\* (SpaceWireRReceiveTEP.hh:581-669) whole and in order.
THEOREM MessagesComeWhole == PlainChannel => (Spec => []MessagesIntact)
  <1> SUFFICES ASSUME PlainChannel PROVE Spec => []MessagesIntact
    OBVIOUS
  <1>1. Spec => []StreamInv
    BY StreamHolds
  <1>2. ASSUME StreamInv PROVE MessagesIntact
    <2>1. IsWhole(delivered \o received, message) /\ message \in Nat
      BY <1>2, ChannelAssumption DEF StreamInv, ReleasedInv, StateInv, AppTypes
    <2>2. PICK k \in 0 .. message : delivered \o received = Whole(k)
      BY <2>1 DEF IsWhole
    <2>3. k \in Nat /\ k <= message
      BY <2>1, <2>2
    <2>4. Len(Whole(k)) = k /\ Len(Whole(message)) = message
      BY <2>1, <2>3 DEF Whole
    <2>5. SubSeq(Whole(k), 1, k) = SubSeq(Whole(message), 1, k)
      <3>1. \A l \in 1 .. k : Whole(k)[l] = Whole(message)[l]
        BY <2>1, <2>3 DEF Whole
      <3> HIDE DEF Whole
      <3>2. SubSeq(Whole(k), 1, k) = [l \in 1 .. k |-> Whole(k)[l]]
            /\ SubSeq(Whole(message), 1, k) = [l \in 1 .. k |-> Whole(message)[l]]
        BY <2>3
      <3>3. QED BY <3>1, <3>2
    <2>6. IsPrefix(Whole(k), Whole(message))
      BY <2>3, <2>4, <2>5 DEF IsPrefix
    <2>7. [m \in 1 .. message |-> SegmentsOf(m, Messages[m])] = Whole(message)
      BY DEF Whole
    <2>8. QED BY <2>2, <2>6, <2>7 DEF MessagesIntact
  <1>3. QED BY <1>1, <1>2, PTL

\* DataNeverClosesReceiver: every data packet that arrives is inside one of the receiver's two
\* windows (SpaceWireRReceiveTEP.hh:537-554).
THEOREM DataKeepsReceiverOpen == PlainChannel => (Spec => DataNeverClosesReceiver)
  <1> SUFFICES ASSUME PlainChannel PROVE Spec => DataNeverClosesReceiver
    OBVIOUS
  <1>1. Spec => []StreamInv
    BY StreamHolds
  <1>2. StreamInv /\ [Next]_vars => [ReceiveData => rstate' = rstate]_vars
    BY ReceiveDataKeepsPositions DEF StreamInv
  <1>3. QED BY <1>1, <1>2, PTL DEF Spec, DataNeverClosesReceiver

\* Every step gives a segment, releases some, or is none of the stream.
LEMMA StreamSteps ==
    ASSUME PlainChannel, StreamInv, [Next]_vars
    PROVE  [Stream!Next]_<<Given, released>>
  <1>0. /\ StateInv /\ GivenInv /\ ReleasedInv /\ ReleasedInv'
        /\ Len(released) <= Len(released')
    BY ReleasedKept DEF StreamInv
  <1>1. CASE SendSegment
    <2>1. UNCHANGED released
      BY <1>1 DEF SendSegment, rVars, dataVars
    <2>2. /\ Given' = Append(Given, <<message, segment + 1>>)
          /\ <<message, segment + 1>> \in Segments
      BY <1>0, <1>1, SendSegmentGrows
    <2>3. Stream!Give
      BY <2>1, <2>2 DEF Stream!Give
    <2>4. QED BY <2>3 DEF Stream!Next
  <1>2. CASE ~SendSegment
    <2>1. Given' = Given /\ Given \in Seq(Segments) /\ Len(Given) \in Nat
      BY <1>0, <1>2, SendKeepsGiven, OthersKeepGiven, SameGiven, CountIn
    <2>2. /\ released \in Seq(Segments) /\ released' \in Seq(Segments)
          /\ Len(released) <= Len(Given) /\ Len(released') <= Len(Given)
          /\ \A i \in 1 .. Len(released) : released[i] = Given[i]
          /\ \A i \in 1 .. Len(released') : released'[i] = Given[i]
      BY <1>0, <2>1 DEF ReleasedInv
    <2>3. PICK n \in Nat : n = Len(released')
      BY <2>2, LenProperties
    <2>4. CASE n = Len(released)
      <3>1. \A i \in 1 .. n : released'[i] = released[i]
        BY <2>2, <2>3, <2>4
      <3>2. released' = released
        <4> HIDE DEF Segments
        <4>1. QED BY <2>2, <2>3, <2>4, <3>1, SeqEqual
      <3>3. QED BY <2>1, <3>2
    <2>5. CASE n # Len(released)
      <3>1. Len(released) \in Nat
        BY <2>2, LenProperties
      <3>2. n \in Len(released) + 1 .. Len(Given)
        BY <1>0, <2>1, <2>2, <2>3, <2>5, <3>1
      <3>3. /\ SubSeq(Given, 1, n) \in Seq(Segments) /\ Len(SubSeq(Given, 1, n)) = n
            /\ \A i \in 1 .. n : SubSeq(Given, 1, n)[i] = Given[i]
        <4>1. n <= Len(Given)
          BY <3>2
        <4> HIDE DEF Segments
        <4>2. QED BY <2>1, <4>1, SubSeqProperties
      <3>4. released' = SubSeq(Given, 1, n)
        <4> HIDE DEF Segments
        <4>1. QED BY <2>2, <2>3, <3>3, SeqEqual
      <3>5. Stream!Release
        BY <2>1, <3>2, <3>4 DEF Stream!Release
      <3>6. QED BY <3>5 DEF Stream!Next
    <2>6. QED BY <2>4, <2>5
  <1>3. QED BY <1>1, <1>2

\* StreamSpec: the two end points (SpaceWireRTransmitTEP.hh:390-518, SpaceWireRReceiveTEP.hh:502-578)
\* implement SegmentStream.
THEOREM StreamIsImplemented == PlainChannel => (Spec => StreamSpec)
  <1> SUFFICES ASSUME PlainChannel PROVE Spec => StreamSpec
    OBVIOUS
  <1>1. Spec => []StreamInv
    BY StreamHolds
  <1>2. Init => Stream!Init
    BY GivenIs, NothingGiven DEF Init, Stream!Init
  <1>3. StreamInv /\ [Next]_vars => [Stream!Next]_<<Given, released>>
    BY StreamSteps
  <1>4. QED BY <1>1, <1>2, <1>3, PTL DEF Spec, StreamSpec, Stream!Spec
==============================================================================
