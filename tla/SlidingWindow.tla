---------------------------- MODULE SlidingWindow ----------------------------
(* Sequence numbers and windows of SpaceWire-R.  The code keeps them in      *)
(* uint8_t: every sum is cast back to 8 bits.                                *)
EXTENDS Integers

CONSTANTS M,  \* number of sequence numbers (256 in the code)
          K   \* SlidingWindowSize of both end points (8 in the code)

\* With K = 1 the receiver's strict comparison would take every number for
\* one inside its window; the code only ever uses 8.
ASSUME WindowAssumption ==
    /\ M \in Nat
    /\ K \in Nat
    /\ 2 <= K
    /\ 2 * K <= M

SN == 0 .. M - 1

\* (uint8_t) (x)
Wrap(x) == x % M

\* From n up to m, where the numbers may wrap in between.
Between(n, sn, m, wraps) ==
    IF wraps THEN n <= sn \/ sn <= m ELSE n <= sn /\ sn <= m

InsideForwardSlidingWindow(n, sn) ==
    Between(n, sn, Wrap(n + K - 1), ~(n <= Wrap(n + K - 1)))

\* Faulty variant: a window that wraps is not recognised as such.
InsideForwardNeverWraps(n, sn) == Between(n, sn, Wrap(n + K - 1), FALSE)

InsideForwardReceiveSlidingWindow(n, sn) ==
    Between(n, sn, Wrap(n + K - 1), ~(n < Wrap(n + K - 1)))

InsideBackwardReceiveSlidingWindow(n, sn) ==
    Between(Wrap(n - K), sn, Wrap(n - 1), ~(Wrap(n - K) < Wrap(n - 1)))

MaximumAcceptableSequenceNumber(n) == Wrap(n + K - 1)

\* Faulty variant: the loop does not end at a gap.
RunPastGaps(n, done) ==
    CHOOSE k \in 0 .. K :
        /\ k = 0 \/ Wrap(n + k - 1) \in done
        /\ \A j \in k .. K - 1 : Wrap(n + j) \notin done

\* How far the loops of the two slide methods get: the consecutive numbers from
\* n on that are done.
RunLength(n, done) ==
    CHOOSE k \in 0 .. M :
        /\ \A j \in 0 .. k - 1 : Wrap(n + j) \in done
        /\ k = M \/ Wrap(n + k) \notin done

Numbers(n, k) == {Wrap(n + j) : j \in 0 .. k - 1}
=============================================================================
