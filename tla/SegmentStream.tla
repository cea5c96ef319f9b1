---------------------------- MODULE SegmentStream ----------------------------
(* What a SpaceWire-R channel promises: the segments handed to it come out in *)
(* the order they went in, each once, none invented; the channel may end at   *)
(* any time, and then nothing more comes out.                                 *)
EXTENDS Naturals, Sequences

CONSTANT Segments

VARIABLES given,  \* the segments sent, in the order of their first transmission
          out     \* the segments released to the receiving side

Init == given = <<>> /\ out = <<>>

Give == /\ \E s \in Segments : given' = Append(given, s)
        /\ UNCHANGED out

\* Several segments can come out at once: one that was late lets those behind
\* it through.
Release == /\ \E n \in Len(out) + 1 .. Len(given) : out' = SubSeq(given, 1, n)
           /\ UNCHANGED given

Next == Give \/ Release

Spec == Init /\ [][Next]_<<given, out>>
=============================================================================
