------------------------------ MODULE MCReads ------------------------------
(***************************************************************************)
(* Two settings of RMAPEngine for TLC, with the assumptions of             *)
(* RMAPEngine_proofs: only reads, and timely replies.  "faults": two    *)
(* calls of each initiator with every fault.  "longer": three calls each,  *)
(* an engine that is started first and goes on, replies without error.     *)
(***************************************************************************)
EXTENDS RMAPEngine, TLC

VARIABLE setting

CONSTANTS i1, i2

Both     == {i1, i2}
Symmetry == Permutations(Both)
NoManual == {}
EmptyFunction == <<>>
ReadOps  == {"read", "nonblockingRead"}
OkOrError == {"ok", "error"}

ReadsInit == setting \in {"faults", "longer"} /\ Init

ReadsNext ==
    /\ UNCHANGED setting
    /\ Next
    /\ setting = "faults" => \A i \in Both : seq'[i] <= 2
    /\ setting = "longer" => ~stopped' /\ (hand' # NoHand => hand'.packet.kind = "ok")

ReadsSpec == ReadsInit /\ [][ReadsNext]_<<setting, vars>>
=============================================================================
