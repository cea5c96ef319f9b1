----------------------------- MODULE RMAPTarget -----------------------------
(***************************************************************************)
(* Which target, and which of its actions, a command is for: the address   *)
(* ranges of classes RMAPAddressRange and RMAPTarget.  Addresses are       *)
(* numbers modulo AddressSpace (2^32 in the code), and so are the sums     *)
(* that say where an access ends.                                          *)
(***************************************************************************)
EXTENDS Integers, Sequences, SequencesExt

CONSTANT AddressSpace
ASSUME AddressSpaceAssumption == AddressSpace \in Nat \ {0}

Address == 0 .. AddressSpace - 1

(* setByLength(), and the ranges the tutorials construct: from, from + length. *)
RangeByLength(from, length) == [from |-> from, to |-> (from + length) % AddressSpace]

(* contains(): `other' lies within `range', both bounds included.          *)
RangeContains(range, other) ==
    /\ ~(other.to < range.from \/ range.to < other.from)
    /\ range.from <= other.from /\ other.to <= range.to

(* The range getCorrespondingRMAPTargetAccessAction() looks for.           *)
DispatchRange(address, length) ==
    [from |-> address, to |-> (address + length - 1) % AddressSpace]

(* The same: a target is a sequence of [range, action] pairs; the action   *)
(* of the first range that contains the access, or none.                                      *)
CorrespondingAction(target, address, length) ==
    LET i == SelectInSeq(target, LAMBDA e : RangeContains(e.range, DispatchRange(address, length)))
    IN IF i = 0 THEN {} ELSE {target[i].action}

(* rmapCommandPacketReceived(): the first target that has such an action.  *)
ActionFor(targets, address, length) ==
    LET i == SelectInSeq(targets, LAMBDA t : CorrespondingAction(t, address, length) # {})
    IN IF i = 0 THEN {} ELSE CorrespondingAction(targets[i], address, length)
=============================================================================
