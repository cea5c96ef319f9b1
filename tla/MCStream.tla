------------------------------ MODULE MCStream ------------------------------
(***************************************************************************)
(* One model for TLC of what must come out in order and belong together.   *)
(* Of SpaceWireR, both with every delay: "order", two losses, sequence     *)
(* numbers that come round, and close(); "beats", a heart beat among the   *)
(* data, lost or not, with numbers that do not come round, since a heart   *)
(* beat and what answers it are numbered 0.  Of RMAPEngine: "mixed", every *)
(* kind of call, one of two initiators with a specified transaction ID.    *)
(* A behaviour is one of `setting`; the others keep their initial states.  *)
(***************************************************************************)
EXTENDS SpaceWireR, TLC

VARIABLES
    setting,
    \* of RMAPEngine; rmapOp stands for its op, and so on
    available, transactions, pc, rmapOp, rmapSeq, tid, rmapState, treply, rmapReply, result,
    engine, stopped, hand, network, live, orphans

Mixed == INSTANCE RMAPEngine
    WITH op <- rmapOp, seq <- rmapSeq, tstate <- rmapState, reply <- rmapReply,
         Initiators <- {"i1", "i2"}, NoOne <- "nobody", NTIDs <- 3, MaxCommands <- 2,
         Ops <- {"read", "write", "writeNoReply", "nonblockingRead"},
         ManualInitiators <- {"i1"}, ManualTID <- ("i1" :> 2),
         Faults <- {"loss", "sendFails"}, ReplyKinds <- {"ok"}, LateReplies <- FALSE

callVars == <<available, transactions, pc, rmapOp, rmapSeq, tid, rmapState, treply, rmapReply,
              result, engine, stopped, hand, network, live, orphans>>

StreamInit == setting \in {"order", "beats", "mixed"} /\ Init /\ Mixed!Init

StreamNext ==
    /\ UNCHANGED setting
    /\ \/ setting = "order" /\ Next /\ ~beatDue' /\ UNCHANGED callVars
       \/ /\ setting = "beats" /\ Next /\ UNCHANGED callVars
          /\ message' <= 1 /\ losses' <= 1 /\ tpc' # "closing"
       \/ setting = "mixed" /\ Mixed!Next /\ UNCHANGED vars

StreamBehaviour == StreamInit /\ [][StreamNext]_<<setting, vars, callVars>>

SixSegments == <<3, 2, 1>>
Zero        == {0}
AllButClose == {"Open", "Data", "HeartBeat", "ControlAck", "DataAck", "HeartBeatAck"}

-----------------------------------------------------------------------------
(* The properties of RMAPEngine; those of SpaceWireR are the run's own.     *)

(* A call accepts nothing but the reply to its own command.                 *)
ReplyMatchesCommand == Mixed!ReplyMatchesCommand

(* A registration replaces no other, not even one a failed send has left.   *)
RegistersUnusedID == Mixed!RegistersUnusedID
=============================================================================
