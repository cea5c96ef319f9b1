------------------------------ MODULE MCPackets ------------------------------
(***************************************************************************)
(* One model for TLC of what becomes of packets: the exchange of RMAP      *)
(* commands and replies with a target, byte by byte; calls of RMAPEngine   *)
(* whose replies may be later than the timeout ("late"); and the engine of *)
(* SpaceWire-R.  A behaviour is a behaviour of one `component`; the others *)
(* keep their initial states.                                              *)
(***************************************************************************)
EXTENDS RMAPExchange, SpaceWireREngine, TLC

VARIABLES
    component,
    \* of RMAPEngine; rmapOp stands for its op, and so on
    available, transactions, pc, rmapOp, rmapSeq, tid, tstate, treply, rmapReply, result,
    rmapEngine, stopped, hand, network, live, orphans

Both == {"i1", "i2"}
Late == INSTANCE RMAPEngine
    WITH engine <- rmapEngine, op <- rmapOp, seq <- rmapSeq, reply <- rmapReply,
         Initiators <- Both, NoOne <- "nobody",
         NTIDs <- 2, MaxCommands <- 1, Ops <- {"read", "write", "writeNoReply", "nonblockingRead"},
         ManualInitiators <- {}, ManualTID <- <<>>,
         Faults <- {"loss", "sendFails", "stop", "disconnect"}, ReplyKinds <- {"ok"},
         LateReplies <- TRUE

lateVars == <<available, transactions, pc, rmapOp, rmapSeq, tid, tstate, treply, rmapReply, result,
              rmapEngine, stopped, hand, network, live, orphans>>
allVars == <<component, exchangeVars, engineVars, lateVars>>

PacketsInit ==
    /\ component \in {"exchange", "engine", "late"}
    /\ ExchangeInit /\ EngineInit /\ Late!Init
    /\ component # "exchange" => options = CHOOSE o \in OptionChoices : TRUE

PacketsNext ==
    /\ UNCHANGED component
    /\ \/ component = "exchange" /\ ExchangeNext /\ UNCHANGED <<engineVars, lateVars>>
       \/ component = "engine" /\ EngineNext /\ UNCHANGED <<exchangeVars, lateVars>>
       \/ component = "late" /\ Late!Next /\ UNCHANGED <<exchangeVars, engineVars>>

(* EngineFairness, and the fairness of RMAPEngine!FairSpec.                 *)
PacketsSpec ==
    /\ PacketsInit /\ [][PacketsNext]_allVars
    /\ WF_engineVars(component = "engine" /\ Defined /\ ThreadStep)
    /\ \A i \in Both : WF_lateVars(component = "late" /\ Late!CallStep(i))

-----------------------------------------------------------------------------
(* RMAP: a node with objects of every access mode, a node with another key, *)
(* and a file that describes an object without its length.                  *)
Object(id, a, n, words) ==
    ("id" :> id) @@ ("ExtendedAddress" :> 0) @@ ("Address" :> a) @@ ("Length" :> n)
        @@ ("AccessMode" :> words)
Node(id, address, key, objects) ==
    ("id" :> id) @@ ("TargetLogicalAddress" :> address) @@ ("TargetSpaceWireAddress" :> <<3>>)
        @@ ("ReplyAddress" :> <<7, 2>>) @@ ("Key" :> key) @@ ("RMAPMemoryObject" :> objects)
Objects == <<Object("status", 4, 2, {"readonly", "read"}),
             Object("table", 6, 2, {"readwrite", "read", "write"}),
             Object("trigger", 8, 1, {"writeonly", "write"})>>
NodeFiles == {<<Node("board", 254, 2, Objects), Node("locked", 254, 9, Objects)>>,
              <<Node("board", 254, 2, <<("id" :> "table") @@ ("Address" :> 4)>>)>>}
SomeCalls ==
    {[kind |-> "read", node |-> "board", address |-> 3, length |-> 3],
     [kind |-> "read", node |-> "board", object |-> "status"],
     [kind |-> "read", node |-> "board", address |-> 8, length |-> 0],
     [kind |-> "write", node |-> "board", object |-> "table", data |-> <<200, 1>>],
     [kind |-> "write", node |-> "board", address |-> 7, data |-> <<33>>],
     [kind |-> "write", node |-> "board", object |-> "status", data |-> <<5, 5>>],
     [kind |-> "write", node |-> "locked", address |-> 7, data |-> <<33>>],
     [kind |-> "read", node |-> "locked", address |-> 7, length |-> 1],
     [kind |-> "write", node |-> "nowhere", object |-> "table", data |-> <<200, 1>>]}
Setting(increment, verify, reply, draft, address) ==
    [incrementMode |-> increment, verifyMode |-> verify, replyMode |-> reply,
     useDraftECRC |-> draft, initiatorLogicalAddress |-> address]
SomeOptions == {Setting(TRUE, TRUE, TRUE, FALSE, 254), Setting(TRUE, FALSE, FALSE, FALSE, 32),
                Setting(FALSE, TRUE, TRUE, TRUE, 254)}
OneTarget == [logicalAddress |-> 254, key |-> 2, lengths |-> 1 .. 3,
              targets |-> <<<<[range |-> [from |-> 2, to |-> 10], action |-> "memory"]>>>>]
OneBit == {{6}}

(* SpaceWire-R engine: one end point of each kind.  From the far side come  *)
(* data, heart beats, acknowledgements, and packets for nobody.             *)
EndPointKind    == ("r1" :> "receive") @@ ("t2" :> "transmit")
EndPointChannel == ("r1" :> 1) @@ ("t2" :> 770)
FromAfar(type, channel, number, payload, path) ==
    [P!PreparedPacket(channel, [path |-> <<>>, address |-> 254], [path |-> path, address |-> 35])
        EXCEPT !.packetType = type, !.sequenceNumber = number, !.payload = payload]
Arriving ==
    {FromAfar(0, 1, 3, <<7>>, <<5, 2>>), FromAfar(4, 770, 0, <<>>, <<>>),
     FromAfar(6, 770, 1, <<4>>, <<>>), FromAfar(1, 770, 2, <<>>, <<9>>),
     FromAfar(3, 1, 0, <<>>, <<>>), FromAfar(0, 99, 3, <<>>, <<>>)}
Flips == {[at |-> i, bits |-> {0}] : i \in {3, 11}} \cup {[at |-> 1, bits |-> {5, 6, 7}]}

-----------------------------------------------------------------------------
(* The properties of RMAPEngine that do not need timely replies.            *)

(* While there are no more calls than IDs a late reply is never resolved to *)
(* another initiator's transaction.                                         *)
NoCrossTalk == component = "late" => Late!NoCrossTalk

(* Every call returns, whatever is lost and when the IDs have run out.      *)
EveryCallReturns == component = "late" => Late!EveryCallReturns

(* What the theorems about these modules ask of an instance.                *)
ASSUME PacketHypotheses == ChannelsDiffer /\ DamageIsTold /\ ~ShortAnswers
=============================================================================
