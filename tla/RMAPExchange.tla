---------------------------- MODULE RMAPExchange ----------------------------
(***************************************************************************)
(* One RMAPInitiator and one target node, and the packets between them     *)
(* byte by byte.  The initiator looks names up in its database, reuses one *)
(* command packet for every call, and waits for the reply; the target is   *)
(* an RMAPEngine with an RMAPTarget that checks logical address, key and   *)
(* length as the tutorial's action does; that its memory keeps what is     *)
(* written is the application's part (the tutorial's data are fixed).      *)
(* The wire may damage, cut short or lose a packet.                        *)
(*                                                                         *)
(* Time is RMAPEngine's subject: here a caller times out when nothing can  *)
(* reach it any more.                                                      *)
(***************************************************************************)
EXTENDS RMAPPacket, RMAPTarget, RMAPTargetNodes

CONSTANTS
    Files,          \* configuration files: sequences of RMAPTargetNode elements
    Calls,          \* the calls the application may make
    OptionChoices,  \* the settings of the initiator it may choose
    TargetSetup,    \* the target's [logicalAddress, key, lengths, targets]
    ShortAnswers,   \* whether the target may answer a read with less than asked for
    BitErrors,      \* the sets of bits the wire may invert in one byte
    BeyondBytes,    \* what may lie beyond the end of a received packet
    MaxCalls,       \* bound: the calls made
    MaxDamages      \* bound: the packets damaged or lost

(* Names of one node and sizes of calls as the code's types and the fields *)
(* of a packet can hold them: a path of reply addresses has at most twelve *)
(* bytes, and a write by name has a byte for each of the object's.         *)
IsByObject(call) == "object" \in DOMAIN call
HasDataFor(call) ==
    \A file \in Files : \A i \in DOMAIN file : LET objects == file[i]["RMAPMemoryObject"] IN
        \A k \in DOMAIN objects :
            file[i]["id"] = call.node /\ objects[k]["id"] = call.object
                /\ "Length" \in DOMAIN objects[k] => objects[k]["Length"] <= Len(call.data)
Length == {n \in Nat : n < 16777216}
IsSequence(f) == f \in Seq(ToSet(f))
ObjectFits(object) ==
    {"Address", "Length"} \subseteq DOMAIN object =>
        object["Address"] \in Address /\ object["Length"] \in Length
NodeFits(node) ==
    /\ node["TargetLogicalAddress"] \in LogicalAddress
    /\ node["TargetSpaceWireAddress"] \in PathAddress
    /\ node["ReplyAddress"] \in PathAddress /\ Len(node["ReplyAddress"]) <= 12
    /\ node["Key"] \in Byte
    /\ "InitiatorLogicalAddress" \in DOMAIN node =>
           node["InitiatorLogicalAddress"] \in LogicalAddress
    /\ IsSequence(node["RMAPMemoryObject"])
    /\ \A k \in DOMAIN node["RMAPMemoryObject"] : ObjectFits(node["RMAPMemoryObject"][k])

FourBytesSuffice == (AddressSpace - 1) \div 65536 < 65536
SizesFit ==
    /\ FourBytesSuffice /\ MaxCalls \in Nat /\ MaxCalls <= 65536 /\ MaxDamages \in Nat
    /\ BeyondBytes \subseteq Byte /\ ShortAnswers \in BOOLEAN
    /\ TargetSetup.lengths \subseteq 0 .. AddressSpace
Options == [incrementMode : BOOLEAN, verifyMode : BOOLEAN, replyMode : BOOLEAN,
            useDraftECRC : BOOLEAN, initiatorLogicalAddress : LogicalAddress]
FileFits(file) == IsSequence(file) /\ \A i \in DOMAIN file : NodeFits(file[i])
CallFits(call) ==
    /\ call.kind \in {"read", "write"}
    /\ ~IsByObject(call) => call.address \in Address
    /\ call.kind = "read" /\ ~IsByObject(call) => call.length \in Length
    /\ call.kind = "write" => call.data \in Seq(Byte)
    /\ call.kind = "write" /\ ~IsByObject(call) => Len(call.data) \in Length
    /\ call.kind = "write" /\ IsByObject(call) => HasDataFor(call)

ASSUME ExchangeAssumption ==
    /\ SizesFit /\ OptionChoices \subseteq Options
    /\ \A file \in Files : FileFits(file)
    /\ \A call \in Calls : CallFits(call)

VARIABLES
    database,       \* the registered RMAPTargetNodeDB: <<>> or <<nodes by name>>
    options,        \* incrementMode, verifyMode, replyMode, useDraftECRC and
                    \* initiatorLogicalAddress
    commandPacket,  \* RMAPInitiator::commandPacket, one object for every call
    request,        \* the call in progress, <<>> when there is none
    wire,           \* the packets on their way to the target
    back,           \* the packets on their way to the initiator
    targetMemory,   \* the memory of the target node
    sent,           \* ghost: the calls whose command was sent, in order
    executed,       \* ghost: what the target did: [command, memory, status] in order
    answer,         \* what the last call gave its caller
    calls,          \* the calls made so far
    damages         \* the packets damaged so far

exchangeVars == <<database, options, commandPacket, request, wire, back, targetMemory,
                  sent, executed, answer, calls, damages>>

MemoryAddress == DOMAIN targetMemory
NoAnswer == [kind |-> "none"]
Throws(what) == [kind |-> what]

ExchangeInit ==
    /\ database = <<>>
    /\ options \in OptionChoices
    /\ commandPacket = NewPacket(FALSE)
    /\ request = <<>>
    /\ wire = <<>> /\ back = <<>>
    /\ targetMemory = [a \in Address |-> a % 256]
    /\ sent = <<>> /\ executed = <<>>
    /\ answer = NoAnswer
    /\ calls = 0 /\ damages = 0

-----------------------------------------------------------------------------
(* setRMAPTargetNodeDB(new RMAPTargetNodeDB(file)), and the set*() methods *)
(* of the initiator.                                                       *)
RegisterDatabase ==
    /\ request = <<>> /\ database = <<>>
    /\ \E file \in Files : database' = <<ConstructDatabase(file)>>
    /\ UNCHANGED <<options, commandPacket, request, wire, back, targetMemory, sent, executed,
                   answer, calls, damages>>

SetOptions ==
    /\ request = <<>> /\ calls > 0
    /\ options' \in OptionChoices \ {options}
    /\ UNCHANGED <<database, commandPacket, request, wire, back, targetMemory, sent, executed,
                   answer, calls, damages>>

-----------------------------------------------------------------------------
(* The overloads of read() and write() end in the one with a node, an      *)
(* address and a length: by way of the database for a node's name, and of  *)
(* the node for a memory object's.  A call is                              *)
(*    [kind, node, object or address, length or data];                     *)
(* Resolve gives the node, the address and the length, or the exception.   *)

(* What the overload throws for a node that is not in the database differs *)
(* from one to the other.                                                  *)
NoSuchNode(call) ==
    IF call.kind = "read" /\ ~IsByObject(call) THEN Throws("NoSuchRMAPTargetNode")
                                               ELSE Throws("NoSuchRMAPMemoryObject")

ResolveObject(call, node) ==
    IF call.object \notin DOMAIN node.objects THEN Throws("NoSuchRMAPMemoryObject")
    ELSE LET object == node.objects[call.object]
         IN IF call.kind = "read" /\ ~IsReadable(object)
            THEN Throws("SpecifiedRMAPMemoryObjectIsNotReadable")
            ELSE IF call.kind = "write" /\ ~IsWritable(object)
            THEN Throws("SpecifiedRMAPMemoryObjectIsNotWritable")
            ELSE [kind |-> "resolved", node |-> node, address |-> object.address,
                  length |-> object.length]

Resolve(call) ==
    IF database = <<>> THEN Throws("RMAPTargetNodeDBIsNotRegistered")
    ELSE IF call.node \notin DOMAIN database[1] THEN NoSuchNode(call)
    ELSE LET node == database[1][call.node]
         IN IF IsByObject(call) THEN ResolveObject(call, node)
            ELSE [kind |-> "resolved", node |-> node, address |-> call.address,
                  length |-> IF call.kind = "read" THEN call.length ELSE Len(call.data)]

(* The data a write by name takes from its caller: as many bytes as the    *)
(* object is long.                                                         *)
DataOf(call, length) == SubSeq(call.data, 1, length)

(* What read() and write() set on the packet they are given.               *)
SetModes(p, call) ==
    LET q == SetBit(SetBit(SetBit(p, WriteReadBit, call.kind = "write"),
                           CommandReplyBit, TRUE),
                    IncrementBit, options.incrementMode)
    IN SetBit(SetBit(q, VerifyBit, call.kind = "write" /\ options.verifyMode),
              ReplyBit, call.kind = "read" \/ options.replyMode)

SetUpRead(p, call, to) ==
    LET q == [SetModes([p EXCEPT !.useDraftECRC = options.useDraftECRC,
                                 !.initiatorLogicalAddress = options.initiatorLogicalAddress], call) EXCEPT
                  !.extendedAddress = 0, !.address = FourBytes(to.address),
                  !.dataLength = to.length, !.data = <<>>]
    IN SetRMAPTargetInformation(q, to.node)

SetUpWrite(p, call, to) ==
    LET q == [SetModes([p EXCEPT !.useDraftECRC = options.useDraftECRC,
                                 !.initiatorLogicalAddress = options.initiatorLogicalAddress], call) EXCEPT
                  !.extendedAddress = 0, !.address = FourBytes(to.address),
                  !.dataLength = to.length]
    IN SetData(SetRMAPTargetInformation(q, to.node), DataOf(call, to.length))

SetUp(p, call, to) ==
    IF call.kind = "read" THEN SetUpRead(p, call, to) ELSE SetUpWrite(p, call, to)

(* initiateTransaction(): the transaction ID is one no call of the bound   *)
(* has had (the list has 65536 of them), and the packet is sent.  A write  *)
(* that asks for no reply returns at once.                                 *)
CallSends(call, to) ==
    LET p     == [SetUp(commandPacket, call, to) EXCEPT !.transactionID = calls]
        asked == [call |-> call, to |-> to, transactionID |-> calls, options |-> options]
    IN /\ commandPacket' = p
       /\ sent' = Append(sent, asked)
       /\ wire' = Append(wire, ConstructPacket(p))
       /\ IF ReplyBit \in p.instruction
          THEN request' = <<asked>> /\ answer' = NoAnswer
          ELSE request' = <<>> /\ answer' = [kind |-> "sent"]

Call ==
    /\ request = <<>> /\ calls < MaxCalls
    /\ calls' = calls + 1
    /\ \E call \in Calls :
          LET to == Resolve(call)
          IN IF to.kind = "resolved" THEN CallSends(call, to)
             ELSE answer' = to /\ UNCHANGED <<commandPacket, request, wire, sent>>
    /\ UNCHANGED <<database, options, back, targetMemory, executed, damages>>

-----------------------------------------------------------------------------
(* The wire: some bits of one byte inverted, the end of a packet cut off,  *)
(* or the whole of it lost.                                                *)
Damaged(bytes) ==
    {[bytes EXCEPT ![i] = ByteOf(SymDiff(BitsOf(@), bits))] :
        i \in DOMAIN bytes, bits \in BitErrors}
    \cup {SubSeq(bytes, 1, n) : n \in 1 .. Len(bytes) - 1}

DamageCommand ==
    /\ wire # <<>> /\ damages < MaxDamages /\ damages' = damages + 1
    /\ \/ \E bytes \in Damaged(Head(wire)) : wire' = <<bytes>> \o Tail(wire)
       \/ wire' = Tail(wire)
    /\ UNCHANGED <<database, options, commandPacket, request, back, targetMemory, sent, executed,
                   answer, calls>>

DamageReply ==
    /\ back # <<>> /\ damages < MaxDamages /\ damages' = damages + 1
    /\ \/ \E bytes \in Damaged(Head(back)) : back' = <<bytes>> \o Tail(back)
       \/ back' = Tail(back)
    /\ UNCHANGED <<database, options, commandPacket, request, wire, targetMemory, sent, executed,
                   answer, calls>>

-----------------------------------------------------------------------------
(* The target.  receivePacket() drops what is not a packet; a reply finds  *)
(* no transaction and a command no range of the target drops it, too.      *)
(* The action of a range answers, whether or not a reply is asked for.     *)
MemoryOf(address, length) ==
    [i \in 1 .. length |-> targetMemory[(address + i - 1) % AddressSpace]]

(* What an action makes of a command: the new memory and the reply.        *)
ProcessTransaction(p) ==
    LET address == NumberOfFour(p.address)
        refuse(status) == {[memory |-> targetMemory, reply |-> SetReplyWithStatus(p, status)]}
    IN IF p.targetLogicalAddress # TargetSetup.logicalAddress
       THEN refuse(InvalidTargetLogicalAddress)
       ELSE IF p.key # TargetSetup.key THEN refuse(InvalidDestinationKey)
       ELSE IF p.dataLength \notin TargetSetup.lengths
       THEN refuse(CommandNotImplementedOrNotAuthorized)
       ELSE IF IsWrite(p)
       THEN {[memory |-> [a \in MemoryAddress |->
                             LET i == ((a - address) % AddressSpace) + 1
                             IN IF i \in DOMAIN p.data THEN p.data[i] ELSE targetMemory[a]],
              reply |-> SetReplyWithStatus(p, CommandExcecutedSuccessfully)]}
       ELSE {[memory |-> targetMemory,
              reply |-> SetReplyWithDataWithStatus(p, MemoryOf(address, n),
                                                   CommandExcecutedSuccessfully)] :
                n \in IF ShortAnswers THEN 0 .. p.dataLength ELSE {p.dataLength}}

TargetDrops ==
    UNCHANGED <<back, targetMemory, executed>>

TargetReceives ==
    /\ wire # <<>> /\ wire' = Tail(wire)
    /\ \E beyond \in BeyondBytes :
          LET packets == Interpret(Head(wire), options.useDraftECRC, beyond)
          IN IF packets = {} THEN TargetDrops
             ELSE LET p == CHOOSE q \in packets : TRUE
                  IN IF \/ ~IsCommand(p)
                        \/ ActionFor(TargetSetup.targets, NumberOfFour(p.address), p.dataLength) = {}
                     THEN TargetDrops
                     ELSE \E done \in ProcessTransaction(p) :
                             /\ targetMemory' = done.memory
                             /\ executed' = Append(executed,
                                    [command |-> p, memory |-> targetMemory,
                                     status |-> done.reply.status])
                             /\ back' = Append(back, ConstructPacket(done.reply))
    /\ UNCHANGED <<database, options, commandPacket, request, sent, answer, calls, damages>>

-----------------------------------------------------------------------------
(* The initiator.  A reply with no transaction of its number is discarded; *)
(* the reply path address was consumed by the routers on the way.          *)
(* rmapReplyPacketReceived() wakes the caller, which looks at the status,  *)
(* then at the length of the data.                                         *)
ExamineReadReply(p, length) ==
    IF p.status # CommandExcecutedSuccessfully
    THEN [kind |-> "RMAPReplyException", status |-> p.status]
    ELSE IF length < Len(p.data) THEN Throws("ReadReplyWithInsufficientData")
    ELSE [kind |-> "data", data |-> p.data]

\* Faulty variant: any reply will do.
ExamineAnyWriteReply(p) == [kind |-> "written"]

ExamineWriteReply(p) ==
    IF p.status # CommandExcecutedSuccessfully
    THEN [kind |-> "RMAPReplyException", status |-> p.status]
    ELSE [kind |-> "written"]

Examine(p) ==
    IF request[1].call.kind = "read" THEN ExamineReadReply(p, request[1].to.length)
                                     ELSE ExamineWriteReply(p)

InitiatorReceives ==
    /\ back # <<>> /\ back' = Tail(back)
    /\ \E beyond \in BeyondBytes :
          LET packets == Interpret(Head(back), options.useDraftECRC, beyond)
              replies == {p \in packets : /\ ~IsCommand(p) /\ request # <<>>
                                          /\ p.transactionID = request[1].transactionID}
          IN IF replies = {} THEN UNCHANGED <<request, answer>>
             ELSE answer' = Examine(CHOOSE p \in replies : TRUE) /\ request' = <<>>
    /\ UNCHANGED <<database, options, commandPacket, wire, targetMemory, sent, executed,
                   calls, damages>>

TimesOut ==
    /\ request # <<>> /\ wire = <<>> /\ back = <<>>
    /\ request' = <<>> /\ answer' = Throws("Timeout")
    /\ UNCHANGED <<database, options, commandPacket, wire, back, targetMemory, sent, executed,
                   calls, damages>>

ExchangeNext ==
    \/ RegisterDatabase \/ SetOptions \/ Call
    \/ DamageCommand \/ DamageReply
    \/ TargetReceives \/ InitiatorReceives \/ TimesOut

ExchangeSpec == ExchangeInit /\ [][ExchangeNext]_exchangeVars

-----------------------------------------------------------------------------
(* Properties.                                                             *)

AnswerKinds ==
    {"none", "sent", "data", "written", "RMAPReplyException", "Timeout",
     "ReadReplyWithInsufficientData", "RMAPTargetNodeDBIsNotRegistered",
     "NoSuchRMAPTargetNode", "NoSuchRMAPMemoryObject",
     "SpecifiedRMAPMemoryObjectIsNotReadable", "SpecifiedRMAPMemoryObjectIsNotWritable"}

(* Packets are sequences of bytes, the memory holds bytes, and a caller    *)
(* gets one of the answers read() and write() can give.                    *)
ExchangeTypeOK ==
    /\ \A i \in DOMAIN wire : wire[i] \in Seq(Byte)
    /\ \A i \in DOMAIN back : back[i] \in Seq(Byte)
    /\ targetMemory \in [Address -> Byte]
    /\ answer.kind \in AnswerKinds
    /\ request = <<>> \/ request[1] = Last(sent)
    /\ calls \in 0 .. MaxCalls /\ damages \in 0 .. MaxDamages

(* The packet object serves every call of an initiator: nothing of an      *)
(* earlier call (its data, its flags, its reply address) is in the bytes   *)
(* of a later one, which are those a new packet would give.                *)
CommandsCarryNothingOver ==
    request # <<>> =>
        ConstructPacket(commandPacket) =
            ConstructPacket([SetUp(NewPacket(FALSE), request[1].call, request[1].to)
                                 EXCEPT !.transactionID = request[1].transactionID])

IsAsAsked(p, asked) ==
    /\ p.transactionID = asked.transactionID
    /\ NumberOfFour(p.address) = asked.to.address
    /\ p.dataLength = asked.to.length
    /\ p.key = asked.to.node.defaultKey
    /\ p.targetLogicalAddress = asked.to.node.targetLogicalAddress
    /\ p.replyAddress = Padded(asked.to.node.replyAddress)
    /\ IsWrite(p) <=> asked.call.kind = "write"
    /\ p.data = IF IsWrite(p) THEN DataOf(asked.call, asked.to.length) ELSE <<>>
    /\ IncrementBit \in p.instruction <=> asked.options.incrementMode
    /\ VerifyBit \in p.instruction <=> IsWrite(p) /\ asked.options.verifyMode
    /\ ReplyBit \in p.instruction <=> ~IsWrite(p) \/ asked.options.replyMode

(* Whatever happens to the bytes on the wire, the target executes only     *)
(* what some call asked for, with the address, the data, the key, the      *)
(* modes and the way home the caller meant: damage is noticed.             *)
ExecutesOnlyWhatWasAsked ==
    \A i \in DOMAIN executed : \E j \in DOMAIN sent : IsAsAsked(executed[i].command, sent[j])

ExecutionsOf(asked) ==
    {e \in ToSet(executed) : e.command.transactionID = asked.transactionID}

(* A read that succeeds gives its caller as many bytes as it asked for,    *)
(* and they are the ones the target's memory held when it executed that    *)
(* very read, whatever the wire did to the reply.                          *)
ReadGivesTheMemory ==
    answer.kind = "data" =>
        LET asked == Last(sent)
        IN \E e \in ExecutionsOf(asked) :
              answer.data = [i \in 1 .. asked.to.length |->
                                e.memory[(asked.to.address + i - 1) % AddressSpace]]

(* A write that returns successfully has been executed: the memory holds   *)
(* the caller's bytes.                                                     *)
WrittenMeansWritten ==
    answer.kind = "written" =>
        LET asked == Last(sent)
        IN /\ ExecutionsOf(asked) # {}
           /\ MemoryOf(asked.to.address, asked.to.length) = DataOf(asked.call, asked.to.length)

(* The words of a configuration file that let a program write an object.   *)
WritingWords == {"wo", "rw", "readwrite", "writeonly", "writable", "write"}
FileAllowsWriting(name, object) ==
    \E file \in Files : \E i \in DOMAIN file : file[i]["id"] = name /\
        LET objects == file[i]["RMAPMemoryObject"]
        IN \E k \in DOMAIN objects :
              /\ objects[k]["id"] = object
              /\ "AccessMode" \in DOMAIN objects[k] =>
                     objects[k]["AccessMode"] \cap WritingWords # {}

(* A memory object its configuration file makes read-only is written by no *)
(* call that names it, however the file words it.                          *)
ReadOnlyObjectsStayUnwritten ==
    \A j \in DOMAIN sent :
        LET call == sent[j].call
        IN call.kind = "write" /\ IsByObject(call) => FileAllowsWriting(call.node, call.object)

(* Together they say that read() and write() return what happened: data    *)
(* are the target's, and a success is a success, whatever the wire did.     *)
AnswersTellTheTruth == ReadGivesTheMemory /\ WrittenMeansWritten

(* The target executes nothing but what a caller asked for, packet objects *)
(* that are used again and damaged bytes notwithstanding, and writes to no  *)
(* object that its file makes read-only.                                    *)
ExchangeInv ==
    /\ ExchangeTypeOK /\ CommandsCarryNothingOver
    /\ ReadOnlyObjectsStayUnwritten /\ ExecutesOnlyWhatWasAsked

(* The refusal of a read carries the length of the command and no data:    *)
(* it is not a packet the initiator can read (see RefusalsReachTheCaller). *)
RefusedRead(asked) ==
    /\ asked.call.kind = "read" /\ asked.to.length > 0
    /\ \/ asked.to.node.targetLogicalAddress # TargetSetup.logicalAddress
       \/ asked.to.node.defaultKey # TargetSetup.key
       \/ asked.to.length \notin TargetSetup.lengths

(* Outside its ranges the target has no action that would answer.          *)
Answerable(asked) ==
    ActionFor(TargetSetup.targets, asked.to.address, asked.to.length) # {}

(* A caller waits in vain only for what went wrong: a packet damaged, an   *)
(* access outside every range of the target, or the refusal of a read.     *)
TimeoutsHaveACause ==
    answer.kind = "Timeout" =>
        damages > 0 \/ ~Answerable(Last(sent)) \/ RefusedRead(Last(sent))

(* What a target refuses its caller is told: read() ends with an           *)
(* RMAPReplyException, which the programs that call it print.              *)
RefusalsReachTheCaller ==
    answer.kind = "Timeout" =>
        damages > 0 \/ \A e \in ExecutionsOf(Last(sent)) : e.status = CommandExcecutedSuccessfully

(* The commands that the target can find in bytes, and the replies that the *)
(* initiator can, apart from what is left of their path.                    *)
ReadBy(bytes, draftE) == UNION {Interpret(bytes, draftE, beyond) : beyond \in BeyondBytes}
CommandsIn(bytes, draftE) ==
    {[p EXCEPT !.targetSpaceWireAddress = <<>>] : p \in {q \in ReadBy(bytes, draftE) : IsCommand(q)}}
RepliesIn(bytes, draftE) ==
    {[p EXCEPT !.replyAddress = <<>>] : p \in {q \in ReadBy(bytes, draftE) : ~IsCommand(q)}}

(* What a step that damages a packet in its queue may do to what is read.   *)
DamageNoticed ==
    damages' # damages =>
        \A draftE \in BOOLEAN :
            /\ wire' # wire /\ Len(wire') = Len(wire) =>
                   \A p \in CommandsIn(Head(wire'), draftE) : p \in CommandsIn(Head(wire), draftE)
            /\ back' # back /\ Len(back') = Len(back) =>
                   \A p \in RepliesIn(Head(back'), draftE) : p \in RepliesIn(Head(back), draftE)

(* Lengths and CRCs tell the damage: in damaged bytes a node finds nothing, *)
(* or what was sent (a bit of the path may be wrong).                       *)
DamageIsNoticed == [][DamageNoticed]_exchangeVars
=============================================================================
