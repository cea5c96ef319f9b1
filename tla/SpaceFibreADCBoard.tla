------------------------- MODULE SpaceFibreADCBoard -------------------------
(***************************************************************************)
(* The SpaceFibre ADC board: SpaceFibreADCBoard and the modules it drives  *)
(* (ChannelManager, ChannelModule, the registers of the consumer manager,  *)
(* SemaphoreRegister) through RMAPHandler, which repeats an access that    *)
(* timed out.                                                              *)
(*                                                                         *)
(* A method of the board is a program, a sequence of elements: the         *)
(* accesses to registers it makes, the semaphore it takes and gives back,  *)
(* and for openDevice() and closeDevice() the connection.  A register is   *)
(* named instead of addressed and holds one 16-bit half (HalfSpace values) *)
(* or, for start/stop and the trigger bus, the set of its channels.        *)
(*                                                                         *)
(* The FPGA is external: it takes the start/stop semaphore now and then,   *)
(* stops channels while it has it, and counts live time.                   *)
(***************************************************************************)
EXTENDS Integers, Sequences

CONSTANTS
    Users,              \* the threads that use the board
    CallsOf,            \* user -> the [name, channel, value, ...] calls it may make
    NumberOfChannels,
    HalfSpace,          \* 65536 in the code
    MaxTrials,          \* RMAPHandler::maxNTrials
    RetriesOpen,        \* whether openDevice() may be called while an engine runs
    MaxBoardCalls,      \* bound: the calls made
    MaxBoardFaults,     \* bound: the packets lost, refused, or cut by the link
    MaxHolds,           \* bound: how often the FPGA takes the semaphore
    MaxTicks            \* bound: the ticks of the live time counters

Channels == 0 .. NumberOfChannels - 1
Half == 0 .. HalfSpace - 1

(* The calls a program may make, with the values their parameters have: a  *)
(* number that the method cuts to 16 bits can be any.                      *)
ChannelCalls ==
    [name : {"setTriggerMode"}, channel : Nat, value : Half]
    \cup [name : {"setTriggerBusMask"}, channel : Nat, value : SUBSET Channels]
    \cup [name : {"setStartingThreshold", "setClosingThreshold", "setDepthOfDelay", "getLivetime",
                  "getCurrentADCValue", "turnOnADCPower", "turnOffADCPower", "sendCPUTrigger"},
          channel : Nat, value : Nat]
BoardCalls ==
    [name : {"openDevice", "closeDevice", "reset", "stopAcquisition", "isAcquisitionCompleted",
             "getHouseKeepingData", "setPresetLivetime", "setPresetnEvents"}, value : Nat]
    \cup [name : {"setNumberOfSamples", "setPresetMode", "setAdcClock", "setadcClockCounter"},
          value : Half]
    \cup [name : {"startAcquisition"}, value : SUBSET Channels]
    \cup [name : {"getTriggerMode", "getStatus", "getTriggerCount"}, value : Channels]
    \cup [name : {"writeObject", "readObject"}, value : {"table", "unknown"}]

ASSUME BoardAssumption ==
    /\ NumberOfChannels \in Nat \ {0} /\ HalfSpace \in Nat \ {0, 1} /\ MaxTrials \in Nat \ {0}
    /\ Users # {} /\ CallsOf \in [Users -> SUBSET (ChannelCalls \cup BoardCalls)]

(* What the theorems suppose of the program besides: one thread uses the    *)
(* board.                                                                   *)
OneUser == \A u, v \in Users : u = v

VARIABLES
    interface,      \* RMAPHandler::spwif: its number, 0 for NULL
    initiator,      \* the interface rmapEngine and rmapInitiator work on, 0 for NULL
    made,           \* how many interfaces were made; all but the present one are deleted
    engines,        \* the interfaces on which an RMAPEngine runs
    eventSocket,    \* ConsumerManagerSocketFIFO::socket is open
    registers,      \* the registers that were written, and what they hold
    startStop,      \* StartStopRegister: the channels that run
    semaphore,      \* who has the start/stop semaphore: free, host, logic
    running,        \* user -> the call it is in
    boardOutcome,   \* user -> how its last call ended
    boardCalls, boardFaults, holds, ticks

handlerVars == <<interface, initiator, made, engines, eventSocket>>
fpgaVars == <<registers, startStop, semaphore>>
boardVars == <<handlerVars, fpgaVars, running, boardOutcome, boardCalls, boardFaults,
               holds, ticks>>

Low(n) == n % HalfSpace
High(n) == (n \div HalfSpace) % HalfSpace
AllOnes == HalfSpace - 1

-----------------------------------------------------------------------------
(* The registers.  Each channel's are at the same offsets from its base.   *)
ChannelRegisters ==
    {"triggerMode", "triggerBusMask", "numberOfSamples", "thresholdStarting",
     "thresholdClosing", "adcPowerDown", "depthOfDelay", "livetimeL", "livetimeH",
     "currentAdcData", "cpuTrigger", "triggerCountH", "status1"}
ManagerRegisters ==
    {"presetMode", "presetLivetimeL", "presetLivetimeH", "realtime", "managerReset",
     "adcClock", "presetnEventsL", "presetnEventsH"}
ConsumerRegisters == {"eventOutputDisable", "consumerReset", "numberOfWaveform"}
Whole(r) == <<r, -1>>          \* a register of the whole board
Registers ==
    (ChannelRegisters \X Channels)
    \cup {Whole(r) : r \in ManagerRegisters \cup ConsumerRegisters}
Contents(r) == IF r[1] = "triggerBusMask" THEN SUBSET Channels ELSE Half

(* The elements of a program: setRegister() and getRegister() ...          *)
SetRegister(r, v) == [op |-> "write", to |-> [x \in {r} |-> v]]
GetRegister(r) == [op |-> "read", from |-> r]
WriteStartStop(chs) == [op |-> "writeStartStop", channels |-> chs]
ReadStartStop == [op |-> "readStartStop"]
(* ... and the others.                                                     *)
Request == [op |-> "request"]
Release == [op |-> "release"]
Element(what) == [op |-> what]

-----------------------------------------------------------------------------
(* ChannelModule.                                                          *)
SetTriggerMode(ch, v) == <<SetRegister(<<"triggerMode", ch>>, v)>>
GetTriggerMode(ch) == <<GetRegister(<<"triggerMode", ch>>)>>
SetTriggerBusMask(ch, chs) == <<SetRegister(<<"triggerBusMask", ch>>, chs)>>
SendCPUTrigger(ch) == <<SetRegister(<<"cpuTrigger", ch>>, AllOnes)>>
SetNumberOfSamplesOf(ch, v) == <<SetRegister(<<"numberOfSamples", ch>>, v)>>
SetStartingThreshold(ch, v) == <<SetRegister(<<"thresholdStarting", ch>>, Low(v))>>
SetClosingThreshold(ch, v) == <<SetRegister(<<"thresholdClosing", ch>>, Low(v))>>
TurnADCPower(ch, on) == <<SetRegister(<<"adcPowerDown", ch>>, IF on THEN 0 ELSE AllOnes)>>
SetDepthOfDelay(ch, v) == <<SetRegister(<<"depthOfDelay", ch>>, Low(v))>>
GetLivetime(ch) == <<GetRegister(<<"livetimeL", ch>>), GetRegister(<<"livetimeH", ch>>)>>
GetCurrentADCValue(ch) == <<GetRegister(<<"currentAdcData", ch>>)>>
GetStatus(ch) == <<GetRegister(<<"status1", ch>>)>>
(* The address of the low half is overwritten with that of the high half.  *)
GetTriggerCount(ch) ==
    <<GetRegister(<<"triggerCountH", ch>>), GetRegister(<<"triggerCountH", ch>>)>>

-----------------------------------------------------------------------------
(* ChannelManager.                                                         *)
StartChannels(chs) == <<Request, WriteStartStop(chs), Release>>
StopChannels == <<Request, WriteStartStop({}), Release>>
IsAcquisitionCompleted == <<ReadStartStop>>
SetPresetMode(v) == <<SetRegister(Whole("presetMode"), v)>>
SetAdcClock(v) == <<SetRegister(Whole("adcClock"), v)>>
SetPresetLivetime(n) ==
    <<SetRegister(Whole("presetLivetimeL"), Low(n)), SetRegister(Whole("presetLivetimeH"), High(n))>>
GetRealtime == <<GetRegister(Whole("realtime"))>>
ResetManager == <<SetRegister(Whole("managerReset"), 1)>>
(* Both of these go to the registers of the live time.                     *)
SetPresetnEvents(n) ==
    <<[op |-> "write", to |-> [r \in {Whole("presetLivetimeL"), Whole("presetLivetimeH")} |->
                                   IF r[1] = "presetLivetimeL" THEN Low(n) ELSE High(n)]]>>
SetADCClockCounter(v) == <<SetRegister(Whole("presetLivetimeL"), v)>>

(* ConsumerManagerSocketFIFO, its registers.                               *)
ResetConsumer == <<SetRegister(Whole("consumerReset"), 1)>>
EnableEventDataOutput == <<SetRegister(Whole("eventOutputDisable"), 0)>>
DisableEventDataOutput == <<SetRegister(Whole("eventOutputDisable"), 1)>>
SetEventPacketNumberOfWaveform(v) == <<SetRegister(Whole("numberOfWaveform"), v)>>

-----------------------------------------------------------------------------
(* SpaceFibreADCBoard: openDevice(), closeDevice(), the methods for the    *)
(* whole board, and those for one channel.                                 *)
OpenDevice == <<Element("connect")>> \o StopChannels \o <<Element("openSocket")>>
CloseDevice ==
    DisableEventDataOutput \o <<Element("closeSocket"), Element("disconnect")>>
ResetBoard == ResetManager \o ResetConsumer
SetNumberOfSamples(v) ==
    [i \in 1 .. NumberOfChannels |-> SetNumberOfSamplesOf(i - 1, v)[1]]
    \o SetEventPacketNumberOfWaveform(v)
StartAcquisition(chs) == EnableEventDataOutput \o StartChannels(chs)
HouseKeepingOf(ch) == GetLivetime(ch) \o IsAcquisitionCompleted
GetHouseKeepingData ==
    GetRealtime
    \o [i \in 1 .. 3 * NumberOfChannels |-> HouseKeepingOf((i - 1) \div 3)[((i - 1) % 3) + 1]]

ChannelProgram(call) ==
    CASE call.name = "setTriggerMode"       -> SetTriggerMode(call.channel, call.value)
      [] call.name = "setStartingThreshold" -> SetStartingThreshold(call.channel, call.value)
      [] call.name = "setClosingThreshold"  -> SetClosingThreshold(call.channel, call.value)
      [] call.name = "setTriggerBusMask"    -> SetTriggerBusMask(call.channel, call.value)
      [] call.name = "setDepthOfDelay"      -> SetDepthOfDelay(call.channel, call.value)
      [] call.name = "getLivetime"          -> GetLivetime(call.channel)
      [] call.name = "getCurrentADCValue"   -> GetCurrentADCValue(call.channel)
      [] call.name = "turnOnADCPower"       -> TurnADCPower(call.channel, TRUE)
      [] call.name = "turnOffADCPower"      -> TurnADCPower(call.channel, FALSE)
      [] call.name = "sendCPUTrigger"       -> SendCPUTrigger(call.channel)

BoardProgram(call) ==
    CASE call.name = "openDevice"             -> OpenDevice
      [] call.name = "closeDevice"            -> CloseDevice
      [] call.name = "reset"                  -> ResetBoard
      [] call.name = "setNumberOfSamples"     -> SetNumberOfSamples(call.value)
      [] call.name = "startAcquisition"       -> StartAcquisition(call.value)
      [] call.name = "stopAcquisition"        -> StopChannels
      [] call.name = "isAcquisitionCompleted" -> IsAcquisitionCompleted
      [] call.name = "setPresetMode"          -> SetPresetMode(call.value)
      [] call.name = "setPresetLivetime"      -> SetPresetLivetime(call.value)
      [] call.name = "setPresetnEvents"       -> SetPresetnEvents(call.value)
      [] call.name = "setAdcClock"            -> SetAdcClock(call.value)
      [] call.name = "getHouseKeepingData"    -> GetHouseKeepingData
      \* methods of the modules that the board does not pass on
      [] call.name = "getTriggerMode"         -> GetTriggerMode(call.value)
      [] call.name = "getStatus"              -> GetStatus(call.value)
      [] call.name = "getTriggerCount"        -> GetTriggerCount(call.value)
      [] call.name = "setadcClockCounter"     -> SetADCClockCounter(call.value)
      \* RMAPHandler's own access to a memory object by name
      [] call.name = "writeObject"            -> <<[op |-> "writeObject", object |-> call.value]>>
      [] call.name = "readObject"             -> <<[op |-> "readObject", object |-> call.value]>>

IsForChannel(call) == "channel" \in DOMAIN call
Program(call) == IF IsForChannel(call) THEN ChannelProgram(call) ELSE BoardProgram(call)

-----------------------------------------------------------------------------
NoCall == [name |-> "none"]
Idle == [call |-> NoCall]
InCall(u) == running[u] # Idle
Current(u) == running[u].program[running[u].at]
AtOp(u, ops) == InCall(u) /\ Current(u).op \in ops
(* exit(), and an exception that leaves a method declared throw              *)
(* (SpaceFibreADCException), end the program.                                *)
Ended == \E u \in Users : boardOutcome[u].how \in {"terminate", "exit"}
Outcome(call, how, connected, answers) ==
    [call |-> call, how |-> how, connected |-> connected, answers |-> answers]

BoardInit ==
    /\ interface = 0 /\ initiator = 0 /\ made = 0 /\ engines = {}
    /\ eventSocket = FALSE
    /\ registers = <<>>
    /\ startStop \in {{}, {0}}
    /\ semaphore = "free"
    /\ running = [u \in Users |-> Idle]
    /\ boardOutcome = [u \in Users |-> Outcome(NoCall, "none", FALSE, <<>>)]
    /\ boardCalls = 0 /\ boardFaults = 0 /\ holds = 0 /\ ticks = 0

-----------------------------------------------------------------------------
(* A call.                                                                 *)

(* What its callers keep to: they close a device that is open, and start   *)
(* and stop it only then (request() would wait for ever).                  *)
Legal(call) ==
    /\ call.name = "openDevice" => initiator = 0 \/ RetriesOpen
    /\ call.name \in {"closeDevice", "startAcquisition", "stopAcquisition"} => initiator # 0

Begin(u) ==
    /\ ~InCall(u) /\ ~Ended /\ boardCalls < MaxBoardCalls
    /\ boardCalls' = boardCalls + 1
    /\ \E call \in CallsOf[u] :
        /\ Legal(call)
        /\ \/ /\ IsForChannel(call) /\ call.channel \notin Channels
              /\ boardOutcome' = [boardOutcome EXCEPT
                                    ![u] = Outcome(call, "InvalidChannelNumber", FALSE, <<>>)]
              /\ UNCHANGED running
           \/ /\ IsForChannel(call) => call.channel \in Channels
              /\ boardOutcome' = [boardOutcome EXCEPT ![u] = Outcome(call, "runs", TRUE, <<>>)]
              /\ running' = [running EXCEPT
                    ![u] = [call |-> call, program |-> Program(call), at |-> 1,
                            phase |-> "write", trial |-> 0, executions |-> 0, timeouts |-> 0]]
    /\ UNCHANGED <<handlerVars, fpgaVars, boardFaults, holds, ticks>>

(* The element is done; after the last one the method returns.             *)
Proceeds(u, connected, answers) ==
    LET r == running[u]
        o == boardOutcome[u]
        last == r.at = Len(r.program)
    IN  /\ running' = [running EXCEPT
                ![u] = IF last THEN Idle
                       ELSE [r EXCEPT !.at = @ + 1, !.phase = "write", !.trial = 0,
                                      !.executions = 0, !.timeouts = 0]]
        /\ boardOutcome' = [boardOutcome EXCEPT
                ![u] = Outcome(r.call, IF last THEN "ok" ELSE "runs",
                               o.connected /\ connected, o.answers \o answers)]

(* An exception leaves the method.  The methods for one channel may throw   *)
(* SpaceFibreADCException only.                                             *)
Escapes(call, exception) ==
    CASE call.name = "openDevice"  -> "OpenDeviceFailed"
      [] call.name = "closeDevice" -> "CloseDeviceFailed"
      [] IsForChannel(call) /\ call.name # "sendCPUTrigger" -> "terminate"
      [] OTHER -> exception
CallThrows(u, exception) ==
    /\ running' = [running EXCEPT ![u] = Idle]
    /\ boardOutcome' = [boardOutcome EXCEPT
            ![u] = Outcome(running[u].call, Escapes(running[u].call, exception), @.connected, <<>>)]

-----------------------------------------------------------------------------
(* The connection.                                                         *)

(* connectoToSpaceWireToGigabitEther() deletes the interface it has, and    *)
(* leaves the engine and the initiator of it as they are.                   *)
Connect(u) ==
    /\ AtOp(u, {"connect"}) /\ ~Ended
    /\ made' = made + 1 /\ interface' = made + 1
    /\ \/ /\ engines' = engines \cup {made + 1}
          /\ initiator' = made + 1
          /\ Proceeds(u, TRUE, <<>>)
          /\ UNCHANGED boardFaults
       \/ /\ boardFaults < MaxBoardFaults
          /\ boardFaults' = boardFaults + 1
          /\ CallThrows(u, "CouldNotConnect")
          /\ UNCHANGED <<initiator, engines>>
    /\ UNCHANGED <<eventSocket, fpgaVars, boardCalls, holds, ticks>>

\* Faulty variant: rmapInitiator stays set.
DisconnectKeepsInitiator(u) ==
    /\ AtOp(u, {"disconnect"}) /\ ~Ended
    /\ interface' = 0
    /\ engines' = engines \ {initiator}
    /\ Proceeds(u, TRUE, <<>>)
    /\ UNCHANGED <<made, initiator, eventSocket, fpgaVars, boardCalls, boardFaults, holds, ticks>>

Disconnect(u) ==
    /\ AtOp(u, {"disconnect"}) /\ ~Ended
    /\ interface' = 0 /\ initiator' = 0
    /\ engines' = engines \ {initiator}
    /\ Proceeds(u, TRUE, <<>>)
    /\ UNCHANGED <<made, eventSocket, fpgaVars, boardCalls, boardFaults, holds, ticks>>

OpenSocket(u) ==
    /\ AtOp(u, {"openSocket"}) /\ ~Ended
    /\ \/ eventSocket' = TRUE /\ Proceeds(u, TRUE, <<>>) /\ UNCHANGED boardFaults
       \/ /\ boardFaults < MaxBoardFaults
          /\ boardFaults' = boardFaults + 1
          /\ running' = [running EXCEPT ![u] = Idle]
          /\ boardOutcome' = [boardOutcome EXCEPT ![u].how = "exit"]
          /\ UNCHANGED eventSocket
    /\ UNCHANGED <<interface, initiator, made, engines, fpgaVars, boardCalls, holds, ticks>>

CloseSocket(u) ==
    /\ AtOp(u, {"closeSocket"}) /\ ~Ended
    /\ eventSocket' = FALSE
    /\ Proceeds(u, TRUE, <<>>)
    /\ UNCHANGED <<interface, initiator, made, engines, fpgaVars, boardCalls, boardFaults,
                   holds, ticks>>

-----------------------------------------------------------------------------
(* The accesses, through RMAPHandler::write() and read().                  *)
AccessOps == {"write", "read", "writeStartStop", "readStartStop", "request", "release",
              "writeObject", "readObject"}
AtAccess(u) == AtOp(u, AccessOps) /\ ~Ended
UnknownObject(u) == AtOp(u, {"writeObject", "readObject"}) /\ Current(u).object = "unknown"
Cleared(r) == IF r[1] = "triggerBusMask" THEN {} ELSE 0
ValueOf(r) == IF r \in DOMAIN registers THEN registers[r] ELSE Cleared(r)

(* The registers after values were written to some of them.                *)
Overwritten(written) ==
    [r \in DOMAIN registers \cup DOMAIN written |->
        IF r \in DOMAIN written THEN written[r] ELSE registers[r]]

(* What the board does with the access, and the value it answers with.     *)
Executed(u) ==
    LET op == Current(u).op
        writes == running[u].phase = "write"
    IN  /\ registers' = IF op = "write" THEN Overwritten(Current(u).to) ELSE registers
        /\ startStop' = IF op = "writeStartStop" THEN Current(u).channels ELSE startStop
        /\ semaphore' =
              CASE op = "request" /\ writes /\ semaphore = "free" -> "host"
                [] op = "release" /\ writes /\ semaphore = "host" -> "free"
                [] OTHER -> semaphore
Answer(u) ==
    CASE Current(u).op = "read"          -> <<ValueOf(Current(u).from)>>
      [] Current(u).op = "readStartStop" -> <<startStop>>
      [] OTHER -> <<>>
(* What is in the caller's buffer when nothing was read: an array that is   *)
(* not initialised, or a vector of zeros.                                   *)
NothingRead(u) ==
    CASE Current(u).op = "read"          -> {<<n>> : n \in Half}
      [] Current(u).op = "readStartStop" -> {<<{}>>}
      [] OTHER -> {<<>>}

(* The access has returned: the semaphore's loops write, read, and look.    *)
(* Another access is the whole of its element.                              *)
\* Faulty variant: request() does not wait.
LeavesRequestAnyway(seen) == TRUE
LeavesRequest(seen) == seen
\* Faulty variant: release() waits until someone has the semaphore.
LeavesReleaseWhenTaken(seen) == seen
LeavesRelease(seen) == ~seen
Looped(u, phase) ==
    /\ running' = [running EXCEPT ![u] = [@ EXCEPT !.phase = phase, !.trial = 0,
                                               !.executions = 0, !.timeouts = 0]]
    /\ boardOutcome' = [boardOutcome EXCEPT ![u].connected = @ /\ initiator # 0]
Returned(u, held, answers) ==
    LET op == Current(u).op
        leaves == IF op = "request" THEN LeavesRequest(held) ELSE LeavesRelease(held)
    IN  \/ op \notin {"request", "release"} /\ Proceeds(u, initiator # 0, answers)
        \/ /\ op \in {"request", "release"}
           /\ \/ running[u].phase = "write" /\ Looped(u, "read")
              \/ running[u].phase = "read" /\ ~leaves /\ Looped(u, "write")
              \/ running[u].phase = "read" /\ leaves /\ Proceeds(u, initiator # 0, <<>>)

(* Without an initiator the handler returns at once, as if it had worked.   *)
AccessWithoutDevice(u) ==
    /\ AtAccess(u) /\ initiator = 0
    /\ \E answers \in NothingRead(u) : Returned(u, FALSE, answers)
    /\ UNCHANGED <<handlerVars, fpgaVars, boardCalls, boardFaults, holds, ticks>>

Again(u, executions, timeouts) ==
    /\ running' = [running EXCEPT ![u].trial = @ + 1,
                                  ![u].executions = @ + executions,
                                  ![u].timeouts = @ + timeouts]
    /\ UNCHANGED boardOutcome
LastTrial(u) == running[u].trial = MaxTrials - 1

AccessAnswered(u) ==
    /\ AtAccess(u) /\ initiator # 0 /\ Current(u).op # "writeObject" /\ ~UnknownObject(u)
    /\ Executed(u)
    /\ Returned(u, semaphore = "host", Answer(u))
    /\ UNCHANGED <<handlerVars, boardCalls, boardFaults, holds, ticks>>

(* The node has no such memory object: tried again and again, as well.      *)
ObjectUnknown(u) ==
    /\ AtAccess(u) /\ initiator # 0 /\ UnknownObject(u)
    /\ IF LastTrial(u) THEN CallThrows(u, "LowerException") ELSE Again(u, 0, 0)
    /\ UNCHANGED <<handlerVars, fpgaVars, boardCalls, boardFaults, holds, ticks>>

(* The loop of write() to a memory object has no break.                    *)
ObjectWritten(u) ==
    /\ AtAccess(u) /\ initiator # 0 /\ Current(u).op = "writeObject" /\ ~UnknownObject(u)
    /\ Executed(u)
    /\ IF LastTrial(u) THEN Returned(u, FALSE, <<>>) ELSE Again(u, 1, 0)
    /\ UNCHANGED <<handlerVars, boardCalls, boardFaults, holds, ticks>>

\* Faulty variant: after the last trial the handler just returns.
TimesOutSilently(u, executions) ==
    IF LastTrial(u)
    THEN \E answers \in NothingRead(u) : Returned(u, FALSE, answers)
    ELSE Again(u, executions, 1)

AccessTimesOut(u, executions) ==
    IF LastTrial(u) THEN CallThrows(u, "TimeOut") ELSE Again(u, executions, 1)

Fault(u) ==
    /\ AtAccess(u) /\ initiator # 0 /\ ~UnknownObject(u) /\ boardFaults < MaxBoardFaults
    /\ boardFaults' = boardFaults + 1
    /\ UNCHANGED <<handlerVars, boardCalls, holds, ticks>>
CommandLost(u) == Fault(u) /\ AccessTimesOut(u, 0) /\ UNCHANGED fpgaVars
ReplyLost(u) == Fault(u) /\ Executed(u) /\ AccessTimesOut(u, 1)
(* Only read() of a memory object catches the RMAPReplyException.           *)
Refused(u) ==
    /\ Fault(u)
    /\ CallThrows(u, IF Current(u).op = "readObject" THEN "LowerException" ELSE "RMAPReplyException")
    /\ UNCHANGED fpgaVars
(* The reply came, and emitTimecode() finds the link cut.                   *)
TimeCodeFails(u) == Fault(u) /\ Executed(u) /\ CallThrows(u, "SpaceWireIFException")

-----------------------------------------------------------------------------
(* The FPGA.  It stops channels, whose preset was reached, under the        *)
(* semaphore, and counts.                                                   *)
LogicTakes ==
    /\ semaphore = "free" /\ holds < MaxHolds
    /\ semaphore' = "logic" /\ holds' = holds + 1
    /\ UNCHANGED <<handlerVars, registers, startStop, running, boardOutcome, boardCalls,
                   boardFaults, ticks>>
LogicReleases ==
    /\ semaphore = "logic"
    /\ semaphore' = "free"
    /\ \E left \in SUBSET startStop : startStop' = left
    /\ UNCHANGED <<handlerVars, registers, running, boardOutcome, boardCalls, boardFaults,
                   holds, ticks>>
LivetimeTicks ==
    /\ ticks < MaxTicks
    /\ ticks' = ticks + 1
    /\ registers' = Overwritten(
          [r \in {<<"livetimeL", c>> : c \in startStop} \cup {<<"livetimeH", c>> : c \in startStop} |->
              (ValueOf(r) + IF r[1] = "livetimeL" \/ ValueOf(<<"livetimeL", r[2]>>) = AllOnes
                            THEN 1 ELSE 0) % HalfSpace])
    /\ UNCHANGED <<handlerVars, startStop, semaphore, running, boardOutcome, boardCalls,
                   boardFaults, holds>>

UserStep(u) ==
    \/ Connect(u) \/ Disconnect(u) \/ OpenSocket(u) \/ CloseSocket(u)
    \/ AccessWithoutDevice(u) \/ AccessAnswered(u) \/ ObjectWritten(u) \/ ObjectUnknown(u)
    \/ CommandLost(u) \/ ReplyLost(u) \/ Refused(u) \/ TimeCodeFails(u)
BoardNext ==
    \/ \E u \in Users : Begin(u) \/ UserStep(u)
    \/ LogicTakes \/ LogicReleases \/ LivetimeTicks
(* The threads run, and the FPGA does not keep the semaphore.               *)
BoardFairness == WF_boardVars(LogicReleases) /\ \A u \in Users : WF_boardVars(UserStep(u))
BoardSpec == BoardInit /\ [][BoardNext]_boardVars /\ BoardFairness

-----------------------------------------------------------------------------
(* Properties.                                                             *)

(* Every variable has values of its type.                                  *)
BoardTypeOK ==
    /\ made \in Nat /\ interface \in 0 .. made /\ initiator \in 0 .. made
    /\ engines \subseteq 1 .. made
    /\ eventSocket \in BOOLEAN
    /\ DOMAIN registers \subseteq Registers
    /\ \A r \in DOMAIN registers : registers[r] \in Contents(r)
    /\ startStop \subseteq Channels
    /\ semaphore \in {"free", "host", "logic"}
    /\ \A u \in Users : InCall(u) =>
          /\ running[u].at \in DOMAIN running[u].program
          /\ running[u].trial \in 0 .. MaxTrials - 1
    /\ \A u \in Users : boardOutcome[u].how = "runs" <=> InCall(u)

(* The engine and the initiator work on the interface that RMAPHandler has  *)
(* now: no thread is left on one that was deleted, whatever failed, if a    *)
(* device that was opened is closed before it is opened again.              *)
AccessesLiveInterface ==
    /\ engines \subseteq {interface}
    /\ initiator # 0 => initiator = interface

(* A method of the board that returned while the device was open has done   *)
(* everything it is made of: the registers hold what it wrote, through       *)
(* timeouts, repetitions and lost replies, no channel runs that it did not   *)
(* start, and when isAcquisitionCompleted() said that all channels are        *)
(* stopped none of them runs: a read that failed is never taken for zeros.   *)
OkMeansDone ==
    \A u \in Users : boardOutcome[u].how = "ok" /\ boardOutcome[u].connected =>
        /\ \A i \in DOMAIN Program(boardOutcome[u].call) :
              LET e == Program(boardOutcome[u].call)[i]
              IN  /\ e.op = "write" => \A r \in DOMAIN e.to : ValueOf(r) = e.to[r]
                  /\ e.op = "writeStartStop" => startStop \subseteq e.channels
        /\ boardOutcome[u].call.name = "isAcquisitionCompleted"
           /\ boardOutcome[u].answers = <<{}>> => startStop = {}

(* A register is accessed once more only after a timeout, so a set of a      *)
(* register reaches the board at most once more than replies were lost.      *)
RegisterAccessRepeatsOnlyAfterTimeout ==
    \A u \in Users : InCall(u) /\ Current(u).op \notin {"writeObject", "readObject"} =>
        running[u].executions <= running[u].timeouts

(* StartStopRegister changes only under the semaphore ("write the            *)
(* StartStopRegister (semaphore is needed)"): the host starts channels only   *)
(* while it has it, and never while the FPGA stops them.                      *)
StartStopUnderSemaphore ==
    [][startStop' # startStop =>
         /\ semaphore # "free"
         /\ ~(startStop' \subseteq startStop) => semaphore = "host"]_boardVars

(* A method that started or stopped the channels and returned has given the  *)
(* semaphore back; only one that an exception cut short may keep it.          *)
SemaphoreReturned ==
    semaphore = "host" =>
        \E u \in Users :
            \/ InCall(u)
            \/ boardOutcome[u].how \notin {"ok", "none", "runs"}
            \/ boardOutcome[u].call.name \notin {"openDevice", "startAcquisition", "stopAcquisition"}

(* Through timeouts, repetitions, reopening and lost replies the board is   *)
(* left as its methods promise: no engine works on a deleted interface, no   *)
(* access is repeated that was answered, and the semaphore is given back.    *)
BoardInv ==
    /\ BoardTypeOK /\ AccessesLiveInterface
    /\ RegisterAccessRepeatsOnlyAfterTimeout /\ SemaphoreReturned

(* Every method of the board returns or throws, the loops that wait for the  *)
(* semaphore included, as long as the FPGA gives it back.                    *)
EveryBoardCallReturns == \A u \in Users : InCall(u) ~> (~InCall(u) \/ Ended)
=============================================================================
