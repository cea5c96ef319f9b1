------------------------------ MODULE MCDevices ------------------------------
(***************************************************************************)
(* One model for TLC of the devices: a router's configuration port, a      *)
(* SpaceFibreADC board, the board's event data, and the SpacePi board.  A  *)
(* behaviour is a behaviour of one of them, `component`; the others keep   *)
(* their initial state.                                                    *)
(***************************************************************************)
EXTENDS RouterConfigurationPort, SpaceFibreADCBoard, EventReadout, SpacePi, TLC

VARIABLE component

allVars == <<component, routerVars, boardVars, eventVars, spiVars>>

DevicesInit ==
    /\ component \in {"router", "board", "events", "spi"}
    /\ RouterInit /\ BoardInit /\ EventInit /\ SpiInit
    /\ component # "router" => attached = {}

DevicesNext ==
    /\ UNCHANGED component
    /\ \/ component = "router" /\ RouterNext /\ UNCHANGED <<boardVars, eventVars, spiVars>>
       \/ component = "board" /\ BoardNext /\ UNCHANGED <<routerVars, eventVars, spiVars>>
       \/ component = "events" /\ EventNext /\ UNCHANGED <<routerVars, boardVars, spiVars>>
       \/ component = "spi" /\ SpiNext /\ UNCHANGED <<routerVars, boardVars, eventVars>>

(* The fairness of each component, for its own behaviours.                  *)
DevicesFairness ==
    /\ WF_boardVars(component = "board" /\ LogicReleases)
    /\ \A u \in Users : WF_boardVars(component = "board" /\ UserStep(u))
    /\ WF_eventVars(component = "events" /\ GetEvent)
    /\ WF_eventVars(component = "events" /\ GetOneMore)
    /\ \A t \in Writers : WF_spiVars(component = "spi" /\ SendSpiStep(t))
    /\ WF_spiVars(component = "spi" /\ ReceiveSpiStep(Reader))

DevicesSpec == DevicesInit /\ [][DevicesNext]_allVars /\ DevicesFairness

-----------------------------------------------------------------------------
(* Properties *)

(* A call at a device comes back: one at the board, whatever the transport  *)
(* loses and while the FPGA has the semaphore, until too many were lost;    *)
(* one at the SpacePi board, until a send() kept the mutex.                 *)
DeviceCallsReturn == EveryBoardCallReturns /\ SpiCallsReturn

-----------------------------------------------------------------------------
(* Router: two programs, each making one call.                              *)
Ask(o, p, a) == [op |-> o, port |-> p, arg |-> a]
RouterRequests ==
    {Ask(o, 1, 0) : o \in CSRSetters \ {"setLinkFrequency"}}
    \cup {Ask("setLinkFrequency", 1, f) : f \in {125, 20, 30}}
    \cup {Ask("setLinkStart", 7, 0), Ask("writeRoutingTable", 32, {1, 6}),
          Ask("writeRoutingTable", 34, {2, 9}), Ask("readRoutingTable", 32, 0),
          Ask("readWholeRoutingTable", 32, 0)}
TwoClients == {"c1", "c2"}
ThreeRows == {32, 33, 34}
OneWord == {{17, 18, 24, 25, 29}}

(* Board: one program that makes any two calls.                             *)
Plain(name, value) == [name |-> name, value |-> value]
On(name, channel, value) == [name |-> name, channel |-> channel, value |-> value]
BoardUse == [u \in {"u1"} |->
    {Plain(n, 0) : n \in {"openDevice", "closeDevice", "reset", "stopAcquisition",
                          "isAcquisitionCompleted", "getHouseKeepingData"}}
    \cup {Plain(n, 1) : n \in {"setPresetMode", "setAdcClock", "getTriggerMode", "getStatus",
                               "getTriggerCount", "setadcClockCounter"}}
    \cup {Plain(n, 2) : n \in {"setNumberOfSamples", "setPresetLivetime", "setPresetnEvents"}}
    \cup {Plain("startAcquisition", c) : c \in {{0}, {0, 1}}}
    \cup {Plain(n, object) : n \in {"writeObject", "readObject"}, object \in {"table", "unknown"}}
    \cup {On(n, 1, 1) : n \in {"setTriggerMode", "setStartingThreshold", "setClosingThreshold",
                               "getLivetime", "getCurrentADCValue", "turnOnADCPower",
                               "turnOffADCPower", "sendCPUTrigger"}}
    \cup {On("sendCPUTrigger", 2, 0), On("setTriggerMode", 2, 0), On("setDepthOfDelay", 0, 5),
          On("setTriggerBusMask", 0, {0, 1})}]

(* Events with a waveform that fits and one that differs in every field.    *)
TwoKinds == {[ch |-> 1, timeTag |-> 27, phaMax |-> 3, triggerCount |-> 0, waveform |-> <<1, 2>>],
             [ch |-> 2, timeTag |-> 8, phaMax |-> 0, triggerCount |-> 0, waveform |-> <<3>>]}

(* What the theorems about these modules suppose of the constants holds of  *)
(* these.                                                                   *)
ASSUME DeviceHypotheses ==
    /\ DividersFit /\ PortsFit
    /\ OneUser /\ ~RetriesOpen
    /\ OpensWhenQuiet /\ ClosesBetweenEvents

(* SpacePi: a thread that sends twice, one that sends once, one that reads. *)
CallsOfThreads == ("w1" :> 2) @@ ("w2" :> 1) @@ ("reader" :> 2)
=============================================================================
