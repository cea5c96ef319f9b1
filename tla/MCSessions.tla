----------------------------- MODULE MCSessions -----------------------------
(***************************************************************************)
(* Four settings of SpaceWireR in one model for TLC.  "timely": two losses *)
(* and no delays.  "beats": heart beats among the data.  "close": close()  *)
(* with a lost command or acknowledgement and every delay.  "flow": flow   *)
(* control and close().  `setting` is chosen at the start.                 *)
(***************************************************************************)
EXTENDS Integers, Sequences

VARIABLES tpc, message, segment, opens, tstate, sn, outstanding, slots, sent, acked, retries,
          from, masn, masnLapped, openAcked, closeAcked, ackInHand, beats, beatDue, consuming,
          rpc, rstate, rbuffer, rfrom, hasReceivedDataPacket, current, received, delivered,
          released, toR, toT, losses,
          setting

Timely == INSTANCE SpaceWireR
    WITH M <- 4, K <- 2, Messages <- <<2, 3, 1>>, MaxRetries <- 3, FlowControl <- FALSE,
         InitialMASN <- {0}, InitialFlags <- {FALSE}, AppCloses <- FALSE, MaxOpens <- 1,
         MaxHeartBeats <- 0, MaxLosses <- 2, LossyTypes <- {"Open", "Data", "DataAck"},
         Delays <- {}
Beats == INSTANCE SpaceWireR
    WITH M <- 8, K <- 3, Messages <- <<3, 1>>, MaxRetries <- 2, FlowControl <- FALSE,
         InitialMASN <- {0}, InitialFlags <- {FALSE}, AppCloses <- FALSE, MaxOpens <- 1,
         MaxHeartBeats <- 2, MaxLosses <- 1, LossyTypes <- {"Open", "Data", "DataAck"},
         Delays <- {}
Closes == INSTANCE SpaceWireR
    WITH M <- 4, K <- 2, Messages <- <<2>>, MaxRetries <- 1, FlowControl <- FALSE,
         InitialMASN <- {0}, InitialFlags <- {FALSE}, AppCloses <- TRUE, MaxOpens <- 2,
         MaxHeartBeats <- 0, MaxLosses <- 1, LossyTypes <- {"Close", "ControlAck"},
         Delays <- {"lateAck", "earlyWake", "slowMark", "sendTimeout"}
Flow == INSTANCE SpaceWireR
    WITH M <- 8, K <- 3, Messages <- <<2, 3, 1>>, MaxRetries <- 2, FlowControl <- TRUE,
         InitialMASN <- {0}, InitialFlags <- {FALSE}, AppCloses <- TRUE, MaxOpens <- 2,
         MaxHeartBeats <- 0, MaxLosses <- 1, LossyTypes <- {"Open", "Close"},
         Delays <- {}

sessionVars == Timely!vars
allVars == <<setting, sessionVars>>

SessionsInit ==
    \/ setting = "timely" /\ Timely!Init
    \/ setting = "beats" /\ Beats!Init
    \/ setting = "close" /\ Closes!Init
    \/ setting = "flow" /\ Flow!Init

SessionsNext ==
    /\ UNCHANGED setting
    /\ \/ setting = "timely" /\ Timely!Next
       \/ setting = "beats" /\ Beats!Next
       \/ setting = "close" /\ Closes!Next
       \/ setting = "flow" /\ Flow!Next

In(timely, beating, closing, flowing) ==
    \/ setting = "timely" /\ timely
    \/ setting = "beats" /\ beating
    \/ setting = "close" /\ closing
    \/ setting = "flow" /\ flowing

(* The fairness of SpaceWireR!FairSpec.                                     *)
SessionsSpec ==
    /\ SessionsInit /\ [][SessionsNext]_allVars
    /\ WF_sessionVars(In(Timely!CallStep, Beats!CallStep, Closes!CallStep, Flow!CallStep))
    /\ WF_sessionVars(In(Timely!TransmitterRun, Beats!TransmitterRun,
                         Closes!TransmitterRun, Flow!TransmitterRun))
    /\ WF_sessionVars(In(Timely!ReceiverRun, Beats!ReceiverRun,
                         Closes!ReceiverRun, Flow!ReceiverRun))

-----------------------------------------------------------------------------
(* The properties of SpaceWireR, each in the settings it is meant for.      *)

(* nOfOutstandingPackets is exact, with heart beats in between too.         *)
OutstandingExact ==
    /\ setting = "timely" => Timely!OutstandingExact
    /\ setting = "beats" => Beats!OutstandingExact

(* Without delays, no loss makes the transmitter or the receiver declare a  *)
(* malfunction; a heart beat can end the program between the two halves of  *)
(* processAckPacket(), while the window is still full.                      *)
NeitherEndGivesUp ==
    [][/\ setting = "timely" => Timely!GivesUpOnlyForHeartBeat
       /\ setting = "beats" => Beats!GivesUpOnlyForHeartBeat]_allVars

(* send() returns when the receiver has every segment of the message.       *)
SendReturnsReceived ==
    [][/\ setting = "timely" => Timely!ReturnsWhenReceived
       /\ setting = "beats" => Beats!ReturnsWhenReceived]_allVars

(* send() comes to its end with the channel still open.                     *)
SendCompletes == setting # "close" => Timely!SendCompletes

(* Every call returns or gives the channel up; and close(), though one      *)
(* command is lost, brings an open receiver to its end.                     *)
CallsEnd ==
    /\ setting = "close" => Closes!EveryCallEnds
    /\ setting = "flow" => Flow!CloseReachesReceiver

(* What the theorems about the channel ask of an instance.                  *)
ASSUME ChannelHypotheses == Timely!PlainChannel
=============================================================================
