---------------------------- MODULE MCInterfaces ----------------------------
(***************************************************************************)
(* One model for TLC of two parts that use a SpaceWire interface: SSDTP    *)
(* framing, and the life of an RMAPEngine and its interface.  A behaviour  *)
(* is a behaviour of one of them, `component`; the other keeps its initial *)
(* state.                                                                  *)
(***************************************************************************)
EXTENDS SSDTP, RMAPEngineLife, TLC

VARIABLE component

allVars == <<component, ssdtpVars, lifeVars>>

InterfacesInit ==
    /\ component \in {"ssdtp", "life"}
    /\ SSDTPInit /\ LifeInit
    /\ component # "life" => hasStopped /\ style.closesOnStop

InterfacesNext ==
    /\ UNCHANGED component
    /\ \/ component = "ssdtp" /\ SSDTPNext /\ UNCHANGED lifeVars
       \/ component = "life" /\ LifeNext /\ UNCHANGED ssdtpVars

(* SSDTPFairness and LifeFairness, each for its own behaviours.             *)
InterfacesFairness ==
    /\ \A s \in Senders : WF_ssdtpVars(component = "ssdtp" /\ SendGoesOn(s))
    /\ \A r \in Receivers :
          /\ WF_ssdtpVars(component = "ssdtp" /\ ReceiveStep(r))
          /\ SF_ssdtpVars(component = "ssdtp" /\ ReadStep(r))
    /\ WF_lifeVars(component = "life" /\ EngineStep)
    /\ \A t \in Apps : WF_lifeVars(component = "life" /\ CloseStep(t))

InterfacesSpec == InterfacesInit /\ [][InterfacesNext]_allVars /\ InterfacesFairness

-----------------------------------------------------------------------------
(* SSDTP: two senders, one of them may break a packet into fragments.       *)
Frames ==
    {[call |-> "vector", data |-> <<1, 2>>, eop |-> "EOP"],
     [call |-> "reference", data |-> <<>>, eop |-> "EOP"],
     [call |-> "pointer", data |-> <<3>>, eop |-> "Continued"],
     [call |-> "timecode", code |-> 9]}

(* RMAP engine: an interface whose stop action closes it, and one without.  *)
BothStyles == {[closesOnStop |-> c, patient |-> TRUE] : c \in BOOLEAN}
TwoTargets == <<<<[range |-> RangeByLength(2, 4), action |-> "a"]>>,
                <<[range |-> RangeByLength(4, 8), action |-> "b"]>>>>
SomeCommands == {[address |-> 2, length |-> 4], [address |-> 5, length |-> 7],
                 [address |-> 15, length |-> 3], [address |-> 4, length |-> 0]}

(* What the theorems about the engine's life ask of an instance.            *)
ASSUME LifeHypotheses == OnePatientThread /\ RangesLeaveRoom
=============================================================================
