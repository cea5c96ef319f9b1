---------------------------- MODULE MCSpaceWireR ----------------------------
(* Constants of the TLC runs of SpaceWireR.                                *)
EXTENDS SpaceWireR

TwoMessages   == <<2, 1>>
Nothing       == {}
Zero          == {0}
FourSegments  == <<2, 2>>
NineSegments  == <<5, 4>>
AllButClose   == {"Open", "Data", "ControlAck", "DataAck"}
DataAndAck    == {"Data", "DataAck"}
LateAcks      == {"lateAck"}
=============================================================================
