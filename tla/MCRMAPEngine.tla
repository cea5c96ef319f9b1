---------------------------- MODULE MCRMAPEngine ----------------------------
(* Constants of the TLC run of RMAPEngine.                                 *)
EXTENDS RMAPEngine

CONSTANTS i1, i2

Both      == {i1, i2}
NoManual  == {}
EmptyFunction == <<>>
BlockingOps == {"read", "write", "writeNoReply"}
LossOnly  == {"loss"}
Ok == {"ok"}
=============================================================================
