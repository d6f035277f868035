--------------------------- MODULE MCDeviceRecords ---------------------------
(***************************************************************************)
(* The device records alone, for what a test of the repository says of     *)
(* them.                                                                   *)
(***************************************************************************)
EXTENDS DeviceRecords

MCParams == {<<>>, [p |-> "1"]}

MCSpec == Init /\ [][Next]_recordVars
=============================================================================
