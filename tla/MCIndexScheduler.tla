--------------------------- MODULE MCIndexScheduler ---------------------------
(***************************************************************************)
(* Instances of IndexScheduler for TLC.                                    *)
(***************************************************************************)
EXTENDS IndexScheduler

AllFaults == FaultKinds
NoFaults == {}
=============================================================================
