--------------------------- MODULE MCCycleRequests ---------------------------
(* Instance of CycleRequests for TLC: one handler of each kind beside the   *)
(* worker, and two keys.                                                    *)
EXTENDS CycleRequests
=============================================================================
