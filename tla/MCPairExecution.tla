--------------------------- MODULE MCPairExecution ---------------------------
(* TLC instances of PairExecution.  The calls of process_deadline are         *)
(* interchangeable.                                                           *)
EXTENDS PairExecution, TLC

CallSymmetry == Permutations(Runner)
=============================================================================
