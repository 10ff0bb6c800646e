-------------------------- MODULE MCLiveExecution --------------------------
(* Instances of LiveExecution for TLC. *)
EXTENDS LiveExecution, TLC

(* Workers are told apart only by Trader, intents by nothing. *)
Symmetry == Permutations(Trader) \cup Permutations(Worker \ Trader)
                \cup Permutations(Intent)

AnyDisturbance == {"leaseLapse", "armLapse", "pause", "halt",
                   "engineStop", "watchFail", "stop", "crash"}
=============================================================================
