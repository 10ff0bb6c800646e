----------------------------- MODULE MCPersonal -----------------------------
(* A personal deployment for TLC, in three parts: the account gate of the    *)
(* store that runs without a database, the switch between simulated and      *)
(* real-money trading, and the paper account.  A behaviour stays in the part *)
(* it starts in.                                                             *)
EXTENDS MemoryGate, ModeSwitch, PaperAccount

CONSTANTS p1, p2, t1, t2, e1, e2

VARIABLE part

allVars == <<part, mvars, vars, pvars>>

ASSUME ModeAssumption /\ PaperAssumption

-----------------------------------------------------------------------------
(* The instances: one policy asks for less than canary mode allows, one for  *)
(* more than the deployment does; each token is an event of its own.         *)
Asked == [p \in {p1, p2} |-> IF p = p1 THEN 3 ELSE 9]

OneEach == [t \in {t1, t2} |-> IF t = t1 THEN e1 ELSE e2]

-----------------------------------------------------------------------------
MCInit == part \in {"memory", "mode", "paper"} /\ MInit /\ Init /\ PInit

In(p, A, others) == part = p /\ A /\ UNCHANGED <<part, others>>

MCNext ==
    \/ In("memory", MNext, <<vars, pvars>>)
    \/ In("mode", Next, <<mvars, pvars>>)
    \/ In("paper", PNext, <<mvars, vars>>)

MCSpec == MCInit /\ [][MCNext]_allVars
=============================================================================
