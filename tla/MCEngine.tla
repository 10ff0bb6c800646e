------------------------------- MODULE MCEngine ------------------------------
(* The decisions of the engine for TLC, in parts: the AI budget of the      *)
(* personal worker's cycles and of a tenant's job, the sizing of an order,  *)
(* the curve that corrects a forecast, and the scoring of forecasts.  A     *)
(* behaviour stays in the part it starts in.                                *)
EXTENDS ForecastCycle, TradeSizing, ForecastScoring

CONSTANTS m1, m2

VARIABLES part

orderVars == <<scene, stage, cand, left, spent, gained>>
allVars == <<part, vars, orderVars, scoringVars>>

-----------------------------------------------------------------------------
(* The instances *)

JobBudget == INSTANCE ForecastCycle
    WITH Tenant <- TRUE, Held <- {}, Filtered <- {}, Limits <- {3, 4}, DefaultLimit <- 4,
         Faults <- {"provider", "crash"}

(* Scenes around the cost of four size units at half a dollar. *)
Level(k, size) == [k |-> k, size |-> size]

Asks == {<< >>, <<Level(1, 2), Level(2, 3)>>, <<Level(2, 4), Level(3, 4)>>}

YesBooks ==
    [asks : Asks, bids : {<< >>, <<Level(3, 3), Level(2, 2)>>}]
        \union {[asks |-> <<Level(1, 8)>>, bids |-> <<Level(2, 5)>>]}

NoBooks ==
    {[asks |-> << >>, bids |-> << >>],
     [asks |-> <<Level(1, 3), Level(3, 2)>>, bids |-> <<Level(2, 3), Level(1, 2)>>]}

Portfolios ==
    [cash : {1500, 4000}, event : {0, 1700}, unclassified : {0, 900}, bucket : {700},
     nobucket : {0, 1200}, gross : {1000}, yes : {0, 3}, no : {0, 4}]

Scenes ==
    {[yes |-> y, no |-> n, port |-> p, low |-> f[1], high |-> f[2],
      confident |-> g[1], breached |-> g[2], screened |-> g[3]] :
        y \in YesBooks, n \in NoBooks, p \in Portfolios,
        f \in {<<3, 3>>, <<2, 3>>, <<0, 1>>, <<1, 2>>},
        g \in {<<TRUE, FALSE, FALSE>>, <<TRUE, TRUE, FALSE>>, <<TRUE, FALSE, TRUE>>,
               <<FALSE, FALSE, FALSE>>}}

(* Passes on a coarse grid of eighths, one with a wide interval. *)
ThreePasses ==
    {[p |-> 1, low |-> 1, high |-> 2, confidence |-> 8],
     [p |-> 4, low |-> 3, high |-> 4, confidence |-> 4],
     [p |-> 7, low |-> 5, high |-> 8, confidence |-> 8]}

BothMarkets == {m1, m2}

InThisOrder == <<m1, m2>>

(* Smaller ledgers, and faults. *)
Scoring == INSTANCE ForecastScoring
    WITH Passes <- {pass \in ThreePasses : pass.p # 4}, BinCount <- 2, MinTotal <- 1,
         MaxForecasts <- 2, MaxFaults <- 2, RowLimit <- 2

ASSUME JobBudget!ForecastAssumption
ASSUME FeeAssumption /\ SizingAssumption
ASSUME CurveAssumption /\ ScoringAssumption
ASSUME Scoring!CurveAssumption /\ Scoring!ScoringAssumption

-----------------------------------------------------------------------------
NoOrder ==
    /\ scene = [low |-> 0] /\ stage = "done" /\ cand = None
    /\ left = 0 /\ spent = 0 /\ gained = 0

MCInit ==
    /\ ScoringInit
    /\ \/ part = "sizing" /\ SizingInit /\ Init
       \/ part \in {"budget", "correction", "scoring"} /\ NoOrder /\ Init
       \/ part = "job" /\ NoOrder /\ JobBudget!Init

In(p, A, others) == part = p /\ A /\ UNCHANGED <<part, others>>

MCNext ==
    \/ In("budget", Next, <<orderVars, scoringVars>>)
    \/ In("job", JobBudget!Next, <<orderVars, scoringVars>>)
    \/ In("sizing", SizingNext, <<vars, scoringVars>>)
    \/ In("correction", ScoringNext, <<vars, orderVars>>)
    \/ In("scoring", Scoring!ScoringNext, <<vars, orderVars>>)

MCSpec == MCInit /\ [][MCNext]_allVars
=============================================================================
