----------------------------- MODULE TradeSizing -----------------------------
(* One trading decision: ValueStrategy chooses and sizes a candidate from the *)
(* forecast, the two books and the portfolio; RiskEngine evaluates it; the    *)
(* venue then fills the signed order in pieces of any size at any price its   *)
(* limit allows, each with its own rounded fee.                               *)
EXTENDS TradeFees, Sequences, FiniteSets, SequencesExt

CONSTANTS
    Scenarios,     \* what a decision may start from, a set of records
    MinSize,       \* the larger minimum_order_size, in size units
    MaxOrder,      \* max_order_usd
    TradeCap,      \* bankroll * max_trade_risk_pct
    EventCap, BucketCap, GrossCap,  \* bankroll * the exposure percentages
    KellyNum, KellyDen,             \* bankroll * kelly_fraction
    UncertaintyReserve, \* in ticks per share
    MinEdge        \* min_edge, money per size unit

SizingAssumption ==
    /\ {MinSize, KellyDen} \subseteq Nat \ {0}
    /\ {MaxOrder, TradeCap, EventCap, BucketCap, GrossCap, KellyNum, UncertaintyReserve,
        MinEdge} \subseteq Nat
    /\ \A s \in Scenarios :
            {s.port.cash, s.port.event, s.port.unclassified, s.port.bucket, s.port.nobucket,
             s.port.gross} \subseteq Int

VARIABLES
    scene,      \* the forecast, books and portfolio of this decision
    stage,      \* "choose", "risk", "filling", "done"
    cand,       \* the chosen candidate, or None
    left,       \* size units of the signed order not yet filled
    spent,      \* what the fills of a BUY cost, fees included
    gained      \* what the fills of a SELL paid, fees subtracted

sizingVars == <<scene, stage, cand, left, spent, gained>>

None == [side |-> "none"]

(* TradeCandidate's field constraints *)
TradeCandidates ==
    [side : {"BUY", "SELL"}, exit : BOOLEAN, outcome : {"YES", "NO"}, limit : Price,
     size : Nat \ {0}, notional : Nat \ {0}, edge : Int]

Smallest(S) == CHOOSE x \in S : \A y \in S : x <= y

AtLeastZero(x) == IF x < 0 THEN 0 ELSE x

(* asks ascend and bids descend: the first level is the best one *)
Best(levels) == levels[1].k

-----------------------------------------------------------------------------
(* ValueStrategy *)

(* one level of _sweep_book: the new limit reprices every share taken so far *)
SweepLevel(budget, acc, level) ==
    LET most == QuantizeDown(budget \div MaximumBuyCost(1, level.k))
        take == QuantizeDown(Smallest({level.size, most - acc.size}))
    IN  IF acc.stop \/ take <= 0
        THEN [acc EXCEPT !.stop = TRUE]
        ELSE [size |-> acc.size + take, base |-> acc.base + take * PriceOf(level.k),
              fee |-> acc.fee + take * EstimatedFee(level.k), limit |-> level.k,
              stop |-> acc.size + take >= most]

Untouched == [size |-> 0, base |-> 0, fee |-> 0, limit |-> 0, stop |-> FALSE]

SweepBook(asks, budget) ==
    FoldLeft(LAMBDA acc, level : SweepLevel(budget, acc, level), Untouched, asks)

KellyBudget(p, k) == (KellyNum * (p - k)) \div (KellyDen * (Ticks - k))

(* the exposure room of the bucket leaves the unclassified bucket out *)
Budget(p, k, port) ==
    Smallest({MaxOrder, TradeCap, port.cash, KellyBudget(p, k),
              AtLeastZero(EventCap - port.event - port.unclassified),
              AtLeastZero(BucketCap - port.bucket),
              AtLeastZero(GrossCap - port.gross)})

(* _buy_candidate: below the conservative probability p, sized by the budget *)
BuyCandidates(asks, p, port, outcome) ==
    IF asks = << >> \/ p <= Best(asks) \/ Budget(p, Best(asks), port) <= 0
    THEN {}
    ELSE LET budget == Budget(p, Best(asks), port)
             sweep  == SweepBook(asks, budget)
             edge   == sweep.size * PriceOf(p - UncertaintyReserve) - sweep.base - sweep.fee
         IN  IF \/ sweep.size < MinSize \/ sweep.size = 0
                \/ edge <= 0 \/ MaximumBuyCost(sweep.size, sweep.limit) > budget
             THEN {}
             ELSE {[side |-> "BUY", exit |-> FALSE, outcome |-> outcome,
                    limit |-> sweep.limit, size |-> sweep.size,
                    notional |-> sweep.base + sweep.fee, edge |-> edge]}

SellLevel(cap, acc, level) ==
    LET take == Smallest({level.size, cap - acc.size})
    IN  IF take <= 0 THEN acc
        ELSE [size |-> acc.size + take, base |-> acc.base + take * PriceOf(level.k),
              fee |-> acc.fee + take * EstimatedFee(level.k), limit |-> level.k,
              stop |-> FALSE]

(* The order part of what was swept: proceeds and fee of the sub-step         *)
(* remainder are scaled away.                                                 *)
SweptBids(bids, position) ==
    LET cap   == QuantizeDown(Smallest({position, MaxOrder \div PriceOf(Best(bids))}))
        sweep == FoldLeft(LAMBDA acc, level : SellLevel(cap, acc, level), Untouched, bids)
        size  == QuantizeDown(sweep.size)
    IN  IF cap < MinSize \/ size < MinSize \/ sweep.size = 0
        THEN Untouched
        ELSE [sweep EXCEPT !.size = size,
                           !.base = (@ * size) \div sweep.size,
                           !.fee = (@ * size) \div sweep.size]

SellCandidate(sweep, outcome, exit, edge) ==
    [side |-> "SELL", exit |-> exit, outcome |-> outcome, limit |-> sweep.limit,
     size |-> sweep.size, notional |-> sweep.base - sweep.fee, edge |-> edge]

(* _sell_candidate: above the conservative upper bound p *)
SellCandidates(bids, p, position, outcome) ==
    IF position <= 0 \/ bids = << >> \/ Best(bids) <= p
    THEN {}
    ELSE LET sweep == SweptBids(bids, position)
             edge  == sweep.base - sweep.fee - sweep.size * PriceOf(p + UncertaintyReserve)
         IN  IF sweep.size = 0 \/ edge <= 0 THEN {}
             ELSE {SellCandidate(sweep, outcome, FALSE, edge)}

(* _risk_exit_candidate: no forecast, no edge *)
ExitCandidates(bids, position, outcome) ==
    IF position <= 0 \/ bids = << >>
    THEN {}
    ELSE LET sweep == SweptBids(bids, position)
         IN  IF sweep.size = 0 \/ sweep.base <= sweep.fee THEN {}
             ELSE {SellCandidate(sweep, outcome, TRUE, 0)}

(* max(): the YES candidate is listed first and wins a tie *)
BestOf(S, Better(_, _)) ==
    IF S = {} THEN None
    ELSE CHOOSE c \in S : \A d \in S : ~ Better(d, c) /\ (c.outcome = "NO" => d = c \/ Better(c, d))

(* edges are compared per share *)
ByEdge(c, d) == c.edge * d.size > d.edge * c.size

ByNotional(c, d) == c.notional > d.notional

ChooseRiskExit(s) ==
    IF ~ s.breached THEN None
    ELSE BestOf(ExitCandidates(s.yes.bids, s.port.yes, "YES")
                    \union ExitCandidates(s.no.bids, s.port.no, "NO"), ByNotional)

ChooseValue(s) ==
    LET exits   == SellCandidates(s.yes.bids, s.high, s.port.yes, "YES")
                    \union SellCandidates(s.no.bids, Ticks - s.low, s.port.no, "NO")
        entries == BuyCandidates(s.yes.asks, s.low, s.port, "YES")
                    \union BuyCandidates(s.no.asks, Ticks - s.high, s.port, "NO")
    IN  IF ~ s.confident THEN None
        ELSE IF exits # {} THEN BestOf(exits, ByEdge)
        ELSE BestOf(entries, ByEdge)

(* the risk exit is tried before the forecast; a None ends the market's turn  *)
Chosen(s) == IF ChooseRiskExit(s) # None THEN ChooseRiskExit(s) ELSE ChooseValue(s)

-----------------------------------------------------------------------------
(* RiskEngine.evaluate_candidate: the codes it appends *)

Commitment(c) == IF c.side = "BUY" THEN MaximumBuyCost(c.size, c.limit) ELSE c.notional

SharesHeld(s, c) == IF c.outcome = "YES" THEN s.port.yes ELSE s.port.no

BookOf(s, c) == IF c.outcome = "YES" THEN s.yes ELSE s.no

AllCodes == {"screen", "edge", "order_cap", "minimum", "cash", "trade_risk", "event",
             "bucket", "gross", "loss", "limit", "position"}

(* "screen" stands for the market's own conditions: not tradeable, illiquid,  *)
(* a stale book, no fee schedule, too close to its end.                       *)
Refuses(s, c, code) ==
    LET cost == Commitment(c)
        port == s.port
        buy  == c.side = "BUY"
    IN  CASE code = "screen"     -> s.screened
          [] code = "edge"       -> ~ c.exit /\ c.edge < c.size * MinEdge
          [] code = "order_cap"  -> cost > MaxOrder
          [] code = "minimum"    -> c.size < MinSize
          [] code = "cash"       -> buy /\ cost > port.cash
          [] code = "trade_risk" -> buy /\ cost > TradeCap
          [] code = "event"      -> buy /\ port.event + port.unclassified + cost > EventCap
          [] code = "bucket"     -> buy /\ port.bucket + port.nobucket + cost > BucketCap
          [] code = "gross"      -> buy /\ port.gross + cost > GrossCap
          [] code = "loss"       -> buy /\ s.breached
          [] code = "limit"      -> IF buy THEN c.limit < Best(BookOf(s, c).asks)
                                    ELSE c.limit > Best(BookOf(s, c).bids)
          [] code = "position"   -> ~ buy /\ c.size > SharesHeld(s, c)

CodesWithoutBucket(s, c) == {code \in AllCodes \ {"bucket"} : Refuses(s, c, code)}

Codes(s, c) == {code \in AllCodes : Refuses(s, c, code)}

-----------------------------------------------------------------------------
SizingInit ==
    /\ scene \in Scenarios
    /\ stage = "choose"
    /\ cand = None
    /\ left = 0
    /\ spent = 0
    /\ gained = 0

(* choose_risk_exit and choose; a candidate passes TradeCandidate's checks *)
Choose ==
    /\ stage = "choose"
    /\ IF Chosen(scene) = None
       THEN stage' = "done" /\ UNCHANGED cand
       ELSE /\ Chosen(scene) \in TradeCandidates
            /\ cand' = Chosen(scene)
            /\ stage' = "risk"
    /\ UNCHANGED <<scene, left, spent, gained>>

Evaluate ==
    /\ stage = "risk"
    /\ IF Codes(scene, cand) = {}
       THEN stage' = "filling" /\ left' = cand.size
       ELSE stage' = "done" /\ UNCHANGED left
    /\ UNCHANGED <<scene, cand, spent, gained>>

(* the venue fills n units at price k, in the order's favour of its limit *)
Fill(n, k) ==
    /\ stage = "filling"
    /\ n \in 1..left
    /\ IF cand.side = "BUY"
       THEN /\ k <= cand.limit
            /\ spent' = spent + n * PriceOf(k) + MatchedFee(n, k)
            /\ UNCHANGED gained
       ELSE /\ k >= cand.limit
            /\ gained' = gained + n * PriceOf(k) - MatchedFee(n, k)
            /\ UNCHANGED spent
    /\ left' = left - n
    /\ UNCHANGED <<scene, stage, cand>>

(* the order is filled, cancelled or left to rest *)
Stop ==
    /\ stage = "filling"
    /\ stage' = "done"
    /\ UNCHANGED <<scene, cand, left, spent, gained>>

SizingNext ==
    \/ Choose
    \/ Evaluate
    \/ \E n \in 1..left, k \in Price : Fill(n, k)
    \/ Stop

SizingSpec == SizingInit /\ [][SizingNext]_sizingVars

-----------------------------------------------------------------------------
(* Properties *)

SizingTypeOK ==
    /\ stage \in {"choose", "risk", "filling", "done"}
    /\ cand = None \/ cand \in TradeCandidates
    /\ left \in Nat
    /\ spent \in Nat
    /\ gained \in Int

(* A signed BUY never costs more than its commitment, whatever prices and     *)
(* pieces it fills in and however the venue rounds each fee                   *)
(* (maximum_buy_cost).                                                        *)
FillsWithinCommitment ==
    cand.side = "BUY" => spent <= MaximumBuyCost(cand.size, cand.limit)

(* Whatever the fills, an approved BUY leaves cash and every exposure inside  *)
(* the limits, the unclassified exposure counted on top (evaluate_candidate). *)
CapsHoldAfterFills ==
    cand.side = "BUY" /\ spent > 0 =>
        /\ spent <= scene.port.cash
        /\ spent <= MaxOrder /\ spent <= TradeCap
        /\ scene.port.event + scene.port.unclassified + spent <= EventCap
        /\ scene.port.bucket + scene.port.nobucket + spent <= BucketCap
        /\ scene.port.gross + spent <= GrossCap

=============================================================================
