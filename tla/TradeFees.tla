------------------------------ MODULE TradeFees ------------------------------
(* fees.py in integers.  A price is k of 1..Ticks-1 (k/Ticks dollars a        *)
(* share).  Sizes count units of which SizeStep make one order step (0.01     *)
(* share); fills may be of any number of units.  Money counts the unit in     *)
(* which a size unit at price k and the fee on it, rate * (p(1-p))^exponent,  *)
(* are integers.                                                              *)
EXTENDS Integers

CONSTANTS
    Ticks,        \* prices divide a dollar into Ticks, an even number
    SizeStep,     \* size units of one order step
    FeesEnabled,  \* market.fees_enabled
    RateNum, RateDen,  \* market.fee_rate
    Exponent,     \* market.fee_exponent, 1 or 2
    FeeQuantum    \* 0.00001 dollars, to which a matched fee is rounded

FeeAssumption ==
    /\ Ticks \in Nat /\ Ticks >= 2 /\ Ticks % 2 = 0
    /\ SizeStep \in Nat \ {0}
    /\ FeesEnabled \in BOOLEAN
    /\ RateNum \in Nat /\ RateDen \in Nat \ {0}
    /\ Exponent \in {1, 2}
    /\ FeeQuantum \in Nat \ {0}

Price == 1..(Ticks - 1)

(* what one size unit costs at price k *)
PriceOf(k) == k * (Ticks * Ticks * Ticks * RateDen)

(* k/Ticks * (1 - k/Ticks), over Ticks^2 *)
Spread(k) == k * (Ticks - k)

EstimatedFee(k) ==
    IF ~ FeesEnabled THEN 0
    ELSE IF Exponent = 1 THEN RateNum * Spread(k) * (Ticks * Ticks)
    ELSE RateNum * Spread(k) * Spread(k)

QuantizeDown(size) == SizeStep * (size \div SizeStep)

HalfOrLess(k) == IF 2 * k <= Ticks THEN k ELSE Ticks \div 2

MaximumBuyCostOnce(size, k) == size * (PriceOf(k) + EstimatedFee(HalfOrLess(k)))

MaximumBuyCost(size, k) == size * (PriceOf(k) + 2 * EstimatedFee(HalfOrLess(k)))

RoundHalfUp(raw) == FeeQuantum * ((2 * raw + FeeQuantum) \div (2 * FeeQuantum))

(* matched_taker_fee_usd, the fee the account's trades report, of a taker *)
MatchedFee(size, k) ==
    IF ~ FeesEnabled THEN 0
    ELSE RoundHalfUp(size * (RateNum * Spread(k) * (Ticks * Ticks)))
=============================================================================
