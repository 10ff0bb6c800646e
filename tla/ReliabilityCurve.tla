-------------------------- MODULE ReliabilityCurve --------------------------
(* The reliability curve of ai/calibration.py as operators on a ledger of     *)
(* resolved forecasts, and the two-pass aggregation of ai/graph.py that reads *)
(* it.  A probability is an integer of 0..Unit, Unit for one; a quotient is a *)
(* fraction <<numerator, denominator>> of that scale with a positive          *)
(* denominator, compared by cross multiplication, so no rounding happens      *)
(* except the one quantize call of the code.                                  *)
EXTENDS Integers, Sequences, FiniteSets, FiniteSetsExt, SequencesExt

CONSTANTS
    Unit,        \* probability one
    Quantum,     \* calibrated estimates are multiples of Quantum (10^-6)
    BinCount,    \* performance.BIN_COUNT
    MinTotal,    \* CalibrationConfig.min_total_samples
    MinBin,      \* CalibrationConfig.min_bin_samples
    Shrinkage,   \* CalibrationConfig.shrinkage_samples
    MaxShift     \* CalibrationConfig.max_absolute_shift, in units of 1/Unit

CurveAssumption ==
    /\ {Unit, Quantum, BinCount, MinTotal, MinBin, Shrinkage} \subseteq Nat \ {0}
    /\ MaxShift \in 0..Unit
    /\ Unit % Quantum = 0 /\ MaxShift % Quantum = 0 /\ Unit % 2 = 0

NoCurve == << >>

Probability == 0..Unit

Leq(a, b) == a[1] * b[2] <= b[1] * a[2]

Less(a, b) == ~ Leq(b, a)

Larger(a, b) == IF Leq(a, b) THEN b ELSE a

Smaller(a, b) == IF Leq(a, b) THEN a ELSE b

Plus(a, b) == <<a[1] * b[2] + b[1] * a[2], a[2] * b[2]>>

Minus(a, b) == <<a[1] * b[2] - b[1] * a[2], a[2] * b[2]>>

Times(a, b) == <<a[1] * b[1], a[2] * b[2]>>

Over(a, b) == <<a[1] * b[2], a[2] * b[1]>>

Chance(p) == <<p, 1>>

-----------------------------------------------------------------------------
(* performance.py: rows are [p, yes]; the bins are half open, the last closed *)

InBin(p, i) ==
    /\ (i - 1) * Unit <= p * BinCount
    /\ \/ p * BinCount < i * Unit
       \/ i = BinCount

(* one more row of a bin *)
WithRow(bin, row) ==
    [samples |-> bin.samples + 1, total |-> bin.total + row.p,
     yes |-> bin.yes + (IF row.yes THEN 1 ELSE 0)]

CalibrationBin(rows, i) ==
    LET seen[n \in 0..Len(rows)] ==
            IF n = 0 THEN [samples |-> 0, total |-> 0, yes |-> 0]
            ELSE IF InBin(rows[n].p, i) THEN WithRow(seen[n - 1], rows[n])
            ELSE seen[n - 1]
    IN  seen[Len(rows)]

RunningMax(curve) == IF curve = NoCurve THEN Chance(0) ELSE curve[Len(curve)].observed

WithBinUnsmoothed(curve, bin) ==
    IF bin.samples < MinBin THEN curve
    ELSE Append(curve, [forecast |-> <<bin.total, bin.samples>>,
                        observed |-> <<bin.yes * Unit, bin.samples>>,
                        samples  |-> bin.samples])

(* Thin bins are skipped, the observed frequency is raised to the running     *)
(* maximum of the bins below.                                                 *)
WithBin(curve, bin) ==
    IF bin.samples < MinBin THEN curve
    ELSE Append(curve, [forecast |-> <<bin.total, bin.samples>>,
                        observed |-> Larger(RunningMax(curve),
                                            <<bin.yes * Unit, bin.samples>>),
                        samples  |-> bin.samples])

(* The code's sort and deduplication change nothing: the means of two bins    *)
(* are never equal and ascend with the bin.                                   *)
BuildCurve(rows) ==
    LET built[i \in 0..BinCount] ==
            IF i = 0 THEN NoCurve ELSE WithBin(built[i - 1], CalibrationBin(rows, i))
    IN  IF Len(rows) < MinTotal THEN NoCurve ELSE built[BinCount]

(* the samples behind the curve *)
Samples(curve) ==
    LET sum[n \in 0..Len(curve)] == IF n = 0 THEN 0 ELSE sum[n - 1] + curve[n].samples
    IN  sum[Len(curve)]

Interpolate(curve, x) ==
    LET first == curve[1]
        final == curve[Len(curve)]
        k     == CHOOSE i \in 1..(Len(curve) - 1) :
                    /\ Leq(curve[i].forecast, x) /\ Leq(x, curve[i + 1].forecast)
                    /\ \A j \in 1..(i - 1) : Less(curve[j + 1].forecast, x)
        weight == Over(Minus(x, curve[k].forecast),
                       Minus(curve[k + 1].forecast, curve[k].forecast))
    IN  IF Leq(x, first.forecast) THEN first.observed
        ELSE IF Leq(final.forecast, x) THEN final.observed
        ELSE Plus(curve[k].observed,
                  Times(Minus(curve[k + 1].observed, curve[k].observed), weight))

(* ROUND_HALF_UP of a non-negative fraction to a multiple of Quantum          *)
Quantize(x) == Quantum * ((2 * x[1] + Quantum * x[2]) \div (2 * Quantum * x[2]))

(* Calibrator.apply: towards the curve by samples / (samples + shrinkage), at *)
(* most MaxShift away, inside [0, 1], quantized.                              *)
Apply(curve, p) ==
    LET x      == Chance(p)
        total  == Samples(curve)
        moved  == Plus(x, Times(Minus(Interpolate(curve, x), x), <<total, total + Shrinkage>>))
        capped == Smaller(Larger(moved, Chance(p - MaxShift)), Chance(p + MaxShift))
    IN  IF curve = NoCurve THEN p
        ELSE Quantize(Smaller(Larger(capped, Chance(0)), Chance(Unit)))

-----------------------------------------------------------------------------
(* ai/graph.py: two passes, each [p, low, high, confidence] with estimates of *)
(* 0..Unit/2 (so that the mean of two is an integer of 0..Unit) and a         *)
(* confidence of 0..Unit/2.  The aggregate's confidence is in units of        *)
(* (2/Unit)^2.                                                                *)

RawEstimate(one, two) == one.p + two.p

Apart(one, two) == IF one.p < two.p THEN two.p - one.p ELSE one.p - two.p

LowestOf(S) == CHOOSE v \in S : \A w \in S : v <= w

HighestOf(S) == CHOOSE v \in S : \A w \in S : v >= w

Aggregate(curve, one, two) ==
    LET raw == RawEstimate(one, two)
        p   == Apply(curve, raw)
    IN  [p          |-> p,
         low        |-> LowestOf({2 * one.low, 2 * two.low, raw, p}),
         high       |-> HighestOf({2 * one.high, 2 * two.high, raw, p}),
         confidence |-> LowestOf({one.confidence, two.confidence})
                            * (Unit \div 2 - Apart(one, two))]
=============================================================================
