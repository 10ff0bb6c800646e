--------------------------- MODULE ForecastScoring ---------------------------
(* From a forecast to the curve that corrects the next one: the engine saves  *)
(* a market and, after the two model passes, its forecast; the market         *)
(* resolution worker sweeps the markets whose end has passed and records      *)
(* their outcome, which scores the forecasts saved so far; the live worker    *)
(* rebuilds the calibration curve from the newest scores between cycles.      *)
EXTENDS ReliabilityCurve

CONSTANTS
    Markets,
    Passes,        \* what one model pass may answer: [p, low, high, confidence]
    MaxForecasts,  \* bound on the forecasts saved
    MaxFaults,     \* bound on failed lookups, calls and reads
    Batch,         \* MarketResolutionWorker.batch_size
    RowLimit,      \* limit of the calibration_snapshot query
    Voids,         \* markets that close with neither outcome
    Ends           \* order of the markets by end_at, a sequence

ScoringAssumption ==
    /\ Passes \subseteq [p : 0..(Unit \div 2), low : 0..(Unit \div 2),
                         high : 0..(Unit \div 2), confidence : 0..(Unit \div 2)]
    /\ {MaxForecasts, MaxFaults} \subseteq Nat
    /\ {Batch, RowLimit} \subseteq Nat \ {0}
    /\ Voids \subseteq Markets
    /\ ToSet(Ends) = Markets

Outcomes == {"YES", "NO"}

VARIABLES
    venue,      \* what Gamma answers for a market: open, closed (neither outcome), YES or NO
    ended,      \* markets whose end_at has passed
    mrow,       \* markets table: outcome and the closed flag
    work,       \* the market whose model passes are under way, or "none"
    forecasts,  \* forecasts table: sequence of [market, p, late]
    scores,     \* forecast_outcomes, in resolved_at order: [id, p, yes]
    queue,      \* conditions left of the running sweep
    curve,      \* Calibrator._curve
    faults

scoringVars == <<venue, ended, mrow, work, forecasts, scores, queue, curve, faults>>

ScoringInit ==
    /\ venue = [m \in Markets |-> "open"]
    /\ ended = {}
    /\ mrow = [m \in Markets |-> [outcome |-> "none", closed |-> FALSE]]
    /\ work = "none"
    /\ forecasts = << >>
    /\ scores = << >>
    /\ queue = << >>
    /\ curve = NoCurve
    /\ faults = 0

Fault == faults < MaxFaults /\ faults' = faults + 1

-----------------------------------------------------------------------------
(* The venue *)

EndPasses(m) ==
    /\ m \notin ended
    /\ ended' = ended \union {m}
    /\ UNCHANGED <<venue, mrow, work, forecasts, scores, queue, curve, faults>>

Close(m) ==
    /\ venue[m] = "open"
    /\ \E o \in (IF m \in Voids THEN {"closed"} ELSE Outcomes) :
            venue' = [venue EXCEPT ![m] = o]
    /\ UNCHANGED <<ended, mrow, work, forecasts, scores, queue, curve, faults>>

-----------------------------------------------------------------------------
(* The engine *)

(* save_market of a market seen open: the row's check constraint (a resolved  *)
(* row is closed) makes the upsert fail on a row that is already resolved.    *)
SaveMarket(m) ==
    /\ mrow[m].outcome = "none"
    /\ mrow' = [mrow EXCEPT ![m].closed = FALSE]

(* _process_market up to the first model pass, with a market listed while it  *)
(* was open: it may have closed since.                                        *)
StartForecast(m) ==
    /\ work = "none"
    /\ Len(forecasts) < MaxForecasts
    /\ SaveMarket(m)
    /\ work' = m
    /\ UNCHANGED <<venue, ended, forecasts, scores, queue, curve, faults>>

(* both passes answered: aggregate and save_forecast                          *)
InsertForecast ==
    /\ work # "none"
    /\ \E one, two \in Passes :
            forecasts' = Append(forecasts,
                                [market |-> work,
                                 p      |-> Aggregate(curve, one, two).p,
                                 late   |-> mrow[work].outcome # "none"])
    /\ work' = "none"
    /\ UNCHANGED <<venue, ended, mrow, scores, queue, curve, faults>>

(* evidence, a pass or the insert failed: the market is skipped               *)
DropForecast ==
    /\ work # "none"
    /\ Fault
    /\ work' = "none"
    /\ UNCHANGED <<venue, ended, mrow, forecasts, scores, queue, curve>>

-----------------------------------------------------------------------------
(* The market resolution worker *)

UnresolvedConditions ==
    LET due == SelectSeq(Ends, LAMBDA m : mrow[m].outcome = "none" /\ m \in ended)
    IN  SubSeq(due, 1, IF Len(due) < Batch THEN Len(due) ELSE Batch)

BeginSweep ==
    /\ queue = << >>
    /\ UnresolvedConditions # << >>
    /\ queue' = UnresolvedConditions
    /\ UNCHANGED <<venue, ended, mrow, work, forecasts, scores, curve, faults>>

RecordResolutionTwice(m, o) ==
    /\ mrow' = [mrow EXCEPT ![m] = [outcome |-> o, closed |-> TRUE]]
    /\ scores' = scores \o
            [k \in 1..Cardinality({i \in DOMAIN forecasts : forecasts[i].market = m}) |->
                LET ids == {i \in DOMAIN forecasts : forecasts[i].market = m}
                    i   == CHOOSE i \in ids : Cardinality({j \in ids : j < i}) = k - 1
                IN  [id |-> i, p |-> forecasts[i].p, yes |-> (o = "NO")]]

(* the record_market_resolution function: the row is settled unless it holds  *)
(* the other outcome, and every unscored forecast of the market is scored.    *)
RecordResolution(m, o) ==
    LET ids  == {i \in DOMAIN forecasts : forecasts[i].market = m}
                    \ {scores[k].id : k \in DOMAIN scores}
        next(k) == CHOOSE i \in ids : Cardinality({j \in ids : j < i}) = k - 1
    IN  IF mrow[m].outcome \in {"none", o}
        THEN /\ mrow' = [mrow EXCEPT ![m] = [outcome |-> o, closed |-> TRUE]]
             /\ scores' = scores \o [k \in 1..Cardinality(ids) |->
                                        [id |-> next(k), p |-> forecasts[next(k)].p,
                                         yes |-> (o = "YES")]]
        ELSE UNCHANGED <<mrow, scores>>

SweepStop == queue' = << >>

(* get_market_by_condition, of a market that is there                         *)
Lookup(m) == venue[m]

(* one condition of run_once: the lookup answers, and a closed market with an *)
(* outcome is recorded                                                        *)
Resolve ==
    /\ queue # << >>
    /\ queue' = Tail(queue)
    /\ IF Lookup(Head(queue)) \in Outcomes
       THEN RecordResolution(Head(queue), Lookup(Head(queue)))
       ELSE UNCHANGED <<mrow, scores>>
    /\ UNCHANGED <<venue, ended, work, forecasts, curve, faults>>

(* a lookup that raises is skipped; a record call that raises ends the sweep, *)
(* with or without its effect in the database                                 *)
ResolveFails ==
    /\ queue # << >>
    /\ Fault
    /\ \/ queue' = Tail(queue) /\ UNCHANGED <<mrow, scores>>
       \/ /\ Lookup(Head(queue)) \in Outcomes
          /\ SweepStop
          /\ \/ RecordResolution(Head(queue), Lookup(Head(queue)))
             \/ UNCHANGED <<mrow, scores>>
    /\ UNCHANGED <<venue, ended, work, forecasts, curve>>

-----------------------------------------------------------------------------
(* The live worker, between two cycles *)

LedgerRows ==
    LET n == Len(scores)
    IN  SubSeq(scores, IF n < RowLimit THEN 1 ELSE n - RowLimit + 1, n)

RefreshCalibration ==
    /\ work = "none"
    /\ curve # BuildCurve(LedgerRows)
    /\ curve' = BuildCurve(LedgerRows)
    /\ UNCHANGED <<venue, ended, mrow, work, forecasts, scores, queue, faults>>

RefreshFails ==
    /\ work = "none"
    /\ Fault
    /\ UNCHANGED <<venue, ended, mrow, work, forecasts, scores, queue, curve>>

-----------------------------------------------------------------------------
ScoringNext ==
    \/ \E m \in Markets : EndPasses(m) \/ Close(m) \/ StartForecast(m)
    \/ InsertForecast \/ DropForecast
    \/ BeginSweep \/ Resolve \/ ResolveFails
    \/ RefreshCalibration \/ RefreshFails

ScoringSpec == ScoringInit /\ [][ScoringNext]_scoringVars

-----------------------------------------------------------------------------
(* Properties *)

ScoringTypeOK ==
    /\ venue \in [Markets -> {"open", "closed"} \union Outcomes]
    /\ ended \subseteq Markets
    /\ mrow \in [Markets -> [outcome : {"none"} \union Outcomes, closed : BOOLEAN]]
    /\ work \in Markets \union {"none"}
    /\ \A i \in DOMAIN forecasts :
            forecasts[i] \in [market : Markets, p : Probability, late : BOOLEAN]
    /\ \A k \in DOMAIN scores :
            scores[k] \in [id : DOMAIN forecasts, p : Probability, yes : BOOLEAN]
    /\ queue \in Seq(Markets)
    /\ faults \in 0..MaxFaults

(* A score belongs to one forecast, and says what the venue settled: sweeps   *)
(* that were cut off after the write, repeated lookups and a row that was      *)
(* already settled never score a forecast twice or against the venue          *)
(* (record_market_resolution).                                                *)
ScoredOnceAndRight ==
    /\ \A j, k \in DOMAIN scores : scores[j].id = scores[k].id => j = k
    /\ \A k \in DOMAIN scores :
            venue[forecasts[scores[k].id].market] = (IF scores[k].yes THEN "YES" ELSE "NO")

(* Whatever ledger the curve was built from, the correction keeps the order   *)
(* of the estimates: a more likely raw estimate is never corrected below a    *)
(* less likely one, even where an upper bin saw fewer hits than a lower one   *)
(* (build_curve's isotonic pass).                                             *)
CorrectionIsMonotone ==
    /\ \A k \in 1..(Len(curve) - 1) : Less(curve[k].forecast, curve[k + 1].forecast)
    /\ \A p \in 0..(Unit - 1) : Apply(curve, p) <= Apply(curve, p + 1)

(* A correction stays within max_absolute_shift of the estimate, up to the    *)
(* half quantum that rounding adds (Calibrator.apply).                        *)
CorrectionIsBounded ==
    \A p \in Probability :
        /\ Apply(curve, p) \in Probability
        /\ 2 * (Apply(curve, p) - p) <= 2 * MaxShift + Quantum
        /\ 2 * (p - Apply(curve, p)) <= 2 * MaxShift + Quantum

(* A correction goes towards the curve and never past it, up to half a        *)
(* quantum: the estimate ends between what the model said and what happened.  *)
CorrectionNeverOvershoots ==
    curve # NoCurve =>
        \A p \in Probability :
            LET x    == Chance(p)
                t    == Interpolate(curve, x)
                half == <<Quantum, 2>>
                a    == Chance(Apply(curve, p))
            IN  /\ Leq(Minus(Smaller(x, t), half), a)
                /\ Leq(a, Plus(Larger(x, t), half))

(* The aggregate of two passes is a forecast the model accepts (its estimate  *)
(* inside its interval) that is no more certain than either pass: its         *)
(* interval covers both passes' and its confidence exceeds neither, even      *)
(* where the curve moves the estimate outside both intervals (_aggregate).    *)
NoManufacturedConviction ==
    \A one, two \in Passes :
        LET f == Aggregate(curve, one, two)
        IN  /\ f.low <= f.p /\ f.p <= f.high
            /\ \A pass \in {one, two} :
                    /\ f.low <= 2 * pass.low /\ 2 * pass.high <= f.high
                    /\ 2 * f.confidence <= Unit * pass.confidence

(* The four together: what corrects an estimate, and what two passes make of  *)
(* it, is sound for every curve a ledger leaves (build_curve, Calibrator.apply, *)
(* _aggregate).                                                               *)
CorrectionIsSound ==
    /\ CorrectionIsMonotone
    /\ CorrectionIsBounded
    /\ CorrectionNeverOvershoots
    /\ NoManufacturedConviction

(* Every forecast of a settled market whose end has passed is scored.         *)
EveryForecastScored ==
    \A i \in 1..MaxForecasts :
        (/\ i \in DOMAIN forecasts
         /\ forecasts[i].market \in ended
         /\ venue[forecasts[i].market] \in Outcomes)
            ~> (\E k \in DOMAIN scores : scores[k].id = i)

=============================================================================
