---------------------------- MODULE EngineProofs -----------------------------
(***************************************************************************)
(* The decisions of the engine, for any markets, limits, prices, fees,     *)
(* portfolios and faults.                                                  *)
(*                                                                         *)
(* The AI budget (ForecastCycle): every provider request is covered by a   *)
(* unit of its day, and a day never takes more than the limits in force.   *)
(*                                                                         *)
(* An order (TradeSizing): no piece of a BUY costs more than its share of  *)
(* the commitment (FillCosts: a positive rounded fee is at most twice the  *)
(* fee, and the fee curve rises up to half a dollar), so what the risk     *)
(* engine approved covers every way the order may fill.                    *)
(*                                                                         *)
(* The scores (ForecastScoring): a settled market stays settled, and the   *)
(* rows a sweep inserts are those of the forecasts without a score, each   *)
(* once (RankExists).                                                      *)
(*                                                                         *)
(* The correction (ReliabilityCurve): fractions are ordered by cross       *)
(* multiplication, a bin's mean lies in the bin, so the anchors ascend     *)
(* whatever the ledger (BuildCurveIs), interpolation between them grows    *)
(* (InterpolateGrows), a clamp keeps order and bounds (ClampedIs), and     *)
(* rounding to the quantum moves nothing past a multiple of it.            *)
(***************************************************************************)
EXTENDS ForecastCycle, TradeSizing, ForecastScoring, TLAPS, FiniteSetTheorems,
        SequenceTheorems, WellFoundedInduction

-----------------------------------------------------------------------------
(* Types, and what the operators return *)

(* Which of the providers is asked next. *)
Attempt == 1 .. Providers

CycleState ==
    [pc : CyclePc, todo : SUBSET Market, lost : SUBSET Held, breach : BOOLEAN, ai : Nat,
     blocked : BOOLEAN, m : SUBSET Market, day : Day, next : Attempt, refused : Nat,
     tried : SUBSET Market, seen : SUBSET Market, broke : BOOLEAN]

Call == [on : BOOLEAN, day : Day, lim : Nat]

DiagState == [pc : {"idle", "reserve", "call"}, n : Nat, day : Day]

RowState == [used : Nat, lim : Nat]

Typed ==
    /\ day \in Day /\ limit \in Limits /\ edits \in Nat /\ cycles \in Nat
    /\ row \in [Day -> RowState] /\ top \in [Day -> Nat] /\ made \in [Day -> Nat]
    /\ rpc \in [Caller -> Call] /\ fresh \subseteq Market
    /\ cyc \in CycleState /\ diag \in DiagState

LEMMA MaxOfTwo ==
    ASSUME NEW a \in Nat, NEW b \in Nat
    PROVE  Max({a, b}) \in {a, b} /\ Max({a, b}) >= a /\ Max({a, b}) >= b
<1>1. \E x \in {a, b} : \A y \in {a, b} : x >= y
  <2>1. CASE a >= b
    BY <2>1
  <2>2. CASE ~(a >= b)
    BY <2>2
  <2> QED BY <2>1, <2>2
<1>2. Max({a, b}) \in {a, b} /\ \A y \in {a, b} : Max({a, b}) >= y
  BY <1>1 DEF Max
<1> QED BY <1>2

LEMMA MinOfTwo ==
    ASSUME NEW a \in Nat, NEW b \in Nat
    PROVE  Min({a, b}) \in {a, b}
<1>1. \E x \in {a, b} : \A y \in {a, b} : x =< y
  <2>1. CASE a =< b
    BY <2>1
  <2>2. CASE ~(a =< b)
    BY <2>2
  <2> QED BY <2>1, <2>2
<1> QED BY <1>1 DEF Min

(* What a reservation asks for: two units for a forecast of the loop, one   *)
(* for a diagnostic, and some number for a tenant's whole cycle.            *)
LEMMA UnitsAsked ==
    /\ \A c \in Caller : Units(c) \in Nat
    /\ Units("diag") = 1
    /\ cyc.pc # "advance" => Units("cycle") = 2
<1>1. MaxAI * (UnitsPerForecast + EvidenceCalls) \in Nat
  BY ForecastAssumption DEF UnitsPerForecast
<1>2. Min({10, MaxAI * (UnitsPerForecast + EvidenceCalls)}) \in Nat
  BY <1>1, MinOfTwo
<1> QED BY <1>2 DEF Units, Caller, UnitsPerForecast

(* A reservation changes one row, takes its units or none, and only if they *)
(* are within the limit it has read.                                        *)
LEMMA RowTaken ==
    ASSUME Typed, NEW c \in Caller, Taken(c)
    PROVE  LET d == rpc[c].day IN
           /\ row' \in [Day -> RowState]
           /\ \A e \in Day : e # d => row'[e] = row[e]
           /\ d \in Day /\ rpc[c].lim \in Nat
           /\ Fits(c) => /\ row'[d].used = row[d].used + Units(c)
                         /\ row'[d].used <= rpc[c].lim
           /\ ~Fits(c) => row'[d].used = row[d].used
<1> DEFINE d == rpc[c].day
<1>1. rpc[c] \in Call
  BY DEF Typed
<1>2. d \in Day /\ rpc[c].lim \in Nat
  BY <1>1 DEF Call
<1>3. row[d] \in RowState
  BY <1>2 DEF Typed
<1>4. row[d].used \in Nat
  BY <1>3 DEF RowState
<1>5. Units(c) \in Nat
  BY UnitsAsked
<1>6. Fits(c) <=> row[d].used + Units(c) <= rpc[c].lim
  BY DEF Fits
<1> DEFINE r == [used |-> IF Fits(c) THEN row[d].used + Units(c) ELSE row[d].used,
                 lim |-> rpc[c].lim]
<1>7. row' = [row EXCEPT ![d] = r]
  BY DEF Taken
<1>8. r \in RowState
  BY <1>2, <1>4, <1>5 DEF RowState
<1>9. row' \in [Day -> RowState] /\ row'[d] = r /\ \A e \in Day : e # d => row'[e] = row[e]
  <2> HIDE DEF r
  <2> QED BY <1>2, <1>7, <1>8 DEF Typed
<1>10. r.used = IF Fits(c) THEN row[d].used + Units(c) ELSE row[d].used
  OBVIOUS
<1> HIDE DEF r
<1> QED BY <1>2, <1>6, <1>9, <1>10

LEMMA CycleFields ==
    ASSUME NEW c \in CycleState
    PROVE  /\ c.pc \in CyclePc /\ c.todo \subseteq Market /\ c.lost \subseteq Held
           /\ c.breach \in BOOLEAN /\ c.ai \in Nat /\ c.blocked \in BOOLEAN
           /\ c.m \subseteq Market /\ c.day \in Day /\ c.next \in Attempt
           /\ c.refused \in Nat /\ c.tried \subseteq Market /\ c.seen \subseteq Market
           /\ c.broke \in BOOLEAN
BY DEF CycleState

LEMMA IdleCycle == Idle \in CycleState /\ NoCall \in Call /\ 1 \in Attempt
<1>1. 1 \in Day /\ 1 \in Attempt
  BY ForecastAssumption DEF Day, Attempt
<1> QED BY <1>1 DEF Idle, NoCall, CycleState, Call, CyclePc

-----------------------------------------------------------------------------
(* The market loop *)

(* The loop's own invariant.  Every market with shares is in the list or    *)
(* has been looked at; a market is removed from the list before it is       *)
(* forecast; a filtered market in the list is held; the loop asks for no    *)
(* budget after a refusal.                                                  *)
LoopOK(c) ==
    /\ c.pc # "idle" => Held \ c.lost \subseteq c.seen \cup c.todo
    /\ c.pc = "end" /\ c.broke = FALSE => c.todo = {}
    /\ c.todo \cap Filtered \subseteq Held
    /\ c.todo \cap c.seen = {}
    /\ c.m \cap Filtered = {} /\ c.tried \cap Filtered = {}
    /\ c.m \subseteq c.seen /\ c.tried \subseteq c.seen
    /\ c.refused <= 1
    /\ c.refused = 1 => c.blocked = TRUE
    /\ c.pc = "reserve" => c.blocked = FALSE
    /\ \A x, y \in c.m : x = y

CycleOK == cyc \in CycleState /\ LoopOK(cyc)

LEMMA IdleOK == LoopOK(Idle)
<1>1. \A x \in {} : FALSE
  OBVIOUS
<1> QED BY <1>1 DEF LoopOK, Idle

LEMMA ReturnOK ==
    ASSUME CycleOK, NEW b \in BOOLEAN, Return(b),
           cyc.pc \notin {"idle", "end", "reserve"}
    PROVE  CycleOK'
<1>1. cyc \in CycleState /\ LoopOK(cyc)
  BY DEF CycleOK
<1>2. cyc' \in CycleState
  <2> DEFINE n == IF b THEN cyc.ai + 1 ELSE cyc.ai
  <2>1. n \in Nat
    BY <1>1, CycleFields
  <2>2. cyc' = [cyc EXCEPT !.pc = "pick", !.m = {}, !.ai = n]
    BY DEF Return
  <2> HIDE DEF n
  <2> QED BY <1>1, <2>1, <2>2, CycleFields DEF CycleState, CyclePc
<1>3. /\ cyc'.pc = "pick" /\ cyc'.m = {} /\ cyc'.todo = cyc.todo /\ cyc'.lost = cyc.lost
      /\ cyc'.seen = cyc.seen /\ cyc'.tried = cyc.tried /\ cyc'.refused = cyc.refused
      /\ cyc'.blocked = cyc.blocked
  BY <1>1 DEF CycleState, Return
<1>4. LoopOK(cyc')
  BY <1>1, <1>3 DEF LoopOK
<1> QED BY <1>2, <1>4 DEF CycleOK

(* The list a cycle starts with. *)
LEMMA UniverseOK ==
    ASSUME NEW breach \in BOOLEAN, NEW lost \in SUBSET Held
    PROVE  /\ Universe(breach, lost) \subseteq Market
           /\ Universe(breach, lost) \cap Filtered \subseteq Held
           /\ Held \ lost \subseteq Universe(breach, lost)
BY ForecastAssumption DEF Universe

LEMMA StartOK ==
    ASSUME CycleOK, NEW breach \in BOOLEAN, NEW lost \in SUBSET Held,
           StartCycle(breach, lost)
    PROVE  CycleOK'
<1> DEFINE c == [Idle EXCEPT !.pc = IF Tenant THEN "advance" ELSE "pick",
                   !.todo = Universe(breach, lost), !.breach = breach, !.lost = lost]
<1>1. cyc' = c
  BY DEF StartCycle
<1>2. c \in CycleState
  <2> DEFINE pc == IF Tenant THEN "advance" ELSE "pick"
  <2>1. pc \in CyclePc
    BY DEF CyclePc
  <2>2. Universe(breach, lost) \in SUBSET Market
    BY UniverseOK
  <2>3. Idle \in CycleState
    BY IdleCycle
  <2>4. c = [Idle EXCEPT !.pc = pc, !.todo = Universe(breach, lost), !.breach = breach,
                         !.lost = lost]
    OBVIOUS
  <2> HIDE DEF pc, c
  <2> QED BY <2>1, <2>2, <2>3, <2>4 DEF CycleState
<1>3. LoopOK(c)
  BY UniverseOK DEF LoopOK, Idle
<1> HIDE DEF c
<1> QED BY <1>1, <1>2, <1>3 DEF CycleOK

LEMMA SkipOK ==
    ASSUME CycleOK, NEW m \in Market, SkipMarket(m)
    PROVE  CycleOK'
BY CycleFields DEF CycleOK, LoopOK, CycleState, SkipMarket, Look, Candidates

LEMMA ProcessOK ==
    ASSUME CycleOK, NEW m \in Market, ProcessMarket(m)
    PROVE  CycleOK'
<1>1. cyc \in CycleState /\ LoopOK(cyc)
  BY DEF CycleOK
<1>2. /\ cyc' = [cyc EXCEPT !.pc = "reserve", !.m = {m}, !.todo = @ \ {m},
                             !.seen = @ \cup {m}]
      /\ m \in cyc.todo /\ m \notin Filtered \cap Held /\ cyc.blocked = FALSE
      /\ cyc.pc = "pick"
  BY <1>1, CycleFields DEF ProcessMarket, Look, Candidates, AllowAI
<1>3. cyc' \in CycleState
  BY <1>1, <1>2, CycleFields DEF CycleState, CyclePc
<1>4. /\ cyc'.pc = "reserve" /\ cyc'.m = {m} /\ cyc'.todo = cyc.todo \ {m}
      /\ cyc'.seen = cyc.seen \cup {m} /\ cyc'.lost = cyc.lost
      /\ cyc'.tried = cyc.tried /\ cyc'.refused = cyc.refused /\ cyc'.blocked = cyc.blocked
  BY <1>1, <1>2 DEF CycleState
<1>5. LoopOK(cyc')
  BY <1>1, <1>2, <1>4 DEF LoopOK
<1> QED BY <1>3, <1>5 DEF CycleOK

LEMMA ReserveOK ==
    ASSUME Typed, CycleOK, Reserve
    PROVE  CycleOK'
<1>1. rpc["cycle"].day \in Day
  BY DEF Typed, Call, Caller
<1>2. CASE Fits("cycle")
  BY <1>1, <1>2, CycleFields DEF CycleOK, LoopOK, CycleState, Reserve, CyclePc
<1>3. CASE ~Fits("cycle")
  <2>1. cyc \in CycleState /\ LoopOK(cyc) /\ cyc.pc = "reserve"
    BY DEF CycleOK, Reserve
  <2>2. cyc.refused + 1 = 1
    BY <2>1, CycleFields DEF LoopOK
  <2>3. cyc' = [cyc EXCEPT !.pc = "pick", !.m = {}, !.blocked = TRUE, !.refused = 1]
    BY <1>3, <2>2 DEF Reserve
  <2>4. cyc' \in CycleState
    BY <2>1, <2>2, <2>3, CycleFields DEF CycleState, CyclePc
  <2>5. /\ cyc'.pc = "pick" /\ cyc'.m = {} /\ cyc'.todo = cyc.todo /\ cyc'.lost = cyc.lost
        /\ cyc'.seen = cyc.seen /\ cyc'.tried = cyc.tried /\ cyc'.refused = 1
        /\ cyc'.blocked = TRUE
    BY <2>1, <2>2, <2>3 DEF CycleState
  <2>6. LoopOK(cyc')
    BY <2>1, <2>5 DEF LoopOK
  <2> QED BY <2>4, <2>6 DEF CycleOK
<1> QED BY <1>2, <1>3

LEMMA TenantReserveOK ==
    ASSUME CycleOK, TenantReserve
    PROVE  CycleOK'
<1>1. CASE Fits("cycle")
  BY <1>1, CycleFields DEF CycleOK, LoopOK, CycleState, TenantReserve, CyclePc
<1>2. CASE ~Fits("cycle")
  BY <1>2, IdleCycle, IdleOK DEF CycleOK, TenantReserve
<1> QED BY <1>1, <1>2

LEMMA BudgetUnavailableOK ==
    ASSUME CycleOK, BudgetUnavailable
    PROVE  CycleOK'
BY CycleFields DEF CycleOK, LoopOK, CycleState, BudgetUnavailable, CyclePc

(* Steps from market to market leave the list and what was tried alone. *)
LEMMA LoopStays ==
    ASSUME NEW c \in CycleState, NEW d \in CycleState, LoopOK(c),
           c.pc # "idle", d.pc \notin {"end", "reserve"},
           d.todo = c.todo, d.lost = c.lost, d.seen = c.seen, d.tried = c.tried, d.m = c.m,
           d.refused = c.refused, d.blocked = c.blocked
    PROVE  LoopOK(d)
BY DEF LoopOK

LEMMA EvidenceOK ==
    ASSUME CycleOK, NEW ok \in BOOLEAN, CollectEvidence(ok)
    PROVE  CycleOK'
<1>1. CASE ok = TRUE
  <2>1. cyc \in CycleState /\ LoopOK(cyc) /\ cyc.pc = "evidence"
    BY DEF CycleOK, CollectEvidence
  <2>2. cyc' = [cyc EXCEPT !.pc = "primary", !.next = 1]
    BY <1>1 DEF CollectEvidence
  <2>3. cyc' \in CycleState
    BY <2>1, <2>2, IdleCycle DEF CycleState, CyclePc
  <2>4. /\ cyc'.pc = "primary" /\ cyc'.m = cyc.m /\ cyc'.todo = cyc.todo
        /\ cyc'.lost = cyc.lost /\ cyc'.seen = cyc.seen /\ cyc'.tried = cyc.tried
        /\ cyc'.refused = cyc.refused /\ cyc'.blocked = cyc.blocked
    BY <2>1, <2>2 DEF CycleState
  <2> QED BY <2>1, <2>3, <2>4, LoopStays DEF CycleOK
<1>2. CASE ok = FALSE
  BY <1>2, ReturnOK DEF CollectEvidence
<1> QED BY <1>1, <1>2

LEMMA AskOK ==
    ASSUME CycleOK, NEW ok \in BOOLEAN, AskProvider(ok)
    PROVE  CycleOK'
<1>1. CASE ok = TRUE
  <2>1. cyc \in CycleState /\ LoopOK(cyc) /\ cyc.pc \in {"primary", "critic"}
    BY DEF CycleOK, AskProvider
  <2>2. PICK pc \in {"critic", "save"} : cyc' = [cyc EXCEPT !.pc = pc, !.next = 1]
    BY <1>1 DEF AskProvider
  <2>3. cyc' \in CycleState
    BY <2>1, <2>2, IdleCycle DEF CycleState, CyclePc
  <2>4. /\ cyc'.pc = pc /\ cyc'.m = cyc.m /\ cyc'.todo = cyc.todo
        /\ cyc'.lost = cyc.lost /\ cyc'.seen = cyc.seen /\ cyc'.tried = cyc.tried
        /\ cyc'.refused = cyc.refused /\ cyc'.blocked = cyc.blocked
    BY <2>1, <2>2 DEF CycleState
  <2> QED BY <2>1, <2>3, <2>4, LoopStays DEF CycleOK
<1>2. CASE ok = FALSE /\ cyc.next < Providers
  <2>1. cyc \in CycleState /\ LoopOK(cyc) /\ cyc.pc \in {"primary", "critic"}
    BY DEF CycleOK, AskProvider
  <2>2. cyc' = [cyc EXCEPT !.next = @ + 1]
    BY <1>2 DEF AskProvider
  <2>3. cyc.next + 1 \in Attempt
    BY <1>2, <2>1, CycleFields, ForecastAssumption DEF Attempt
  <2>4. cyc' \in CycleState
    BY <2>1, <2>2, <2>3 DEF CycleState
  <2>5. /\ cyc'.pc = cyc.pc /\ cyc'.m = cyc.m /\ cyc'.todo = cyc.todo
        /\ cyc'.lost = cyc.lost /\ cyc'.seen = cyc.seen /\ cyc'.tried = cyc.tried
        /\ cyc'.refused = cyc.refused /\ cyc'.blocked = cyc.blocked
    BY <2>1, <2>2 DEF CycleState
  <2> QED BY <2>1, <2>4, <2>5, LoopStays DEF CycleOK
<1>3. CASE ok = FALSE /\ ~(cyc.next < Providers)
  BY <1>3, ReturnOK DEF AskProvider
<1> QED BY <1>1, <1>2, <1>3

LEMMA SaveOK ==
    ASSUME CycleOK, NEW ok \in BOOLEAN, SaveForecast(ok)
    PROVE  CycleOK'
<1>1. CASE ok = TRUE
  BY <1>1, CycleFields DEF CycleOK, LoopOK, CycleState, SaveForecast, CyclePc
<1>2. CASE ok = FALSE
  BY <1>2, ReturnOK DEF SaveForecast
<1> QED BY <1>1, <1>2

(* The end of the loop, and the steps that end it early. *)
LEMMA EndsOK ==
    ASSUME CycleOK, PortfolioFails \/ EndLoop \/ EndCycle \/ Crash
    PROVE  CycleOK'
<1>1. CASE PortfolioFails
  BY <1>1, CycleFields DEF CycleOK, LoopOK, CycleState, PortfolioFails, CyclePc
<1>2. CASE EndLoop
  BY <1>2, CycleFields DEF CycleOK, LoopOK, CycleState, EndLoop, CyclePc
<1>3. CASE EndCycle \/ Crash
  BY <1>3, IdleCycle, IdleOK DEF CycleOK, EndCycle, Crash
<1> QED BY <1>1, <1>2, <1>3

LEMMA LoopStep ==
    ASSUME Typed, CycleOK, [Next]_vars
    PROVE  CycleOK'
<1>1. CASE UNCHANGED cyc
  BY <1>1 DEF CycleOK
<1>2. CASE \E b \in BOOLEAN, lost \in SUBSET Held : StartCycle(b, lost)
  BY <1>2, StartOK
<1>3. CASE \E m \in Market : SkipMarket(m) \/ ProcessMarket(m)
  BY <1>3, SkipOK, ProcessOK
<1>4. CASE TenantReserve \/ Reserve \/ BudgetUnavailable
  BY <1>4, TenantReserveOK, ReserveOK, BudgetUnavailableOK
<1>5. CASE \E ok \in BOOLEAN : CollectEvidence(ok) \/ AskProvider(ok) \/ SaveForecast(ok)
  BY <1>5, EvidenceOK, AskOK, SaveOK
<1>6. CASE FinishMarket \/ MarketError
  BY <1>6, ReturnOK DEF FinishMarket, MarketError
<1>7. CASE PortfolioFails \/ EndLoop \/ EndCycle \/ Crash
  BY <1>7, EndsOK
<1>8. CASE \/ NextDay \/ \E l \in Limits : SetLimit(l)
           \/ CooldownEnds \/ ReadLimit("cycle") \/ ReadLimit("diag")
           \/ StartDiagnostic \/ DiagnosticReserve \/ DiagnosticCall
  BY <1>8, <1>1 DEF NextDay, SetLimit, CooldownEnds, ReadLimit, StartDiagnostic,
                    DiagnosticReserve, DiagnosticCall
<1> QED BY <1>1, <1>2, <1>3, <1>4, <1>5, <1>6, <1>7, <1>8 DEF Next, CycleStep, vars

-----------------------------------------------------------------------------
(* The budget *)

(* What a day's row holds is within the day's highest limit, nothing is     *)
(* used of a day to come, and a reservation under way has read a limit that *)
(* was in force on its day.                                                 *)
LimitOK ==
    /\ \A d \in Day : row[d].used <= top[d] /\ (d > day => row[d].used = 0)
    /\ limit <= top[day]
    /\ \A c \in Caller : rpc[c].on = TRUE => rpc[c].day <= day /\ rpc[c].lim <= top[rpc[c].day]

LEMMA CallFields ==
    ASSUME Typed, NEW c \in Caller
    PROVE  rpc[c] \in Call /\ rpc[c].on \in BOOLEAN /\ rpc[c].day \in Day /\ rpc[c].lim \in Nat
BY DEF Typed, Call

LEMMA RowFields ==
    ASSUME Typed, NEW d \in Day
    PROVE  row[d] \in RowState /\ row[d].used \in Nat /\ top[d] \in Nat /\ made[d] \in Nat
BY DEF Typed, RowState

LEMMA Numbers ==
    ASSUME Typed
    PROVE  limit \in Nat /\ day \in Nat /\ \A d \in Day : d \in Nat
BY ForecastAssumption DEF Typed, Day

(* A reservation keeps the limit, whatever else its step does. *)
LEMMA TakenKeepsLimit ==
    ASSUME Typed, LimitOK, NEW c \in Caller, rpc[c].on = TRUE, Taken(c),
           UNCHANGED <<day, limit, top>>, rpc' = [rpc EXCEPT ![c] = NoCall]
    PROVE  LimitOK'
<1> DEFINE e == rpc[c].day
<1>1. e \in Day /\ e <= day /\ rpc[c].lim <= top[e] /\ rpc[c].lim \in Nat
  BY CallFields DEF LimitOK
<1>2. /\ row' \in [Day -> RowState]
      /\ \A d \in Day : d # e => row'[d] = row[d]
      /\ row'[e].used = row[e].used \/ row'[e].used <= rpc[c].lim
  BY RowTaken
<1>3. row'[e].used \in Nat
  BY <1>1, <1>2 DEF RowState
<1>4. ASSUME NEW d \in Day
      PROVE  row'[d].used <= top[d] /\ (d > day => row'[d].used = 0)
  <2>1. CASE d = e
    BY <1>1, <1>2, <1>3, <2>1, RowFields, Numbers DEF LimitOK
  <2>2. CASE d # e
    BY <1>2, <2>2 DEF LimitOK
  <2> QED BY <2>1, <2>2
<1>5. ASSUME NEW b \in Caller, rpc'[b].on = TRUE
      PROVE  rpc'[b] = rpc[b]
  BY <1>5 DEF Typed, NoCall
<1> QED BY <1>4, <1>5 DEF LimitOK

LEMMA NextDayKeepsLimit ==
    ASSUME Typed, LimitOK, NextDay
    PROVE  Typed' /\ LimitOK'
<1>1. day + 1 \in Day /\ day' = day + 1 /\ day' # day
  BY Numbers, ForecastAssumption DEF NextDay, Typed, Day
<1>2. top' = [top EXCEPT ![day + 1] = limit] /\ row' = row /\ rpc' = rpc /\ limit' = limit
  BY DEF NextDay
<1>3. top' \in [Day -> Nat] /\ top'[day + 1] = limit /\ \A d \in Day : d # day + 1 => top'[d] = top[d]
  BY <1>1, <1>2, Numbers DEF Typed
<1>4. Typed'
  BY <1>1, <1>3 DEF Typed, NextDay
<1>5. ASSUME NEW d \in Day
      PROVE  row[d].used <= top'[d] /\ (d > day + 1 => row[d].used = 0)
  BY <1>1, <1>3, RowFields, Numbers DEF LimitOK
<1>6. ASSUME NEW c \in Caller, rpc[c].on = TRUE
      PROVE  rpc[c].day <= day + 1 /\ rpc[c].lim <= top'[rpc[c].day]
  BY <1>3, <1>6, CallFields, Numbers DEF LimitOK
<1>7. limit' <= top'[day']
  BY <1>1, <1>2, <1>3, Numbers
<1>8. \A d \in Day : row'[d].used <= top'[d] /\ (d > day' => row'[d].used = 0)
  BY <1>1, <1>2, <1>5
<1>9. \A c \in Caller :
        rpc'[c].on = TRUE => rpc'[c].day <= day' /\ rpc'[c].lim <= top'[rpc'[c].day]
  BY <1>1, <1>2, <1>6
<1> QED BY <1>4, <1>7, <1>8, <1>9 DEF LimitOK

LEMMA SetLimitKeepsLimit ==
    ASSUME Typed, LimitOK, NEW l \in Limits, SetLimit(l)
    PROVE  Typed' /\ LimitOK'
<1> DEFINE t == Max({top[day], l})
<1>1. /\ day \in Day /\ top[day] \in Nat /\ l \in Nat
  BY RowFields, ForecastAssumption DEF Typed
<1>2. t \in Nat /\ t >= top[day] /\ t >= l
  BY <1>1, MaxOfTwo
<1>3. top' = [top EXCEPT ![day] = t]
  BY DEF SetLimit
<1>4. /\ top' \in [Day -> Nat] /\ top'[day] >= l
      /\ \A d \in Day : top'[d] >= top[d]
  <2> HIDE DEF t
  <2> QED BY <1>1, <1>2, <1>3, RowFields DEF Typed
<1> HIDE DEF t
<1>5. row' \in [Day -> RowState] /\ \A d \in Day : row'[d].used = row[d].used
  BY <1>1, RowFields DEF SetLimit, Typed, RowState
<1>6. Typed'
  BY <1>4, <1>5, <1>1 DEF Typed, SetLimit
<1>7. ASSUME NEW d \in Day
      PROVE  row'[d].used <= top'[d] /\ (d > day => row'[d].used = 0)
  <2>1. top[d] \in Nat /\ top'[d] \in Nat
    BY <1>4 DEF Typed
  <2> QED BY <1>4, <1>5, <2>1, RowFields DEF LimitOK
<1>8. ASSUME NEW c \in Caller, rpc[c].on = TRUE
      PROVE  rpc[c].day <= day /\ rpc[c].lim <= top'[rpc[c].day]
  <2>1. rpc[c].day \in Day /\ rpc[c].lim \in Nat
    BY CallFields
  <2>2. top[rpc[c].day] \in Nat /\ top'[rpc[c].day] \in Nat
    BY <1>4, <2>1 DEF Typed
  <2> QED BY <1>4, <1>8, <2>1, <2>2 DEF LimitOK
<1>9. day' = day /\ rpc' = rpc /\ limit' = l
  BY DEF SetLimit
<1> QED BY <1>4, <1>6, <1>7, <1>8, <1>9 DEF LimitOK

LEMMA ReadLimitKeepsLimit ==
    ASSUME Typed, LimitOK, NEW c \in Caller, ReadLimit(c)
    PROVE  Typed' /\ LimitOK'
<1>1. [on |-> TRUE, day |-> day, lim |-> limit] \in Call
  BY Numbers DEF Call, Typed
<1>2. /\ rpc' \in [Caller -> Call]
      /\ rpc'[c] = [on |-> TRUE, day |-> day, lim |-> limit]
      /\ \A b \in Caller : b # c => rpc'[b] = rpc[b]
  BY <1>1 DEF ReadLimit, Typed
<1>3. Typed'
  BY <1>2 DEF Typed, ReadLimit, budget
<1> QED BY <1>2, <1>3, Numbers DEF LimitOK, ReadLimit, budget

LEMMA LimitStays ==
    ASSUME Typed, LimitOK, UNCHANGED budget,
           rpc' = rpc \/ \E c \in Caller : rpc' = [rpc EXCEPT ![c] = NoCall]
    PROVE  LimitOK'
<1>1. \A b \in Caller : rpc'[b].on = TRUE => rpc'[b] = rpc[b]
  BY DEF Typed, NoCall
<1> QED BY <1>1 DEF LimitOK, budget

-----------------------------------------------------------------------------
(* The requests *)

(* The most requests that one forecast makes: the collector's, and a        *)
(* primary and a critic forecast from every provider in turn.               *)
PerForecast == EvidenceCalls + 2 * Providers

(* The requests that a forecast under way may still make. *)
Owed(c) ==
    CASE c.pc = "evidence" -> PerForecast
      [] c.pc = "primary" -> 2 * Providers + 1 - c.next
      [] c.pc = "critic" -> Providers + 1 - c.next
      [] OTHER -> 0

Pending(c, g, d) ==
    (IF c.day = d THEN Owed(c) ELSE 0) + (IF g.pc = "call" /\ g.day = d THEN 1 ELSE 0)

(* Two units pay for the requests of one forecast, those to come included.  *)
CallOK ==
    \A d \in Day : 2 * (made[d] + Pending(cyc, diag, d)) <= PerForecast * row[d].used

LEMMA OwedIsNat ==
    ASSUME NEW c \in CycleState
    PROVE  Owed(c) \in Nat /\ PerForecast \in Nat /\ PerForecast >= 2
<1>1. c.next \in 1 .. Providers
  BY CycleFields DEF Attempt
<1> QED BY <1>1, ForecastAssumption DEF Owed, PerForecast

LEMMA PendingIsNat ==
    ASSUME NEW c \in CycleState, NEW g, NEW d
    PROVE  Pending(c, g, d) \in Nat
BY OwedIsNat DEF Pending

LEMMA MoreUnits ==
    ASSUME NEW p \in Nat, NEW u \in Nat, NEW n \in Nat
    PROVE  /\ p * (u + n) = p * u + p * n /\ p * (u + 2) = p * u + 2 * p
           /\ p * (u + 1) = p * u + p
           /\ p * u \in Nat /\ p * n \in Nat
OBVIOUS

LEMMA LargerProduct ==
    ASSUME NEW p \in Nat, NEW u \in Nat, NEW v \in Nat, v >= u
    PROVE  p * v \in Nat /\ p * u \in Nat /\ p * v >= p * u
<1>1. v = u + (v - u) /\ v - u \in Nat
  OBVIOUS
<1> DEFINE n == v - u
<1>2. p * (u + n) = p * u + p * n /\ p * u \in Nat /\ p * n \in Nat
  <2> HIDE DEF n
  <2> QED BY <1>1, MoreUnits DEF n
<1> QED BY <1>1, <1>2

(* A step that makes no more requests than it settles, on the same rows. *)
LEMMA CallsStay ==
    ASSUME Typed, Typed', CallOK,
           \A d \in Day : row'[d].used >= row[d].used,
           \A d \in Day : made'[d] + Pending(cyc', diag', d) <= made[d] + Pending(cyc, diag, d)
    PROVE  CallOK'
<1>1. ASSUME NEW d \in Day
      PROVE  2 * (made'[d] + Pending(cyc', diag', d)) <= PerForecast * row'[d].used
  <2>1. made[d] \in Nat /\ made'[d] \in Nat /\ Pending(cyc, diag, d) \in Nat /\ Pending(cyc', diag', d) \in Nat
    BY PendingIsNat DEF Typed
  <2>2. 2 * (made[d] + Pending(cyc, diag, d)) <= PerForecast * row[d].used
    BY DEF CallOK
  <2>3. /\ PerForecast * row[d].used \in Nat /\ PerForecast * row'[d].used \in Nat
        /\ PerForecast * row'[d].used >= PerForecast * row[d].used
    <3>1. row[d].used \in Nat /\ row'[d].used \in Nat /\ row'[d].used >= row[d].used
      BY DEF Typed, RowState
    <3>2. PerForecast \in Nat
      BY OwedIsNat DEF Typed
    <3> HIDE DEF PerForecast
    <3> QED BY <3>1, <3>2, LargerProduct
  <2> HIDE DEF PerForecast
  <2> QED BY <2>1, <2>2, <2>3
<1> QED BY <1>1 DEF CallOK

LEMMA NothingOwed ==
    ASSUME Typed, Typed', Owed(cyc') = 0, UNCHANGED diag
    PROVE  \A d \in Day : Pending(cyc', diag', d) <= Pending(cyc, diag, d)
BY OwedIsNat DEF Pending, Typed

-----------------------------------------------------------------------------
(* Each action keeps the types and the requests *)

LEMMA CycleKept == ASSUME CycleOK' PROVE cyc' \in CycleState
BY DEF CycleOK

LEMMA CallCleared ==
    ASSUME Typed, NEW c \in Caller, rpc' = [rpc EXCEPT ![c] = NoCall]
    PROVE  rpc' \in [Caller -> Call]
BY IdleCycle DEF Typed

LEMMA RequestMade ==
    ASSUME Typed, NEW e \in Day, NEW n \in Nat, made' = [made EXCEPT ![e] = @ + n]
    PROVE  /\ made' \in [Day -> Nat] /\ made'[e] = made[e] + n
           /\ \A d \in Day : d # e => made'[d] = made[d]
BY DEF Typed

(* A step of the loop that makes no request and leaves no forecast under    *)
(* way.                                                                     *)
LEMMA QuietStep ==
    ASSUME Typed, CycleOK', CallOK,
           row' \in [Day -> RowState], \A d \in Day : row'[d].used >= row[d].used,
           rpc' = rpc \/ rpc' = [rpc EXCEPT !["cycle"] = NoCall],
           fresh' \subseteq Market, cycles' \in Nat,
           UNCHANGED <<day, limit, top, edits, made, diag>>,
           cyc'.pc \notin {"evidence", "primary", "critic"}
    PROVE  Typed' /\ CallOK'
<1>1. cyc' \in CycleState /\ "cycle" \in Caller
  BY CycleKept DEF Caller
<1>2. Typed'
  BY <1>1, CallCleared DEF Typed
<1>3. Owed(cyc') = 0
  BY DEF Owed
<1>4. \A d \in Day : Pending(cyc', diag', d) <= Pending(cyc, diag, d)
  BY <1>2, <1>3, NothingOwed
<1>5. ASSUME NEW d \in Day
      PROVE  made'[d] + Pending(cyc', diag', d) <= made[d] + Pending(cyc, diag, d)
  <2>1. /\ made[d] \in Nat /\ made'[d] = made[d]
        /\ Pending(cyc, diag, d) \in Nat /\ Pending(cyc', diag', d) \in Nat
    BY <1>1, PendingIsNat DEF Typed
  <2> QED BY <1>4, <2>1
<1> QED BY <1>2, <1>5, CallsStay

LEMMA RowStays ==
    ASSUME Typed, UNCHANGED row
    PROVE  row' \in [Day -> RowState] /\ \A d \in Day : row'[d].used >= row[d].used
BY RowFields DEF Typed

LEMMA RowGrows ==
    ASSUME Typed, NEW c \in Caller, Taken(c)
    PROVE  row' \in [Day -> RowState] /\ \A d \in Day : row'[d].used >= row[d].used
<1>1. ASSUME NEW d \in Day
      PROVE  row'[d].used >= row[d].used
  <2>1. row[d].used \in Nat /\ Units(c) \in Nat
    BY RowFields, UnitsAsked
  <2> QED BY <2>1, RowTaken
<1> QED BY <1>1, RowTaken

LEMMA ReturnQuiet ==
    ASSUME Typed, NEW b \in BOOLEAN, Return(b)
    PROVE  cyc'.pc = "pick"
BY DEF Typed, CycleState, Return

(* The loop's steps other than the forecast's. *)
LEMMA LoopCalls ==
    ASSUME Typed, CycleOK', CallOK,
           \/ \E b \in BOOLEAN, lost \in SUBSET Held : StartCycle(b, lost)
           \/ \E m \in Market : SkipMarket(m) \/ ProcessMarket(m)
           \/ FinishMarket \/ MarketError \/ PortfolioFails \/ EndLoop \/ EndCycle \/ Crash
    PROVE  Typed' /\ CallOK'
<1>1. cyc'.pc \notin {"evidence", "primary", "critic"}
  <2>1. CASE \E b \in BOOLEAN, lost \in SUBSET Held : StartCycle(b, lost)
    BY <2>1 DEF StartCycle, Idle
  <2>2. CASE \E m \in Market : SkipMarket(m) \/ ProcessMarket(m)
    BY <2>2 DEF SkipMarket, ProcessMarket, Look, Typed, CycleState
  <2>3. CASE FinishMarket \/ MarketError
    BY <2>3, ReturnQuiet DEF FinishMarket, MarketError
  <2>4. CASE PortfolioFails \/ EndLoop
    BY <2>4 DEF PortfolioFails, EndLoop, Typed, CycleState
  <2>5. CASE EndCycle \/ Crash
    BY <2>5 DEF EndCycle, Crash, Idle
  <2> QED BY <2>1, <2>2, <2>3, <2>4, <2>5
<1>2. /\ UNCHANGED <<row, day, limit, top, edits, made, diag>>
      /\ rpc' = rpc \/ rpc' = [rpc EXCEPT !["cycle"] = NoCall]
      /\ fresh' = fresh /\ cycles' \in {cycles, cycles + 1}
  BY DEF StartCycle, SkipMarket, ProcessMarket, FinishMarket, MarketError, PortfolioFails,
         EndLoop, EndCycle, Crash, budget
<1>3. fresh' \subseteq Market /\ cycles' \in Nat
  BY <1>2 DEF Typed
<1> QED BY <1>1, <1>2, <1>3, RowStays, QuietStep

LEMMA RefusedCalls ==
    ASSUME Typed, CycleOK', CallOK, TenantReserve \/ BudgetUnavailable
    PROVE  Typed' /\ CallOK'
<1>1. "cycle" \in Caller
  BY DEF Caller
<1>2. cyc'.pc \in {"pick", "idle"}
  <2>1. CASE TenantReserve
    BY <2>1 DEF TenantReserve, Typed, CycleState, Idle
  <2>2. CASE BudgetUnavailable
    BY <2>2 DEF BudgetUnavailable, Typed, CycleState
  <2> QED BY <2>1, <2>2
<1>3. /\ UNCHANGED <<day, limit, top, edits, made, diag, fresh, cycles>>
      /\ rpc' = [rpc EXCEPT !["cycle"] = NoCall]
      /\ row' = row \/ Taken("cycle")
  BY DEF TenantReserve, BudgetUnavailable
<1>4. row' \in [Day -> RowState] /\ \A d \in Day : row'[d].used >= row[d].used
  BY <1>1, <1>3, RowStays, RowGrows
<1> QED BY <1>2, <1>3, <1>4, QuietStep DEF Typed

LEMMA SaveCalls ==
    ASSUME Typed, CycleOK', CallOK, NEW ok \in BOOLEAN, SaveForecast(ok)
    PROVE  Typed' /\ CallOK'
<1>1. cyc'.pc \in {"pick", "post"}
  <2>1. CASE ok = TRUE
    BY <2>1 DEF SaveForecast, Typed, CycleState
  <2>2. CASE ok = FALSE
    BY <2>2, ReturnQuiet DEF SaveForecast
  <2> QED BY <2>1, <2>2
<1>2. fresh' \subseteq Market
  <2>1. cyc.m \subseteq Market /\ fresh \subseteq Market
    BY CycleFields DEF Typed
  <2> QED BY <2>1 DEF SaveForecast
<1> QED BY <1>1, <1>2, RowStays, QuietStep DEF SaveForecast, budget, Typed

(* Reserve takes two units, which pay for every request of the forecast.   *)
LEMMA ReserveCalls ==
    ASSUME Typed, CycleOK', CallOK, Reserve
    PROVE  Typed' /\ CallOK'
<1> DEFINE e == rpc["cycle"].day
<1>1. "cycle" \in Caller /\ cyc \in CycleState /\ cyc' \in CycleState
  BY CycleKept DEF Caller, Typed
<1>2. /\ row' \in [Day -> RowState] /\ e \in Day
      /\ \A d \in Day : d # e => row'[d] = row[d]
      /\ Fits("cycle") => row'[e].used = row[e].used + 2
      /\ ~Fits("cycle") => row'[e].used = row[e].used
  BY <1>1, RowTaken, UnitsAsked DEF Reserve
<1>3. Typed'
  BY <1>1, <1>2, CallCleared DEF Reserve, Typed
<1>4. made' = made /\ diag' = diag
  BY DEF Reserve
<1>5. CASE ~Fits("cycle")
  <2>1. cyc' = [cyc EXCEPT !.pc = "pick", !.m = {}, !.blocked = TRUE, !.refused = @ + 1]
    BY <1>5 DEF Reserve
  <2>2. cyc'.pc = "pick"
    BY <1>1, <2>1 DEF CycleState
  <2>3. row' \in [Day -> RowState] /\ \A d \in Day : row'[d].used >= row[d].used
    BY <1>1, RowGrows DEF Reserve
  <2> QED BY <2>2, <2>3, QuietStep DEF Reserve, Typed
<1>6. CASE Fits("cycle")
  <2>1. cyc' = [cyc EXCEPT !.pc = "evidence", !.day = e, !.tried = @ \cup cyc.m]
    BY <1>6 DEF Reserve
  <2>2. cyc'.pc = "evidence" /\ cyc'.day = e
    BY <1>1, <1>2, <2>1 DEF CycleState
  <2>3. Owed(cyc') = PerForecast /\ Owed(cyc) = 0
    BY <2>2 DEF Owed, Reserve
  <2>4. ASSUME NEW d \in Day
        PROVE  2 * (made'[d] + Pending(cyc', diag', d)) <= PerForecast * row'[d].used
    <3>1. /\ made[d] \in Nat /\ PerForecast \in Nat /\ row[d].used \in Nat
          /\ row'[d].used \in Nat
      BY <1>1, <1>2, OwedIsNat, RowFields DEF RowState
    <3>2. 2 * (made[d] + Pending(cyc, diag, d)) <= PerForecast * row[d].used
      BY DEF CallOK
    <3>3. CASE d = e
      <4>1. /\ Pending(cyc', diag', d) = PerForecast + Pending(cyc, diag, d)
            /\ Pending(cyc, diag, d) \in Nat
        BY <1>1, <1>4, <2>2, <2>3, <3>1, <3>3 DEF Pending
      <4>2. /\ PerForecast * row'[d].used = PerForecast * row[d].used + 2 * PerForecast
            /\ PerForecast * row[d].used \in Nat
        <5> HIDE DEF PerForecast
        <5>1. row'[d].used = row[d].used + 2
          BY <1>2, <1>6, <3>3
        <5> DEFINE u == row[d].used
        <5>2. u \in Nat
          BY <3>1
        <5>3. PerForecast * (u + 2) = PerForecast * u + 2 * PerForecast /\ PerForecast * u \in Nat
          <6> HIDE DEF u
          <6> QED BY <3>1, <5>2, MoreUnits
        <5> QED BY <5>1, <5>3
      <4> HIDE DEF PerForecast
      <4> QED BY <1>4, <3>1, <3>2, <4>1, <4>2
    <3>4. CASE d # e
      <4>1. Pending(cyc', diag', d) = Pending(cyc, diag, d)
        BY <1>4, <2>2, <2>3, <3>4 DEF Pending
      <4>2. row'[d].used = row[d].used
        BY <1>2, <3>4
      <4> QED BY <1>4, <3>2, <4>1, <4>2
    <3> QED BY <3>3, <3>4
  <2> QED BY <1>3, <2>4 DEF CallOK
<1> QED BY <1>5, <1>6


LEMMA AnsweredCalls ==
    ASSUME Typed, CycleOK', CallOK, NEW ok \in BOOLEAN,
           CollectEvidence(ok) \/ AskProvider(ok)
    PROVE  Typed' /\ CallOK'
<1>1. cyc \in CycleState /\ cyc' \in CycleState /\ cyc.day \in Day /\ cyc.next \in 1 .. Providers
  BY CycleKept, CycleFields DEF Typed, Attempt
<1>2. PICK n \in Nat : /\ made' = [made EXCEPT ![cyc.day] = @ + n]
                       /\ cyc'.day = cyc.day /\ n + Owed(cyc') <= Owed(cyc)
  <2>1. CASE CollectEvidence(ok)
    <3>1. cyc'.day = cyc.day /\ cyc'.pc \in {"primary", "pick"}
          /\ (cyc'.pc = "primary" => cyc'.next = 1)
      BY <1>1, <2>1 DEF CollectEvidence, Return, CycleState
    <3>2. EvidenceCalls + Owed(cyc') <= Owed(cyc) /\ EvidenceCalls \in Nat
      BY <2>1, <3>1, ForecastAssumption DEF Owed, PerForecast, CollectEvidence
    <3> QED BY <2>1, <3>1, <3>2 DEF CollectEvidence
  <2>2. CASE AskProvider(ok)
    <3>1. cyc.pc \in {"primary", "critic"} /\ made' = [made EXCEPT ![cyc.day] = @ + 1]
      BY <2>2 DEF AskProvider, Request
    <3>2. cyc'.day = cyc.day
      BY <1>1, <2>2 DEF AskProvider, Return, CycleState
    <3>3. \/ cyc'.pc \in {"save", "pick"}
          \/ cyc.pc = "primary" /\ cyc'.pc = "critic" /\ cyc'.next = 1
          \/ cyc'.pc = cyc.pc /\ cyc'.next = cyc.next + 1
      BY <1>1, <2>2 DEF AskProvider, Return, CycleState
    <3>4. 1 + Owed(cyc') <= Owed(cyc)
      BY <1>1, <3>1, <3>3, ForecastAssumption DEF Owed
    <3> QED BY <3>1, <3>2, <3>4
  <2> QED BY <2>1, <2>2
<1>3. /\ made' \in [Day -> Nat] /\ made'[cyc.day] = made[cyc.day] + n
      /\ \A d \in Day : d # cyc.day => made'[d] = made[d]
  BY <1>1, <1>2, RequestMade
<1>4. UNCHANGED <<day, limit, row, top, edits, rpc, fresh, cycles, diag>>
  BY DEF CollectEvidence, AskProvider, budget
<1>5. Typed'
  BY <1>1, <1>3, <1>4 DEF Typed
<1>6. ASSUME NEW d \in Day
      PROVE  made'[d] + Pending(cyc', diag', d) <= made[d] + Pending(cyc, diag, d)
  <2>1. /\ made[d] \in Nat /\ Owed(cyc) \in Nat /\ Owed(cyc') \in Nat
    BY <1>1, OwedIsNat, RowFields
  <2>2. CASE d = cyc.day
    BY <1>2, <1>3, <1>4, <2>1, <2>2 DEF Pending
  <2>3. CASE d # cyc.day
    BY <1>2, <1>3, <1>4, <2>1, <2>3 DEF Pending
  <2> QED BY <2>2, <2>3
<1> QED BY <1>4, <1>5, <1>6, RowStays, CallsStay

LEMMA DiagnosticCalls ==
    ASSUME Typed, CycleOK', CallOK, StartDiagnostic \/ DiagnosticReserve \/ DiagnosticCall
    PROVE  Typed' /\ CallOK'
<1> DEFINE e == rpc["diag"].day
<1>1. /\ "diag" \in Caller /\ cyc \in CycleState /\ cyc' = cyc
      /\ diag.pc \in {"idle", "reserve", "call"} /\ diag.n \in Nat /\ diag.day \in Day
      /\ e \in Day
  BY CallFields DEF Caller, StartDiagnostic, DiagnosticReserve, DiagnosticCall, Typed, DiagState
<1>2. CASE StartDiagnostic
  <2>1. diag' \in DiagState /\ diag'.pc = "reserve" /\ diag.pc = "idle"
    <3>1. diag.n + 1 \in Nat /\ diag \in DiagState
      BY <1>1 DEF Typed
    <3>2. diag' = [diag EXCEPT !.pc = "reserve", !.n = diag.n + 1] /\ diag.pc = "idle"
      BY <1>2 DEF StartDiagnostic
    <3> DEFINE k == diag.n + 1
    <3> HIDE DEF k
    <3>3. diag' = [diag EXCEPT !.pc = "reserve", !.n = k] /\ k \in Nat
      BY <3>1, <3>2 DEF k
    <3> QED BY <3>1, <3>2, <3>3 DEF DiagState
  <2>2. Typed'
    BY <1>2, <2>1 DEF StartDiagnostic, Typed, budget
  <2>3. UNCHANGED <<made, row>>
    BY <1>2 DEF StartDiagnostic, budget
  <2>4. \A d \in Day : Pending(cyc', diag', d) = Pending(cyc, diag, d)
    BY <1>1, <2>1 DEF Pending
  <2>5. \A d \in Day : made'[d] + Pending(cyc', diag', d) <= made[d] + Pending(cyc, diag, d)
    BY <1>1, <2>3, <2>4, PendingIsNat, RowFields
  <2> QED BY <2>2, <2>3, <2>5, RowStays, CallsStay
<1>3. CASE DiagnosticCall
  <2>1. diag' \in DiagState /\ diag'.pc = "idle" /\ diag.pc = "call"
    BY <1>1, <1>3 DEF DiagnosticCall, DiagState, Typed
  <2>2. /\ made' \in [Day -> Nat] /\ made'[diag.day] = made[diag.day] + 1
        /\ \A d \in Day : d # diag.day => made'[d] = made[d]
    BY <1>1, <1>3, RequestMade DEF DiagnosticCall
  <2>3. Typed'
    BY <1>3, <2>1, <2>2 DEF DiagnosticCall, Typed, budget
  <2>4. ASSUME NEW d \in Day
        PROVE  made'[d] + Pending(cyc', diag', d) <= made[d] + Pending(cyc, diag, d)
    BY <1>1, <2>1, <2>2, OwedIsNat, RowFields DEF Pending
  <2> QED BY <1>3, <2>3, <2>4, RowStays, CallsStay DEF DiagnosticCall, budget
<1>4. CASE DiagnosticReserve /\ ~Fits("diag")
  <2>1. diag' \in DiagState /\ diag'.pc = "idle" /\ diag.pc = "reserve"
    BY <1>1, <1>4 DEF DiagnosticReserve, DiagState, Typed
  <2>2. row' \in [Day -> RowState] /\ \A d \in Day : row'[d].used >= row[d].used
    BY <1>1, <1>4, RowGrows DEF DiagnosticReserve
  <2>3. Typed'
    BY <1>1, <1>4, <2>1, <2>2, CallCleared DEF DiagnosticReserve, Typed
  <2>4. \A d \in Day : Pending(cyc', diag', d) = Pending(cyc, diag, d)
    BY <1>1, <2>1 DEF Pending
  <2>5. \A d \in Day : made'[d] + Pending(cyc', diag', d) <= made[d] + Pending(cyc, diag, d)
    BY <1>1, <1>4, <2>4, PendingIsNat, RowFields DEF DiagnosticReserve
  <2> QED BY <2>2, <2>3, <2>5, CallsStay
<1>5. CASE DiagnosticReserve /\ Fits("diag")
  <2>1. diag' = [diag EXCEPT !.pc = "call", !.day = e] /\ diag.pc = "reserve" /\ made' = made
    BY <1>5 DEF DiagnosticReserve
  <2>2. diag' \in DiagState /\ diag'.pc = "call" /\ diag'.day = e
    BY <1>1, <2>1 DEF DiagState, Typed
  <2>3. /\ row' \in [Day -> RowState] /\ row'[e].used = row[e].used + 1
        /\ \A d \in Day : d # e => row'[d] = row[d]
    BY <1>1, <1>5, RowTaken, UnitsAsked DEF DiagnosticReserve
  <2>4. Typed'
    BY <1>1, <1>5, <2>2, <2>3, CallCleared DEF DiagnosticReserve, Typed
  <2>5. ASSUME NEW d \in Day
        PROVE  2 * (made'[d] + Pending(cyc', diag', d)) <= PerForecast * row'[d].used
    <3>1. /\ made[d] \in Nat /\ PerForecast \in Nat /\ row[d].used \in Nat
          /\ Owed(cyc) \in Nat /\ PerForecast >= 2
      BY <1>1, OwedIsNat, RowFields
    <3>2. 2 * (made[d] + Pending(cyc, diag, d)) <= PerForecast * row[d].used
      BY DEF CallOK
    <3>3. CASE d = e
      <4>1. Pending(cyc', diag', d) = 1 + Pending(cyc, diag, d) /\ Pending(cyc, diag, d) \in Nat
        BY <1>1, <2>1, <2>2, <3>1, <3>3 DEF Pending
      <4> HIDE DEF PerForecast
      <4>2. row'[d].used = row[d].used + 1
        BY <2>3, <3>3
      <4> DEFINE u == row[d].used
      <4>3. PerForecast * (u + 1) = PerForecast * u + PerForecast /\ PerForecast * u \in Nat
        <5>1. u \in Nat
          BY <3>1
        <5> HIDE DEF u
        <5> QED BY <3>1, <5>1, MoreUnits
      <4> QED BY <2>1, <3>1, <3>2, <4>1, <4>2, <4>3
    <3>4. CASE d # e
      <4>1. Pending(cyc', diag', d) = Pending(cyc, diag, d)
        BY <1>1, <2>1, <2>2, <3>4 DEF Pending
      <4>2. row'[d].used = row[d].used
        BY <2>3, <3>4
      <4> QED BY <2>1, <3>2, <4>1, <4>2
    <3> QED BY <3>3, <3>4
  <2> QED BY <2>4, <2>5 DEF CallOK
<1> QED BY <1>2, <1>3, <1>4, <1>5

LEMMA AccountCalls ==
    ASSUME Typed, LimitOK, CycleOK', CallOK,
           \/ NextDay \/ \E l \in Limits : SetLimit(l)
           \/ ReadLimit("cycle") \/ ReadLimit("diag") \/ CooldownEnds
    PROVE  Typed' /\ CallOK'
<1>1. Typed'
  <2>1. CASE CooldownEnds
    BY <2>1 DEF CooldownEnds, budget, Typed
  <2> QED BY <2>1, NextDayKeepsLimit, SetLimitKeepsLimit, ReadLimitKeepsLimit DEF Caller
<1>2. UNCHANGED <<made, cyc, diag>>
  BY DEF NextDay, SetLimit, ReadLimit, CooldownEnds
<1>3. \A d \in Day : row'[d].used >= row[d].used
  <2>1. CASE UNCHANGED row
    BY <2>1, RowStays
  <2>2. CASE \E l \in Limits : SetLimit(l)
    BY <2>2, RowFields DEF SetLimit, Typed, RowState
  <2> QED BY <2>1, <2>2 DEF NextDay, ReadLimit, CooldownEnds, budget
<1>4. ASSUME NEW d \in Day
      PROVE  made'[d] + Pending(cyc', diag', d) <= made[d] + Pending(cyc, diag, d)
  BY <1>2, RowFields, PendingIsNat DEF Typed
<1> QED BY <1>1, <1>3, <1>4, CallsStay

-----------------------------------------------------------------------------
(* The theorems *)

SpendingOK == Typed /\ CycleOK /\ LimitOK /\ CallOK

LEMMA SpendingInit == Init => SpendingOK
<1> SUFFICES ASSUME Init PROVE SpendingOK
  OBVIOUS
<1>1. 1 \in Day /\ DefaultLimit \in Nat /\ 0 \in Nat /\ "cycle" \in Caller
  BY ForecastAssumption DEF Day, Caller
<1>2. [used |-> 0, lim |-> DefaultLimit] \in RowState
  BY <1>1 DEF RowState
<1>3. [pc |-> "idle", n |-> 0, day |-> 1] \in DiagState
  BY <1>1 DEF DiagState
<1>4. Typed
  BY <1>1, <1>2, <1>3, IdleCycle, ForecastAssumption DEF Typed, Init
<1>5. CycleOK
  BY <1>4, IdleOK DEF CycleOK, Init, Typed
<1>6. LimitOK
  <2>1. \A d \in Day : row[d].used = 0 /\ top[d] \in Nat
    BY <1>1 DEF Init
  <2>2. limit <= top[day]
    BY <1>1 DEF Init
  <2>3. \A c \in Caller : rpc[c].on = FALSE
    BY DEF Init, NoCall
  <2> QED BY <2>1, <2>2, <2>3 DEF LimitOK
<1>7. CallOK
  <2>1. Owed(Idle) = 0
    BY DEF Owed, Idle
  <2>2. ASSUME NEW d \in Day
        PROVE  made[d] = 0 /\ row[d].used = 0 /\ Pending(cyc, diag, d) = 0
    BY <2>1 DEF Init, Pending
  <2>3. PerForecast \in Nat
    BY IdleCycle, OwedIsNat
  <2> HIDE DEF PerForecast
  <2>4. PerForecast * 0 = 0
    BY <2>3
  <2> QED BY <2>2, <2>4 DEF CallOK
<1> QED BY <1>4, <1>5, <1>6, <1>7 DEF SpendingOK

LEMMA SpendingStep ==
    ASSUME SpendingOK, [Next]_vars
    PROVE  SpendingOK'
<1>1. Typed /\ CycleOK /\ LimitOK /\ CallOK
  BY DEF SpendingOK
<1>2. CycleOK'
  BY <1>1, LoopStep
<1>3. CASE \/ \E b \in BOOLEAN, lost \in SUBSET Held : StartCycle(b, lost)
           \/ \E m \in Market : SkipMarket(m) \/ ProcessMarket(m)
           \/ FinishMarket \/ MarketError \/ PortfolioFails \/ EndLoop \/ EndCycle \/ Crash
  <2>1. Typed' /\ CallOK'
    BY <1>1, <1>2, <1>3, LoopCalls
  <2>2. UNCHANGED budget /\ (rpc' = rpc \/ rpc' = [rpc EXCEPT !["cycle"] = NoCall])
    BY <1>3 DEF StartCycle, SkipMarket, ProcessMarket, FinishMarket, MarketError,
                PortfolioFails, EndLoop, EndCycle, Crash
  <2> QED BY <1>1, <1>2, <2>1, <2>2, LimitStays DEF SpendingOK, Caller
<1>4. CASE TenantReserve \/ BudgetUnavailable \/ Reserve
  <2>1. Typed' /\ CallOK'
    BY <1>1, <1>2, <1>4, RefusedCalls, ReserveCalls
  <2>2. UNCHANGED <<day, limit, top, edits>> /\ rpc' = [rpc EXCEPT !["cycle"] = NoCall]
    BY <1>4 DEF TenantReserve, BudgetUnavailable, Reserve
  <2>3. "cycle" \in Caller /\ rpc["cycle"].on \in BOOLEAN
    BY <1>1, CallFields DEF Caller
  <2>4. UNCHANGED row \/ (rpc["cycle"].on = TRUE /\ Taken("cycle"))
    BY <1>4, <2>3 DEF TenantReserve, BudgetUnavailable, Reserve
  <2>5. LimitOK'
    BY <1>1, <2>2, <2>3, <2>4, LimitStays, TakenKeepsLimit DEF budget
  <2> QED BY <1>2, <2>1, <2>5 DEF SpendingOK
<1>5. CASE \E ok \in BOOLEAN : CollectEvidence(ok) \/ AskProvider(ok) \/ SaveForecast(ok)
  <2>1. Typed' /\ CallOK'
    BY <1>1, <1>2, <1>5, AnsweredCalls, SaveCalls
  <2>2. UNCHANGED budget /\ UNCHANGED rpc
    BY <1>5 DEF CollectEvidence, AskProvider, SaveForecast
  <2> QED BY <1>1, <1>2, <2>1, <2>2, LimitStays DEF SpendingOK
<1>6. CASE StartDiagnostic \/ DiagnosticReserve \/ DiagnosticCall
  <2>1. Typed' /\ CallOK'
    BY <1>1, <1>2, <1>6, DiagnosticCalls
  <2>2. CASE StartDiagnostic \/ DiagnosticCall
    BY <1>1, <1>2, <2>1, <2>2, LimitStays
       DEF SpendingOK, StartDiagnostic, DiagnosticCall
  <2>3. CASE DiagnosticReserve
    <3>1. "diag" \in Caller /\ rpc["diag"].on = TRUE
      BY <1>1, <2>3, CallFields DEF Caller, DiagnosticReserve
    <3> QED BY <1>1, <1>2, <2>1, <2>3, <3>1, TakenKeepsLimit
            DEF SpendingOK, DiagnosticReserve
  <2> QED BY <1>6, <2>2, <2>3
<1>7. CASE \/ NextDay \/ \E l \in Limits : SetLimit(l)
           \/ ReadLimit("cycle") \/ ReadLimit("diag") \/ CooldownEnds
  <2>1. Typed' /\ CallOK'
    BY <1>1, <1>2, <1>7, AccountCalls
  <2>2. LimitOK'
    BY <1>1, <1>7, NextDayKeepsLimit, SetLimitKeepsLimit, ReadLimitKeepsLimit, LimitStays
       DEF CooldownEnds, Caller
  <2> QED BY <1>2, <2>1, <2>2 DEF SpendingOK
<1>8. CASE UNCHANGED vars
  BY <1>1, <1>8 DEF vars, SpendingOK, Typed, CycleOK, LimitOK, CallOK
<1> QED BY <1>3, <1>4, <1>5, <1>6, <1>7, <1>8 DEF Next, CycleStep

LEMMA SpendingHolds == Spec => []SpendingOK
<1>1. SpendingOK /\ [Next]_vars => SpendingOK'
  BY SpendingStep
<1> QED BY SpendingInit, <1>1, PTL DEF Spec

(* The types of the spending model, for any constants.                      *)
THEOREM SpendingTypes == Spec => []TypeOK
<1>1. SpendingOK => TypeOK
  <2> SUFFICES ASSUME SpendingOK PROVE TypeOK
    OBVIOUS
  <2>1. Typed /\ cyc \in CycleState /\ LoopOK(cyc)
    BY DEF SpendingOK, CycleOK
  <2>2. Cardinality(cyc.m) <= 1
    <3>1. CASE cyc.m = {}
      BY <3>1, FS_EmptySet
    <3>2. CASE cyc.m # {}
      <4>1. PICK x : x \in cyc.m
        BY <3>2
      <4>2. cyc.m = {x}
        BY <2>1, <4>1 DEF LoopOK
      <4>3. Cardinality({x}) = 1
        BY FS_Singleton
      <4> QED BY <4>2, <4>3
    <3> QED BY <3>1, <3>2
  <2> QED BY <2>1, <2>2, CycleFields DEF TypeOK, Typed, LoopOK, RowState
<1> QED BY <1>1, SpendingHolds, PTL

(* No day's units go over the highest limit that was in force on it, for    *)
(* any limits, any edits between the two statements of a reservation, and   *)
(* any crash (consume_ai_budget, set_ai_budget_limit).                      *)
THEOREM LimitTheorem == Spec => []LimitHolds
<1>1. SpendingOK => LimitHolds
  BY DEF SpendingOK, LimitOK, LimitHolds
<1> QED BY <1>1, SpendingHolds, PTL

(* With P providers and E requests of the collector, a day's requests are   *)
(* at most (E + 2P) / 2 for each of its units: this is the whole of what    *)
(* the two units of a forecast bound (AI_UNITS_PER_FORECAST).               *)
RequestsAreBounded ==
    \A d \in Day : 2 * made[d] <= (EvidenceCalls + 2 * Providers) * row[d].used

(* For any number of providers, what a forecast may cost bounds every day.  *)
THEOREM RequestTheorem == Spec => []RequestsAreBounded
<1>1. SpendingOK => RequestsAreBounded
  <2> SUFFICES ASSUME SpendingOK, NEW d \in Day
               PROVE  2 * made[d] <= PerForecast * row[d].used
    BY DEF RequestsAreBounded, PerForecast
  <2>1. Typed /\ CallOK /\ cyc \in CycleState
    BY DEF SpendingOK, Typed
  <2>2. /\ made[d] \in Nat /\ Pending(cyc, diag, d) \in Nat /\ PerForecast \in Nat
        /\ row[d].used \in Nat
    BY <2>1, RowFields, PendingIsNat, OwedIsNat
  <2>3. PerForecast * row[d].used \in Nat
    <3> HIDE DEF PerForecast
    <3> QED BY <2>2, MoreUnits
  <2>4. 2 * (made[d] + Pending(cyc, diag, d)) <= PerForecast * row[d].used
    BY <2>1 DEF CallOK
  <2> HIDE DEF PerForecast
  <2> QED BY <2>2, <2>3, <2>4
<1> QED BY <1>1, SpendingHolds, PTL

(* With one provider and a collector that makes no request the budget is    *)
(* kept and pays for every request, for any markets, limits and days, with  *)
(* diagnostics and a tenant's own reservation beside it.                    *)
THEOREM BudgetTheorem ==
    ASSUME Providers = 1, EvidenceCalls = 0
    PROVE  Spec => []BudgetIsKept
<1>1. SpendingOK /\ RequestsAreBounded => BudgetIsKept
  <2> SUFFICES ASSUME SpendingOK, RequestsAreBounded PROVE BudgetIsKept
    OBVIOUS
  <2>1. LimitHolds
    BY DEF SpendingOK, LimitOK, LimitHolds
  <2>2. \A d \in Day : made[d] \in Nat /\ row[d].used \in Nat
    BY RowFields DEF SpendingOK
  <2>3. CallsAreReserved
    BY <2>2 DEF RequestsAreBounded, CallsAreReserved
  <2> QED BY <2>1, <2>3 DEF BudgetIsKept
<1> QED BY <1>1, SpendingHolds, RequestTheorem, PTL

(* In a cycle the budget is asked at most once after it is exhausted, a     *)
(* market that the filter removed is never forecast, and a loop that ran to *)
(* its end looked at every market with shares that it could look up, for    *)
(* any markets, holdings and filters (run_cycle, _ai_budget_blocked,        *)
(* reduce_only_market_ids, _include_held_markets).                          *)
THEOREM LoopTheorem ==
    Spec => [](OneRefusalPerCycle /\ FilteredIsReduceOnly /\ HeldAreVisited)
<1>1. SpendingOK => OneRefusalPerCycle /\ FilteredIsReduceOnly /\ HeldAreVisited
  <2> SUFFICES ASSUME SpendingOK
               PROVE  OneRefusalPerCycle /\ FilteredIsReduceOnly /\ HeldAreVisited
    OBVIOUS
  <2>1. cyc \in CycleState /\ LoopOK(cyc)
    BY DEF SpendingOK, CycleOK
  <2>2. cyc.broke \in BOOLEAN
    BY <2>1, CycleFields
  <2>3. HeldAreVisited
    BY <2>1, <2>2 DEF HeldAreVisited, LoopOK
  <2> QED BY <2>1, <2>3 DEF LoopOK, OneRefusalPerCycle, FilteredIsReduceOnly
<1> QED BY <1>1, SpendingHolds, PTL

-----------------------------------------------------------------------------
(* Products of naturals *)

LEMMA ProductIsNat ==
    ASSUME NEW a \in Nat, NEW b \in Nat
    PROVE  a * b \in Nat
OBVIOUS

LEMMA ProductGrows ==
    ASSUME NEW a \in Nat, NEW b \in Nat, NEW c \in Nat, a <= b
    PROVE  a * c <= b * c /\ c * a <= c * b
OBVIOUS

LEMMA QuotientIs ==
    ASSUME NEW a \in Nat, NEW b \in Nat \ {0}
    PROVE  a \div b \in Nat /\ b * (a \div b) <= a
OBVIOUS

(* A positive rounded amount is at most twice the amount (maximum_buy_cost).  *)
LEMMA RoundedAtMostTwice ==
    ASSUME NEW q \in Nat \ {0}, NEW raw \in Nat
    PROVE  /\ q * ((2 * raw + q) \div (2 * q)) \in Nat
           /\ q * ((2 * raw + q) \div (2 * q)) <= 2 * raw
<1> DEFINE d == 2 * q
           n == 2 * raw + q
           r == n \div d
<1>1. r \in Nat /\ d * r <= n
  <2>1. n \in Nat /\ d \in Nat \ {0}
    <3>1. n \in Nat /\ d \in Nat /\ d # 0
      OBVIOUS
    <3> QED BY <3>1
  <2> HIDE DEF n, d
  <2> QED BY <2>1, QuotientIs
<1> HIDE DEF r
<1> DEFINE z == q * r
<1>2. z \in Nat
  BY <1>1, ProductIsNat
<1>3. 2 * z <= 2 * raw + q
  BY <1>1
<1>4. ASSUME r = 0 PROVE z <= 2 * raw
  BY <1>1, <1>4
<1>5. ASSUME r # 0 PROVE z <= 2 * raw
  <2> DEFINE one == 1
  <2>1. one \in Nat /\ one <= r
    BY <1>1, <1>5
  <2>2. q * one = q
    OBVIOUS
  <2> HIDE DEF one
  <2>3. q <= z
    BY <1>1, <2>1, <2>2, ProductGrows
  <2> HIDE DEF z
  <2>4. z <= 2 * raw
    BY <1>2, <1>3, <2>3
  <2> QED BY <2>4 DEF z
<1>6. z \in Nat /\ z <= 2 * raw
  BY <1>2, <1>4, <1>5
<1> QED BY <1>6 DEF r

-----------------------------------------------------------------------------
(* Prices and fees *)

LEMMA HalfIs ==
    ASSUME NEW a \in Nat, a % 2 = 0
    PROVE  a \div 2 \in Nat /\ 2 * (a \div 2) = a
OBVIOUS

LEMMA TicksAre ==
    ASSUME FeeAssumption
    PROVE  /\ Ticks \in Nat /\ Ticks >= 2
           /\ Ticks \div 2 \in Nat /\ 2 * (Ticks \div 2) = Ticks
<1>1. Ticks \in Nat /\ Ticks >= 2 /\ Ticks % 2 = 0
  BY DEF FeeAssumption
<1>2. Ticks \div 2 \in Nat /\ 2 * (Ticks \div 2) = Ticks
  BY <1>1, HalfIs
<1> QED BY <1>1, <1>2

(* The fee curve rises up to half a dollar. *)
LEMMA SpreadRises ==
    ASSUME FeeAssumption, NEW k \in Price, NEW l \in Price, k <= l
    PROVE  Spread(k) \in Nat /\ Spread(HalfOrLess(l)) \in Nat
           /\ Spread(k) <= Spread(HalfOrLess(l))
<1> DEFINE h == HalfOrLess(l)
           m == Ticks \div 2
<1>1. m \in Nat /\ Ticks = 2 * m /\ m >= 1 /\ k \in Nat /\ l \in Nat /\ k < 2 * m /\ l < 2 * m
  BY TicksAre DEF Price
<1>2. h = IF l <= m THEN l ELSE m
  BY <1>1 DEF HalfOrLess
<1> HIDE DEF m, h
<1>3. h \in Nat /\ h <= m /\ (k <= h \/ h = m)
  BY <1>1, <1>2
<1>4. Spread(k) = k * (2 * m - k) /\ Spread(h) = h * (2 * m - h)
  BY <1>1 DEF Spread
<1>5. k * (2 * m - k) \in Nat /\ h * (2 * m - h) \in Nat
  BY <1>1, <1>3, ProductIsNat
<1>6. k * (2 * m - k) <= h * (2 * m - h)
  <2>1. h * (2 * m - h) - k * (2 * m - k) = (h - k) * (2 * m - h - k)
    BY <1>1, <1>3
  <2>2. CASE k <= h
    <3>1. h - k \in Nat /\ 2 * m - h - k \in Nat
      BY <1>1, <1>3, <2>2
    <3>2. (h - k) * (2 * m - h - k) \in Nat
      BY <3>1, ProductIsNat
    <3> QED BY <1>5, <2>1, <3>2
  <2>3. CASE h = m
    <3>1. h * (2 * m - h) - k * (2 * m - k) = (m - k) * (m - k)
      BY <1>1, <2>3
    <3>2. (m - k) * (m - k) \in Nat
      <4>1. CASE k <= m
        BY <1>1, <4>1, ProductIsNat
      <4>2. CASE m <= k
        <5>1. (m - k) * (m - k) = (k - m) * (k - m)
          BY <1>1
        <5> QED BY <1>1, <4>2, <5>1, ProductIsNat
      <4> QED BY <1>1, <4>1, <4>2
    <3> QED BY <1>5, <3>1, <3>2
  <2> QED BY <1>3, <2>2, <2>3
<1> QED BY <1>4, <1>5, <1>6 DEF h

(* What one size unit of a BUY with this limit may cost. *)
UnitCost(l) == PriceOf(l) + 2 * EstimatedFee(HalfOrLess(l))

LEMMA UnitCosts ==
    ASSUME FeeAssumption, NEW k \in Price, NEW l \in Price, k <= l
    PROVE  /\ PriceOf(k) \in Nat /\ PriceOf(l) \in Nat /\ PriceOf(k) <= PriceOf(l)
           /\ EstimatedFee(HalfOrLess(l)) \in Nat /\ UnitCost(l) \in Nat
           /\ \A n : MaximumBuyCost(n, l) = n * UnitCost(l)
<1> DEFINE c == Ticks * Ticks * Ticks * RateDen
           s == Spread(HalfOrLess(l))
           e == EstimatedFee(HalfOrLess(l))
<1>1. Ticks \in Nat /\ RateDen \in Nat /\ RateNum \in Nat
  BY DEF FeeAssumption
<1>2. c \in Nat
  <2>1. Ticks * Ticks \in Nat
    BY <1>1, ProductIsNat
  <2>2. Ticks * Ticks * Ticks \in Nat
    BY <1>1, <2>1, ProductIsNat
  <2> QED BY <1>1, <2>2, ProductIsNat
<1>3. k \in Nat /\ l \in Nat
  BY <1>1 DEF Price
<1>4. PriceOf(k) = k * c /\ PriceOf(l) = l * c
  BY DEF PriceOf
<1>5. s \in Nat
  BY SpreadRises
<1> HIDE DEF c
<1>6. PriceOf(k) \in Nat /\ PriceOf(l) \in Nat /\ PriceOf(k) <= PriceOf(l)
  BY <1>2, <1>3, <1>4, ProductIsNat, ProductGrows
<1>7. e = 0 \/ e = RateNum * s * (Ticks * Ticks) \/ e = RateNum * s * s
  BY DEF EstimatedFee
<1> HIDE DEF s, e
<1>8. RateNum * s \in Nat /\ Ticks * Ticks \in Nat
  BY <1>1, <1>5, ProductIsNat
<1>9. e \in Nat
  BY <1>5, <1>7, <1>8, ProductIsNat
<1> QED BY <1>6, <1>9 DEF UnitCost, MaximumBuyCost, e

(* No fill of a BUY costs more than its share of the commitment, whatever its *)
(* price and its rounding (maximum_buy_cost; a market whose fee exponent is 1).*)
LEMMA FillCosts ==
    ASSUME FeeAssumption, Exponent = 1, NEW n \in Nat \ {0},
           NEW k \in Price, NEW l \in Price, k <= l
    PROVE  /\ MatchedFee(n, k) \in Nat
           /\ n * PriceOf(k) + MatchedFee(n, k) \in Nat
           /\ n * PriceOf(k) + MatchedFee(n, k) <= n * UnitCost(l)
<1> DEFINE w == Ticks * Ticks
           s == Spread(k)
           t == Spread(HalfOrLess(l))
           rs == RateNum * s
           rt == RateNum * t
           f == rs * w
           g == rt * w
           raw == n * f
<1>1. Ticks \in Nat /\ RateNum \in Nat /\ FeeQuantum \in Nat \ {0}
  BY DEF FeeAssumption
<1>2. s \in Nat /\ t \in Nat /\ s <= t
  BY SpreadRises
<1>3. MatchedFee(n, k) = IF ~FeesEnabled THEN 0 ELSE RoundHalfUp(raw)
  BY DEF MatchedFee
<1>4. EstimatedFee(HalfOrLess(l)) = IF FeesEnabled THEN g ELSE 0
  BY DEF EstimatedFee
<1> HIDE DEF s, t
<1>5. w \in Nat /\ rs \in Nat /\ rt \in Nat /\ rs <= rt
  BY <1>1, <1>2, ProductIsNat, ProductGrows
<1> HIDE DEF w, rs, rt
<1>6. f \in Nat /\ g \in Nat /\ f <= g
  BY <1>5, ProductIsNat, ProductGrows
<1> HIDE DEF f, g
<1>7. raw \in Nat /\ raw <= n * g
  BY <1>6, ProductIsNat, ProductGrows
<1> HIDE DEF raw
<1> DEFINE fee == MatchedFee(n, k)
           e == EstimatedFee(HalfOrLess(l))
<1>8. RoundHalfUp(raw) \in Nat /\ RoundHalfUp(raw) <= 2 * raw
  BY <1>1, <1>7, RoundedAtMostTwice DEF RoundHalfUp
<1>9. fee \in Nat /\ fee <= 2 * (n * e) /\ e \in Nat
  <2>1. n * e \in Nat
    BY <1>4, <1>6, ProductIsNat
  <2> QED BY <1>3, <1>4, <1>6, <1>7, <1>8, <2>1
<1>10. /\ PriceOf(k) \in Nat /\ PriceOf(l) \in Nat /\ PriceOf(k) <= PriceOf(l)
       /\ UnitCost(l) = PriceOf(l) + 2 * e
  BY UnitCosts DEF UnitCost
<1> HIDE DEF fee, e
<1>11. n * PriceOf(k) \in Nat /\ n * PriceOf(k) <= n * PriceOf(l)
  BY <1>10, ProductIsNat, ProductGrows
<1>12. n * (PriceOf(l) + 2 * e) = n * PriceOf(l) + 2 * (n * e)
  BY <1>9, <1>10
<1>13. n * PriceOf(k) + fee \in Nat /\ n * PriceOf(k) + fee <= n * UnitCost(l)
  <2>1. n * e \in Nat /\ n * PriceOf(l) \in Nat
    BY <1>9, <1>10, ProductIsNat
  <2> QED BY <1>9, <1>10, <1>11, <1>12, <2>1
<1> QED BY <1>9, <1>13 DEF fee

-----------------------------------------------------------------------------
(* The invariant: a BUY that still fills has cost no more than the commitment *)
(* of what is filled, and only an approved order fills at all.                *)
Bought == cand.size - left

SizingInv ==
    /\ scene \in Scenarios /\ spent \in Nat
    /\ cand = None \/ cand \in TradeCandidates
    /\ stage \in {"choose", "risk"} => spent = 0
    /\ stage = "risk" => cand \in TradeCandidates
    /\ spent > 0 => cand \in TradeCandidates /\ Codes(scene, cand) = {}
    /\ stage = "filling" =>
            /\ cand \in TradeCandidates /\ left \in 0..cand.size /\ Codes(scene, cand) = {}
            /\ cand.side = "BUY" => spent <= Bought * UnitCost(cand.limit)
    /\ cand.side = "BUY" /\ stage # "filling" => spent <= MaximumBuyCost(cand.size, cand.limit)

LEMMA CandidateIs ==
    ASSUME FeeAssumption, NEW c \in TradeCandidates
    PROVE  /\ c.limit \in Price /\ c.size \in Nat \ {0} /\ UnitCost(c.limit) \in Nat
           /\ MaximumBuyCost(c.size, c.limit) = c.size * UnitCost(c.limit)
           /\ MaximumBuyCost(c.size, c.limit) \in Nat
<1>1. c.limit \in Price /\ c.size \in Nat \ {0}
  BY DEF TradeCandidates
<1>2. c.limit <= c.limit
  BY <1>1 DEF FeeAssumption, Price
<1>3. UnitCost(c.limit) \in Nat /\ MaximumBuyCost(c.size, c.limit) = c.size * UnitCost(c.limit)
  BY <1>1, <1>2, UnitCosts
<1> QED BY <1>1, <1>3, ProductIsNat

LEMMA SizingInitial ==
    ASSUME SizingInit
    PROVE  SizingInv
BY DEF SizingInit, SizingInv, None

LEMMA ChooseStep ==
    ASSUME FeeAssumption, SizingInv, Choose
    PROVE  SizingInv'
<1>1. /\ scene' = scene /\ spent' = spent /\ spent = 0 /\ stage' \in {"risk", "done"}
      /\ cand' = cand \/ cand' \in TradeCandidates
      /\ stage' = "risk" => cand' \in TradeCandidates
  BY DEF Choose, SizingInv
<1>2. cand'.side = "BUY" => 0 <= MaximumBuyCost(cand'.size, cand'.limit)
  <2>1. CASE cand' \in TradeCandidates
    BY <2>1, CandidateIs
  <2>2. CASE cand' = None
    BY <2>2 DEF None
  <2> QED BY <1>1, <2>1, <2>2 DEF SizingInv
<1> QED BY <1>1, <1>2 DEF SizingInv

LEMMA EvaluateStep ==
    ASSUME FeeAssumption, SizingInv, Evaluate
    PROVE  SizingInv'
<1>1. /\ scene' = scene /\ cand' = cand /\ spent' = spent /\ spent = 0
      /\ cand \in TradeCandidates
      /\ \/ stage' = "filling" /\ left' = cand.size /\ Codes(scene, cand) = {}
         \/ stage' = "done"
  BY DEF Evaluate, SizingInv
<1> DEFINE u == UnitCost(cand.limit)
           z == cand.size
           m == MaximumBuyCost(cand.size, cand.limit)
<1>2. z \in Nat /\ u \in Nat /\ m \in Nat
  BY <1>1, CandidateIs
<1>3. CASE stage' = "filling" /\ left' = z /\ Codes(scene, cand) = {}
  <2>1. Bought' = 0 /\ 0 * u = 0 /\ z \in 0..z
    BY <1>1, <1>2, <1>3 DEF Bought
  <2> QED BY <1>1, <1>3, <2>1 DEF SizingInv
<1>4. CASE stage' = "done"
  BY <1>1, <1>2, <1>4 DEF SizingInv
<1> QED BY <1>1, <1>3, <1>4

LEMMA FillStep ==
    ASSUME FeeAssumption, Exponent = 1, SizingInv,
           NEW n \in 1..left, NEW k \in Price, Fill(n, k)
    PROVE  SizingInv'
<1>1. /\ scene' = scene /\ cand' = cand /\ stage' = "filling" /\ left' = left - n
      /\ cand \in TradeCandidates /\ left \in 0..cand.size /\ Codes(scene, cand) = {}
      /\ cand.side = "BUY" => spent <= Bought * UnitCost(cand.limit)
  BY DEF Fill, SizingInv
<1> DEFINE z == cand.size
           l == cand.limit
           u == UnitCost(l)
           cost == n * PriceOf(k) + MatchedFee(n, k)
           b == z - left
<1>2. z \in Nat /\ u \in Nat /\ l \in Price /\ n \in Nat \ {0} /\ left \in Nat
  BY <1>1, CandidateIs
<1>3. left' \in 0..z /\ b \in Nat /\ z - left' = b + n
  BY <1>1, <1>2
<1>4. CASE cand.side = "BUY"
  <2>1. k <= l /\ spent' = spent + n * PriceOf(k) + MatchedFee(n, k)
    BY <1>4 DEF Fill
  <2>2. cost \in Nat /\ cost <= n * u
    BY <1>2, <2>1, FillCosts
  <2>3. PriceOf(k) \in Nat /\ MatchedFee(n, k) \in Int
    BY <1>2, <2>1, UnitCosts, FillCosts
  <2>4. spent \in Nat /\ spent <= b * u
    BY <1>1, <1>4 DEF SizingInv, Bought
  <2>5. spent' = spent + cost
    <3>1. n * PriceOf(k) \in Nat
      BY <1>2, <2>3, ProductIsNat
    <3> QED BY <2>1, <2>3, <2>4, <3>1
  <2> HIDE DEF cost, u, b
  <2>6. (b + n) * u = b * u + n * u /\ b * u \in Nat /\ n * u \in Nat
    BY <1>2, <1>3, ProductIsNat
  <2>7. spent' \in Nat /\ spent' <= (b + n) * u
    BY <2>2, <2>4, <2>5, <2>6
  <2>8. spent' <= Bought' * UnitCost(cand'.limit)
    BY <1>1, <1>3, <2>7 DEF Bought, u
  <2> QED BY <1>1, <1>3, <2>7, <2>8 DEF SizingInv
<1>5. CASE cand.side # "BUY"
  <2>1. spent' = spent
    BY <1>5 DEF Fill
  <2> QED BY <1>1, <1>3, <1>5, <2>1 DEF SizingInv
<1> QED BY <1>4, <1>5

LEMMA FilledIsCommitted ==
    ASSUME FeeAssumption, SizingInv, cand.side = "BUY"
    PROVE  spent <= MaximumBuyCost(cand.size, cand.limit)
<1>1. CASE stage = "filling"
  <2>1. cand \in TradeCandidates /\ left \in 0..cand.size
        /\ spent <= Bought * UnitCost(cand.limit)
    BY <1>1 DEF SizingInv
  <2> DEFINE z == cand.size
             u == UnitCost(cand.limit)
             b == Bought
  <2>2. z \in Nat /\ u \in Nat /\ MaximumBuyCost(cand.size, cand.limit) = z * u
    BY <2>1, CandidateIs
  <2>3. b \in Nat /\ b <= z
    BY <2>1, <2>2 DEF Bought
  <2> HIDE DEF z, u, b
  <2>4. b * u <= z * u /\ b * u \in Nat /\ z * u \in Nat
    BY <2>2, <2>3, ProductGrows, ProductIsNat
  <2>5. spent <= b * u /\ spent \in Nat
    BY <2>1 DEF SizingInv, b, u
  <2> QED BY <2>2, <2>4, <2>5
<1> QED BY <1>1 DEF SizingInv

LEMMA StopStep ==
    ASSUME FeeAssumption, SizingInv, Stop
    PROVE  SizingInv'
<1>1. /\ scene' = scene /\ cand' = cand /\ spent' = spent /\ stage' = "done"
  BY DEF Stop
<1>2. cand'.side = "BUY" => spent' <= MaximumBuyCost(cand'.size, cand'.limit)
  BY <1>1, FilledIsCommitted
<1> QED BY <1>1, <1>2 DEF SizingInv

LEMMA SizingInductive ==
    ASSUME FeeAssumption, Exponent = 1, SizingInv, [SizingNext]_sizingVars
    PROVE  SizingInv'
<1>1. CASE UNCHANGED sizingVars
  BY <1>1 DEF sizingVars, SizingInv, Bought
<1>2. CASE SizingNext
  BY <1>2, ChooseStep, EvaluateStep, FillStep, StopStep DEF SizingNext
<1> QED BY <1>1, <1>2

(* In every behaviour only an order that the risk engine approved fills, and  *)
(* a BUY that still fills has cost no more than the commitment of what is     *)
(* filled (maximum_buy_cost, evaluate_candidate).                             *)
THEOREM SizingInvariant ==
    ASSUME FeeAssumption, Exponent = 1
    PROVE  SizingSpec => []SizingInv
<1>1. SizingInit => SizingInv
  BY SizingInitial
<1>2. SizingInv /\ [SizingNext]_sizingVars => SizingInv'
  BY SizingInductive
<1> QED BY <1>1, <1>2, PTL DEF SizingSpec

(* A signed BUY never costs more than its commitment, in whatever pieces, at  *)
(* whatever prices up to its limit and with whatever rounding of each fee it  *)
(* fills (maximum_buy_cost): for every price grid, fee rate and fee quantum.  *)
THEOREM BuysKeepToTheirCommitment ==
    ASSUME FeeAssumption, Exponent = 1
    PROVE  SizingSpec => []FillsWithinCommitment
<1>1. SizingInv => FillsWithinCommitment
  BY FilledIsCommitted DEF FillsWithinCommitment
<1> QED BY <1>1, SizingInvariant, PTL

(* Whatever the fills, an approved BUY leaves cash and every exposure inside  *)
(* its limit (evaluate_candidate): for every portfolio and every limit.       *)
THEOREM ApprovedBuysKeepToTheCaps ==
    ASSUME FeeAssumption, SizingAssumption, Exponent = 1
    PROVE  SizingSpec => []CapsHoldAfterFills
<1>1. SizingInv => CapsHoldAfterFills
  <2> SUFFICES ASSUME SizingInv, cand.side = "BUY", spent > 0
               PROVE  /\ spent <= scene.port.cash
                      /\ spent <= MaxOrder /\ spent <= TradeCap
                      /\ scene.port.event + scene.port.unclassified + spent <= EventCap
                      /\ scene.port.bucket + scene.port.nobucket + spent <= BucketCap
                      /\ scene.port.gross + spent <= GrossCap
    BY DEF CapsHoldAfterFills
  <2> DEFINE cost == MaximumBuyCost(cand.size, cand.limit)
  <2>1. cand \in TradeCandidates /\ Codes(scene, cand) = {} /\ spent \in Nat
        /\ scene \in Scenarios
    BY DEF SizingInv
  <2>2. spent <= cost /\ cost \in Nat /\ Commitment(cand) = cost
    BY <2>1, FilledIsCommitted, CandidateIs DEF Commitment
  <2>3. \A code \in AllCodes : ~Refuses(scene, cand, code)
    BY <2>1 DEF Codes
  <2> HIDE DEF cost
  <2>4. /\ ~(cost > scene.port.cash) /\ ~(cost > MaxOrder) /\ ~(cost > TradeCap)
        /\ ~(scene.port.event + scene.port.unclassified + cost > EventCap)
        /\ ~(scene.port.bucket + scene.port.nobucket + cost > BucketCap)
        /\ ~(scene.port.gross + cost > GrossCap)
    <3>1. ~Refuses(scene, cand, "cash") /\ ~Refuses(scene, cand, "order_cap")
          /\ ~Refuses(scene, cand, "trade_risk") /\ ~Refuses(scene, cand, "event")
          /\ ~Refuses(scene, cand, "bucket") /\ ~Refuses(scene, cand, "gross")
      BY <2>3 DEF AllCodes
    <3> QED BY <2>2, <3>1 DEF Refuses
  <2>5. /\ scene.port.cash \in Int /\ scene.port.event \in Int /\ scene.port.unclassified \in Int
        /\ scene.port.bucket \in Int /\ scene.port.nobucket \in Int /\ scene.port.gross \in Int
        /\ MaxOrder \in Nat /\ TradeCap \in Nat /\ EventCap \in Nat /\ BucketCap \in Nat
        /\ GrossCap \in Nat
    BY <2>1 DEF SizingAssumption
  <2> QED BY <2>1, <2>2, <2>4, <2>5
<1> QED BY <1>1, SizingInvariant, PTL


-----------------------------------------------------------------------------
(* Least and greatest elements *)

Below == {ss \in Nat \X Nat : ss[1] < ss[2]}

LEMMA BelowIsWellFounded == IsWellFoundedOn(Below, Nat)
BY NatLessThanWellFounded DEF OpToRel, Below

LEMMA Least ==
    ASSUME NEW T, T \subseteq Nat, T # {}
    PROVE  \E x \in T : \A y \in T : x <= y
<1>1. PICK x \in T : \A y \in T : <<y, x>> \notin Below
  BY BelowIsWellFounded, WFMin
<1>2. ASSUME NEW y \in T, ~(x <= y) PROVE FALSE
  <2>1. x \in Nat /\ y \in Nat /\ y < x
    BY <1>2
  <2>2. <<y, x>> \in Nat \X Nat /\ <<y, x>>[1] < <<y, x>>[2]
    BY <2>1
  <2> DEFINE p == <<y, x>>
  <2>3. p \in Nat \X Nat /\ p[1] < p[2]
    BY <2>2
  <2> HIDE DEF p
  <2>4. p \in Below
    BY <2>3 DEF Below
  <2> QED BY <1>1, <2>4 DEF p
<1> QED BY <1>2

LEMMA Greatest ==
    ASSUME NEW N \in Nat, NEW T, T \subseteq 1..N, T # {}
    PROVE  \E x \in T : \A y \in T : y <= x
<1> DEFINE U == {d \in 0..N : N - d \in T}
<1>1. U \subseteq Nat
  OBVIOUS
<1>2. PICK z : z \in T
  OBVIOUS
<1>3. z \in Nat /\ z <= N /\ N - z \in 0..N /\ N - (N - z) = z
  BY <1>2
<1>4. N - z \in U
  BY <1>2, <1>3
<1>5. PICK d \in U : \A e \in U : d <= e
  <2>1. U # {}
    BY <1>4
  <2> HIDE DEF U
  <2> QED BY <1>1, <2>1, Least
<1>6. ASSUME NEW y \in T PROVE y <= N - d
  <2>1. y \in Nat /\ y <= N /\ N - y \in 0..N /\ N - (N - y) = y
    OBVIOUS
  <2>2. N - y \in U
    BY <2>1
  <2>3. d <= N - y
    BY <1>5, <2>2
  <2>4. d \in Nat
    BY <1>1, <1>5
  <2> QED BY <2>1, <2>3, <2>4
<1>7. N - d \in T
  BY <1>5
<1> QED BY <1>6, <1>7

-----------------------------------------------------------------------------
(* The forecasts of a market are scored one after the other. *)

Before(S, i) == {j \in S : j < i}

LEMMA FiniteRows ==
    ASSUME NEW N \in Nat, NEW S, S \subseteq 1..N
    PROVE  /\ IsFiniteSet(S) /\ Cardinality(S) \in Nat
           /\ \A T : T \subseteq S => IsFiniteSet(T) /\ Cardinality(T) \in Nat
                                      /\ Cardinality(T) <= Cardinality(S)
<1>1. IsFiniteSet(1..N)
  BY FS_Interval
<1>2. IsFiniteSet(S)
  BY <1>1, FS_Subset
<1> QED BY <1>2, FS_Subset, FS_CardinalityType

(* Every rank below the number of rows is the rank of one of them. *)
LEMMA RankExists ==
    ASSUME NEW N \in Nat, NEW S, S \subseteq 1..N, NEW r \in Nat, r < Cardinality(S)
    PROVE  \E i \in S : Cardinality(Before(S, i)) = r
<1> DEFINE U == {i \in S : Cardinality(Before(S, i)) < r}
<1>1. U \subseteq S /\ U \subseteq 1..N
  OBVIOUS
<1>2. /\ \A i : Before(S, i) \subseteq S
      /\ \A i : Cardinality(Before(S, i)) \in Nat
  BY FiniteRows DEF Before
(* A set of rows each ranked below r has at most r of them. *)
<1>3. ASSUME NEW T, T \subseteq U, Cardinality(T) > r PROVE FALSE
  <2>1. T \subseteq 1..N /\ IsFiniteSet(T) /\ Cardinality(T) \in Nat
    BY <1>1, <1>3, FiniteRows
  <2>2. T # {}
    BY <1>3, FS_EmptySet
  <2>3. PICK m \in T : \A y \in T : y <= m
    BY <2>1, <2>2, Greatest
  <2>4. Cardinality(T \ {m}) = Cardinality(T) - 1
    BY <2>1, FS_RemoveElement
  <2>5. T \ {m} \subseteq Before(S, m)
    <3>1. ASSUME NEW y \in T, y # m PROVE y \in S /\ y < m
      <4>1. y \in Nat /\ m \in Nat /\ y <= m /\ y \in S
        BY <1>1, <1>3, <2>1, <2>3
      <4> QED BY <3>1, <4>1
    <3> QED BY <3>1 DEF Before
  <2>6. IsFiniteSet(Before(S, m))
    BY FiniteRows DEF Before
  <2>7. Cardinality(T \ {m}) <= Cardinality(Before(S, m))
    BY <2>5, <2>6, FS_Subset
  <2>8. Cardinality(Before(S, m)) < r
    BY <1>3
  <2> QED BY <1>2, <1>3, <2>1, <2>4, <2>7, <2>8
<1>4. U # S
  BY <1>3
<1>5. PICK i \in S \ U : \A y \in S \ U : i <= y
  <2>1. S \ U # {}
    BY <1>1, <1>4
  <2>2. S \subseteq Nat
    OBVIOUS
  <2>3. S \ U \subseteq Nat
    BY <2>2
  <2> HIDE DEF U
  <2> QED BY <2>1, <2>3, Least
<1>6. i \in S /\ i \in Nat /\ ~(Cardinality(Before(S, i)) < r)
  BY <1>5
<1>7. Before(S, i) \subseteq U
  <2> SUFFICES ASSUME NEW j \in S, j < i, j \notin U PROVE FALSE
    BY DEF Before
  <2>1. j \in Nat /\ i <= j
    BY <1>5
  <2> QED BY <1>6, <2>1
<1>8. ~(Cardinality(Before(S, i)) > r)
  BY <1>3, <1>7
<1> QED BY <1>2, <1>6, <1>8

-----------------------------------------------------------------------------
(* The invariant *)

IsSequence(q) == \E E : q \in Seq(E)

Says(yes) == IF yes THEN "YES" ELSE "NO"

(* A score is of a forecast and its estimate, and is what the venue settled.  *)
ScoreOK(x, fc, v) ==
    /\ x.id \in 1..Len(fc)
    /\ x.p = fc[x.id].p
    /\ v[fc[x.id].market] = Says(x.yes)

ScoringInv ==
    /\ venue = [m \in Markets |-> venue[m]]
    /\ IsSequence(forecasts) /\ IsSequence(scores)
    /\ work \in Markets \union {"none"}
    /\ \A i \in 1..Len(forecasts) : forecasts[i].market \in Markets
    /\ \A k \in 1..Len(scores) : ScoreOK(scores[k], forecasts, venue)
    /\ \A j, k \in 1..Len(scores) : scores[j].id = scores[k].id => j = k

LEMMA SequenceIs ==
    ASSUME NEW q, IsSequence(q)
    PROVE  Len(q) \in Nat /\ DOMAIN q = 1..Len(q)
BY LenProperties DEF IsSequence

LEMMA Appended ==
    ASSUME NEW q, IsSequence(q), NEW e
    PROVE  /\ IsSequence(Append(q, e)) /\ Len(Append(q, e)) = Len(q) + 1
           /\ Append(q, e)[Len(q) + 1] = e
           /\ \A n \in 1..Len(q) : Append(q, e)[n] = q[n]
<1>1. PICK E : q \in Seq(E)
  BY DEF IsSequence
<1> DEFINE F == E \cup {e}
<1>2. q \in Seq(F) /\ e \in F
  BY <1>1, SeqMonotonic
<1> HIDE DEF F
<1>3. Append(q, e) \in Seq(F)
  BY <1>2
<1> QED BY <1>2, <1>3, AppendProperties DEF IsSequence

IsRun(f, n) == f = [k \in 1..n |-> f[k]]

LEMMA Concatenated ==
    ASSUME NEW q, IsSequence(q), NEW f, NEW n \in Nat, IsRun(f, n)
    PROVE  /\ IsSequence(q \o f) /\ Len(q \o f) = Len(q) + n
           /\ \A k \in 1..Len(q) : (q \o f)[k] = q[k]
           /\ \A k \in 1..n : (q \o f)[Len(q) + k] = f[k]
<1>1. PICK E : q \in Seq(E)
  BY DEF IsSequence
<1> DEFINE F == E \cup {f[k] : k \in 1..n}
<1>2. q \in Seq(F) /\ \A k \in 1..n : f[k] \in F
  BY <1>1, SeqMonotonic
<1> HIDE DEF F
<1>3. f \in [1..n -> F]
  BY <1>2 DEF IsRun
<1>4. f \in Seq(F) /\ Len(f) = n
  BY <1>3
<1>5. /\ q \o f \in Seq(F) /\ Len(q \o f) = Len(q) + Len(f)
      /\ \A i \in 1 .. Len(q) + Len(f) :
            (q \o f)[i] = IF i <= Len(q) THEN q[i] ELSE f[i - Len(q)]
  BY <1>2, <1>4, ConcatProperties
<1>6. Len(q) \in Nat
  BY <1>2
<1>7. \A k \in 1..n : (q \o f)[Len(q) + k] = f[k]
  <2> SUFFICES ASSUME NEW k \in 1..n PROVE (q \o f)[Len(q) + k] = f[k]
    OBVIOUS
  <2>1. Len(q) + k \in 1 .. Len(q) + Len(f) /\ ~(Len(q) + k <= Len(q))
        /\ (Len(q) + k) - Len(q) = k
    BY <1>4, <1>6
  <2> QED BY <1>5, <2>1
<1>8. \A k \in 1..Len(q) : (q \o f)[k] = q[k]
  BY <1>4, <1>5, <1>6
<1>9. IsSequence(q \o f)
  BY <1>5 DEF IsSequence
<1> QED BY <1>4, <1>5, <1>7, <1>8, <1>9

-----------------------------------------------------------------------------
(* One lemma per kind of step *)

LEMMA ForecastsAre ==
    ASSUME ScoringInv
    PROVE  /\ Len(forecasts) \in Nat /\ DOMAIN forecasts = 1..Len(forecasts)
           /\ Len(scores) \in Nat /\ DOMAIN scores = 1..Len(scores)
BY SequenceIs DEF ScoringInv

(* What the engine, the lookups and the refresh of the curve leave alone. *)
LEMMA ScoresStay ==
    ASSUME ScoringInv, UNCHANGED <<venue, forecasts, scores>>,
           work' \in Markets \union {"none"}
    PROVE  ScoringInv'
BY DEF ScoringInv

LEMMA CloseStep ==
    ASSUME ScoringInv, NEW m \in Markets, Close(m)
    PROVE  ScoringInv'
<1>1. /\ forecasts' = forecasts /\ scores' = scores /\ work' = work /\ venue[m] = "open"
  BY DEF Close
<1>2. PICK o : venue' = [venue EXCEPT ![m] = o]
  BY DEF Close
<1>3. /\ venue' = [x \in Markets |-> venue'[x]]
      /\ \A x \in Markets : x # m => venue'[x] = venue[x]
  BY <1>2 DEF ScoringInv
<1>4. ASSUME NEW k \in 1..Len(scores) PROVE ScoreOK(scores[k], forecasts, venue')
  <2> DEFINE x == forecasts[scores[k].id].market
  <2>1. /\ scores[k].id \in 1..Len(forecasts) /\ venue[x] = Says(scores[k].yes)
        /\ scores[k].p = forecasts[scores[k].id].p
    BY DEF ScoringInv, ScoreOK
  <2>2. x \in Markets /\ x # m
    BY <1>1, <2>1 DEF ScoringInv, Says
  <2> QED BY <1>3, <2>1, <2>2 DEF ScoreOK
<1> QED BY <1>1, <1>3, <1>4 DEF ScoringInv

LEMMA InsertForecastStep ==
    ASSUME ScoringInv, InsertForecast
    PROVE  ScoringInv'
<1>1. /\ venue' = venue /\ scores' = scores /\ work' = "none" /\ work \in Markets
  BY DEF InsertForecast, ScoringInv
<1>2. PICK e : forecasts' = Append(forecasts, e) /\ e.market = work
  BY DEF InsertForecast
<1>3. /\ IsSequence(forecasts') /\ Len(forecasts') = Len(forecasts) + 1
      /\ forecasts'[Len(forecasts) + 1] = e
      /\ \A n \in 1..Len(forecasts) : forecasts'[n] = forecasts[n]
  BY <1>2, Appended DEF ScoringInv
<1>4. Len(forecasts) \in Nat
  BY ForecastsAre
<1>5. ASSUME NEW i \in 1..Len(forecasts') PROVE forecasts'[i].market \in Markets
  <2>1. i \in 1..Len(forecasts) \/ i = Len(forecasts) + 1
    BY <1>3, <1>4
  <2> QED BY <1>1, <1>2, <1>3, <2>1 DEF ScoringInv
<1>6. ASSUME NEW k \in 1..Len(scores) PROVE ScoreOK(scores[k], forecasts', venue)
  <2>1. scores[k].id \in 1..Len(forecasts) /\ scores[k].id \in 1..Len(forecasts')
    BY <1>3, <1>4 DEF ScoringInv, ScoreOK
  <2> QED BY <1>3, <2>1 DEF ScoringInv, ScoreOK
<1> QED BY <1>1, <1>3, <1>5, <1>6 DEF ScoringInv

(* Recording an outcome the venue has settled keeps the invariant: it scores  *)
(* each unscored forecast of the market once.                                 *)
LEMMA RecordStep ==
    ASSUME ScoringInv, NEW m, NEW o \in Outcomes, venue[m] = o, RecordResolution(m, o),
           venue' = venue, forecasts' = forecasts, work' = work
    PROVE  ScoringInv'
<1>1. CASE scores' = scores
  BY <1>1, ScoresStay DEF ScoringInv
<1>2. CASE scores' # scores
  <2> DEFINE F == {i \in DOMAIN forecasts : forecasts[i].market = m}
             S == F \ {scores[k].id : k \in DOMAIN scores}
             next(k) == CHOOSE i \in S : Cardinality({j \in S : j < i}) = k - 1
             n == Cardinality(S)
             f == [k \in 1..n |-> [id |-> next(k), p |-> forecasts[next(k)].p, yes |-> (o = "YES")]]
  <2>1. scores' = scores \o f
    BY <1>2 DEF RecordResolution
  <2>2. /\ S \subseteq 1..Len(forecasts) /\ Len(forecasts) \in Nat
        /\ \A i \in S : forecasts[i].market = m
        /\ \A i \in S, k \in 1..Len(scores) : scores[k].id # i
    BY ForecastsAre
  <2> HIDE DEF F, S
  <2>3. n \in Nat
    BY <2>2, FiniteRows
  <2>4. ASSUME NEW k \in 1..n
        PROVE  next(k) \in S /\ Cardinality(Before(S, next(k))) = k - 1
    <3> DEFINE r == k - 1
    <3>1. r \in Nat /\ r < n
      BY <2>3
    <3> HIDE DEF r
    <3>2. \E i \in S : Cardinality(Before(S, i)) = r
      BY <2>2, <3>1, RankExists
    <3>3. \E i \in S : Cardinality({j \in S : j < i}) = k - 1
      BY <3>2 DEF Before, r
    <3> QED BY <3>3 DEF Before
  <2>5. \A k \in 1..n : /\ f[k].id = next(k) /\ f[k].yes = (o = "YES")
                         /\ f[k].p = forecasts[next(k)].p
    OBVIOUS
  <2>6. IsRun(f, n)
    BY DEF IsRun
  <2> HIDE DEF next, n, f
  <2>7. /\ IsSequence(scores') /\ Len(scores') = Len(scores) + n
        /\ \A k \in 1..Len(scores) : scores'[k] = scores[k]
        /\ \A k \in 1..n : scores'[Len(scores) + k] = f[k]
    <3>1. IsSequence(scores)
      BY DEF ScoringInv
    <3>2. /\ IsSequence(scores \o f) /\ Len(scores \o f) = Len(scores) + n
          /\ \A k \in 1..Len(scores) : (scores \o f)[k] = scores[k]
          /\ \A k \in 1..n : (scores \o f)[Len(scores) + k] = f[k]
      BY <2>3, <2>6, <3>1, Concatenated
    <3> QED BY <2>1, <3>2, Zenon
  <2>8. Len(scores) \in Nat
    BY ForecastsAre
  (* A score is an old one, or a new one of a forecast that had none. *)
  <2>9. ASSUME NEW j \in 1..Len(scores')
        PROVE  \/ j \in 1..Len(scores) /\ scores'[j] = scores[j]
               \/ \E k \in 1..n : j = Len(scores) + k /\ scores'[j] = f[k]
    <3>1. CASE j <= Len(scores)
      BY <2>7, <2>8, <3>1
    <3>2. CASE ~(j <= Len(scores))
      <4>1. j - Len(scores) \in 1..n /\ j = Len(scores) + (j - Len(scores))
        BY <2>3, <2>7, <2>8, <3>2
      <4> QED BY <2>7, <4>1
    <3> QED BY <3>1, <3>2
  <2>10. ASSUME NEW k \in 1..n PROVE ScoreOK(f[k], forecasts, venue)
    <3>1. /\ f[k].id \in S /\ f[k].yes = (o = "YES") /\ f[k].p = forecasts[f[k].id].p
      BY <2>4, <2>5
    <3>2. Says(f[k].yes) = o
      BY <3>1 DEF Says, Outcomes
    <3> QED BY <2>2, <3>1, <3>2 DEF ScoreOK
  <2>11. ASSUME NEW j \in 1..Len(scores') PROVE ScoreOK(scores'[j], forecasts, venue)
    BY <2>9, <2>10 DEF ScoringInv
  <2>12. ASSUME NEW i \in 1..Len(scores'), NEW j \in 1..Len(scores'),
                scores'[i].id = scores'[j].id
         PROVE  i = j
    <3>1. CASE i \in 1..Len(scores) /\ j \in 1..Len(scores)
      BY <2>7, <2>12, <3>1 DEF ScoringInv
    <3>2. ASSUME NEW k \in 1..n, NEW l \in 1..n, f[k].id = f[l].id PROVE k = l
      <4>1. k - 1 = l - 1
        BY <2>4, <2>5, <3>2
      <4> QED BY <2>3, <4>1
    <3>3. ASSUME NEW k \in 1..n, NEW l \in 1..Len(scores), f[k].id = scores[l].id PROVE FALSE
      BY <2>2, <2>4, <2>5, <3>3
    <3>4. CASE i \in 1..Len(scores) /\ scores'[i] = scores[i]
      <4>1. ASSUME NEW k \in 1..n, j = Len(scores) + k, scores'[j] = f[k] PROVE FALSE
        BY <2>12, <3>3, <3>4, <4>1
      <4> QED BY <2>9, <3>1, <3>4, <4>1
    <3>5. ASSUME NEW k \in 1..n, i = Len(scores) + k, scores'[i] = f[k] PROVE i = j
      <4>1. CASE j \in 1..Len(scores) /\ scores'[j] = scores[j]
        BY <2>12, <3>3, <3>5, <4>1
      <4>2. ASSUME NEW l \in 1..n, j = Len(scores) + l, scores'[j] = f[l] PROVE i = j
        BY <2>12, <3>2, <3>5, <4>2
      <4> QED BY <2>9, <4>1, <4>2
    <3> QED BY <2>9, <3>4, <3>5
  <2> QED BY <2>7, <2>11, <2>12 DEF ScoringInv
<1> QED BY <1>1, <1>2

LEMMA ResolveStep ==
    ASSUME ScoringInv, Resolve \/ ResolveFails
    PROVE  ScoringInv'
<1>1. venue' = venue /\ forecasts' = forecasts /\ work' = work
  BY DEF Resolve, ResolveFails
<1>2. \/ scores' = scores
      \/ \E m : Lookup(m) \in Outcomes /\ RecordResolution(m, Lookup(m))
  BY DEF Resolve, ResolveFails
<1>3. CASE scores' = scores
  BY <1>1, <1>3, ScoresStay DEF ScoringInv
<1>4. ASSUME NEW m, Lookup(m) \in Outcomes, RecordResolution(m, Lookup(m))
      PROVE  ScoringInv'
  <2> DEFINE o == Lookup(m)
  <2>1. o \in Outcomes /\ venue[m] = o /\ RecordResolution(m, o)
    BY <1>4 DEF Lookup
  <2> HIDE DEF o
  <2> QED BY <1>1, <2>1, RecordStep
<1> QED BY <1>2, <1>3, <1>4

LEMMA ScoringInitial ==
    ASSUME ScoringInit
    PROVE  ScoringInv
<1>1. IsSequence(forecasts) /\ Len(forecasts) = 0 /\ IsSequence(scores) /\ Len(scores) = 0
  <2>1. forecasts \in Seq({}) /\ scores \in Seq({})
    BY DEF ScoringInit
  <2> QED BY <2>1 DEF IsSequence, ScoringInit
<1>2. venue = [m \in Markets |-> venue[m]] /\ work = "none"
  BY DEF ScoringInit
<1> QED BY <1>1, <1>2 DEF ScoringInv

LEMMA ScoringInductive ==
    ASSUME ScoringInv, [ScoringNext]_scoringVars
    PROVE  ScoringInv'
<1>1. ASSUME NEW m \in Markets, EndPasses(m) \/ StartForecast(m) PROVE ScoringInv'
  <2>1. /\ UNCHANGED <<venue, forecasts, scores>> /\ work' \in Markets \union {"none"}
    BY <1>1 DEF EndPasses, StartForecast, SaveMarket, ScoringInv
  <2> QED BY <2>1, ScoresStay
<1>2. ASSUME NEW m \in Markets, Close(m) PROVE ScoringInv'
  BY <1>2, CloseStep
<1>3. CASE \/ DropForecast \/ BeginSweep \/ RefreshCalibration \/ RefreshFails
           \/ UNCHANGED scoringVars
  <2>1. /\ UNCHANGED <<venue, forecasts, scores>> /\ work' \in Markets \union {"none"}
    BY <1>3 DEF DropForecast, BeginSweep, RefreshCalibration, RefreshFails, scoringVars,
                ScoringInv
  <2> QED BY <2>1, ScoresStay
<1>4. CASE InsertForecast
  BY <1>4, InsertForecastStep
<1>5. CASE Resolve \/ ResolveFails
  BY <1>5, ResolveStep
<1> QED BY <1>1, <1>2, <1>3, <1>4, <1>5 DEF ScoringNext

(* Scores are of saved forecasts, no two of the same, and agree with what the *)
(* venue settled, whatever call fails (record_market_resolution).             *)
THEOREM ScoringInvariant == ScoringSpec => []ScoringInv
<1>1. ScoringInit => ScoringInv
  BY ScoringInitial
<1>2. ScoringInv /\ [ScoringNext]_scoringVars => ScoringInv'
  BY ScoringInductive
<1> QED BY <1>1, <1>2, PTL DEF ScoringSpec

(* A forecast is scored at most once and as the venue settled its market, for *)
(* any number of markets, forecasts, sweeps and faults                        *)
(* (record_market_resolution, MarketResolutionWorker).                        *)
THEOREM ForecastsAreScoredOnce == ScoringSpec => []ScoredOnceAndRight
<1>1. ScoringInv => ScoredOnceAndRight
  <2> SUFFICES ASSUME ScoringInv PROVE ScoredOnceAndRight
    OBVIOUS
  <2>1. DOMAIN scores = 1..Len(scores)
    BY ForecastsAre
  <2> QED BY <2>1 DEF ScoringInv, ScoreOK, Says, ScoredOnceAndRight
<1> QED BY <1>1, ScoringInvariant, PTL
-----------------------------------------------------------------------------
(* Fractions with a positive denominator *)

LEMMA Scaled ==
    ASSUME NEW x \in Int, NEW y \in Int, NEW z \in Int, z >= 0, x <= y
    PROVE  x * z <= y * z
<1>1. y - x \in Nat /\ z \in Nat
  OBVIOUS
<1>2. (y - x) * z \in Nat
  BY <1>1, ProductIsNat
<1>3. (y - x) * z = y * z - x * z
  OBVIOUS
<1> QED BY <1>2, <1>3

LEMMA Unscaled ==
    ASSUME NEW x \in Int, NEW y \in Int, NEW z \in Int, z > 0, x * z <= y * z
    PROVE  x <= y
<1> SUFFICES ASSUME y + 1 <= x PROVE FALSE
  OBVIOUS
<1>1. (y + 1) * z <= x * z
  BY Scaled
<1>2. (y + 1) * z = y * z + z
  OBVIOUS
<1> QED BY <1>1, <1>2

LEMMA CrossTransitive ==
    ASSUME NEW a \in Int, NEW b \in Int, b > 0, NEW c \in Int, NEW d \in Int, d > 0,
           NEW e \in Int, NEW f \in Int, f > 0, a * d <= c * b, c * f <= e * d
    PROVE  a * f <= e * b
<1>1. (a * d) * f <= (c * b) * f
  BY Scaled
<1>2. (c * f) * b <= (e * d) * b
  BY Scaled
<1>3. (a * d) * f = (a * f) * d /\ (c * b) * f = (c * f) * b /\ (e * d) * b = (e * b) * d
  OBVIOUS
<1>4. (a * f) * d <= (e * b) * d
  BY <1>1, <1>2, <1>3
<1> QED BY <1>4, Unscaled

Frac(a) == a[1] \in Int /\ a[2] \in Int /\ a[2] > 0

LEMMA LeqTotal ==
    ASSUME NEW a, NEW b, Frac(a), Frac(b)
    PROVE  Leq(a, a) /\ (Leq(a, b) \/ Leq(b, a))
BY DEF Frac, Leq

LEMMA LeqTransitive ==
    ASSUME NEW a, NEW b, NEW c, Frac(a), Frac(b), Frac(c), Leq(a, b), Leq(b, c)
    PROVE  Leq(a, c)
<1> DEFINE a1 == a[1]
           a2 == a[2]
           b1 == b[1]
           b2 == b[2]
           c1 == c[1]
           c2 == c[2]
<1>1. /\ a1 \in Int /\ a2 \in Int /\ a2 > 0 /\ b1 \in Int /\ b2 \in Int /\ b2 > 0
      /\ c1 \in Int /\ c2 \in Int /\ c2 > 0
      /\ a1 * b2 <= b1 * a2 /\ b1 * c2 <= c1 * b2
  BY DEF Leq, Frac
<1> HIDE DEF a1, a2, b1, b2, c1, c2
<1>2. a1 * c2 <= c1 * a2
  BY <1>1, CrossTransitive
<1> QED BY <1>2 DEF Leq, a1, a2, c1, c2

LEMMA LargerIs ==
    ASSUME NEW a, NEW b, Frac(a), Frac(b)
    PROVE  /\ Frac(Larger(a, b)) /\ Leq(a, Larger(a, b)) /\ Leq(b, Larger(a, b))
           /\ Larger(a, b) = a \/ Larger(a, b) = b
<1>1. CASE Leq(a, b)
  BY <1>1, LeqTotal DEF Larger
<1>2. CASE ~Leq(a, b)
  BY <1>2, LeqTotal DEF Larger
<1> QED BY <1>1, <1>2

LEMMA SmallerIs ==
    ASSUME NEW a, NEW b, Frac(a), Frac(b)
    PROVE  /\ Frac(Smaller(a, b)) /\ Leq(Smaller(a, b), a) /\ Leq(Smaller(a, b), b)
           /\ Smaller(a, b) = a \/ Smaller(a, b) = b
<1>1. CASE Leq(a, b)
  BY <1>1, LeqTotal DEF Smaller
<1>2. CASE ~Leq(a, b)
  BY <1>2, LeqTotal DEF Smaller
<1> QED BY <1>1, <1>2

LEMMA LargerGrows ==
    ASSUME NEW a, NEW b, NEW c, NEW d, Frac(a), Frac(b), Frac(c), Frac(d), Leq(a, c), Leq(b, d)
    PROVE  Leq(Larger(a, b), Larger(c, d))
<1>1. /\ Frac(Larger(c, d)) /\ Leq(c, Larger(c, d)) /\ Leq(d, Larger(c, d))
      /\ Larger(a, b) = a \/ Larger(a, b) = b
  BY LargerIs
<1> DEFINE u == Larger(c, d)
<1> HIDE DEF u
<1>2. Leq(a, u) /\ Leq(b, u)
  BY <1>1, LeqTransitive DEF u
<1> QED BY <1>1, <1>2 DEF u

LEMMA SmallerGrows ==
    ASSUME NEW a, NEW b, NEW c, NEW d, Frac(a), Frac(b), Frac(c), Frac(d), Leq(a, c), Leq(b, d)
    PROVE  Leq(Smaller(a, b), Smaller(c, d))
<1>1. /\ Frac(Smaller(a, b)) /\ Leq(Smaller(a, b), a) /\ Leq(Smaller(a, b), b)
      /\ Smaller(c, d) = c \/ Smaller(c, d) = d
  BY SmallerIs
<1> DEFINE u == Smaller(a, b)
<1> HIDE DEF u
<1>2. Leq(u, c) /\ Leq(u, d)
  BY <1>1, LeqTransitive DEF u
<1> QED BY <1>1, <1>2 DEF u

LEMMA ChanceIs ==
    ASSUME NEW p \in Int, NEW q \in Int
    PROVE  Frac(Chance(p)) /\ (Leq(Chance(p), Chance(q)) <=> p <= q)
BY DEF Frac, Chance, Leq

-----------------------------------------------------------------------------
(* Between two values: a weighted mean keeps their order and grows with what  *)
(* it is of.                                                                  *)
Moved(p, v, s, t) == Plus(Chance(p), Times(Minus(v, Chance(p)), <<s, t>>))

LEMMA MovedIs ==
    ASSUME NEW p \in Int, NEW v, Frac(v), NEW s \in Int, NEW t \in Int, t > 0
    PROVE  /\ Moved(p, v, s, t)[1] = p * (v[2] * t) + (v[1] - p * v[2]) * s
           /\ Moved(p, v, s, t)[2] = v[2] * t
           /\ Frac(Moved(p, v, s, t))
<1>1. v[1] \in Int /\ v[2] \in Int /\ v[2] > 0
  BY DEF Frac
<1> DEFINE n == v[1]
           d == v[2]
<1> HIDE DEF n, d
<1>2. Moved(p, v, s, t) = <<p * ((d * 1) * t) + ((n * 1 - p * d) * s) * 1, 1 * ((d * 1) * t)>>
  BY DEF Moved, Plus, Times, Minus, Chance, n, d
<1>3. n \in Int /\ d \in Int /\ d > 0
  BY <1>1 DEF n, d
<1>4. /\ p * ((d * 1) * t) + ((n * 1 - p * d) * s) * 1 = p * (d * t) + (n - p * d) * s
      /\ 1 * ((d * 1) * t) = d * t
  BY <1>3
<1>5. d * t \in Int /\ d * t > 0
  <2>1. 1 * t <= d * t
    BY <1>3, Scaled
  <2> QED BY <1>3, <2>1
<1>6. p * (d * t) + (n - p * d) * s \in Int
  BY <1>3
<1> QED BY <1>2, <1>4, <1>5, <1>6 DEF Frac, n, d

LEMMA MovedBetween ==
    ASSUME NEW p \in Int, NEW v, Frac(v), NEW s \in Int, NEW t \in Int, t > 0, 0 <= s, s <= t
    PROVE  /\ Leq(Chance(p), v) => Leq(Chance(p), Moved(p, v, s, t)) /\ Leq(Moved(p, v, s, t), v)
           /\ Leq(v, Chance(p)) => Leq(v, Moved(p, v, s, t)) /\ Leq(Moved(p, v, s, t), Chance(p))
<1> DEFINE n == v[1]
           d == v[2]
           N == p * (d * t) + (n - p * d) * s
           D == d * t
<1>1. n \in Int /\ d \in Int /\ d > 0
  BY DEF Frac
<1>2. Moved(p, v, s, t)[1] = N /\ Moved(p, v, s, t)[2] = D
  BY MovedIs
<1>3. /\ Leq(Chance(p), v) <=> p * d <= n * 1
      /\ Leq(v, Chance(p)) <=> n * 1 <= p * d
      /\ Leq(Chance(p), Moved(p, v, s, t)) <=> p * D <= N * 1
      /\ Leq(Moved(p, v, s, t), Chance(p)) <=> N * 1 <= p * D
      /\ Leq(v, Moved(p, v, s, t)) <=> n * D <= N * d
      /\ Leq(Moved(p, v, s, t), v) <=> N * d <= n * D
  BY <1>2 DEF Leq, Chance
<1> HIDE DEF n, d
<1>4. N - p * D = (n - p * d) * s /\ N * d - n * D = ((p * d - n) * (t - s)) * d
  BY <1>1
<1>5. N \in Int /\ D \in Int /\ N * d \in Int /\ n * D \in Int /\ p * D \in Int
  BY <1>1
<1>6. ASSUME NEW x \in Int, x >= 0 PROVE x * s >= 0 /\ (x * (t - s)) * d >= 0
  <2>1. x \in Nat /\ s \in Nat /\ t - s \in Nat /\ d \in Nat
    BY <1>1, <1>6
  <2>2. x * s \in Nat /\ x * (t - s) \in Nat
    BY <2>1, ProductIsNat
  <2>3. (x * (t - s)) * d \in Nat
    BY <2>1, <2>2, ProductIsNat
  <2> QED BY <2>2, <2>3
<1>7. CASE p * d <= n
  <2>1. n - p * d \in Int /\ n - p * d >= 0
    BY <1>1, <1>7
  <2>2. (n - p * d) * s >= 0 /\ ((n - p * d) * (t - s)) * d >= 0
    BY <1>6, <2>1
  <2>3. ((p * d - n) * (t - s)) * d = -(((n - p * d) * (t - s)) * d)
    BY <1>1
  <2>4. p * D <= N /\ N * d <= n * D
    <3> HIDE DEF N, D
    <3> QED BY <1>1, <1>4, <1>5, <2>2, <2>3
  <2>5. n <= p * d => n = p * d
    BY <1>1, <1>7
  <2>7. ASSUME n = p * d PROVE N = p * D /\ N * d = n * D
    <3>1. (n - p * d) * s = 0 /\ ((p * d - n) * (t - s)) * d = 0
      BY <1>1, <2>7
    <3>2. N - p * D = 0 /\ N * d - n * D = 0
      BY <1>4, <3>1
    <3> HIDE DEF N, D
    <3> QED BY <1>1, <1>5, <3>2
  <2> HIDE DEF N, D
  <2> QED BY <1>1, <1>3, <1>5, <2>4, <2>5, <2>7
<1>8. CASE n <= p * d /\ ~(p * d <= n)
  <2>1. p * d - n \in Int /\ p * d - n >= 0
    BY <1>1, <1>8
  <2>2. (p * d - n) * s >= 0 /\ ((p * d - n) * (t - s)) * d >= 0
    BY <1>6, <2>1
  <2>3. (n - p * d) * s = -((p * d - n) * s)
    BY <1>1
  <2>4. N <= p * D /\ n * D <= N * d
    <3> HIDE DEF N, D
    <3> QED BY <1>1, <1>4, <1>5, <2>2, <2>3
  <2> HIDE DEF N, D
  <2> QED BY <1>1, <1>3, <1>5, <1>8, <2>4
<1> QED BY <1>1, <1>7, <1>8

LEMMA MovedGrows ==
    ASSUME NEW p \in Int, NEW q \in Int, p <= q, NEW v, NEW u, Frac(v), Frac(u), Leq(v, u),
           NEW s \in Int, NEW t \in Int, t > 0, 0 <= s, s <= t
    PROVE  Leq(Moved(p, v, s, t), Moved(q, u, s, t))
<1> DEFINE n == v[1]
           d == v[2]
           m == u[1]
           e == u[2]
<1>1. /\ n \in Int /\ d \in Int /\ d > 0 /\ m \in Int /\ e \in Int /\ e > 0
      /\ n * e <= m * d
  BY DEF Frac, Leq
<1>2. /\ Moved(p, v, s, t)[1] = p * (d * t) + (n - p * d) * s /\ Moved(p, v, s, t)[2] = d * t
      /\ Moved(q, u, s, t)[1] = q * (e * t) + (m - q * e) * s /\ Moved(q, u, s, t)[2] = e * t
  BY MovedIs
<1> HIDE DEF n, d, m, e
<1> DEFINE A == (p * (d * t) + (n - p * d) * s) * (e * t)
           B == (q * (e * t) + (m - q * e) * s) * (d * t)
           X == ((q - p) * (t - s)) * (d * e)
           Y == (m * d - n * e) * s
<1>3. X \in Nat /\ Y \in Nat
  <2>1. q - p \in Nat /\ t - s \in Nat /\ d \in Nat /\ e \in Nat /\ s \in Nat
    BY <1>1
  <2>2. m * d \in Int /\ n * e \in Int
    BY <1>1
  <2>3. m * d - n * e \in Nat
    BY <1>1, <2>2
  <2>4. (q - p) * (t - s) \in Nat /\ d * e \in Nat
    BY <2>1, ProductIsNat
  <2> QED BY <2>1, <2>3, <2>4, ProductIsNat
<1>4. B - A = (X + Y) * t
  BY <1>1
<1>5. (X + Y) * t \in Nat
  <2>1. X + Y \in Nat /\ t \in Nat
    BY <1>3
  <2> QED BY <2>1, ProductIsNat
<1>6. A \in Int /\ B \in Int
  BY <1>1
<1>7. A <= B
  <2> HIDE DEF A, B, X, Y
  <2> QED BY <1>4, <1>5, <1>6
<1> QED BY <1>2, <1>7 DEF Leq

Mixed(o, q, w) == Plus(o, Times(Minus(q, o), w))

LEMMA MixedIs ==
    ASSUME NEW o, NEW q, NEW w, Frac(o), Frac(q), Frac(w)
    PROVE  /\ Mixed(o, q, w)[1] = o[1] * ((q[2] * o[2]) * w[2])
                                    + ((q[1] * o[2] - o[1] * q[2]) * w[1]) * o[2]
           /\ Mixed(o, q, w)[2] = o[2] * ((q[2] * o[2]) * w[2])
           /\ Frac(Mixed(o, q, w))
<1> DEFINE a == o[1]
           b == o[2]
           c == q[1]
           e == q[2]
           s == w[1]
           t == w[2]
<1>1. /\ a \in Int /\ b \in Int /\ b > 0 /\ c \in Int /\ e \in Int /\ e > 0
      /\ s \in Int /\ t \in Int /\ t > 0
  BY DEF Frac
<1>2. Mixed(o, q, w) = <<a * ((e * b) * t) + ((c * b - a * e) * s) * b, b * ((e * b) * t)>>
  BY DEF Mixed, Plus, Times, Minus
<1> HIDE DEF a, b, c, e, s, t
<1>3. e * b \in Int /\ e * b > 0
  <2>1. 1 * b <= e * b
    BY <1>1, Scaled
  <2> QED BY <1>1, <2>1
<1>4. (e * b) * t \in Int /\ (e * b) * t > 0
  <2> DEFINE x == e * b
  <2>1. x \in Int /\ x >= 1
    BY <1>3
  <2> HIDE DEF x
  <2>2. 1 * t <= x * t
    BY <1>1, <2>1, Scaled
  <2>3. x * t \in Int /\ x * t > 0
    BY <1>1, <2>1, <2>2
  <2> QED BY <2>3 DEF x
<1>5. b * ((e * b) * t) \in Int /\ b * ((e * b) * t) > 0
  <2> DEFINE x == (e * b) * t
  <2>1. x \in Int /\ x > 0
    BY <1>4
  <2> HIDE DEF x
  <2>2. 1 * x <= b * x
    BY <1>1, <2>1, Scaled
  <2>3. b * x \in Int /\ b * x > 0
    BY <1>1, <2>1, <2>2
  <2> QED BY <2>3 DEF x
<1>6. a * ((e * b) * t) + ((c * b - a * e) * s) * b \in Int
  BY <1>1
<1> QED BY <1>2, <1>5, <1>6 DEF Frac, a, b, c, e, s, t

LEMMA MixedBetween ==
    ASSUME NEW o, NEW q, NEW w, Frac(o), Frac(q), Frac(w), Leq(o, q),
           0 <= w[1], w[1] <= w[2]
    PROVE  Leq(o, Mixed(o, q, w)) /\ Leq(Mixed(o, q, w), q)
<1> DEFINE a == o[1]
           b == o[2]
           c == q[1]
           e == q[2]
           s == w[1]
           t == w[2]
           N == a * ((e * b) * t) + ((c * b - a * e) * s) * b
           D == b * ((e * b) * t)
           X == ((c * b - a * e) * s) * (b * b)
           Y == ((c * b - a * e) * (t - s)) * (b * e)
<1>1. /\ a \in Int /\ b \in Int /\ b > 0 /\ c \in Int /\ e \in Int /\ e > 0
      /\ s \in Int /\ t \in Int /\ t > 0 /\ 0 <= s /\ s <= t
      /\ a * e <= c * b
  BY DEF Frac, Leq
<1>2. Mixed(o, q, w)[1] = N /\ Mixed(o, q, w)[2] = D
  BY MixedIs
<1>3. /\ Leq(o, Mixed(o, q, w)) <=> a * D <= N * b
      /\ Leq(Mixed(o, q, w), q) <=> N * e <= c * D
  BY <1>2 DEF Leq
<1> HIDE DEF a, b, c, e, s, t
<1>4. X \in Nat /\ Y \in Nat
  <2>1. c * b \in Int /\ a * e \in Int
    BY <1>1
  <2>2. c * b - a * e \in Nat /\ s \in Nat /\ t - s \in Nat /\ b \in Nat /\ e \in Nat
    BY <1>1, <2>1
  <2>3. (c * b - a * e) * s \in Nat /\ (c * b - a * e) * (t - s) \in Nat
        /\ b * b \in Nat /\ b * e \in Nat
    BY <2>2, ProductIsNat
  <2> QED BY <2>3, ProductIsNat
<1>5. N * b - a * D = X /\ c * D - N * e = Y
  BY <1>1
<1>6. N * b \in Int /\ a * D \in Int /\ c * D \in Int /\ N * e \in Int
  BY <1>1
<1>7. a * D <= N * b /\ N * e <= c * D
  <2> HIDE DEF N, D, X, Y
  <2> QED BY <1>4, <1>5, <1>6
<1> QED BY <1>3, <1>7

LEMMA MixedGrows ==
    ASSUME NEW o, NEW q, NEW w, NEW z, Frac(o), Frac(q), Frac(w), Frac(z), Leq(o, q), Leq(w, z)
    PROVE  Leq(Mixed(o, q, w), Mixed(o, q, z))
<1> DEFINE a == o[1]
           b == o[2]
           c == q[1]
           e == q[2]
           s == w[1]
           t == w[2]
           x == z[1]
           y == z[2]
           N == a * ((e * b) * t) + ((c * b - a * e) * s) * b
           D == b * ((e * b) * t)
           M == a * ((e * b) * y) + ((c * b - a * e) * x) * b
           G == b * ((e * b) * y)
           X == ((c * b - a * e) * (x * t - s * y)) * ((b * b) * (e * b))
<1>1. /\ a \in Int /\ b \in Int /\ b > 0 /\ c \in Int /\ e \in Int /\ e > 0
      /\ s \in Int /\ t \in Int /\ x \in Int /\ y \in Int
      /\ a * e <= c * b /\ s * y <= x * t
  BY DEF Frac, Leq
<1>2. /\ Mixed(o, q, w)[1] = N /\ Mixed(o, q, w)[2] = D
      /\ Mixed(o, q, z)[1] = M /\ Mixed(o, q, z)[2] = G
  BY MixedIs
<1>3. Leq(Mixed(o, q, w), Mixed(o, q, z)) <=> N * G <= M * D
  BY <1>2 DEF Leq
<1> HIDE DEF a, b, c, e, s, t, x, y
<1>4. X \in Nat
  <2>1. c * b \in Int /\ a * e \in Int /\ x * t \in Int /\ s * y \in Int
    BY <1>1
  <2>2. c * b - a * e \in Nat /\ x * t - s * y \in Nat /\ b \in Nat /\ e \in Nat
    BY <1>1, <2>1
  <2>3. (c * b - a * e) * (x * t - s * y) \in Nat /\ b * b \in Nat /\ e * b \in Nat
    BY <2>2, ProductIsNat
  <2>4. (b * b) * (e * b) \in Nat
    BY <2>3, ProductIsNat
  <2> QED BY <2>3, <2>4, ProductIsNat
<1>5. M * D - N * G = X
  BY <1>1
<1>6. N * G \in Int /\ M * D \in Int
  BY <1>1
<1>7. N * G <= M * D
  <2> HIDE DEF N, D, M, G, X
  <2> QED BY <1>4, <1>5, <1>6
<1> QED BY <1>3, <1>7

(* How far x lies from f to g. *)
Weight(x, f, g) == Over(Minus(x, f), Minus(g, f))

LEMMA WeightIs ==
    ASSUME NEW p \in Int, NEW f, NEW g, Frac(f), Frac(g), Less(f, g),
           Leq(f, Chance(p)), Leq(Chance(p), g)
    PROVE  /\ Weight(Chance(p), f, g)[1] = (p * f[2] - f[1]) * (g[2] * f[2])
           /\ Weight(Chance(p), f, g)[2] = f[2] * (g[1] * f[2] - f[1] * g[2])
           /\ Frac(Weight(Chance(p), f, g))
           /\ 0 <= Weight(Chance(p), f, g)[1]
           /\ Weight(Chance(p), f, g)[1] <= Weight(Chance(p), f, g)[2]
<1> DEFINE a == f[1]
           b == f[2]
           c == g[1]
           e == g[2]
           S == (p * b - a) * (e * b)
           T == b * (c * b - a * e)
<1>1. /\ a \in Int /\ b \in Int /\ b > 0 /\ c \in Int /\ e \in Int /\ e > 0
      /\ ~(c * b <= a * e) /\ a * 1 <= p * b /\ p * e <= c * 1
  BY DEF Frac, Leq, Less, Chance
<1>2. Weight(Chance(p), f, g) = <<(p * b - a * 1) * (e * b), (1 * b) * (c * b - a * e)>>
  BY DEF Weight, Over, Minus, Chance
<1> HIDE DEF a, b, c, e
<1>3. (p * b - a * 1) * (e * b) = S /\ (1 * b) * (c * b - a * e) = T
  BY <1>1
<1>4. /\ c * b \in Int /\ a * e \in Int /\ p * b \in Int /\ p * e \in Int
  BY <1>1
<1>5. S \in Nat
  <2>1. p * b - a \in Nat /\ e \in Nat /\ b \in Nat
    BY <1>1, <1>4
  <2>2. e * b \in Nat
    BY <2>1, ProductIsNat
  <2> QED BY <2>1, <2>2, ProductIsNat
<1>6. T \in Int /\ T > 0
  <2> DEFINE x == c * b - a * e
  <2>1. x \in Int /\ x > 0
    BY <1>1, <1>4
  <2> HIDE DEF x
  <2>2. 1 * x <= b * x
    BY <1>1, <2>1, Scaled
  <2>3. b * x \in Int /\ b * x > 0
    BY <1>1, <2>1, <2>2
  <2> QED BY <2>3 DEF x
<1>7. T - S = (b * b) * (c - p * e)
  BY <1>1
<1>8. (b * b) * (c - p * e) \in Nat
  <2>1. b \in Nat /\ c - p * e \in Nat
    BY <1>1, <1>4
  <2>2. b * b \in Nat
    BY <2>1, ProductIsNat
  <2> QED BY <2>1, <2>2, ProductIsNat
<1>9. 0 <= S /\ S <= T
  <2> HIDE DEF S, T
  <2> QED BY <1>5, <1>6, <1>7, <1>8
<1> QED BY <1>2, <1>3, <1>5, <1>6, <1>9 DEF Frac, a, b, c, e

LEMMA WeightGrows ==
    ASSUME NEW p \in Int, NEW q \in Int, p <= q, NEW f, NEW g, Frac(f), Frac(g), Less(f, g),
           Leq(f, Chance(p)), Leq(Chance(p), g), Leq(f, Chance(q)), Leq(Chance(q), g)
    PROVE  Leq(Weight(Chance(p), f, g), Weight(Chance(q), f, g))
<1> DEFINE a == f[1]
           b == f[2]
           c == g[1]
           e == g[2]
           S == (p * b - a) * (e * b)
           R == (q * b - a) * (e * b)
           T == b * (c * b - a * e)
<1>1. a \in Int /\ b \in Int /\ b > 0 /\ c \in Int /\ e \in Int /\ e > 0
  BY DEF Frac
<1> DEFINE W == Weight(Chance(p), f, g)
           Z == Weight(Chance(q), f, g)
<1> HIDE DEF W, Z
<1>7. W[1] = S /\ W[2] = T /\ Frac(W)
  BY WeightIs DEF W
<1>8. Z[1] = R /\ Z[2] = T
  BY WeightIs DEF Z
<1>2. W[1] = S /\ W[2] = T /\ Z[1] = R /\ Z[2] = T /\ T > 0
  BY <1>7, <1>8 DEF Frac
<1> HIDE DEF a, b, c, e
<1>3. S \in Int /\ R \in Int /\ T \in Int
  BY <1>1
<1>4. R - S = (q - p) * (b * (e * b))
  BY <1>1
<1>5. (q - p) * (b * (e * b)) \in Nat
  <2>1. q - p \in Nat /\ b \in Nat /\ e \in Nat
    BY <1>1
  <2>2. e * b \in Nat
    BY <2>1, ProductIsNat
  <2>3. b * (e * b) \in Nat
    BY <2>1, <2>2, ProductIsNat
  <2> QED BY <2>1, <2>3, ProductIsNat
<1>6. S * T <= R * T
  <2> HIDE DEF S, R, T
  <2>1. S <= R
    BY <1>3, <1>4, <1>5
  <2> QED BY <1>2, <1>3, <2>1, Scaled
<1> QED BY <1>2, <1>6 DEF Leq, W, Z

-----------------------------------------------------------------------------
(* Rounding *)

LEMMA DivisionIs ==
    ASSUME NEW n \in Int, NEW d \in Int, d > 0
    PROVE  n \div d \in Int /\ d * (n \div d) <= n /\ n < d * (n \div d) + d
OBVIOUS

LEMMA QuantizeNear ==
    ASSUME NEW x, Frac(x), Quantum \in Nat \ {0}
    PROVE  /\ Quantize(x) \in Int
           /\ (2 * Quantize(x)) * x[2] <= 2 * x[1] + Quantum * x[2]
           /\ 2 * x[1] - Quantum * x[2] < (2 * Quantize(x)) * x[2]
           /\ \E j \in Int : Quantize(x) = Quantum * j
<1> DEFINE a == x[1]
           b == x[2]
           n == 2 * a + Quantum * b
           d == 2 * Quantum * b
           j == n \div d
<1>1. a \in Int /\ b \in Int /\ b > 0 /\ Quantum \in Int /\ Quantum > 0
  BY DEF Frac
<1>2. Quantize(x) = Quantum * j
  BY DEF Quantize
<1> HIDE DEF a, b
<1>3. n \in Int /\ d \in Int /\ d > 0
  <2>1. 1 * b <= Quantum * b
    BY <1>1, Scaled
  <2>2. Quantum * b \in Int /\ Quantum * b > 0
    BY <1>1, <2>1
  <2> QED BY <1>1, <2>2
<1>4. j \in Int /\ d * j <= n /\ n < d * j + d
  <2> HIDE DEF n, d
  <2> QED BY <1>3, DivisionIs
<1> HIDE DEF j
<1>5. d * j = (2 * (Quantum * j)) * b
  BY <1>1, <1>4
<1>6. /\ (2 * (Quantum * j)) * b <= 2 * a + Quantum * b
      /\ 2 * a - Quantum * b < (2 * (Quantum * j)) * b
  <2> DEFINE y == Quantum * b
             z == (2 * (Quantum * j)) * b
  <2>1. y \in Int /\ z \in Int /\ n = 2 * a + y /\ d = 2 * y
    BY <1>1, <1>4
  <2>2. z <= n /\ n < z + d
    BY <1>4, <1>5
  <2> HIDE DEF y, z, n, d
  <2>3. z <= 2 * a + y /\ 2 * a - y < z
    BY <1>1, <2>1, <2>2
  <2> QED BY <2>3 DEF y, z
<1>7. Quantum * j \in Int
  BY <1>1, <1>4
<1> QED BY <1>2, <1>4, <1>6, <1>7 DEF a, b

LEMMA QuantizeGrows ==
    ASSUME NEW x, NEW z, Frac(x), Frac(z), Leq(x, z), Quantum \in Nat \ {0}
    PROVE  Quantize(x) <= Quantize(z)
<1> DEFINE a == x[1]
           b == x[2]
           c == z[1]
           e == z[2]
           X == Quantize(x)
           Z == Quantize(z)
<1>1. /\ a \in Int /\ b \in Int /\ b > 0 /\ c \in Int /\ e \in Int /\ e > 0
      /\ a * e <= c * b /\ Quantum \in Int /\ Quantum > 0
  BY DEF Frac, Leq
<1>2. /\ X \in Int /\ Z \in Int
      /\ (2 * X) * b <= 2 * a + Quantum * b /\ 2 * c - Quantum * e < (2 * Z) * e
  BY QuantizeNear
<1>3. PICK i \in Int : X = Quantum * i
  BY QuantizeNear
<1>4. PICK j \in Int : Z = Quantum * j
  BY QuantizeNear
<1> HIDE DEF a, b, c, e, X, Z
<1>5. ((2 * X - Quantum) * e) * b <= (2 * c) * b
  <2>1. ((2 * X) * b) * e <= (2 * a + Quantum * b) * e
    <3> DEFINE u == (2 * X) * b
               v == 2 * a + Quantum * b
    <3>1. u \in Int /\ v \in Int /\ u <= v
      BY <1>1, <1>2
    <3> HIDE DEF u, v
    <3>2. u * e <= v * e
      BY <1>1, <3>1, Scaled
    <3> QED BY <3>2 DEF u, v
  <2>2. /\ ((2 * X) * b) * e = ((2 * X - Quantum) * e) * b + (Quantum * b) * e
        /\ (2 * a + Quantum * b) * e = 2 * (a * e) + (Quantum * b) * e
        /\ (2 * c) * b = 2 * (c * b)
    BY <1>1, <1>2
  <2>3. /\ ((2 * X - Quantum) * e) * b \in Int /\ (Quantum * b) * e \in Int
        /\ a * e \in Int /\ c * b \in Int
    BY <1>1, <1>2
  <2> DEFINE k == ((2 * X - Quantum) * e) * b
             l == (Quantum * b) * e
             m == a * e
             o == c * b
  <2>4. k + l <= 2 * m + l /\ m <= o /\ k \in Int /\ l \in Int /\ m \in Int /\ o \in Int
    BY <1>1, <2>1, <2>2, <2>3
  <2> HIDE DEF k, l, m, o
  <2>5. k <= 2 * o
    BY <2>4
  <2> QED BY <2>2, <2>5 DEF k, o
<1>6. (2 * X - Quantum) * e <= 2 * c
  <2> DEFINE u == (2 * X - Quantum) * e
             v == 2 * c
  <2>1. u \in Int /\ v \in Int /\ u * b <= v * b
    BY <1>1, <1>2, <1>5
  <2> HIDE DEF u, v
  <2>2. u <= v
    BY <1>1, <2>1, Unscaled
  <2> QED BY <2>2 DEF u, v
<1>7. ~(2 * Z + Quantum <= 2 * X - Quantum)
  <2> SUFFICES ASSUME 2 * Z + Quantum <= 2 * X - Quantum PROVE FALSE
    OBVIOUS
  <2>1. (2 * Z + Quantum) * e <= (2 * X - Quantum) * e
    <3> DEFINE u == 2 * Z + Quantum
               v == 2 * X - Quantum
    <3>1. u \in Int /\ v \in Int /\ u <= v
      BY <1>1, <1>2
    <3> HIDE DEF u, v
    <3>2. u * e <= v * e
      BY <1>1, <3>1, Scaled
    <3> QED BY <3>2 DEF u, v
  <2>2. (2 * Z + Quantum) * e = (2 * Z) * e + Quantum * e
    BY <1>1, <1>2
  <2>3. (2 * Z) * e \in Int /\ Quantum * e \in Int /\ (2 * X - Quantum) * e \in Int
    BY <1>1, <1>2
  <2> QED BY <1>1, <1>2, <1>6, <2>1, <2>2, <2>3
<1>8. X < Z + Quantum
  BY <1>1, <1>2, <1>7
<1>9. i <= j
  <2> SUFFICES ASSUME j + 1 <= i PROVE FALSE
    OBVIOUS
  <2>1. (j + 1) * Quantum <= i * Quantum
    BY <1>1, Scaled
  <2>2. (j + 1) * Quantum = Z + Quantum /\ i * Quantum = X
    BY <1>1, <1>3, <1>4
  <2> QED BY <1>1, <1>2, <1>8, <2>1, <2>2
<1>10. i * Quantum <= j * Quantum
  BY <1>1, <1>9, Scaled
<1>11. X <= Z
  BY <1>1, <1>3, <1>4, <1>10
<1> QED BY <1>11 DEF X, Z

-----------------------------------------------------------------------------
(* Induction up to a bound, and the functions that loops compute *)

LEMMA UpTo ==
    ASSUME NEW N \in Nat, NEW T, T \subseteq 0..N, 0 \in T,
           \A n \in 1..N : n - 1 \in T => n \in T
    PROVE  T = 0..N
<1> SUFFICES ASSUME T # 0..N PROVE FALSE
  OBVIOUS
<1> DEFINE U == (0..N) \ T
<1>1. U # {} /\ U \subseteq Nat
  <2>1. U \subseteq Nat
    OBVIOUS
  <2>2. \E x : x \in 0..N /\ x \notin T
    OBVIOUS
  <2> QED BY <2>1, <2>2
<1>2. PICK x \in U : \A y \in U : x <= y
  BY <1>1, Least
<1>3. x \in 1..N
  BY <1>2
<1>4. x - 1 \in 0..N /\ ~(x <= x - 1)
  BY <1>3
<1>5. x - 1 \in T
  BY <1>2, <1>4
<1> QED BY <1>2, <1>3, <1>5


(* g tells the values of a loop that starts with e and does G[n] in round n.  *)
Loop(N, S, e, G, g) ==
    g \in [0..N -> S] /\ g[0] = e /\ \A n \in 1..N : g[n] = G[n][g[n - 1]]

LEMMA LoopExists ==
    ASSUME NEW N \in Nat, NEW S, NEW e \in S, NEW G \in [1..N -> [S -> S]]
    PROVE  \E g : Loop(N, S, e, G, g)
<1> DEFINE Computes(g, k) == g[0] = e /\ \A n \in 1..k : g[n] = G[n][g[n - 1]]
           T == {k \in 0..N : \E g \in [0..k -> S] : Computes(g, k)}
<1>1. 0 \in T
  <2> DEFINE g == [n \in 0..0 |-> e]
  <2>1. g \in [0..0 -> S] /\ Computes(g, 0)
    OBVIOUS
  <2> HIDE DEF g
  <2>2. \E h \in [0..0 -> S] : Computes(h, 0)
    BY <2>1
  <2> QED BY <2>2
<1>2. ASSUME NEW k \in 1..N, k - 1 \in T PROVE k \in T
  <2>1. PICK f \in [0..(k - 1) -> S] : Computes(f, k - 1)
    BY <1>2
  <2> DEFINE g == [n \in 0..k |-> IF n = k THEN G[k][f[k - 1]] ELSE f[n]]
  <2>2. G[k][f[k - 1]] \in S
    <3>1. k - 1 \in 0..(k - 1) /\ k \in 1..N
      BY <1>2
    <3>2. f[k - 1] \in S /\ G[k] \in [S -> S]
      BY <3>1
    <3> QED BY <3>2
  <2>3. g \in [0..k -> S]
    <3> SUFFICES ASSUME NEW n \in 0..k PROVE g[n] \in S
      OBVIOUS
    <3>1. n # k => n \in 0..(k - 1)
      BY <1>2
    <3> QED BY <2>2, <3>1
  <2>4. g[0] = e
    BY <1>2, <2>1
  <2>5. ASSUME NEW n \in 1..k PROVE g[n] = G[n][g[n - 1]]
    <3>1. n - 1 \in 0..k /\ n - 1 # k /\ n \in 0..k
      BY <1>2
    <3>2. g[n - 1] = f[n - 1]
      BY <3>1
    <3>3. CASE n = k
      BY <3>1, <3>2, <3>3
    <3>4. CASE n # k
      <4>1. n \in 1..(k - 1)
        BY <1>2, <3>4
      <4>2. f[n] = G[n][f[n - 1]]
        BY <2>1, <4>1
      <4> QED BY <3>1, <3>2, <3>4, <4>2
    <3> QED BY <3>3, <3>4
  <2> HIDE DEF g
  <2>6. Computes(g, k)
    BY <2>4, <2>5
  <2> HIDE DEF Computes
  <2>7. k \in 0..N
    BY <1>2
  <2>8. \E h \in [0..k -> S] : Computes(h, k)
    BY <2>3, <2>6
  <2> QED BY <2>7, <2>8
<1>3. T \subseteq 0..N
  OBVIOUS
<1> HIDE DEF T
<1>4. T = 0..N
  BY <1>1, <1>2, <1>3, UpTo
<1>5. N \in T
  BY <1>4
<1> QED BY <1>5 DEF T, Loop

(* A curve: anchors that ascend, with frequencies that do not descend.        *)
IsCurve(c) ==
    /\ IsSequence(c)
    /\ \A k \in 1..Len(c) :
          /\ Frac(c[k].forecast) /\ Frac(c[k].observed) /\ c[k].samples \in Nat
          /\ Leq(Chance(0), c[k].observed) /\ Leq(c[k].observed, Chance(Unit))
    /\ \A j, k \in 1..Len(c) : j < k => /\ Less(c[j].forecast, c[k].forecast)
                                        /\ Leq(c[j].observed, c[k].observed)

SumsUp(c, f) ==
    f = [n \in 0..Len(c) |-> IF n = 0 THEN 0 ELSE f[n - 1] + c[n].samples]

LEMMA SamplesIs ==
    ASSUME NEW c, IsCurve(c)
    PROVE  Samples(c) \in Nat
<1> DEFINE N == Len(c)
           G == [n \in 1..N |-> [x \in Nat |-> x + c[n].samples]]
<1>1. N \in Nat /\ \A n \in 1..N : c[n].samples \in Nat
  BY SequenceIs DEF IsCurve
<1>2. \E f : SumsUp(c, f)
  <2>1. G \in [1..N -> [Nat -> Nat]]
    BY <1>1
  <2>2. \A n \in 1..N, x \in Nat : G[n][x] = x + c[n].samples
    OBVIOUS
  <2> HIDE DEF G
  <2>9. PICK g : Loop(N, Nat, 0, G, g)
    <3>1. N \in Nat /\ 0 \in Nat /\ G \in [1..N -> [Nat -> Nat]]
      BY <1>1, <2>1
    <3> HIDE DEF N
    <3> QED BY <3>1, LoopExists
  <2>3. /\ g \in [0..N -> Nat] /\ g[0] = 0
        /\ \A n \in 1..N : g[n] = G[n][g[n - 1]]
    BY <2>9 DEF Loop
  <2>4. ASSUME NEW n \in 0..N
        PROVE  g[n] = IF n = 0 THEN 0 ELSE g[n - 1] + c[n].samples
    <3>1. CASE n = 0
      BY <2>3, <3>1
    <3>2. CASE n # 0
      <4>1. n \in 1..N /\ n - 1 \in 0..N
        BY <1>1, <3>2
      <4>2. g[n - 1] \in Nat
        BY <2>3, <4>1
      <4> QED BY <2>2, <2>3, <3>2, <4>1, <4>2
    <3> QED BY <3>1, <3>2
  <2>5. g = [n \in 0..N |-> IF n = 0 THEN 0 ELSE g[n - 1] + c[n].samples]
    <3>1. g = [n \in 0..N |-> g[n]]
      BY <2>3
    <3> QED BY <2>4, <3>1
  <2>6. SumsUp(c, g)
    BY <2>5 DEF SumsUp
  <2> QED BY <2>6
<1> DEFINE f == CHOOSE f : SumsUp(c, f)
<1>3. SumsUp(c, f) /\ Samples(c) = f[N]
  <2>1. Samples(c) = f[N]
    BY DEF Samples, SumsUp
  <2> QED BY <1>2, <2>1
<1> HIDE DEF f
<1>4. \A n \in 0..N : f[n] = IF n = 0 THEN 0 ELSE f[n - 1] + c[n].samples
  BY <1>3 DEF SumsUp
<1> DEFINE T == {n \in 0..N : f[n] \in Nat}
<1>5. 0 \in T /\ T \subseteq 0..N
  BY <1>1, <1>4
<1>6. ASSUME NEW n \in 1..N, n - 1 \in T PROVE n \in T
  <2>1. n \in 0..N /\ n # 0 /\ f[n - 1] \in Nat
    BY <1>6
  <2>2. f[n] = f[n - 1] + c[n].samples
    BY <1>4, <2>1
  <2> QED BY <1>1, <2>1, <2>2
<1> HIDE DEF T
<1>7. T = 0..N
  BY <1>1, <1>5, <1>6, UpTo
<1>8. N \in T
  BY <1>1, <1>7
<1> QED BY <1>3, <1>8 DEF T

-----------------------------------------------------------------------------
(* The bins *)

Bin == [samples : Nat, total : Int, yes : Nat]

(* The mean of a bin lies in it, below its end unless it is the last.         *)
BinOK(b, i) ==
    /\ b \in Bin /\ b.yes <= b.samples
    /\ ((i - 1) * Unit) * b.samples <= b.total * BinCount
    /\ b.samples = 0 => b.total = 0
    /\ i < BinCount /\ b.samples > 0 => b.total * BinCount < (i * Unit) * b.samples

LEMMA WithRowIs ==
    ASSUME CurveAssumption, NEW i \in 1..BinCount, NEW b, BinOK(b, i),
           NEW r, r.p \in Int, InBin(r.p, i)
    PROVE  BinOK(WithRow(b, r), i)
<1> DEFINE s == b.samples
           t == b.total
           y == b.yes
           p == r.p
           L == (i - 1) * Unit
           H == i * Unit
           one == IF r.yes THEN 1 ELSE 0
<1>1. BinCount \in Int /\ BinCount > 0 /\ Unit \in Int /\ i \in Int
  BY DEF CurveAssumption
<1>2. /\ s \in Nat /\ t \in Int /\ y \in Nat /\ y <= s /\ L * s <= t * BinCount
      /\ s = 0 => t = 0
      /\ i < BinCount /\ s > 0 => t * BinCount < H * s
  BY DEF BinOK, Bin
<1>3. L <= p * BinCount /\ (i < BinCount => p * BinCount < H)
  BY DEF InBin
<1>4. L \in Int /\ H \in Int /\ p \in Int /\ one \in {0, 1}
  BY <1>1
<1>5. WithRow(b, r) = [samples |-> s + 1, total |-> t + p, yes |-> y + one]
  BY DEF WithRow
<1> HIDE DEF s, t, y, p, L, H, one
<1>6. WithRow(b, r) \in Bin
  BY <1>2, <1>4, <1>5 DEF Bin
<1>7. L * (s + 1) = L * s + L /\ (t + p) * BinCount = t * BinCount + p * BinCount
      /\ H * (s + 1) = H * s + H
  BY <1>1, <1>2, <1>4
<1>8. /\ L * s \in Int /\ t * BinCount \in Int /\ p * BinCount \in Int /\ H * s \in Int
      /\ s = 0 => H * s = 0 /\ t * BinCount = 0
  BY <1>1, <1>2, <1>4
<1>9. L * (s + 1) <= (t + p) * BinCount
  BY <1>2, <1>3, <1>4, <1>7, <1>8
<1>10. i < BinCount => (t + p) * BinCount < H * (s + 1)
  BY <1>2, <1>3, <1>4, <1>7, <1>8
<1>11. s + 1 # 0 /\ y + one <= s + 1
  BY <1>2, <1>4
<1> QED BY <1>5, <1>6, <1>9, <1>10, <1>11 DEF BinOK, L, H

Sees(rows, i, f) ==
    f = [n \in 0..Len(rows) |->
            IF n = 0 THEN [samples |-> 0, total |-> 0, yes |-> 0]
            ELSE IF InBin(rows[n].p, i) THEN WithRow(f[n - 1], rows[n])
            ELSE f[n - 1]]

LEMMA CalibrationBinIs ==
    ASSUME CurveAssumption, NEW rows, IsSequence(rows), \A n \in 1..Len(rows) : rows[n].p \in Int,
           NEW i \in 1..BinCount
    PROVE  BinOK(CalibrationBin(rows, i), i)
<1> DEFINE N == Len(rows)
           none == [samples |-> 0, total |-> 0, yes |-> 0]
           G == [n \in 1..N |-> [x \in Bin |->
                    IF InBin(rows[n].p, i) THEN WithRow(x, rows[n]) ELSE x]]
<1>1. N \in Nat /\ \A n \in 1..N : rows[n].p \in Int
  BY SequenceIs
<1>2. BinOK(none, i)
  <2>1. BinCount \in Int /\ Unit \in Int /\ i \in Int
    BY DEF CurveAssumption
  <2>2. none \in Bin /\ none.yes <= none.samples
    BY DEF Bin
  <2>3. ((i - 1) * Unit) * 0 = 0 /\ 0 * BinCount = 0
    BY <2>1
  <2> QED BY <2>2, <2>3 DEF BinOK
<1>3. \E f : Sees(rows, i, f)
  <2>1. G \in [1..N -> [Bin -> Bin]]
    <3>1. ASSUME NEW n \in 1..N, NEW x \in Bin PROVE WithRow(x, rows[n]) \in Bin
      BY <1>1 DEF WithRow, Bin
    <3> QED BY <3>1
  <2>2. \A n \in 1..N, x \in Bin :
           G[n][x] = IF InBin(rows[n].p, i) THEN WithRow(x, rows[n]) ELSE x
    OBVIOUS
  <2>3. none \in Bin
    BY <1>2 DEF BinOK
  <2> HIDE DEF G, none
  <2>9. PICK g : Loop(N, Bin, none, G, g)
    <3>1. N \in Nat /\ none \in Bin /\ G \in [1..N -> [Bin -> Bin]]
      BY <1>1, <2>1, <2>3
    <3> HIDE DEF N
    <3> QED BY <3>1, LoopExists
  <2>4. /\ g \in [0..N -> Bin] /\ g[0] = none
        /\ \A n \in 1..N : g[n] = G[n][g[n - 1]]
    BY <2>9 DEF Loop
  <2>5. ASSUME NEW n \in 0..N
        PROVE  g[n] = IF n = 0 THEN none
                      ELSE IF InBin(rows[n].p, i) THEN WithRow(g[n - 1], rows[n])
                      ELSE g[n - 1]
    <3>1. CASE n = 0
      BY <2>4, <3>1
    <3>2. CASE n # 0
      <4>1. n \in 1..N /\ n - 1 \in 0..N
        BY <1>1, <3>2
      <4>2. g[n - 1] \in Bin
        BY <2>4, <4>1
      <4> QED BY <2>2, <2>4, <3>2, <4>1, <4>2
    <3> QED BY <3>1, <3>2
  <2>6. g = [n \in 0..N |-> IF n = 0 THEN none
                      ELSE IF InBin(rows[n].p, i) THEN WithRow(g[n - 1], rows[n])
                      ELSE g[n - 1]]
    <3>1. g = [n \in 0..N |-> g[n]]
      BY <2>4
    <3> QED BY <2>5, <3>1
  <2>7. Sees(rows, i, g)
    BY <2>6 DEF Sees, none
  <2> QED BY <2>7
<1> DEFINE f == CHOOSE f : Sees(rows, i, f)
<1>4. Sees(rows, i, f) /\ CalibrationBin(rows, i) = f[N]
  <2>1. CalibrationBin(rows, i) = f[N]
    BY DEF CalibrationBin, Sees
  <2> QED BY <1>3, <2>1
<1> HIDE DEF f
<1>5. \A n \in 0..N : f[n] = IF n = 0 THEN none
                             ELSE IF InBin(rows[n].p, i) THEN WithRow(f[n - 1], rows[n])
                             ELSE f[n - 1]
  BY <1>4 DEF Sees
<1> HIDE DEF none
<1> DEFINE T == {n \in 0..N : BinOK(f[n], i)}
<1>6. 0 \in T /\ T \subseteq 0..N
  BY <1>1, <1>2, <1>5
<1>7. ASSUME NEW n \in 1..N, n - 1 \in T PROVE n \in T
  <2>1. n \in 0..N /\ n # 0 /\ BinOK(f[n - 1], i)
    BY <1>7
  <2>2. CASE InBin(rows[n].p, i)
    <3>1. f[n] = WithRow(f[n - 1], rows[n])
      BY <1>5, <2>1, <2>2
    <3> QED BY <1>1, <2>1, <2>2, <3>1, WithRowIs
  <2>3. CASE ~InBin(rows[n].p, i)
    <3>1. f[n] = f[n - 1]
      BY <1>5, <2>1, <2>3
    <3> QED BY <2>1, <3>1
  <2> QED BY <2>2, <2>3
<1> HIDE DEF T
<1>8. T = 0..N
  BY <1>1, <1>6, <1>7, UpTo
<1>9. N \in T
  BY <1>1, <1>8
<1> QED BY <1>4, <1>9 DEF T

-----------------------------------------------------------------------------
(* The curve *)

(* Every mean of the curve lies below the end of bin i. *)
EndsBelow(c, i) ==
    \A k \in 1..Len(c) : c[k].forecast[1] * BinCount < (i * Unit) * c[k].forecast[2]

LEMMA RunningMaxIs ==
    ASSUME CurveAssumption, NEW c, IsCurve(c)
    PROVE  /\ Frac(RunningMax(c)) /\ Leq(Chance(0), RunningMax(c))
           /\ Leq(RunningMax(c), Chance(Unit))
           /\ \A k \in 1..Len(c) : Leq(c[k].observed, RunningMax(c))
<1>1. Len(c) \in Nat /\ (Len(c) = 0 => c = NoCurve) /\ Unit \in Nat
  BY SequenceIs, EmptySeq DEF IsCurve, IsSequence, NoCurve, CurveAssumption
<1>2. CASE c = NoCurve
  <2>1. RunningMax(c) = Chance(0) /\ Len(c) = 0
    BY <1>2 DEF RunningMax, NoCurve
  <2>2. Frac(Chance(0)) /\ Leq(Chance(0), Chance(0)) /\ Leq(Chance(0), Chance(Unit))
    BY <1>1, ChanceIs
  <2> QED BY <2>1, <2>2
<1>3. CASE c # NoCurve
  <2>1. RunningMax(c) = c[Len(c)].observed /\ Len(c) \in 1..Len(c)
    BY <1>1, <1>3 DEF RunningMax
  <2>2. /\ Frac(c[Len(c)].observed) /\ Leq(Chance(0), c[Len(c)].observed)
        /\ Leq(c[Len(c)].observed, Chance(Unit))
    BY <2>1 DEF IsCurve
  <2>3. ASSUME NEW k \in 1..Len(c) PROVE Leq(c[k].observed, c[Len(c)].observed)
    <3>1. CASE k = Len(c)
      BY <2>2, <3>1, LeqTotal
    <3>2. CASE k # Len(c)
      BY <1>1, <2>1, <3>2 DEF IsCurve
    <3> QED BY <3>1, <3>2
  <2> QED BY <2>1, <2>2, <2>3
<1> QED BY <1>2, <1>3

(* A fraction below the end of a bin is less than one at or above that end. *)
LEMMA CrossStrict ==
    ASSUME NEW a \in Int, NEW b \in Int, b > 0, NEW t \in Int, NEW s \in Int, s > 0,
           NEW B \in Int, B > 0, NEW L \in Int, a * B < L * b, L * s <= t * B
    PROVE  ~ (t * b <= a * s)
<1> SUFFICES ASSUME t * b <= a * s PROVE FALSE
  OBVIOUS
<1>1. /\ a * B \in Int /\ L * b \in Int /\ L * s \in Int /\ t * B \in Int
      /\ t * b \in Int /\ a * s \in Int
  OBVIOUS
<1>2. (L * s) * b <= (t * B) * b
  BY <1>1, Scaled
<1>3. (t * b) * B <= (a * s) * B
  BY <1>1, Scaled
<1>4. (L * s) * b = (L * b) * s /\ (t * B) * b = (t * b) * B /\ (a * s) * B = (a * B) * s
  OBVIOUS
<1>5. /\ (L * s) * b \in Int /\ (t * B) * b \in Int /\ (a * s) * B \in Int
  BY <1>1
<1>6. (L * b) * s <= (a * B) * s
  BY <1>2, <1>3, <1>4, <1>5
<1>7. L * b <= a * B
  BY <1>1, <1>6, Unscaled
<1> QED BY <1>1, <1>7

LEMMA WithBinIs ==
    ASSUME CurveAssumption, NEW i \in 1..BinCount, NEW b, BinOK(b, i),
           NEW c, IsCurve(c), EndsBelow(c, i - 1)
    PROVE  /\ IsCurve(WithBin(c, b))
           /\ i < BinCount => EndsBelow(WithBin(c, b), i)
<1> DEFINE L == (i - 1) * Unit
           H == i * Unit
           s == b.samples
           t == b.total
           N == Len(c)
           new == [forecast |-> <<t, s>>,
                   observed |-> Larger(RunningMax(c), <<b.yes * Unit, s>>),
                   samples  |-> s]
           d == Append(c, new)
<1>1. /\ BinCount \in Int /\ BinCount > 0 /\ Unit \in Int /\ Unit > 0 /\ i \in Int
      /\ MinBin \in Int /\ MinBin > 0
  BY DEF CurveAssumption
<1>2. /\ s \in Nat /\ t \in Int /\ b.yes \in Nat /\ b.yes <= s /\ L * s <= t * BinCount
      /\ (i < BinCount /\ s > 0) => t * BinCount < H * s
  BY DEF BinOK, Bin
<1>3. N \in Nat
  BY SequenceIs DEF IsCurve
<1>4. L \in Int /\ H \in Int /\ L <= H
  BY <1>1
<1>5. ASSUME NEW k \in 1..N
      PROVE  /\ Frac(c[k].forecast) /\ Frac(c[k].observed)
             /\ c[k].forecast[1] * BinCount < L * c[k].forecast[2]
  BY DEF IsCurve, EndsBelow
<1>6. ASSUME NEW k \in 1..N
      PROVE  c[k].forecast[1] * BinCount < H * c[k].forecast[2]
  <2>1. c[k].forecast[2] \in Int /\ c[k].forecast[2] >= 0 /\ c[k].forecast[1] \in Int
    BY <1>5 DEF Frac
  <2> DEFINE e == c[k].forecast[2]
             x == c[k].forecast[1] * BinCount
  <2>2. e \in Int /\ e >= 0 /\ x < L * e
    BY <1>5, <2>1
  <2>3. x \in Int
    BY <1>1, <2>1
  <2> HIDE DEF e, x, L, H
  <2>4. L * e <= H * e
    BY <1>4, <2>2, Scaled
  <2>5. L * e \in Int /\ H * e \in Int
    BY <1>4, <2>2
  <2>6. x < H * e
    BY <2>2, <2>3, <2>4, <2>5
  <2> QED BY <2>6 DEF e, x
<1>7. CASE s < MinBin
  <2>1. WithBin(c, b) = c
    BY <1>7 DEF WithBin
  <2>2. EndsBelow(c, i)
    BY <1>6 DEF EndsBelow
  <2> QED BY <2>1, <2>2
<1>8. CASE ~ (s < MinBin)
  <2>1. WithBin(c, b) = d
    BY <1>8 DEF WithBin
  <2>2. s > 0
    BY <1>1, <1>2, <1>8
  <2>3. Frac(<<t, s>>) /\ Frac(<<b.yes * Unit, s>>)
    BY <1>1, <1>2, <2>2 DEF Frac
  <2>4. Leq(Chance(0), <<b.yes * Unit, s>>) /\ Leq(<<b.yes * Unit, s>>, Chance(Unit))
    <3>1. b.yes * Unit >= 0 /\ b.yes * Unit <= s * Unit /\ s * Unit = Unit * s
      BY <1>1, <1>2, ProductGrows, ProductIsNat
    <3>2. /\ b.yes * Unit \in Int /\ (b.yes * Unit) * 1 = b.yes * Unit /\ 0 * s = 0
      BY <1>1, <1>2
    <3> QED BY <3>1, <3>2 DEF Leq, Chance
  <2>5. /\ Frac(RunningMax(c)) /\ Leq(Chance(0), RunningMax(c))
        /\ Leq(RunningMax(c), Chance(Unit))
        /\ \A k \in 1..N : Leq(c[k].observed, RunningMax(c))
    BY RunningMaxIs
  <2>6. /\ Frac(new.observed) /\ Leq(RunningMax(c), new.observed)
        /\ Leq(Chance(0), new.observed) /\ Leq(new.observed, Chance(Unit))
    <3> DEFINE r == RunningMax(c)
               q == <<b.yes * Unit, s>>
    <3>1. Frac(r) /\ Frac(q) /\ Frac(Chance(0))
      BY <2>3, <2>5, ChanceIs
    <3>2. /\ Leq(Chance(0), r) /\ Leq(Chance(0), q)
          /\ Leq(r, Chance(Unit)) /\ Leq(q, Chance(Unit))
      BY <2>4, <2>5
    <3>3. new.observed = Larger(r, q)
      OBVIOUS
    <3> HIDE DEF r, q, new
    <3>4. /\ Frac(Larger(r, q)) /\ Leq(r, Larger(r, q))
          /\ Larger(r, q) = r \/ Larger(r, q) = q
      BY <3>1, LargerIs
    <3> QED BY <3>2, <3>3, <3>4 DEF r
  <2>7. ASSUME NEW k \in 1..N
        PROVE  Less(c[k].forecast, new.forecast) /\ Leq(c[k].observed, new.observed)
    <3> DEFINE f == c[k].forecast
    <3>1. f[1] \in Int /\ f[2] \in Int /\ f[2] > 0 /\ f[1] * BinCount < L * f[2]
      BY <1>5 DEF Frac
    <3>2. new.forecast = <<t, s>> /\ <<t, s>>[1] = t /\ <<t, s>>[2] = s
      OBVIOUS
    <3> HIDE DEF f, L, s, t, new
    <3>3. ~ (t * f[2] <= f[1] * s)
      <4> DEFINE x == f[1]
                 y == f[2]
      <4>1. /\ x \in Int /\ y \in Int /\ y > 0 /\ t \in Int /\ s \in Int /\ s > 0
            /\ BinCount \in Int /\ BinCount > 0 /\ L \in Int
            /\ x * BinCount < L * y /\ L * s <= t * BinCount
        BY <1>1, <1>2, <1>4, <2>2, <3>1
      <4> HIDE DEF x, y
      <4>2. ~ (t * y <= x * s)
        BY <4>1, CrossStrict
      <4> QED BY <4>2 DEF x, y
    <3>4. Less(f, new.forecast)
      BY <3>2, <3>3 DEF Less, Leq
    <3>5. Leq(c[k].observed, new.observed)
      BY <1>5, <2>5, <2>6, LeqTransitive
    <3> QED BY <3>4, <3>5 DEF f
  <2>8. /\ IsSequence(d) /\ Len(d) = N + 1 /\ d[N + 1] = new
        /\ \A k \in 1..N : d[k] = c[k]
    <3> HIDE DEF new
    <3> QED BY Appended DEF IsCurve
  <2>9. IsCurve(d)
    <3>1. new.forecast = <<t, s>> /\ new.samples = s
      OBVIOUS
    <3> HIDE DEF new, d
    <3>2. ASSUME NEW k \in 1..(N + 1)
          PROVE  /\ Frac(d[k].forecast) /\ Frac(d[k].observed) /\ d[k].samples \in Nat
                 /\ Leq(Chance(0), d[k].observed) /\ Leq(d[k].observed, Chance(Unit))
      <4>1. CASE k = N + 1
        BY <1>2, <2>3, <2>6, <2>8, <3>1, <4>1
      <4>2. CASE k # N + 1
        <5>1. k \in 1..N
          BY <1>3, <4>2
        <5>2. d[k] = c[k]
          BY <2>8, <5>1
        <5> QED BY <5>1, <5>2 DEF IsCurve
      <4> QED BY <4>1, <4>2
    <3>3. ASSUME NEW j \in 1..(N + 1), NEW k \in 1..(N + 1), j < k
          PROVE  Less(d[j].forecast, d[k].forecast) /\ Leq(d[j].observed, d[k].observed)
      <4>1. j \in 1..N /\ d[j] = c[j]
        BY <1>3, <2>8, <3>3
      <4>2. CASE k = N + 1
        BY <2>7, <2>8, <4>1, <4>2
      <4>3. CASE k # N + 1
        <5>1. k \in 1..N
          BY <1>3, <4>3
        <5>2. d[k] = c[k]
          BY <2>8, <5>1
        <5> QED BY <3>3, <4>1, <5>1, <5>2 DEF IsCurve
      <4> QED BY <4>2, <4>3
    <3> QED BY <2>8, <3>2, <3>3 DEF IsCurve
  <2>10. ASSUME i < BinCount, NEW k \in 1..(N + 1)
         PROVE  d[k].forecast[1] * BinCount < H * d[k].forecast[2]
    <3>1. CASE k = N + 1
      <4>1. new.forecast[1] = t /\ new.forecast[2] = s
        OBVIOUS
      <4>2. t * BinCount < H * s
        BY <1>2, <2>2, <2>10
      <4>3. d[k] = new
        BY <2>8, <3>1
      <4> HIDE DEF new, d
      <4> QED BY <4>1, <4>2, <4>3
    <3>2. CASE k # N + 1
      <4>1. k \in 1..N
        BY <1>3, <3>2
      <4>2. d[k] = c[k]
        BY <2>8, <4>1
      <4> QED BY <1>6, <4>1, <4>2
    <3> QED BY <3>1, <3>2
  <2>11. i < BinCount => EndsBelow(d, i)
    BY <2>8, <2>10 DEF EndsBelow
  <2> QED BY <2>1, <2>9, <2>11
<1> QED BY <1>7, <1>8

Builds(rows, f) ==
    f = [i \in 0..BinCount |->
            IF i = 0 THEN NoCurve ELSE WithBin(f[i - 1], CalibrationBin(rows, i))]

Anchor == [forecast : Int \X Int, observed : Int \X Int, samples : Nat]

LEMMA WithBinAnchors ==
    ASSUME CurveAssumption, NEW c \in Seq(Anchor), NEW b \in Bin
    PROVE  WithBin(c, b) \in Seq(Anchor)
<1> DEFINE new == [forecast |-> <<b.total, b.samples>>,
                   observed |-> Larger(RunningMax(c), <<b.yes * Unit, b.samples>>),
                   samples  |-> b.samples]
<1>1. b.total \in Int /\ b.samples \in Nat /\ b.yes * Unit \in Int
  BY DEF Bin, CurveAssumption
<1>2. RunningMax(c) \in Int \X Int
  <2>1. CASE c = NoCurve
    BY <2>1 DEF RunningMax, Chance
  <2>2. CASE c # NoCurve
    <3>1. Len(c) \in 1..Len(c)
      BY <2>2, EmptySeq, LenProperties DEF NoCurve
    <3>2. c[Len(c)] \in Anchor
      BY <3>1, ElementOfSeq
    <3> QED BY <2>2, <3>2 DEF RunningMax, Anchor
  <2> QED BY <2>1, <2>2
<1>3. new \in Anchor
  BY <1>1, <1>2 DEF Anchor, Larger
<1> HIDE DEF new
<1>4. Append(c, new) \in Seq(Anchor)
  BY <1>3
<1> QED BY <1>4 DEF WithBin, new

LEMMA BuildCurveIs ==
    ASSUME CurveAssumption, NEW rows, IsSequence(rows), \A n \in 1..Len(rows) : rows[n].p \in Int
    PROVE  IsCurve(BuildCurve(rows))
<1> DEFINE N == BinCount
           S == Seq(Anchor)
           bin(i) == CalibrationBin(rows, i)
           G == [i \in 1..N |-> [c \in S |-> WithBin(c, bin(i))]]
<1>1. N \in Nat /\ N > 0 /\ \A i \in 1..N : BinOK(bin(i), i)
  BY CalibrationBinIs DEF CurveAssumption
<1>2. IsCurve(NoCurve) /\ NoCurve \in S
  <2>1. NoCurve \in S /\ Len(NoCurve) = 0
    BY DEF NoCurve
  <2>2. IsSequence(NoCurve)
    BY <2>1 DEF IsSequence
  <2> QED BY <2>1, <2>2 DEF IsCurve
<1> HIDE DEF bin, S
<1>3. \E f : Builds(rows, f)
  <2>1. ASSUME NEW i \in 1..N, NEW c \in S PROVE WithBin(c, bin(i)) \in S
    <3>1. bin(i) \in Bin
      BY <1>1 DEF BinOK
    <3> QED BY <3>1, WithBinAnchors DEF S
  <2>2. G \in [1..N -> [S -> S]]
    BY <2>1
  <2>3. \A i \in 1..N, c \in S : G[i][c] = WithBin(c, bin(i))
    OBVIOUS
  <2> HIDE DEF G
  <2>4. PICK g : Loop(N, S, NoCurve, G, g)
    <3>1. N \in Nat /\ NoCurve \in S /\ G \in [1..N -> [S -> S]]
      BY <1>1, <1>2, <2>2
    <3> HIDE DEF N
    <3> QED BY <3>1, LoopExists
  <2>5. /\ g \in [0..N -> S] /\ g[0] = NoCurve
        /\ \A i \in 1..N : g[i] = G[i][g[i - 1]]
    BY <2>4 DEF Loop
  <2>6. ASSUME NEW i \in 0..N
        PROVE  g[i] = IF i = 0 THEN NoCurve ELSE WithBin(g[i - 1], bin(i))
    <3>1. CASE i = 0
      BY <2>5, <3>1
    <3>2. CASE i # 0
      <4>1. i \in 1..N /\ i - 1 \in 0..N
        BY <1>1, <3>2
      <4>2. g[i - 1] \in S
        BY <2>5, <4>1
      <4> QED BY <2>3, <2>5, <3>2, <4>1, <4>2
    <3> QED BY <3>1, <3>2
  <2>7. g = [i \in 0..N |-> IF i = 0 THEN NoCurve ELSE WithBin(g[i - 1], bin(i))]
    <3>1. g = [i \in 0..N |-> g[i]]
      BY <2>5
    <3> QED BY <2>6, <3>1
  <2>8. Builds(rows, g)
    BY <2>7 DEF Builds, bin
  <2> QED BY <2>8
<1> DEFINE f == CHOOSE f : Builds(rows, f)
<1>4. Builds(rows, f) /\ BuildCurve(rows) = IF Len(rows) < MinTotal THEN NoCurve ELSE f[N]
  <2>1. BuildCurve(rows) = IF Len(rows) < MinTotal THEN NoCurve ELSE f[N]
    BY DEF BuildCurve, Builds
  <2> QED BY <1>3, <2>1
<1> HIDE DEF f
<1>5. \A i \in 0..N : f[i] = IF i = 0 THEN NoCurve ELSE WithBin(f[i - 1], bin(i))
  BY <1>4 DEF Builds, bin
<1> DEFINE T == {i \in 0..N : IsCurve(f[i]) /\ (i < N => EndsBelow(f[i], i))}
<1>6. 0 \in T /\ T \subseteq 0..N
  <2>1. f[0] = NoCurve /\ Len(NoCurve) = 0
    BY <1>1, <1>5 DEF NoCurve
  <2>2. EndsBelow(f[0], 0)
    BY <2>1 DEF EndsBelow
  <2> QED BY <1>1, <1>2, <2>1, <2>2
<1>7. ASSUME NEW i \in 1..N, i - 1 \in T PROVE i \in T
  <2>1. i \in 0..N /\ i # 0 /\ i - 1 < N /\ IsCurve(f[i - 1]) /\ EndsBelow(f[i - 1], i - 1)
    BY <1>1, <1>7
  <2>2. f[i] = WithBin(f[i - 1], bin(i)) /\ BinOK(bin(i), i)
    BY <1>1, <1>5, <2>1
  <2>3. IsCurve(f[i]) /\ (i < N => EndsBelow(f[i], i))
    BY <2>1, <2>2, WithBinIs
  <2> QED BY <2>1, <2>3
<1> HIDE DEF T
<1>8. T = 0..N
  BY <1>1, <1>6, <1>7, UpTo
<1>9. N \in T
  BY <1>1, <1>8
<1>10. IsCurve(f[N])
  BY <1>9 DEF T
<1> QED BY <1>2, <1>4, <1>10

-----------------------------------------------------------------------------
(* Between the anchors *)

MeanAt(c, k) == c[k].forecast

RateAt(c, k) == c[k].observed

LEMMA AnchorsAre ==
    ASSUME NEW c, IsCurve(c), c # NoCurve
    PROVE  /\ Len(c) \in Nat /\ Len(c) >= 1
           /\ \A k \in 1..Len(c) : /\ Frac(MeanAt(c, k)) /\ Frac(RateAt(c, k))
                                   /\ Leq(Chance(0), RateAt(c, k))
                                   /\ Leq(RateAt(c, k), Chance(Unit))
           /\ \A j, k \in 1..Len(c) : j <= k => Leq(RateAt(c, j), RateAt(c, k))
           /\ \A j, k \in 1..Len(c) : j < k => Less(MeanAt(c, j), MeanAt(c, k))
<1>1. Len(c) \in Nat /\ Len(c) >= 1
  BY SequenceIs, EmptySeq DEF IsCurve, IsSequence, NoCurve
<1>2. ASSUME NEW j \in 1..Len(c), NEW k \in 1..Len(c), j <= k
      PROVE  Leq(RateAt(c, j), RateAt(c, k))
  <2>1. CASE j = k
    BY <2>1, LeqTotal DEF IsCurve, RateAt
  <2>2. CASE j # k
    BY <1>1, <1>2, <2>2 DEF IsCurve, RateAt
  <2> QED BY <2>1, <2>2
<1> QED BY <1>1, <1>2 DEF IsCurve, MeanAt, RateAt

(* The first anchors around a probability that lies strictly inside the curve. *)
Around(c, x, i) ==
    /\ i \in 1..(Len(c) - 1)
    /\ Leq(MeanAt(c, i), x) /\ Leq(x, MeanAt(c, i + 1))
    /\ \A j \in 1..(i - 1) : Less(MeanAt(c, j + 1), x)

Inside(c, x) == ~ Leq(x, MeanAt(c, 1)) /\ ~ Leq(MeanAt(c, Len(c)), x)

LEMMA AroundExists ==
    ASSUME NEW c, IsCurve(c), c # NoCurve, NEW p \in Int, Inside(c, Chance(p))
    PROVE  \E i \in 1..(Len(c) - 1) : Around(c, Chance(p), i)
<1> DEFINE x == Chance(p)
           N == Len(c)
           T == {i \in 1..(N - 1) : Leq(x, MeanAt(c, i + 1))}
<1>1. /\ N \in Nat /\ N >= 1 /\ Frac(x)
      /\ \A k \in 1..N : Frac(MeanAt(c, k)) /\ (Leq(MeanAt(c, k), x) \/ Leq(x, MeanAt(c, k)))
  BY AnchorsAre, ChanceIs, LeqTotal
<1>2. ~ Leq(x, MeanAt(c, 1)) /\ ~ Leq(MeanAt(c, N), x)
  BY DEF Inside
<1> HIDE DEF N, x
<1>3. N # 1
  BY <1>1, <1>2
<1>4. N - 1 \in T
  <2>1. N - 1 \in 1..(N - 1) /\ (N - 1) + 1 = N /\ N \in 1..N
    BY <1>1, <1>3
  <2> QED BY <1>1, <1>2, <2>1
<1>5. T \subseteq Nat /\ T # {}
  BY <1>1, <1>4
<1>6. PICK i \in T : \A j \in T : i <= j
  BY <1>5, Least
<1>7. i \in 1..(N - 1) /\ Leq(x, MeanAt(c, i + 1)) /\ i \in 1..N
  BY <1>1, <1>6
<1>8. ASSUME NEW j \in 1..(i - 1) PROVE ~ Leq(x, MeanAt(c, j + 1)) /\ j + 1 \in 1..N
  <2>1. j \in 1..(N - 1) /\ ~(i <= j)
    BY <1>1, <1>7
  <2> QED BY <1>1, <1>6, <2>1
<1>9. Leq(MeanAt(c, i), x)
  <2>1. CASE i = 1
    BY <1>1, <1>2, <1>7, <2>1
  <2>2. CASE i # 1
    <3>1. i - 1 \in 1..(i - 1) /\ (i - 1) + 1 = i
      BY <1>1, <1>7, <2>2
    <3>2. ~ Leq(x, MeanAt(c, i))
      BY <1>8, <3>1
    <3> QED BY <1>1, <1>7, <3>2
  <2> QED BY <2>1, <2>2
<1>10. Around(c, x, i)
  BY <1>7, <1>8, <1>9 DEF Around, Less, N
<1> QED BY <1>7, <1>10 DEF N, x

Segment(c, x) == CHOOSE i \in 1..(Len(c) - 1) : Around(c, x, i)

LEMMA SegmentIs ==
    ASSUME NEW c, IsCurve(c), c # NoCurve, NEW p \in Int, Inside(c, Chance(p))
    PROVE  LET k == Segment(c, Chance(p))
           IN  /\ Around(c, Chance(p), k) /\ k \in 1..Len(c) /\ k + 1 \in 1..Len(c)
               /\ Less(MeanAt(c, k), MeanAt(c, k + 1)) /\ Leq(RateAt(c, k), RateAt(c, k + 1))
<1> DEFINE k == Segment(c, Chance(p))
<1>1. k \in 1..(Len(c) - 1) /\ Around(c, Chance(p), k)
  BY AroundExists DEF Segment
<1> HIDE DEF k
<1>2. Len(c) \in Nat /\ k \in 1..Len(c) /\ k + 1 \in 1..Len(c) /\ k < k + 1 /\ k <= k + 1
  BY <1>1, AnchorsAre
<1>3. Less(MeanAt(c, k), MeanAt(c, k + 1)) /\ Leq(RateAt(c, k), RateAt(c, k + 1))
  BY <1>2, AnchorsAre
<1> QED BY <1>1, <1>2, <1>3 DEF k

InterpolatedInside(c, x) ==
    LET k == Segment(c, x)
    IN  Mixed(RateAt(c, k), RateAt(c, k + 1), Weight(x, MeanAt(c, k), MeanAt(c, k + 1)))

LEMMA InterpolateIs ==
    ASSUME NEW c, NEW x
    PROVE  Interpolate(c, x) = IF Leq(x, MeanAt(c, 1)) THEN RateAt(c, 1)
                               ELSE IF Leq(MeanAt(c, Len(c)), x) THEN RateAt(c, Len(c))
                               ELSE InterpolatedInside(c, x)
<1>1. \A i \in 1..(Len(c) - 1) :
        Around(c, x, i) <=> /\ Leq(c[i].forecast, x) /\ Leq(x, c[i + 1].forecast)
                            /\ \A j \in 1..(i - 1) : Less(c[j + 1].forecast, x)
  BY DEF Around, MeanAt
<1>2. Segment(c, x) = CHOOSE i \in 1..(Len(c) - 1) :
                         /\ Leq(c[i].forecast, x) /\ Leq(x, c[i + 1].forecast)
                         /\ \A j \in 1..(i - 1) : Less(c[j + 1].forecast, x)
  BY <1>1 DEF Segment
<1> QED BY <1>2 DEF Interpolate, InterpolatedInside, Mixed, Weight, MeanAt, RateAt

(* Inside the curve the interpolated value lies between two neighbours. *)
LEMMA InsideBetween ==
    ASSUME NEW c, IsCurve(c), c # NoCurve, NEW p \in Int, Inside(c, Chance(p))
    PROVE  LET k == Segment(c, Chance(p))
               v == InterpolatedInside(c, Chance(p))
           IN  Frac(v) /\ Leq(RateAt(c, k), v) /\ Leq(v, RateAt(c, k + 1))
<1> DEFINE k == Segment(c, Chance(p))
           w == Weight(Chance(p), MeanAt(c, k), MeanAt(c, k + 1))
           v == InterpolatedInside(c, Chance(p))
<1>1. /\ Around(c, Chance(p), k) /\ k \in 1..Len(c) /\ k + 1 \in 1..Len(c)
      /\ Less(MeanAt(c, k), MeanAt(c, k + 1)) /\ Leq(RateAt(c, k), RateAt(c, k + 1))
  BY SegmentIs
<1>2. v = Mixed(RateAt(c, k), RateAt(c, k + 1), w)
  BY DEF InterpolatedInside
<1> HIDE DEF k, v
<1>3. /\ Frac(MeanAt(c, k)) /\ Frac(MeanAt(c, k + 1)) /\ Frac(RateAt(c, k))
      /\ Frac(RateAt(c, k + 1))
      /\ Leq(MeanAt(c, k), Chance(p)) /\ Leq(Chance(p), MeanAt(c, k + 1))
  BY <1>1, AnchorsAre DEF Around
<1>4. Frac(w) /\ 0 <= w[1] /\ w[1] <= w[2]
  BY <1>1, <1>3, WeightIs
<1> HIDE DEF w
<1>5. /\ Frac(Mixed(RateAt(c, k), RateAt(c, k + 1), w))
      /\ Leq(RateAt(c, k), Mixed(RateAt(c, k), RateAt(c, k + 1), w))
      /\ Leq(Mixed(RateAt(c, k), RateAt(c, k + 1), w), RateAt(c, k + 1))
  BY <1>1, <1>3, <1>4, MixedIs, MixedBetween
<1> QED BY <1>2, <1>5 DEF k, v

LEMMA InterpolateBetween ==
    ASSUME CurveAssumption, NEW c, IsCurve(c), c # NoCurve, NEW p \in Int
    PROVE  LET v == Interpolate(c, Chance(p))
           IN  Frac(v) /\ Leq(Chance(0), v) /\ Leq(v, Chance(Unit))
<1> DEFINE v == Interpolate(c, Chance(p))
           k == Segment(c, Chance(p))
<1>1. /\ Len(c) \in Nat /\ Len(c) >= 1
      /\ \A j \in 1..Len(c) : /\ Frac(RateAt(c, j)) /\ Leq(Chance(0), RateAt(c, j))
                              /\ Leq(RateAt(c, j), Chance(Unit))
  BY AnchorsAre
<1>2. 1 \in 1..Len(c) /\ Len(c) \in 1..Len(c)
  BY <1>1
<1>3. CASE v = RateAt(c, 1) \/ v = RateAt(c, Len(c))
  BY <1>1, <1>2, <1>3
<1>4. CASE Inside(c, Chance(p)) /\ v = InterpolatedInside(c, Chance(p))
  <2>1. Frac(v) /\ Leq(RateAt(c, k), v) /\ Leq(v, RateAt(c, k + 1))
    BY <1>4, InsideBetween
  <2>2. k \in 1..Len(c) /\ k + 1 \in 1..Len(c)
    BY <1>4, SegmentIs
  <2>3. Frac(Chance(0)) /\ Frac(Chance(Unit))
    BY ChanceIs DEF CurveAssumption
  <2> HIDE DEF v, k
  <2>4. /\ Frac(RateAt(c, k)) /\ Frac(RateAt(c, k + 1)) /\ Leq(Chance(0), RateAt(c, k))
        /\ Leq(RateAt(c, k + 1), Chance(Unit))
    BY <1>1, <2>2
  <2>5. Leq(Chance(0), v) /\ Leq(v, Chance(Unit))
    BY <2>1, <2>3, <2>4, LeqTransitive
  <2> QED BY <2>1, <2>5 DEF v
<1> QED BY <1>3, <1>4, InterpolateIs DEF Inside

LEMMA InsideGrows ==
    ASSUME NEW c, IsCurve(c), c # NoCurve, NEW p \in Int, NEW q \in Int, p <= q,
           Inside(c, Chance(p)), Inside(c, Chance(q))
    PROVE  Leq(InterpolatedInside(c, Chance(p)), InterpolatedInside(c, Chance(q)))
<1> DEFINE x == Chance(p)
           z == Chance(q)
           k == Segment(c, x)
           m == Segment(c, z)
           v == InterpolatedInside(c, x)
           u == InterpolatedInside(c, z)
<1>1. /\ Around(c, x, k) /\ k \in 1..Len(c) /\ k + 1 \in 1..Len(c)
      /\ Less(MeanAt(c, k), MeanAt(c, k + 1)) /\ Leq(RateAt(c, k), RateAt(c, k + 1))
  BY SegmentIs
<1>2. Around(c, z, m) /\ m \in 1..Len(c) /\ m + 1 \in 1..Len(c)
  BY SegmentIs
<1>3. /\ Frac(v) /\ Leq(RateAt(c, k), v) /\ Leq(v, RateAt(c, k + 1))
      /\ Frac(u) /\ Leq(RateAt(c, m), u) /\ Leq(u, RateAt(c, m + 1))
  BY InsideBetween
<1>4. /\ v = Mixed(RateAt(c, k), RateAt(c, k + 1), Weight(x, MeanAt(c, k), MeanAt(c, k + 1)))
      /\ u = Mixed(RateAt(c, m), RateAt(c, m + 1), Weight(z, MeanAt(c, m), MeanAt(c, m + 1)))
  BY DEF InterpolatedInside
<1>5. Frac(x) /\ Frac(z) /\ Leq(x, z)
  BY ChanceIs
<1>6. \A j \in 1..Len(c) : Frac(MeanAt(c, j)) /\ Frac(RateAt(c, j))
  BY AnchorsAre
<1>7. Len(c) \in Nat
  BY AnchorsAre
<1> HIDE DEF k, m, v, u
<1>8. k <= m
  <2> SUFFICES ASSUME m < k PROVE FALSE
    BY <1>1, <1>2, <1>7
  <2>1. m \in 1..(k - 1)
    BY <1>1, <1>2, <1>7
  <2> HIDE DEF x, z
  <2>2. ~ Leq(x, MeanAt(c, m + 1)) /\ Leq(z, MeanAt(c, m + 1))
    BY <1>1, <1>2, <2>1 DEF Around, Less
  <2>3. Leq(x, MeanAt(c, m + 1))
    BY <1>2, <1>5, <1>6, <2>2, LeqTransitive
  <2> QED BY <2>2, <2>3
<1>9. CASE k = m
  <2> DEFINE w == Weight(x, MeanAt(c, k), MeanAt(c, k + 1))
             y == Weight(z, MeanAt(c, k), MeanAt(c, k + 1))
  <2>1. /\ Leq(MeanAt(c, k), x) /\ Leq(x, MeanAt(c, k + 1)) /\ Leq(MeanAt(c, k), z)
        /\ Leq(z, MeanAt(c, k + 1))
        /\ Frac(MeanAt(c, k)) /\ Frac(MeanAt(c, k + 1)) /\ Frac(RateAt(c, k))
        /\ Frac(RateAt(c, k + 1))
    BY <1>1, <1>2, <1>6, <1>9 DEF Around
  <2>2. Frac(w) /\ Frac(y) /\ Leq(w, y)
    BY <1>1, <2>1, WeightIs, WeightGrows
  <2> HIDE DEF w, y
  <2>3. Leq(Mixed(RateAt(c, k), RateAt(c, k + 1), w), Mixed(RateAt(c, k), RateAt(c, k + 1), y))
    BY <1>1, <2>1, <2>2, MixedGrows
  <2>4. /\ v = Mixed(RateAt(c, k), RateAt(c, k + 1), w)
        /\ u = Mixed(RateAt(c, k), RateAt(c, k + 1), y)
    BY <1>4, <1>9 DEF w, y
  <2>5. Leq(v, u)
    BY <2>3, <2>4
  <2> QED BY <2>5 DEF v, u
<1>10. CASE k # m
  <2>1. k + 1 <= m
    BY <1>1, <1>2, <1>7, <1>8, <1>10
  <2>2. Leq(RateAt(c, k + 1), RateAt(c, m))
    BY <1>1, <1>2, <2>1, AnchorsAre
  <2>3. Leq(v, RateAt(c, m))
    BY <1>1, <1>2, <1>3, <1>6, <2>2, LeqTransitive
  <2>4. Leq(v, u)
    BY <1>2, <1>3, <1>6, <2>3, LeqTransitive
  <2> QED BY <2>4 DEF v, u
<1> QED BY <1>9, <1>10

LEMMA InterpolateGrows ==
    ASSUME NEW c, IsCurve(c), c # NoCurve, NEW p \in Int, NEW q \in Int, p <= q
    PROVE  Leq(Interpolate(c, Chance(p)), Interpolate(c, Chance(q)))
<1> DEFINE x == Chance(p)
           z == Chance(q)
           N == Len(c)
<1>1. /\ N \in Nat /\ 1 \in 1..N /\ N \in 1..N /\ Frac(x) /\ Frac(z) /\ Leq(x, z)
      /\ \A k \in 1..N : Frac(MeanAt(c, k)) /\ Frac(RateAt(c, k))
      /\ \A j, k \in 1..N : j <= k => Leq(RateAt(c, j), RateAt(c, k))
  BY AnchorsAre, ChanceIs
<1>2. Leq(z, MeanAt(c, 1)) => Leq(x, MeanAt(c, 1))
  BY <1>1, LeqTransitive
<1>3. Leq(MeanAt(c, N), x) => Leq(MeanAt(c, N), z)
  BY <1>1, LeqTransitive
<1>4. /\ Leq(RateAt(c, 1), RateAt(c, 1)) /\ Leq(RateAt(c, N), RateAt(c, N))
      /\ Leq(RateAt(c, 1), RateAt(c, N))
  BY <1>1
<1>5. Inside(c, z) => Frac(InterpolatedInside(c, z)) /\ Leq(RateAt(c, 1), InterpolatedInside(c, z))
  <2> SUFFICES ASSUME Inside(c, z)
               PROVE  Frac(InterpolatedInside(c, z)) /\ Leq(RateAt(c, 1), InterpolatedInside(c, z))
    OBVIOUS
  <2> DEFINE k == Segment(c, z)
             v == InterpolatedInside(c, z)
  <2>1. k \in 1..N /\ Frac(v) /\ Leq(RateAt(c, k), v)
    BY SegmentIs, InsideBetween
  <2> HIDE DEF k, v, x, z
  <2>2. Frac(RateAt(c, 1)) /\ Frac(RateAt(c, k)) /\ Leq(RateAt(c, 1), RateAt(c, k))
    BY <1>1, <2>1
  <2>3. Leq(RateAt(c, 1), v)
    BY <2>1, <2>2, LeqTransitive
  <2> QED BY <2>1, <2>3 DEF v
<1>6. Inside(c, x) => Frac(InterpolatedInside(c, x)) /\ Leq(InterpolatedInside(c, x), RateAt(c, N))
  <2> SUFFICES ASSUME Inside(c, x)
               PROVE  Frac(InterpolatedInside(c, x)) /\ Leq(InterpolatedInside(c, x), RateAt(c, N))
    OBVIOUS
  <2> DEFINE k == Segment(c, x)
             v == InterpolatedInside(c, x)
  <2>1. k + 1 \in 1..N /\ Frac(v) /\ Leq(v, RateAt(c, k + 1))
    BY SegmentIs, InsideBetween
  <2> HIDE DEF k, v, x, z
  <2>2. Frac(RateAt(c, N)) /\ Frac(RateAt(c, k + 1)) /\ Leq(RateAt(c, k + 1), RateAt(c, N))
    BY <1>1, <2>1
  <2>3. Leq(v, RateAt(c, N))
    BY <2>1, <2>2, LeqTransitive
  <2> QED BY <2>1, <2>3 DEF v
<1>7. Inside(c, x) /\ Inside(c, z) => Leq(InterpolatedInside(c, x), InterpolatedInside(c, z))
  BY InsideGrows
<1> DEFINE a == Leq(x, MeanAt(c, 1))
           b == Leq(MeanAt(c, N), x)
           d == Leq(z, MeanAt(c, 1))
           e == Leq(MeanAt(c, N), z)
<1>8. /\ Interpolate(c, x) = IF a THEN RateAt(c, 1)
                             ELSE IF b THEN RateAt(c, N) ELSE InterpolatedInside(c, x)
      /\ Interpolate(c, z) = IF d THEN RateAt(c, 1)
                             ELSE IF e THEN RateAt(c, N) ELSE InterpolatedInside(c, z)
      /\ Inside(c, x) <=> ~a /\ ~b
      /\ Inside(c, z) <=> ~d /\ ~e
  BY InterpolateIs DEF Inside
<1> HIDE DEF x, z, N, a, b, d, e
<1>9. (d => a) /\ (b => e)
  BY <1>2, <1>3 DEF a, b, d, e
<1>10. Leq(Interpolate(c, x), Interpolate(c, z))
  BY <1>4, <1>5, <1>6, <1>7, <1>8, <1>9
<1> QED BY <1>10 DEF x, z

-----------------------------------------------------------------------------
(* The correction *)

Clamped(a, lo, hi) == Smaller(Larger(a, lo), hi)

LEMMA ClampedIs ==
    ASSUME NEW a, NEW lo, NEW hi, NEW x, NEW l, NEW h,
           Frac(a), Frac(lo), Frac(hi), Frac(x), Frac(l), Frac(h),
           Leq(lo, x), Leq(x, hi), Leq(l, x), Leq(x, h), Leq(l, a), Leq(a, h)
    PROVE  /\ Frac(Clamped(a, lo, hi))
           /\ Leq(lo, Clamped(a, lo, hi)) /\ Leq(Clamped(a, lo, hi), hi)
           /\ Leq(l, Clamped(a, lo, hi)) /\ Leq(Clamped(a, lo, hi), h)
<1> DEFINE b == Larger(a, lo)
           d == Smaller(b, hi)
<1>1. Frac(b) /\ Leq(a, b) /\ Leq(lo, b) /\ (b = a \/ b = lo)
  BY LargerIs
<1> HIDE DEF b
<1>2. Frac(d) /\ Leq(d, b) /\ Leq(d, hi) /\ (d = b \/ d = hi)
  BY <1>1, SmallerIs
<1> HIDE DEF d
<1>3. Leq(lo, hi) /\ Leq(l, hi) /\ Leq(lo, h)
  BY LeqTransitive
<1>4. Leq(l, b) /\ Leq(b, h)
  BY <1>1, <1>3, LeqTransitive
<1>5. Leq(d, h)
  BY <1>1, <1>2, <1>4, LeqTransitive
<1>6. Leq(lo, d) /\ Leq(l, d)
  BY <1>1, <1>2, <1>3, <1>4
<1>7. Clamped(a, lo, hi) = d
  BY DEF Clamped, b, d
<1> QED BY <1>2, <1>5, <1>6, <1>7

LEMMA ClampedGrows ==
    ASSUME NEW a, NEW lo, NEW hi, NEW b, NEW lp, NEW hp,
           Frac(a), Frac(lo), Frac(hi), Frac(b), Frac(lp), Frac(hp),
           Leq(a, b), Leq(lo, lp), Leq(hi, hp)
    PROVE  Leq(Clamped(a, lo, hi), Clamped(b, lp, hp))
<1>1. Frac(Larger(a, lo)) /\ Frac(Larger(b, lp)) /\ Leq(Larger(a, lo), Larger(b, lp))
  BY LargerIs, LargerGrows
<1> QED BY <1>1, SmallerGrows DEF Clamped

(* What Apply rounds. *)
Pulled(c, p) ==
    Moved(p, Interpolate(c, Chance(p)), Samples(c), Samples(c) + Shrinkage)

Capped(c, p) == Clamped(Pulled(c, p), Chance(p - MaxShift), Chance(p + MaxShift))

Target(c, p) == Clamped(Capped(c, p), Chance(0), Chance(Unit))

LEMMA ApplyRounds ==
    ASSUME NEW c, NEW p
    PROVE  Apply(c, p) = IF c = NoCurve THEN p ELSE Quantize(Target(c, p))
BY DEF Apply, Target, Capped, Clamped, Pulled, Moved

LEMMA PulledIs ==
    ASSUME CurveAssumption, NEW c, IsCurve(c), c # NoCurve, NEW p \in Int
    PROVE  LET x == Chance(p)
               v == Interpolate(c, x)
           IN  /\ Frac(Pulled(c, p)) /\ Frac(Smaller(x, v)) /\ Frac(Larger(x, v))
               /\ Leq(Smaller(x, v), x) /\ Leq(x, Larger(x, v))
               /\ Leq(Smaller(x, v), Pulled(c, p)) /\ Leq(Pulled(c, p), Larger(x, v))
<1> DEFINE x == Chance(p)
           v == Interpolate(c, x)
           s == Samples(c)
           t == s + Shrinkage
           m == Moved(p, v, s, t)
<1>1. Frac(x) /\ Frac(v)
  BY ChanceIs, InterpolateBetween
<1>2. s \in Nat /\ Shrinkage \in Nat /\ Shrinkage > 0
  BY SamplesIs DEF CurveAssumption
<1>3. /\ Frac(Smaller(x, v)) /\ Frac(Larger(x, v))
      /\ Leq(Smaller(x, v), x) /\ Leq(x, Larger(x, v))
  BY <1>1, SmallerIs, LargerIs
<1>4. Pulled(c, p) = m
  BY DEF Pulled
<1> HIDE DEF v, s
<1>5. s \in Int /\ t \in Int /\ t > 0 /\ 0 <= s /\ s <= t
  BY <1>2
<1> HIDE DEF t
<1>6. /\ Frac(m)
      /\ Leq(x, v) => Leq(x, m) /\ Leq(m, v)
      /\ Leq(v, x) => Leq(v, m) /\ Leq(m, x)
  BY <1>1, <1>5, MovedIs, MovedBetween
<1> HIDE DEF x, m
<1>7. Leq(x, v) \/ Leq(v, x)
  BY <1>1, LeqTotal
<1>8. Leq(Smaller(x, v), m) /\ Leq(m, Larger(x, v))
  <2>1. CASE Leq(x, v)
    BY <1>6, <2>1 DEF Smaller, Larger
  <2>2. CASE ~ Leq(x, v)
    BY <1>6, <1>7, <2>2 DEF Smaller, Larger
  <2> QED BY <2>1, <2>2
<1> QED BY <1>3, <1>4, <1>6, <1>8 DEF x, v

LEMMA TargetIs ==
    ASSUME CurveAssumption, NEW c, IsCurve(c), c # NoCurve, NEW p \in Probability
    PROVE  LET x == Chance(p)
               v == Interpolate(c, x)
               y == Target(c, p)
           IN  /\ Frac(y) /\ Leq(Chance(0), y) /\ Leq(y, Chance(Unit))
               /\ Leq(Chance(p - MaxShift), y) /\ Leq(y, Chance(p + MaxShift))
               /\ Leq(Smaller(x, v), y) /\ Leq(y, Larger(x, v))
<1> DEFINE x == Chance(p)
           v == Interpolate(c, x)
           y == Target(c, p)
           a == Pulled(c, p)
           b == Capped(c, p)
           l == Smaller(x, v)
           h == Larger(x, v)
           lo == Chance(p - MaxShift)
           hi == Chance(p + MaxShift)
           z == Chance(0)
           u == Chance(Unit)
<1>1. /\ p \in Int /\ Unit \in Int /\ MaxShift \in Int /\ 0 <= p /\ p <= Unit
      /\ p - MaxShift <= p /\ p <= p + MaxShift /\ p - MaxShift \in Int /\ p + MaxShift \in Int
  BY DEF CurveAssumption, Probability
<1>2. /\ Frac(x) /\ Frac(lo) /\ Frac(hi) /\ Frac(z) /\ Frac(u)
      /\ Leq(lo, x) /\ Leq(x, hi) /\ Leq(z, x) /\ Leq(x, u)
  BY <1>1, ChanceIs
<1>3. Frac(a) /\ Frac(l) /\ Frac(h) /\ Leq(l, x) /\ Leq(x, h) /\ Leq(l, a) /\ Leq(a, h)
  BY <1>1, PulledIs
<1>4. b = Clamped(a, lo, hi) /\ y = Clamped(b, z, u)
  BY DEF Capped, Target
<1> HIDE DEF x, v, y, a, b, l, h, lo, hi, z, u
<1>5. Frac(b) /\ Leq(lo, b) /\ Leq(b, hi) /\ Leq(l, b) /\ Leq(b, h)
  BY <1>2, <1>3, <1>4, ClampedIs
<1>6. Frac(y) /\ Leq(z, y) /\ Leq(y, u) /\ Leq(l, y) /\ Leq(y, h)
  BY <1>2, <1>3, <1>4, <1>5, ClampedIs
<1>7. Leq(lo, y) /\ Leq(y, hi)
  BY <1>2, <1>4, <1>5, ClampedIs
<1> QED BY <1>6, <1>7 DEF x, v, y, l, h, lo, hi, z, u

LEMMA TargetGrows ==
    ASSUME CurveAssumption, NEW c, IsCurve(c), c # NoCurve,
           NEW p \in Probability, NEW q \in Probability, p <= q
    PROVE  Leq(Target(c, p), Target(c, q))
<1> DEFINE v == Interpolate(c, Chance(p))
           u == Interpolate(c, Chance(q))
           s == Samples(c)
           t == s + Shrinkage
<1>1. /\ p \in Int /\ q \in Int /\ Unit \in Int /\ MaxShift \in Int
      /\ p - MaxShift <= q - MaxShift /\ p + MaxShift <= q + MaxShift
      /\ {p - MaxShift, q - MaxShift, p + MaxShift, q + MaxShift} \subseteq Int
  BY DEF CurveAssumption, Probability
<1>2. Frac(v) /\ Frac(u) /\ Leq(v, u)
  BY <1>1, InterpolateBetween, InterpolateGrows
<1>3. s \in Nat /\ Shrinkage \in Nat /\ Shrinkage > 0
  BY SamplesIs DEF CurveAssumption
<1>4. Pulled(c, p) = Moved(p, v, s, t) /\ Pulled(c, q) = Moved(q, u, s, t)
  BY DEF Pulled
<1>5. Frac(Pulled(c, p)) /\ Frac(Pulled(c, q))
  BY <1>1, PulledIs
<1> HIDE DEF v, u, s
<1>6. s \in Int /\ t \in Int /\ t > 0 /\ 0 <= s /\ s <= t
  BY <1>3
<1> HIDE DEF t
<1>7. Leq(Moved(p, v, s, t), Moved(q, u, s, t))
  BY <1>1, <1>2, <1>6, MovedGrows
<1>8. Leq(Pulled(c, p), Pulled(c, q))
  BY <1>4, <1>7
<1>9. /\ Frac(Chance(p - MaxShift)) /\ Frac(Chance(p + MaxShift))
      /\ Frac(Chance(q - MaxShift)) /\ Frac(Chance(q + MaxShift))
      /\ Leq(Chance(p - MaxShift), Chance(q - MaxShift))
      /\ Leq(Chance(p + MaxShift), Chance(q + MaxShift))
      /\ Frac(Chance(0)) /\ Frac(Chance(Unit))
      /\ Leq(Chance(0), Chance(0)) /\ Leq(Chance(Unit), Chance(Unit))
  BY <1>1, ChanceIs
<1>10. Leq(Capped(c, p), Capped(c, q))
  BY <1>5, <1>8, <1>9, ClampedGrows DEF Capped
<1>11. Frac(Capped(c, p)) /\ Frac(Capped(c, q))
  BY <1>5, <1>9, LargerIs, SmallerIs DEF Capped, Clamped
<1> QED BY <1>9, <1>10, <1>11, ClampedGrows DEF Target

(* A multiple of the quantum is not rounded. *)
LEMMA QuantizeExact ==
    ASSUME Quantum \in Nat \ {0}, NEW m \in Int
    PROVE  Quantize(Chance(Quantum * m)) = Quantum * m
<1> DEFINE x == Chance(Quantum * m)
           A == Quantize(x)
<1>1. Quantum \in Int /\ Quantum > 0 /\ Quantum * m \in Int
  OBVIOUS
<1>2. Frac(x) /\ x[1] = Quantum * m /\ x[2] = 1
  BY <1>1, ChanceIs DEF Chance
<1>3. /\ A \in Int /\ (2 * A) * x[2] <= 2 * x[1] + Quantum * x[2]
      /\ 2 * x[1] - Quantum * x[2] < (2 * A) * x[2]
      /\ \E j \in Int : A = Quantum * j
  BY <1>2, QuantizeNear
<1> HIDE DEF A, x
<1>4. 2 * A <= 2 * (Quantum * m) + Quantum /\ 2 * (Quantum * m) - Quantum < 2 * A
  BY <1>1, <1>2, <1>3
<1>5. PICK j \in Int : A = Quantum * j
  BY <1>3
<1>6. CASE j = m
  BY <1>5, <1>6 DEF A, x
<1>7. CASE j <= m - 1
  <2>1. j * Quantum <= (m - 1) * Quantum
    BY <1>1, <1>7, Scaled
  <2>2. j * Quantum = A /\ (m - 1) * Quantum = Quantum * m - Quantum
    BY <1>1, <1>5
  <2> QED BY <1>1, <1>3, <1>4, <2>1, <2>2
<1>8. CASE m + 1 <= j
  <2>1. (m + 1) * Quantum <= j * Quantum
    BY <1>1, <1>8, Scaled
  <2>2. j * Quantum = A /\ (m + 1) * Quantum = Quantum * m + Quantum
    BY <1>1, <1>5
  <2> QED BY <1>1, <1>3, <1>4, <2>1, <2>2
<1> QED BY <1>6, <1>7, <1>8

LEMMA UnitIsExact ==
    ASSUME CurveAssumption
    PROVE  Quantize(Chance(0)) = 0 /\ Quantize(Chance(Unit)) = Unit
<1>1. Quantum \in Nat \ {0} /\ Unit \in Int /\ Unit % Quantum = 0
  BY DEF CurveAssumption
<1>2. Quantum * 0 = 0 /\ 0 \in Int
  BY <1>1
<1>3. PICK m \in Int : Unit = Quantum * m
  <2>1. Unit \div Quantum \in Int /\ Unit = Quantum * (Unit \div Quantum) + (Unit % Quantum)
    BY <1>1
  <2> QED BY <1>1, <2>1
<1>4. Quantize(Chance(Quantum * 0)) = Quantum * 0
  BY <1>1, <1>2, QuantizeExact
<1>5. Quantize(Chance(Quantum * m)) = Quantum * m
  BY <1>1, QuantizeExact
<1> QED BY <1>2, <1>3, <1>4, <1>5

LEMMA ApplyIs ==
    ASSUME CurveAssumption, NEW c, IsCurve(c), NEW p \in Probability
    PROVE  Apply(c, p) \in Probability
<1>0. /\ Quantum \in Nat \ {0} /\ Unit \in Int
  BY DEF CurveAssumption
<1>1. CASE c = NoCurve
  BY <1>1, ApplyRounds
<1>2. CASE c # NoCurve
  <2> DEFINE y == Target(c, p)
  <2>1. Apply(c, p) = Quantize(y)
    BY <1>2, ApplyRounds
  <2>2. Frac(y) /\ Leq(Chance(0), y) /\ Leq(y, Chance(Unit))
    BY <1>2, TargetIs
  <2> HIDE DEF y
  <2>3. Quantize(y) \in Int
    BY <1>0, <2>2, QuantizeNear
  <2>4. Frac(Chance(0)) /\ Frac(Chance(Unit))
    BY <1>0, ChanceIs
  <2>5. Quantize(Chance(0)) <= Quantize(y) /\ Quantize(y) <= Quantize(Chance(Unit))
    BY <1>0, <2>2, <2>4, QuantizeGrows
  <2>6. 0 <= Quantize(y) /\ Quantize(y) <= Unit
    BY <2>5, UnitIsExact
  <2> QED BY <1>0, <2>1, <2>3, <2>6 DEF Probability
<1> QED BY <1>1, <1>2

LEMMA CurveIsMonotone ==
    ASSUME CurveAssumption, IsCurve(curve)
    PROVE  CorrectionIsMonotone
<1>1. Len(curve) \in Nat
  BY SequenceIs DEF IsCurve
<1>2. ASSUME NEW k \in 1..(Len(curve) - 1)
      PROVE  Less(curve[k].forecast, curve[k + 1].forecast)
  <2>1. k \in 1..Len(curve) /\ k + 1 \in 1..Len(curve) /\ k < k + 1
    BY <1>1
  <2> QED BY <2>1 DEF IsCurve
<1>3. ASSUME NEW p \in 0..(Unit - 1) PROVE Apply(curve, p) <= Apply(curve, p + 1)
  <2>1. p \in Probability /\ p + 1 \in Probability /\ p <= p + 1
    BY DEF Probability, CurveAssumption
  <2>2. CASE curve = NoCurve
    BY <2>1, <2>2, ApplyRounds
  <2>3. CASE curve # NoCurve
    <3>1. /\ Frac(Target(curve, p)) /\ Frac(Target(curve, p + 1))
          /\ Leq(Target(curve, p), Target(curve, p + 1))
      BY <2>1, <2>3, TargetIs, TargetGrows
    <3>2. Quantum \in Nat \ {0}
      BY DEF CurveAssumption
    <3>3. Quantize(Target(curve, p)) <= Quantize(Target(curve, p + 1))
      BY <3>1, <3>2, QuantizeGrows
    <3> QED BY <2>3, <3>3, ApplyRounds
  <2> QED BY <2>2, <2>3
<1> QED BY <1>2, <1>3 DEF CorrectionIsMonotone

(* A rounded value that lies below a fraction is at most half a quantum above *)
(* that fraction, and the other way round.                                    *)
LEMMA RoundedBelow ==
    ASSUME Quantum \in Nat \ {0}, NEW y, NEW w, Frac(y), Frac(w), Leq(y, w)
    PROVE  (2 * Quantize(y)) * w[2] <= 2 * w[1] + Quantum * w[2]
<1> DEFINE A == Quantize(y)
           n == y[1]
           d == y[2]
           a == w[1]
           b == w[2]
<1>1. /\ n \in Int /\ d \in Int /\ d > 0 /\ a \in Int /\ b \in Int /\ b > 0 /\ Quantum \in Int
      /\ n * b <= a * d
  BY DEF Frac, Leq
<1>2. A \in Int /\ (2 * A) * d <= 2 * n + Quantum * d
  BY QuantizeNear
<1> HIDE DEF A, n, d, a, b
<1>3. ((2 * A) * d) * b <= (2 * n + Quantum * d) * b
  <2>1. (2 * A) * d \in Int /\ 2 * n + Quantum * d \in Int /\ b >= 0
    BY <1>1, <1>2
  <2> QED BY <1>1, <1>2, <2>1, Scaled
<1>4. /\ ((2 * A) * d) * b = ((2 * A) * b) * d
      /\ (2 * n + Quantum * d) * b = 2 * (n * b) + (Quantum * b) * d
      /\ (2 * a + Quantum * b) * d = 2 * (a * d) + (Quantum * b) * d
  BY <1>1, <1>2
<1>5. /\ n * b \in Int /\ a * d \in Int /\ (Quantum * b) * d \in Int /\ ((2 * A) * b) * d \in Int
  BY <1>1, <1>2
<1>6. ((2 * A) * b) * d <= (2 * a + Quantum * b) * d
  BY <1>1, <1>3, <1>4, <1>5
<1>7. (2 * A) * b \in Int /\ 2 * a + Quantum * b \in Int
  BY <1>1, <1>2
<1>8. (2 * A) * b <= 2 * a + Quantum * b
  BY <1>1, <1>6, <1>7, Unscaled
<1> QED BY <1>8 DEF A, a, b

LEMMA RoundedAbove ==
    ASSUME Quantum \in Nat \ {0}, NEW y, NEW w, Frac(y), Frac(w), Leq(w, y)
    PROVE  2 * w[1] - Quantum * w[2] <= (2 * Quantize(y)) * w[2]
<1> DEFINE A == Quantize(y)
           n == y[1]
           d == y[2]
           a == w[1]
           b == w[2]
<1>1. /\ n \in Int /\ d \in Int /\ d > 0 /\ a \in Int /\ b \in Int /\ b > 0 /\ Quantum \in Int
      /\ a * d <= n * b
  BY DEF Frac, Leq
<1>2. A \in Int /\ 2 * n - Quantum * d < (2 * A) * d
  BY QuantizeNear
<1> HIDE DEF A, n, d, a, b
<1>3. (2 * n - Quantum * d) * b <= ((2 * A) * d) * b
  <2>1. (2 * A) * d \in Int /\ 2 * n - Quantum * d \in Int /\ b >= 0
    BY <1>1, <1>2
  <2>2. 2 * n - Quantum * d <= (2 * A) * d
    BY <1>2, <2>1
  <2> QED BY <1>1, <2>1, <2>2, Scaled
<1>4. /\ ((2 * A) * d) * b = ((2 * A) * b) * d
      /\ (2 * n - Quantum * d) * b = 2 * (n * b) - (Quantum * b) * d
      /\ (2 * a - Quantum * b) * d = 2 * (a * d) - (Quantum * b) * d
  BY <1>1, <1>2
<1>5. /\ n * b \in Int /\ a * d \in Int /\ (Quantum * b) * d \in Int /\ ((2 * A) * b) * d \in Int
  BY <1>1, <1>2
<1>6. (2 * a - Quantum * b) * d <= ((2 * A) * b) * d
  BY <1>1, <1>3, <1>4, <1>5
<1>7. (2 * A) * b \in Int /\ 2 * a - Quantum * b \in Int
  BY <1>1, <1>2
<1>8. 2 * a - Quantum * b <= (2 * A) * b
  BY <1>1, <1>6, <1>7, Unscaled
<1> QED BY <1>8 DEF A, a, b

LEMMA CurveIsBounded ==
    ASSUME CurveAssumption, IsCurve(curve)
    PROVE  CorrectionIsBounded
<1> SUFFICES ASSUME NEW p \in Probability
             PROVE  /\ 2 * (Apply(curve, p) - p) <= 2 * MaxShift + Quantum
                    /\ 2 * (p - Apply(curve, p)) <= 2 * MaxShift + Quantum
  BY ApplyIs DEF CorrectionIsBounded
<1>1. Quantum \in Nat \ {0} /\ Quantum \in Int /\ Quantum > 0 /\ MaxShift \in Int /\ MaxShift >= 0
      /\ p \in Int
  BY DEF CurveAssumption, Probability
<1>2. CASE curve = NoCurve
  BY <1>1, <1>2, ApplyRounds
<1>3. CASE curve # NoCurve
  <2> DEFINE y == Target(curve, p)
             A == Quantize(y)
             lo == Chance(p - MaxShift)
             hi == Chance(p + MaxShift)
  <2>1. Frac(y) /\ Leq(lo, y) /\ Leq(y, hi)
    BY <1>3, TargetIs
  <2>2. /\ Frac(lo) /\ Frac(hi) /\ lo[1] = p - MaxShift /\ hi[1] = p + MaxShift
        /\ lo[2] = 1 /\ hi[2] = 1
    BY <1>1, ChanceIs DEF Chance
  <2>3. Apply(curve, p) = A
    BY <1>3, ApplyRounds
  <2> HIDE DEF y, lo, hi
  <2>4. A \in Int
    BY <1>1, <2>1, QuantizeNear
  <2>5. (2 * A) * hi[2] <= 2 * hi[1] + Quantum * hi[2]
    BY <1>1, <2>1, <2>2, RoundedBelow
  <2>6. 2 * lo[1] - Quantum * lo[2] <= (2 * A) * lo[2]
    BY <1>1, <2>1, <2>2, RoundedAbove
  <2> HIDE DEF A
  <2>7. 2 * A <= 2 * (p + MaxShift) + Quantum /\ 2 * (p - MaxShift) - Quantum <= 2 * A
    BY <1>1, <2>2, <2>4, <2>5, <2>6
  <2> QED BY <1>1, <2>3, <2>4, <2>7
<1> QED BY <1>2, <1>3

LEMMA CurveNeverOvershoots ==
    ASSUME CurveAssumption, IsCurve(curve)
    PROVE  CorrectionNeverOvershoots
<1> SUFFICES ASSUME curve # NoCurve, NEW p \in Probability
             PROVE  LET x    == Chance(p)
                        t    == Interpolate(curve, x)
                        half == <<Quantum, 2>>
                        a    == Chance(Apply(curve, p))
                    IN  /\ Leq(Minus(Smaller(x, t), half), a)
                        /\ Leq(a, Plus(Larger(x, t), half))
  BY DEF CorrectionNeverOvershoots
<1> DEFINE x == Chance(p)
           t == Interpolate(curve, x)
           half == <<Quantum, 2>>
           y == Target(curve, p)
           A == Quantize(y)
           a == Chance(Apply(curve, p))
           l == Smaller(x, t)
           h == Larger(x, t)
<1>1. Quantum \in Nat \ {0} /\ Quantum \in Int /\ p \in Int
  BY DEF CurveAssumption, Probability
<1>2. Frac(y) /\ Leq(l, y) /\ Leq(y, h)
  BY TargetIs
<1>3. Frac(l) /\ Frac(h)
  BY <1>1, PulledIs
<1>4. Apply(curve, p) = A /\ a = <<A, 1>>
  BY ApplyRounds DEF Chance
<1> HIDE DEF x, t, y, l, h, a
<1>5. A \in Int
  BY <1>1, <1>2, QuantizeNear
<1>6. (2 * A) * h[2] <= 2 * h[1] + Quantum * h[2]
  BY <1>1, <1>2, <1>3, RoundedBelow
<1>7. 2 * l[1] - Quantum * l[2] <= (2 * A) * l[2]
  BY <1>1, <1>2, <1>3, RoundedAbove
<1> HIDE DEF A
<1>8. Leq(Minus(l, half), a)
  <2>1. /\ Minus(l, half)[1] = l[1] * 2 - Quantum * l[2] /\ Minus(l, half)[2] = l[2] * 2
        /\ a[1] = A /\ a[2] = 1
    BY <1>4 DEF Minus
  <2> DEFINE m == Minus(l, half)
  <2>2. l[1] \in Int /\ l[2] \in Int
    BY <1>3 DEF Frac
  <2> HIDE DEF m, half
  <2>3. m[1] * a[2] <= a[1] * m[2]
    <3> DEFINE i == l[1]
               j == l[2]
    <3>1. i \in Int /\ j \in Int /\ 2 * i - Quantum * j <= (2 * A) * j
      BY <1>7, <2>2
    <3>2. m[1] = i * 2 - Quantum * j /\ m[2] = j * 2 /\ a[1] = A /\ a[2] = 1
      BY <2>1 DEF m
    <3> HIDE DEF i, j
    <3>3. (2 * A) * j = A * (j * 2) /\ i * 2 - Quantum * j = 2 * i - Quantum * j
      BY <1>1, <1>5, <3>1
    <3>4. (i * 2 - Quantum * j) * 1 = i * 2 - Quantum * j
      BY <1>1, <3>1
    <3> QED BY <3>1, <3>2, <3>3, <3>4
  <2> QED BY <2>3 DEF Leq, m
<1>9. Leq(a, Plus(h, half))
  <2>1. /\ Plus(h, half)[1] = h[1] * 2 + Quantum * h[2] /\ Plus(h, half)[2] = h[2] * 2
        /\ a[1] = A /\ a[2] = 1
    BY <1>4 DEF Plus
  <2> DEFINE m == Plus(h, half)
  <2>2. h[1] \in Int /\ h[2] \in Int
    BY <1>3 DEF Frac
  <2> HIDE DEF m, half
  <2>3. a[1] * m[2] <= m[1] * a[2]
    <3> DEFINE i == h[1]
               j == h[2]
    <3>1. i \in Int /\ j \in Int /\ (2 * A) * j <= 2 * i + Quantum * j
      BY <1>6, <2>2
    <3>2. m[1] = i * 2 + Quantum * j /\ m[2] = j * 2 /\ a[1] = A /\ a[2] = 1
      BY <2>1 DEF m
    <3> HIDE DEF i, j
    <3>3. (2 * A) * j = A * (j * 2) /\ i * 2 + Quantum * j = 2 * i + Quantum * j
      BY <1>1, <1>5, <3>1
    <3>4. (i * 2 + Quantum * j) * 1 = i * 2 + Quantum * j
      BY <1>1, <3>1
    <3> QED BY <3>1, <3>2, <3>3, <3>4
  <2> QED BY <2>3 DEF Leq, m
<1> QED BY <1>8, <1>9 DEF x, t, l, h, a

-----------------------------------------------------------------------------
(* What two passes make *)

LEMMA TwoHaveBounds ==
    ASSUME NEW a \in Int, NEW b \in Int
    PROVE  /\ LowestOf({a, b}) \in {a, b} /\ LowestOf({a, b}) <= a /\ LowestOf({a, b}) <= b
<1>1. \E v \in {a, b} : \A w \in {a, b} : v <= w
  <2>1. CASE a <= b
    BY <2>1
  <2>2. CASE b <= a
    BY <2>2
  <2> QED BY <2>1, <2>2
<1> DEFINE v == LowestOf({a, b})
<1>2. v \in {a, b} /\ \A w \in {a, b} : v <= w
  BY <1>1 DEF LowestOf
<1> HIDE DEF v
<1> QED BY <1>2 DEF v

LEMMA FourHaveBounds ==
    ASSUME NEW a \in Int, NEW b \in Int, NEW c \in Int, NEW d \in Int
    PROVE  /\ \A w \in {a, b, c, d} : LowestOf({a, b, c, d}) <= w
           /\ \A w \in {a, b, c, d} : w <= HighestOf({a, b, c, d})
<1> DEFINE S == {a, b, c, d}
           e == IF a <= b THEN a ELSE b
           f == IF c <= d THEN c ELSE d
           m == IF e <= f THEN e ELSE f
           g == IF a >= b THEN a ELSE b
           h == IF c >= d THEN c ELSE d
           n == IF g >= h THEN g ELSE h
<1>1. e \in Int /\ f \in Int /\ e <= a /\ e <= b /\ f <= c /\ f <= d /\ e \in S /\ f \in S
  OBVIOUS
<1>2. g \in Int /\ h \in Int /\ a <= g /\ b <= g /\ c <= h /\ d <= h /\ g \in S /\ h \in S
  OBVIOUS
<1> HIDE DEF e, f, g, h
<1>3. m \in S /\ m <= a /\ m <= b /\ m <= c /\ m <= d
  BY <1>1
<1>4. n \in S /\ a <= n /\ b <= n /\ c <= n /\ d <= n
  BY <1>2
<1> HIDE DEF m, n
<1>5. \E v \in S : \A w \in S : v <= w
  BY <1>3
<1>6. \E v \in S : \A w \in S : v >= w
  BY <1>4
<1> HIDE DEF S
<1>7. \A w \in S : LowestOf(S) <= w
  BY <1>5 DEF LowestOf
<1>8. \A w \in S : HighestOf(S) >= w /\ HighestOf(S) \in S
  BY <1>6 DEF HighestOf
<1>9. \A w \in S : w \in Int
  BY DEF S
<1>10. \A w \in S : w <= HighestOf(S)
  BY <1>8, <1>9
<1> QED BY <1>7, <1>10 DEF S

LEMMA NothingManufactured ==
    ASSUME CurveAssumption, ScoringAssumption, IsCurve(curve)
    PROVE  NoManufacturedConviction
<1> DEFINE half == Unit \div 2
<1>1. Unit \in Nat /\ Unit > 0 /\ half \in Nat /\ 2 * half <= Unit
  BY DEF CurveAssumption
<1>2. \A e \in Passes : /\ e.p \in 0..half /\ e.low \in 0..half /\ e.high \in 0..half
                        /\ e.confidence \in 0..half
  BY DEF ScoringAssumption
<1> SUFFICES ASSUME NEW one \in Passes, NEW two \in Passes
             PROVE  LET f == Aggregate(curve, one, two)
                    IN  /\ f.low <= f.p /\ f.p <= f.high
                        /\ \A pass \in {one, two} :
                                /\ f.low <= 2 * pass.low /\ 2 * pass.high <= f.high
                                /\ 2 * f.confidence <= Unit * pass.confidence
  BY DEF NoManufacturedConviction
<1> DEFINE f == Aggregate(curve, one, two)
           raw == RawEstimate(one, two)
           p == Apply(curve, raw)
           lows == {2 * one.low, 2 * two.low, raw, p}
           highs == {2 * one.high, 2 * two.high, raw, p}
           least == LowestOf({one.confidence, two.confidence})
           apart == Apart(one, two)
<1>3. /\ one.p \in 0..half /\ one.low \in 0..half /\ one.high \in 0..half
      /\ one.confidence \in 0..half /\ two.p \in 0..half /\ two.low \in 0..half
      /\ two.high \in 0..half /\ two.confidence \in 0..half
  BY <1>2
<1> HIDE DEF half
<1>4. raw \in Probability /\ raw \in Int
  BY <1>1, <1>3 DEF RawEstimate, Probability
<1>5. p \in Int
  BY <1>1, <1>4, ApplyIs DEF Probability
<1>6. /\ f.p = p /\ f.low = LowestOf(lows) /\ f.high = HighestOf(highs)
      /\ f.confidence = least * (half - apart)
  BY DEF Aggregate, half
<1>7. apart \in Int /\ 0 <= apart /\ apart <= half
  BY <1>1, <1>3 DEF Apart
<1>8. /\ least \in {one.confidence, two.confidence}
      /\ least <= one.confidence /\ least <= two.confidence
  <2>1. one.confidence \in Int /\ two.confidence \in Int
    BY <1>1, <1>3
  <2> QED BY <2>1, TwoHaveBounds
<1> HIDE DEF f, raw, p, least, apart
<1>9. (\A w \in lows : f.low <= w) /\ (\A w \in highs : w <= f.high)
  <2>1. /\ 2 * one.low \in Int /\ 2 * two.low \in Int
        /\ 2 * one.high \in Int /\ 2 * two.high \in Int
    BY <1>1, <1>3
  <2>2. \A w \in lows : LowestOf(lows) <= w
    BY <1>4, <1>5, <2>1, FourHaveBounds
  <2>3. \A w \in highs : w <= HighestOf(highs)
    BY <1>4, <1>5, <2>1, FourHaveBounds
  <2> HIDE DEF lows, highs
  <2> QED BY <1>6, <2>2, <2>3
<1>10. f.low <= f.p /\ f.p <= f.high
  BY <1>6, <1>9
<1>11. ASSUME NEW pass \in {one, two}
       PROVE  /\ f.low <= 2 * pass.low /\ 2 * pass.high <= f.high
              /\ 2 * f.confidence <= Unit * pass.confidence
  <2>1. f.low <= 2 * pass.low /\ 2 * pass.high <= f.high
    BY <1>9
  <2> DEFINE d == half - apart
             v == pass.confidence
  <2>2. v \in Nat /\ least \in Nat /\ least <= v /\ d \in Nat /\ d <= half
    BY <1>1, <1>3, <1>7, <1>8
  <2>3. f.confidence = least * d
    BY <1>6
  <2> HIDE DEF d, v
  <2>4. least * d <= v * d /\ v * d <= v * half
    BY <1>1, <2>2, ProductGrows
  <2>5. v * (2 * half) <= v * Unit
    BY <1>1, <2>2, ProductGrows
  <2>6. /\ least * d \in Nat /\ v * d \in Nat /\ v * half \in Nat
        /\ v * (2 * half) = 2 * (v * half) /\ v * Unit = Unit * v
    BY <1>1, <2>2, ProductIsNat
  <2>7. 2 * f.confidence <= Unit * v
    BY <1>1, <2>2, <2>3, <2>4, <2>5, <2>6
  <2> QED BY <2>1, <2>7 DEF v
<1> QED BY <1>10, <1>11 DEF f

-----------------------------------------------------------------------------
(* The invariant: what is scored is a probability, and the live worker's      *)
(* curve is one that build_curve makes.                                       *)

CurveInv ==
    /\ IsCurve(curve)
    /\ \A i \in 1..Len(forecasts) : forecasts[i].p \in Probability

LEMMA AggregateIs ==
    ASSUME CurveAssumption, ScoringAssumption, IsCurve(curve),
           NEW one \in Passes, NEW two \in Passes
    PROVE  Aggregate(curve, one, two).p \in Probability
<1>1. one.p \in 0..(Unit \div 2) /\ two.p \in 0..(Unit \div 2)
  BY DEF ScoringAssumption
<1>2. RawEstimate(one, two) \in Probability
  BY <1>1 DEF RawEstimate, Probability, CurveAssumption
<1> QED BY <1>2, ApplyIs DEF Aggregate

LEMMA LedgerRowsAre ==
    ASSUME ScoringAssumption, ScoringInv, CurveInv
    PROVE  /\ IsSequence(LedgerRows)
           /\ \A n \in 1..Len(LedgerRows) : LedgerRows[n].p \in Int
<1> DEFINE n == Len(scores)
           m == IF n < RowLimit THEN 1 ELSE n - RowLimit + 1
           rows == SubSeq(scores, m, n)
<1>1. PICK E : scores \in Seq(E)
  BY DEF ScoringInv, IsSequence
<1>2. n \in Nat /\ RowLimit \in Nat /\ RowLimit > 0
  BY ForecastsAre DEF ScoringAssumption
<1>3. LedgerRows = rows
  BY DEF LedgerRows
<1>4. \A k \in 1..n : scores[k].p \in Int
  <2> SUFFICES ASSUME NEW k \in 1..n PROVE scores[k].p \in Int
    OBVIOUS
  <2>1. scores[k].id \in 1..Len(forecasts) /\ scores[k].p = forecasts[scores[k].id].p
    BY DEF ScoringInv, ScoreOK
  <2>2. scores[k].p \in Probability
    BY <2>1 DEF CurveInv
  <2>3. Probability \subseteq Int
    BY DEF Probability
  <2> QED BY <2>2, <2>3
<1> HIDE DEF n
<1>5. m \in Int /\ 1 <= m /\ m <= n + 1
  BY <1>2
<1> HIDE DEF m
<1>6. n \in Int /\ \A i \in m..n : i \in 1..n
  BY <1>2, <1>5
<1>7. \A i \in m..n : scores[i] \in E
  BY <1>1, <1>6, ElementOfSeq DEF n
<1>8. /\ rows \in Seq(E) /\ Len(rows) = IF m <= n THEN n - m + 1 ELSE 0
      /\ \A i \in 1..(n - m + 1) : rows[i] = scores[m + i - 1]
  BY <1>5, <1>6, <1>7, SubSeqProperties
<1>9. \A i \in 1..Len(rows) : i \in 1..(n - m + 1) /\ m + i - 1 \in 1..n
  BY <1>2, <1>5, <1>8
<1> HIDE DEF rows
<1>10. \A i \in 1..Len(rows) : rows[i].p \in Int
  BY <1>4, <1>8, <1>9
<1> QED BY <1>3, <1>8, <1>10 DEF IsSequence

LEMMA CurveInitial ==
    ASSUME ScoringInit
    PROVE  CurveInv
<1>1. curve = NoCurve /\ Len(NoCurve) = 0 /\ NoCurve \in Seq({}) /\ Len(forecasts) = 0
  BY DEF ScoringInit, NoCurve
<1>2. IsSequence(NoCurve)
  BY <1>1 DEF IsSequence
<1> QED BY <1>1, <1>2 DEF CurveInv, IsCurve

LEMMA CurveInductive ==
    ASSUME CurveAssumption, ScoringAssumption, ScoringInv, CurveInv, [ScoringNext]_scoringVars
    PROVE  CurveInv'
<1>1. CASE InsertForecast
  <2>1. PICK one \in Passes, two \in Passes :
            forecasts' = Append(forecasts, [market |-> work,
                                            p      |-> Aggregate(curve, one, two).p,
                                            late   |-> mrow[work].outcome # "none"])
    BY <1>1 DEF InsertForecast
  <2> DEFINE e == [market |-> work, p |-> Aggregate(curve, one, two).p,
                   late |-> mrow[work].outcome # "none"]
  <2>2. forecasts' = Append(forecasts, e)
    BY <2>1
  <2>3. e.p \in Probability
    BY AggregateIs DEF CurveInv
  <2> HIDE DEF e
  <2>4. /\ Len(forecasts') = Len(forecasts) + 1 /\ forecasts'[Len(forecasts) + 1] = e
        /\ \A n \in 1..Len(forecasts) : forecasts'[n] = forecasts[n]
    BY <2>2, Appended DEF ScoringInv
  <2>5. Len(forecasts) \in Nat
    BY ForecastsAre
  <2>6. ASSUME NEW i \in 1..Len(forecasts') PROVE forecasts'[i].p \in Probability
    <3>1. i \in 1..Len(forecasts) \/ i = Len(forecasts) + 1
      BY <2>4, <2>5
    <3> QED BY <2>3, <2>4, <3>1 DEF CurveInv
  <2>7. curve' = curve
    BY <1>1 DEF InsertForecast
  <2> QED BY <2>6, <2>7 DEF CurveInv, Probability
<1>2. CASE RefreshCalibration
  <2>1. curve' = BuildCurve(LedgerRows) /\ forecasts' = forecasts
    BY <1>2 DEF RefreshCalibration
  <2>2. IsCurve(BuildCurve(LedgerRows))
    BY LedgerRowsAre, BuildCurveIs
  <2> QED BY <2>1, <2>2 DEF CurveInv, Probability
<1>3. CASE UNCHANGED <<forecasts, curve>>
  BY <1>3 DEF CurveInv, Probability
<1>4. ScoringNext \/ UNCHANGED scoringVars =>
          InsertForecast \/ RefreshCalibration \/ UNCHANGED <<forecasts, curve>>
  BY DEF ScoringNext, EndPasses, Close, StartForecast, DropForecast, BeginSweep, Resolve,
         ResolveFails, RefreshFails, scoringVars
<1> QED BY <1>1, <1>2, <1>3, <1>4

(* In every behaviour the calibration curve ascends: its anchors' means grow  *)
(* strictly, and their observed frequencies, between zero and one, never      *)
(* fall, whatever ledger it was built from (build_curve).                     *)
THEOREM CurveInvariant ==
    ASSUME CurveAssumption, ScoringAssumption
    PROVE  ScoringSpec => [](ScoringInv /\ CurveInv)
<1>1. ScoringInit => ScoringInv /\ CurveInv
  BY ScoringInitial, CurveInitial
<1>2. (ScoringInv /\ CurveInv) /\ [ScoringNext]_scoringVars => (ScoringInv /\ CurveInv)'
  BY ScoringInductive, CurveInductive
<1> QED BY <1>1, <1>2, PTL DEF ScoringSpec

(* Whatever ledger the curve was built from, a correction keeps the order of  *)
(* the estimates, stays within the maximum shift, goes towards what happened  *)
(* and not past it, and two passes corrected by it never make a forecast that *)
(* is more certain than either (build_curve, Calibrator.apply, _aggregate):   *)
(* for every scale, number of bins, threshold, shrinkage and shift.           *)
THEOREM CorrectionsAreSound ==
    ASSUME CurveAssumption, ScoringAssumption
    PROVE  ScoringSpec => []CorrectionIsSound
<1>1. ScoringInv /\ CurveInv => CorrectionIsSound
  BY CurveIsMonotone, CurveIsBounded, CurveNeverOvershoots, NothingManufactured
     DEF CurveInv, CorrectionIsSound
<1> QED BY <1>1, CurveInvariant, PTL
=============================================================================
