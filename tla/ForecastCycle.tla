---------------------------- MODULE ForecastCycle ----------------------------
(***************************************************************************)
(* One account's AI spending: the market loop of TradingEngine.run_cycle    *)
(* with the forecasts it buys, the daily budget it reserves first           *)
(* (_reserve_ai_budget, consume_ai_budget), the providers behind            *)
(* ForecastGraph and FallbackForecastProvider, and the other two spenders   *)
(* of the same budget: the tenant executor and the diagnostic worker.       *)
(***************************************************************************)
EXTENDS Integers, FiniteSets, FiniteSetsExt

CONSTANTS
    Market,         \* markets that discovery lists
    Held,           \* markets in which the account holds shares
    Filtered,       \* markets that market_filter removes
    MaxAI,          \* max_ai_markets_per_cycle
    Providers,      \* forecast providers: the first and its fallbacks
    EvidenceCalls,  \* provider requests of the evidence collector: 1 for openai_web
    Tenant,         \* the cycle is a tenant job, whose executor reserves first
    Limits, DefaultLimit,   \* values of request_limit, and the one a new account has
    MaxCycles, MaxDays, MaxEdits, MaxDiag,  \* bounds
    Faults          \* bound: the kinds of failure that are explored

ASSUME ForecastAssumption ==
    /\ Held \subseteq Market /\ Filtered \subseteq Market
    /\ MaxAI \in Nat /\ Providers \in Nat \ {0} /\ EvidenceCalls \in {0, 1}
    /\ Tenant \in BOOLEAN
    /\ Limits \subseteq Nat /\ DefaultLimit \in Limits
    /\ MaxCycles \in Nat /\ MaxDays \in Nat \ {0} /\ MaxEdits \in Nat /\ MaxDiag \in Nat
    /\ Faults \subseteq {"budget", "evidence", "provider", "save", "market", "portfolio",
                         "crash", "breach", "lookup"}

VARIABLES
    day,        \* the UTC day
    limit,      \* ai_budget_settings.request_limit
    row,        \* ai_usage_daily: units used and limit of each day
    top,        \* the highest limit in force on each day
    edits,      \* changes of the limit so far
    made,       \* provider requests, by the day of their reservation
    rpc,        \* calls of consume_ai_budget between their statements
    fresh,      \* markets with a saved forecast younger than the cooldown
    cyc,        \* run_cycle
    cycles,     \* cycles so far
    diag        \* diagnostics: state and number

vars == <<day, limit, row, top, edits, made, rpc, fresh, cyc, cycles, diag>>
budget == <<day, limit, row, top, edits>>

Day == 1 .. MaxDays

Caller == {"cycle", "diag"}

NoCall == [on |-> FALSE, day |-> 1, lim |-> 0]

Idle == [pc |-> "idle", todo |-> {}, lost |-> {}, breach |-> FALSE, ai |-> 0, blocked |-> FALSE,
         m |-> {}, day |-> 1, next |-> 1, refused |-> 0, tried |-> {}, seen |-> {},
         broke |-> FALSE]

CyclePc == {"idle", "advance", "pick", "reserve", "evidence", "primary", "critic",
            "save", "post", "end"}

TypeOK ==
    /\ day \in Day /\ limit \in Limits
    /\ row \in [Day -> [used : Nat, lim : Nat]] /\ top \in [Day -> Nat]
    /\ made \in [Day -> Nat]
    /\ fresh \subseteq Market
    /\ cyc.pc \in CyclePc /\ cyc.todo \subseteq Market /\ cyc.tried \subseteq cyc.seen
    /\ cyc.seen \cap cyc.todo = {}
    /\ cyc.m \subseteq Market /\ Cardinality(cyc.m) <= 1

Init ==
    /\ day = 1 /\ limit = DefaultLimit /\ edits = 0
    /\ row = [d \in Day |-> [used |-> 0, lim |-> DefaultLimit]]
    /\ top = [d \in Day |-> IF d = 1 THEN DefaultLimit ELSE 0]
    /\ made = [d \in Day |-> 0]
    /\ rpc = [c \in Caller |-> NoCall]
    /\ fresh = {} /\ cyc = Idle /\ cycles = 0
    /\ diag = [pc |-> "idle", n |-> 0, day |-> 1]

-----------------------------------------------------------------------------
(* The budget *)

NextDay ==
    /\ day < MaxDays
    /\ day' = day + 1
    /\ top' = [top EXCEPT ![day + 1] = limit]
    /\ UNCHANGED <<limit, row, edits, made, rpc, fresh, cyc, cycles, diag>>

SetLimit(l) ==
    /\ edits < MaxEdits /\ l # limit
    /\ limit' = l /\ edits' = edits + 1
    /\ row' = [row EXCEPT ![day].lim = l]
    /\ top' = [top EXCEPT ![day] = Max({@, l})]
    /\ UNCHANGED <<day, made, rpc, fresh, cyc, cycles, diag>>

(* consume_ai_budget reads the limit in one statement ... *)
ReadLimit(c) ==
    /\ ~rpc[c].on
    /\ IF c = "cycle" THEN cyc.pc \in {"advance", "reserve"} ELSE diag.pc = "reserve"
    /\ rpc' = [rpc EXCEPT ![c] = [on |-> TRUE, day |-> day, lim |-> limit]]
    /\ UNCHANGED <<budget, made, fresh, cyc, cycles, diag>>

(* Seeded fault: the critic's request is not counted. *)
UnitsPrimaryOnly == 1

(* AI_UNITS_PER_FORECAST: one primary and one critic request. *)
UnitsPerForecast == 2

(* The executor reserves min(10, markets * calls) units for the whole cycle. *)
Units(c) ==
    IF c = "diag" THEN 1
    ELSE IF cyc.pc = "advance"
    THEN Min({10, MaxAI * (UnitsPerForecast + EvidenceCalls)})
    ELSE UnitsPerForecast

Fits(c) == row[rpc[c].day].used + Units(c) <= rpc[c].lim

(* ... and in another writes it to the day's row and takes the units, if    *)
(* all of them fit.                                                         *)
Taken(c) ==
    row' = [row EXCEPT ![rpc[c].day] =
                [used |-> IF Fits(c) THEN @.used + Units(c) ELSE @.used,
                 lim |-> rpc[c].lim]]

-----------------------------------------------------------------------------
(* The cycle *)

(* The loop counts a market when _process_market returns True. *)
Return(usedAI) ==
    cyc' = [cyc EXCEPT !.pc = "pick", !.m = {}, !.ai = IF usedAI THEN @ + 1 ELSE @]

(* Discovered and held markets, less what the filter removes; after a hard  *)
(* risk breach the held ones.  A held market that discovery omits is looked *)
(* up, and left out when the lookup fails.                                  *)
Universe(breach, lost) ==
    (IF breach THEN Held ELSE (Market \ Filtered) \cup Held) \ lost

StartCycle(breach, lost) ==
    /\ cyc.pc = "idle" /\ cycles < MaxCycles
    /\ breach => "breach" \in Faults
    /\ lost # {} => "lookup" \in Faults
    /\ cycles' = cycles + 1
    /\ cyc' = [Idle EXCEPT !.pc = IF Tenant THEN "advance" ELSE "pick",
                           !.todo = Universe(breach, lost), !.breach = breach, !.lost = lost]
    /\ UNCHANGED <<budget, made, rpc, fresh, diag>>

(* A tenant job whose reservation is refused is failed without a cycle. *)
TenantReserve ==
    /\ cyc.pc = "advance" /\ rpc["cycle"].on
    /\ Taken("cycle")
    /\ rpc' = [rpc EXCEPT !["cycle"] = NoCall]
    /\ cyc' = IF Fits("cycle") THEN [cyc EXCEPT !.pc = "pick"] ELSE Idle
    /\ UNCHANGED <<day, limit, top, edits, made, fresh, cycles, diag>>

(* Markets with shares come first. *)
Candidates == IF cyc.todo \cap Held # {} THEN cyc.todo \cap Held ELSE cyc.todo

Look(m) ==
    /\ cyc.pc = "pick" /\ m \in Candidates

(* Everything that ends a market before the budget is asked: not tradeable, *)
(* quarantined, a failing book, a risk exit that is executed.               *)
SkipMarket(m) ==
    /\ Look(m)
    /\ cyc' = [cyc EXCEPT !.todo = @ \ {m}, !.seen = @ \cup {m}]
    /\ UNCHANGED <<budget, made, rpc, fresh, cycles, diag>>

(* allow_ai: a filtered market that is held may only be reduced. *)
AllowAI(m) == ~cyc.breach /\ m \notin (Filtered \cap Held) /\ cyc.ai < MaxAI

ProcessMarket(m) ==
    /\ Look(m)
    /\ AllowAI(m) /\ m \notin fresh /\ ~cyc.blocked
    /\ cyc' = [cyc EXCEPT !.pc = "reserve", !.m = {m}, !.todo = @ \ {m},
                          !.seen = @ \cup {m}]
    /\ UNCHANGED <<budget, made, rpc, fresh, cycles, diag>>

(* _reserve_ai_budget *)
Reserve ==
    /\ cyc.pc = "reserve" /\ rpc["cycle"].on
    /\ Taken("cycle")
    /\ rpc' = [rpc EXCEPT !["cycle"] = NoCall]
    /\ cyc' = IF Fits("cycle")
              THEN [cyc EXCEPT !.pc = "evidence", !.day = rpc["cycle"].day,
                               !.tried = @ \cup cyc.m]
              ELSE [cyc EXCEPT !.pc = "pick", !.m = {}, !.blocked = TRUE,
                               !.refused = @ + 1]
    /\ UNCHANGED <<day, limit, top, edits, made, fresh, cycles, diag>>

(* The call raises, before the units were taken or after. *)
BudgetUnavailable ==
    /\ "budget" \in Faults
    /\ cyc.pc = "reserve"
    /\ IF rpc["cycle"].on THEN row' = row \/ Taken("cycle") ELSE UNCHANGED row
    /\ rpc' = [rpc EXCEPT !["cycle"] = NoCall]
    /\ cyc' = [cyc EXCEPT !.pc = "pick", !.m = {}, !.blocked = TRUE]
    /\ UNCHANGED <<day, limit, top, edits, made, fresh, cycles, diag>>

Request == made' = [made EXCEPT ![cyc.day] = @ + 1]

(* evidence_collector.collect and the live evidence gate *)
CollectEvidence(ok) ==
    /\ cyc.pc = "evidence"
    /\ ~ok => "evidence" \in Faults
    /\ made' = [made EXCEPT ![cyc.day] = @ + EvidenceCalls]
    /\ IF ok THEN cyc' = [cyc EXCEPT !.pc = "primary", !.next = 1] ELSE Return(TRUE)
    /\ UNCHANGED <<budget, rpc, fresh, cycles, diag>>

(* ForecastGraph asks for a primary and then for a critic forecast.         *)
(* FallbackForecastProvider.forecast tries its providers in turn.           *)
AskProvider(ok) ==
    /\ cyc.pc \in {"primary", "critic"}
    /\ ~ok => "provider" \in Faults
    /\ Request
    /\ IF ok
       THEN cyc' = [cyc EXCEPT !.pc = IF @ = "primary" THEN "critic" ELSE "save", !.next = 1]
       ELSE IF cyc.next < Providers
       THEN cyc' = [cyc EXCEPT !.next = @ + 1]
       ELSE Return(TRUE)
    /\ UNCHANGED <<budget, rpc, fresh, cycles, diag>>

SaveForecast(ok) ==
    /\ cyc.pc = "save"
    /\ ~ok => "save" \in Faults
    /\ fresh' = IF ok THEN fresh \cup cyc.m ELSE fresh
    /\ IF ok THEN cyc' = [cyc EXCEPT !.pc = "post"] ELSE Return(TRUE)
    /\ UNCHANGED <<budget, made, rpc, cycles, diag>>

(* Books and portfolio are read again, a candidate is chosen and executed. *)
FinishMarket ==
    /\ cyc.pc = "post"
    /\ Return(TRUE)
    /\ UNCHANGED <<budget, made, rpc, fresh, cycles, diag>>

(* An exception leaves _process_market without its return value. *)
MarketError ==
    /\ "market" \in Faults
    /\ cyc.pc = "post"
    /\ Return(FALSE)
    /\ UNCHANGED <<budget, made, rpc, fresh, cycles, diag>>

(* A failing live portfolio checkpoint ends the loop. *)
PortfolioFails ==
    /\ "portfolio" \in Faults
    /\ cyc.pc \in {"pick", "post"}
    /\ cyc' = [cyc EXCEPT !.pc = "end", !.broke = TRUE, !.m = {}]
    /\ UNCHANGED <<budget, made, rpc, fresh, cycles, diag>>

EndLoop ==
    /\ cyc.pc = "pick" /\ cyc.todo = {}
    /\ cyc' = [cyc EXCEPT !.pc = "end"]
    /\ UNCHANGED <<budget, made, rpc, fresh, cycles, diag>>

EndCycle ==
    /\ cyc.pc = "end"
    /\ cyc' = Idle
    /\ UNCHANGED <<budget, made, rpc, fresh, cycles, diag>>

Crash ==
    /\ "crash" \in Faults
    /\ cyc.pc # "idle"
    /\ cyc' = Idle
    /\ rpc' = [rpc EXCEPT !["cycle"] = NoCall]
    /\ UNCHANGED <<budget, made, fresh, cycles, diag>>

(* forecast_cooldown_seconds pass. *)
CooldownEnds ==
    /\ fresh # {}
    /\ fresh' = {}
    /\ UNCHANGED <<budget, made, rpc, cyc, cycles, diag>>

-----------------------------------------------------------------------------
(* AIDiagnosticWorker.process *)

StartDiagnostic ==
    /\ diag.pc = "idle" /\ diag.n < MaxDiag
    /\ diag' = [diag EXCEPT !.pc = "reserve", !.n = @ + 1]
    /\ UNCHANGED <<budget, made, rpc, fresh, cyc, cycles>>

DiagnosticReserve ==
    /\ diag.pc = "reserve" /\ rpc["diag"].on
    /\ Taken("diag")
    /\ rpc' = [rpc EXCEPT !["diag"] = NoCall]
    /\ diag' = IF Fits("diag") THEN [diag EXCEPT !.pc = "call", !.day = rpc["diag"].day]
               ELSE [diag EXCEPT !.pc = "idle"]
    /\ UNCHANGED <<day, limit, top, edits, made, fresh, cyc, cycles>>

DiagnosticCall ==
    /\ diag.pc = "call"
    /\ made' = [made EXCEPT ![diag.day] = @ + 1]
    /\ diag' = [diag EXCEPT !.pc = "idle"]
    /\ UNCHANGED <<budget, rpc, fresh, cyc, cycles>>

-----------------------------------------------------------------------------
CycleStep ==
    \/ TenantReserve \/ Reserve \/ FinishMarket \/ EndLoop \/ EndCycle
    \/ \E m \in Market : SkipMarket(m) \/ ProcessMarket(m)
    \/ CollectEvidence(TRUE) \/ AskProvider(TRUE) \/ SaveForecast(TRUE)
    \/ ReadLimit("cycle")

Next ==
    \/ NextDay
    \/ \E l \in Limits : SetLimit(l)
    \/ \E b \in BOOLEAN, lost \in SUBSET Held : StartCycle(b, lost)
    \/ CycleStep
    \/ CollectEvidence(FALSE) \/ AskProvider(FALSE) \/ SaveForecast(FALSE)
    \/ BudgetUnavailable \/ MarketError \/ PortfolioFails \/ Crash \/ CooldownEnds
    \/ ReadLimit("diag") \/ StartDiagnostic \/ DiagnosticReserve \/ DiagnosticCall

Spec == Init /\ [][Next]_vars

-----------------------------------------------------------------------------
(* No provider request without a unit of that day's budget, whatever fails, *)
(* restarts or runs beside it: with one provider and a collector that needs *)
(* none, a forecast spends at most what it reserved (_reserve_ai_budget,    *)
(* consume_ai_budget).                                                      *)
CallsAreReserved == \A d \in Day : made[d] <= row[d].used

(* Reservations are all or nothing and never go over the day's limit, also  *)
(* when the limit is changed between the two statements of another          *)
(* reservation (consume_ai_budget, set_ai_budget_limit).                    *)
LimitHolds == \A d \in Day : row[d].used <= top[d]

(* The two together: the budget is kept, and it pays for every request.     *)
BudgetIsKept == CallsAreReserved /\ LimitHolds

(* An exhausted budget is asked once in a cycle, even when the limit is     *)
(* raised or the day ends meanwhile (_ai_budget_blocked, run_cycle).        *)
OneRefusalPerCycle == cyc.refused <= 1

(* A loop that ran to its end looked at every market with shares that it    *)
(* could look up, although the filter removed it, the budget was exhausted  *)
(* or the account's limits are breached (run_cycle, _include_held_markets). *)
HeldAreVisited == cyc.pc = "end" /\ ~cyc.broke => Held \ cyc.lost \subseteq cyc.seen

(* A market that the filter removed is never forecast, although its shares  *)
(* keep it in the loop (run_cycle, reduce_only_market_ids).                 *)
FilteredIsReduceOnly == cyc.tried \cap Filtered = {}

(* .env.example:47: POLYBOT_MAX_AI_MARKETS_PER_CYCLE is the "AI spend cap   *)
(* per cycle".                                                              *)
PerCycleCap == Cardinality(cyc.tried) <= MaxAI
=============================================================================
