------------------------------ MODULE LedgerPass ------------------------------
(***************************************************************************)
(* The second half of a reconciliation pass (_reconcile_rest_once,          *)
(* reconcile.py): account activities, their ledger scope, the comparison of *)
(* the exchange's positions with the fill ledger, the durable positions     *)
(* table and the cursors.  Beside it the WebSocket task stores fills, the   *)
(* broker reads ledger snapshots through the same short cache               *)
(* (fill_ledger_snapshot), the operator moves the baseline, and a human may *)
(* use the same wallet.  OrderLifecycle has the first half of the pass.     *)
(***************************************************************************)
EXTENDS FillLedger

CONSTANTS
    BotToken,       \* bound: the tokens the bot trades
    HumanToken,     \* bound: the tokens a human trades from the same wallet
    Quarantine,     \* quarantine_enabled
    MaxEvents,      \* bound: fills and activities of the wallet
    MaxBaseline,    \* bound: changes of the baseline
    Faults          \* bound: the kinds of disturbance that are explored

ASSUME PassAssumption ==
    /\ BotToken \subseteq Token /\ HumanToken \subseteq Token
    /\ BotToken \cap HumanToken = {}
    /\ Quarantine \in BOOLEAN
    /\ MaxEvents \in Nat /\ MaxBaseline \in Nat
    /\ Faults \subseteq {"call", "redeem", "merge", "lag", "cache"}

VARIABLES
    hist,       \* bot fills and wallet activities at the exchange
    other,      \* shares that a human holds in the wallet
    old,        \* the holdings before the latest redemption
    signed,     \* tokens of order_intents
    fills,      \* the events with a fills row
    acts,       \* account_activities: scope of each stored activity
    audit,      \* reconciliation_quarantine: audited activities
    base,       \* the reconciler's baseline, and how often it was set
    full,       \* _trade_after and _activity_start are reset
    replayed,   \* the last baseline under which a pass read all of history
    cache,      \* _fill_ledger_cache: the fills it was computed from
    inval,      \* an upserted fill whose invalidation is still to come
    rd,         \* the two callers of fill_ledger_snapshot
    pass,       \* _reconcile_rest_once
    pos,        \* positions
    healthy

account == <<hist, other, old, signed>>
store == <<fills, acts, audit, pos>>
snap == <<cache, inval, rd>>
vars == <<hist, other, old, signed, fills, acts, audit, base, full, replayed,
          cache, inval, rd, pass, pos, healthy>>

Reader == {"broker", "rest"}

Index == 1 .. Len(hist)

FillsOf(h) == {n \in 1 .. Len(h) : h[n].kind = "FILL"}

ActivitiesOf(h) == (1 .. Len(h)) \ FillsOf(h)

(* The bot's shares of a token, over the fills and redemptions. *)
Own(t) == Replay(hist, {n \in Index : hist[n].kind \in {"FILL", "REDEEM"}
                                        /\ (hist[n].kind = "REDEEM" =>
                                              \E m \in 1 .. n - 1 : hist[m].kind = "FILL"
                                                 /\ CondOf[hist[m].tok] = hist[n].cond)}, 1).qty[t]

Held(t) == Own(t) + other[t]

NoCache == [set |-> FALSE, from |-> {}, led |-> EmptyLedger]

NoRead == [pc |-> "idle", from |-> {}]

NoPass == [pc |-> "idle", full |-> FALSE, toks |-> {}, conds |-> {}, base |-> 0, todo |-> {},
           list |-> [t \in Token |-> 0], led |-> EmptyLedger]

PassPc == {"idle", "trades", "acts", "conds", "scope", "update", "list", "ledger",
           "check", "zero", "upsert"}

Scope == {"none", "bot", "quarantine"}

TypeOK ==
    /\ other \in [Token -> Nat] /\ old \in [Token -> Nat]
    /\ signed \subseteq Token
    /\ fills \subseteq FillsOf(hist)
    /\ acts \in [1 .. MaxEvents -> Scope]
    /\ audit \subseteq ActivitiesOf(hist)
    /\ base \in [at : Nat, ver : Nat] /\ full \in BOOLEAN /\ replayed \in Nat
    /\ cache.set \in BOOLEAN /\ cache.from \subseteq FillsOf(hist)
    /\ inval \in BOOLEAN
    /\ \A a \in Reader : rd[a].pc \in {"idle", "fills", "acts"}
    /\ pass.pc \in PassPc
    /\ pos \in [Token -> Nat] /\ healthy \in BOOLEAN

Init ==
    /\ hist = <<>> /\ signed = {}
    /\ other = [t \in Token |-> 0] /\ old = [t \in Token |-> 0]
    /\ fills = {} /\ acts = [n \in 1 .. MaxEvents |-> "none"] /\ audit = {}
    /\ base = [at |-> 0, ver |-> 0] /\ full = TRUE /\ replayed = 0
    /\ cache = NoCache /\ inval = FALSE
    /\ rd = [a \in Reader |-> NoRead]
    /\ pass = NoPass
    /\ pos = [t \in Token |-> 0] /\ healthy = FALSE

-----------------------------------------------------------------------------
(* The account *)

Sign(t) ==
    /\ t \notin signed
    /\ signed' = signed \cup {t}
    /\ UNCHANGED <<hist, other, old, store, base, full, replayed, snap, pass, healthy>>

Happens(e) ==
    /\ Len(hist) < MaxEvents
    /\ hist' = Append(hist, e)

BotTrade(side, t) ==
    /\ t \in signed
    /\ side = "SELL" => Own(t) > 0
    /\ Happens(Fill(side, t, 1, 1))
    /\ UNCHANGED <<other, old, signed, store, base, full, replayed, snap, pass, healthy>>

HumanTrade(t) ==
    /\ other[t] = 0
    /\ other' = [other EXCEPT ![t] = 1]
    /\ UNCHANGED <<hist, old, signed, store, base, full, replayed, snap, pass, healthy>>

(* The wallet redeems a resolved market, the human's shares with the bot's; *)
(* the list of positions may show the old shares for a while.               *)
RedeemMarket(t) ==
    /\ "redeem" \in Faults
    /\ \E u \in Token : CondOf[u] = CondOf[t] /\ Held(u) > 0
    /\ Happens(Activity("REDEEM", CondOf[t], Held(t)))
    /\ old' = [u \in Token |-> Held(u)]
    /\ other' = [u \in Token |-> IF CondOf[u] = CondOf[t] THEN 0 ELSE other[u]]
    /\ UNCHANGED <<signed, store, base, full, replayed, snap, pass, healthy>>

(* A human merges or splits shares of some market. *)
HumanActivity(c) ==
    /\ "merge" \in Faults
    /\ Happens(Activity("MERGE", c, 0))
    /\ UNCHANGED <<other, old, signed, store, base, full, replayed, snap, pass, healthy>>

(* set_baseline, called by sync_reconcile_baseline between any two awaits   *)
(* of a running pass.                                                       *)
SetBaseline(b) ==
    /\ base.ver < MaxBaseline
    /\ base' = [at |-> b, ver |-> base.ver + 1]
    /\ full' = TRUE
    /\ healthy' = FALSE
    /\ UNCHANGED <<account, store, replayed, snap, pass>>

-----------------------------------------------------------------------------
(* The WebSocket task: reconcile_trade *)

StoreFill(n) ==
    /\ ~inval
    /\ n \in FillsOf(hist) \ fills
    /\ fills' = fills \cup {n}
    /\ inval' = TRUE
    /\ UNCHANGED <<account, acts, audit, base, full, replayed, cache, rd, pass, pos, healthy>>

Invalidate ==
    /\ inval
    /\ inval' = FALSE
    /\ cache' = NoCache
    /\ UNCHANGED <<account, store, base, full, replayed, rd, pass, healthy>>

-----------------------------------------------------------------------------
(* fill_ledger_snapshot *)

BotActs == {n \in Index : acts[n] = "bot"}

ReadCache(a) ==
    /\ rd[a].pc = "idle"
    /\ a = "rest" => pass.pc = "ledger"
    /\ a = "broker" => "cache" \in Faults
    /\ IF cache.set
       THEN /\ pass' = IF a = "rest" THEN [pass EXCEPT !.pc = "check", !.led = cache.led]
                       ELSE pass
            /\ UNCHANGED rd
       ELSE rd' = [rd EXCEPT ![a].pc = "fills"] /\ UNCHANGED pass
    /\ UNCHANGED <<account, store, base, full, replayed, cache, inval, healthy>>

ReadFills(a) ==
    /\ rd[a].pc = "fills"
    /\ rd' = [rd EXCEPT ![a] = [pc |-> "acts", from |-> fills]]
    /\ UNCHANGED <<account, store, base, full, replayed, cache, inval, pass, healthy>>

(* The activities are read, the ledger is replayed and cached. *)
ReadActs(a) ==
    /\ rd[a].pc = "acts"
    /\ \E led \in {Replay(hist, rd[a].from \cup BotActs, 1)} :
         /\ cache' = IF led.ok THEN [set |-> TRUE, from |-> rd[a].from, led |-> led]
                     ELSE cache
         /\ IF a = "broker" THEN UNCHANGED <<pass, healthy>>
            ELSE IF led.ok
            THEN pass' = [pass EXCEPT !.pc = "check", !.led = led] /\ UNCHANGED healthy
            ELSE pass' = NoPass /\ healthy' = FALSE
    /\ rd' = [rd EXCEPT ![a] = NoRead]
    /\ UNCHANGED <<account, store, base, full, replayed, inval>>

(* Two seconds pass. *)
CacheExpires ==
    /\ cache.set
    /\ cache' = NoCache
    /\ UNCHANGED <<account, store, base, full, replayed, inval, rd, pass, healthy>>

-----------------------------------------------------------------------------
(* _reconcile_rest_once *)

Step(pc) == pass' = [pass EXCEPT !.pc = pc]

StartPass ==
    /\ pass.pc = "idle"
    /\ pass' = [NoPass EXCEPT !.pc = "trades", !.full = full]
    /\ UNCHANGED <<account, store, base, full, replayed, snap, healthy>>

(* Trades of the account are stored; one that has no order of the bot makes *)
(* _is_foreign_token read the tokens of the bot, once in a pass.            *)
PassTrades ==
    /\ pass.pc = "trades"
    /\ fills' = FillsOf(hist)
    /\ cache' = NoCache
    /\ pass' = [pass EXCEPT !.pc = "acts",
                             !.toks = IF \E t \in Token : other[t] > 0 THEN {signed} ELSE {}]
    /\ UNCHANGED <<account, acts, audit, base, full, replayed, inval, rd, pos, healthy>>

(* reconcile_account_activity: an upsert that leaves the scope alone. *)
PassActivities ==
    /\ pass.pc = "acts"
    /\ acts' = [n \in 1 .. MaxEvents |->
                    IF n \in ActivitiesOf(hist) /\ acts[n] = "none" THEN "bot" ELSE acts[n]]
    /\ cache' = NoCache
    /\ Step("conds")
    /\ UNCHANGED <<account, fills, audit, base, full, replayed, inval, rd, pos, healthy>>

(* reconcile_activity_scope: the bot's markets are read first, ... *)
ReadConditions ==
    /\ pass.pc = "conds"
    /\ pass' = [pass EXCEPT !.pc = "scope", !.conds = {CondOf[t] : t \in signed},
                            !.base = base.at,
                            !.todo = {n \in Index : acts[n] # "none"}]
    /\ cache' = NoCache
    /\ UNCHANGED <<account, store, base, full, replayed, inval, rd, healthy>>

(* ... then each row is classified; the audit row is written first, ... *)
NewScope(n) ==
    IF Excluded(hist[n].cond, n, pass.conds, pass.base, Quarantine)
    THEN "quarantine" ELSE "bot"

Row == Min(pass.todo)

(* Seeded fault: a quarantined row is not looked at again. *)
ClassifyOnce ==
    /\ pass.pc = "scope" /\ pass.todo # {}
    /\ IF NewScope(Row) = acts[Row] \/ acts[Row] = "quarantine"
       THEN pass' = [pass EXCEPT !.todo = @ \ {Row}] /\ UNCHANGED audit
       ELSE /\ audit' = IF NewScope(Row) = "quarantine" THEN audit \cup {Row} ELSE audit
            /\ Step("update")
    /\ UNCHANGED <<account, fills, acts, base, full, replayed, snap, pos, healthy>>

(* Seeded fault: the row is moved before the audit row is written. *)
ClassifyFirst ==
    /\ pass.pc = "scope" /\ pass.todo # {}
    /\ acts' = [acts EXCEPT ![Row] = NewScope(Row)]
    /\ Step("update")
    /\ UNCHANGED <<account, fills, audit, base, full, replayed, snap, pos, healthy>>

Classify ==
    /\ pass.pc = "scope" /\ pass.todo # {}
    /\ IF NewScope(Row) = acts[Row]
       THEN pass' = [pass EXCEPT !.todo = @ \ {Row}] /\ UNCHANGED audit
       ELSE /\ audit' = IF NewScope(Row) = "quarantine" THEN audit \cup {Row} ELSE audit
            /\ Step("update")
    /\ UNCHANGED <<account, fills, acts, base, full, replayed, snap, pos, healthy>>

(* ... and then its scope. *)
UpdateScope ==
    /\ pass.pc = "update"
    /\ acts' = [acts EXCEPT ![Row] = NewScope(Row)]
    /\ pass' = [pass EXCEPT !.pc = "scope", !.todo = @ \ {Row}]
    /\ UNCHANGED <<account, fills, audit, base, full, replayed, snap, pos, healthy>>

ListPositions ==
    /\ pass.pc = "scope" /\ pass.todo = {}
    /\ \E shown \in {[t \in Token |-> Held(t)]} \cup
                     (IF "lag" \in Faults THEN {old} ELSE {}) :
          pass' = [pass EXCEPT !.pc = "ledger", !.list = shown]
    /\ UNCHANGED <<account, store, base, full, replayed, snap, healthy>>

(* The tokens on which the exchange and the ledger disagree; redeemed       *)
(* markets are not compared.                                                *)
Live(t) == IF CondOf[t] \in pass.led.red THEN 0 ELSE pass.list[t]

Differs == {t \in Token : Live(t) # pass.led.qty[t]}

(* _bot_tokens, which a foreign trade of this pass may have cached. *)
BotTokens == IF pass.toks = {} THEN signed ELSE UNION pass.toks

Foreign == IF Quarantine THEN Differs \ BotTokens ELSE {}

(* Seeded fault: foreign tokens are quarantined but written all the same. *)
OwnedAll(list) == list

(* owned_positions *)
Owned(list) == [t \in Token |-> IF t \in Foreign THEN 0 ELSE list[t]]

ComparePositions ==
    /\ pass.pc = "check"
    /\ IF Differs \subseteq Foreign
       THEN pass' = [pass EXCEPT !.pc = "zero", !.list = Owned(@)] /\ UNCHANGED healthy
       ELSE pass' = NoPass /\ healthy' = FALSE
    /\ UNCHANGED <<account, store, base, full, replayed, snap>>

(* reconcile_positions *)
ZeroPositions ==
    /\ pass.pc = "zero"
    /\ pos' = [t \in Token |-> IF pass.list[t] = 0 THEN 0 ELSE pos[t]]
    /\ Step("upsert")
    /\ UNCHANGED <<account, fills, acts, audit, base, full, replayed, snap, healthy>>

(* The positions are written and the cursors move on. *)
UpsertPositions ==
    /\ pass.pc = "upsert"
    /\ pos' = [t \in Token |-> IF pass.list[t] > 0 THEN pass.list[t] ELSE pos[t]]
    /\ full' = FALSE
    /\ replayed' = IF pass.full THEN base.ver ELSE replayed
    /\ healthy' = TRUE
    /\ pass' = NoPass
    /\ UNCHANGED <<account, fills, acts, audit, base, snap>>

PassRaises ==
    /\ "call" \in Faults
    /\ pass.pc \notin {"idle", "ledger"}
    /\ pass' = NoPass
    /\ healthy' = FALSE
    /\ UNCHANGED <<account, store, base, full, replayed, snap>>

-----------------------------------------------------------------------------
PassStep ==
    \/ StartPass \/ PassTrades \/ PassActivities \/ ReadConditions \/ Classify
    \/ UpdateScope \/ ListPositions \/ ComparePositions \/ ZeroPositions
    \/ UpsertPositions

Next ==
    \/ \E t \in BotToken : Sign(t) \/ \E side \in {"BUY", "SELL"} : BotTrade(side, t)
    \/ \E t \in HumanToken : HumanTrade(t)
    \/ \E t \in Token : RedeemMarket(t)
    \/ \E c \in Condition : HumanActivity(c)
    \/ \E b \in 1 .. MaxEvents + 1 : SetBaseline(b)
    \/ \E n \in Index : StoreFill(n)
    \/ Invalidate \/ CacheExpires
    \/ \E a \in Reader : ReadCache(a) \/ ReadFills(a) \/ ReadActs(a)
    \/ PassStep \/ PassRaises

Spec == Init /\ [][Next]_vars

(* Passes are periodic and the calls of a pass return. *)
FairSpec ==
    /\ Spec
    /\ WF_vars(PassStep) /\ WF_vars(Invalidate)
    /\ WF_vars(ReadCache("rest")) /\ WF_vars(ReadFills("rest")) /\ WF_vars(ReadActs("rest"))

-----------------------------------------------------------------------------
(* No activity leaves the strict ledger without evidence: one in the        *)
(* quarantine scope has its audit row, whatever call of the pass failed     *)
(* ("Audit first", reconcile_activity_scope).                               *)
AuditFirst == \A n \in 1 .. MaxEvents : acts[n] = "quarantine" => n \in audit

(* Foreign inventory stays out of the positions table while its market is   *)
(* open: a token with shares there is one the bot signed an order for, also *)
(* when a human trades beside it, the list of positions lags or a pass      *)
(* fails halfway (_reconcile_rest_once, reconcile_positions).               *)
ForeignStaysOut ==
    \A t \in Token : pos[t] > 0 /\ t \notin signed =>
        \E n \in Index : hist[n].kind = "REDEEM" /\ hist[n].cond = CondOf[t]

(* reconcile.py:402: "Foreign inventory must never enter the durable        *)
(* position table".                                                         *)
PositionsAreTheBots == \A t \in Token : pos[t] > 0 => t \in signed

(* supabase_reconcile.py:421: "Invalidate the short replay cache            *)
(* immediately when a WS/REST fill is observed."                            *)
CacheIsCurrent == cache.set /\ ~inval => fills \subseteq cache.from

(* reconcile.py:112: "Adopt a new ignore-before timestamp and replay the    *)
(* account history."                                                        *)
BaselineReplays ==
    \A v \in 1 .. MaxBaseline : base.ver = v ~> replayed >= v
===============================================================================
