--------------------------- MODULE OrderLifecycle ---------------------------
(***************************************************************************)
(* What becomes of one live order after it was sent: its orders row, its   *)
(* fills rows, and the three tasks of the worker process that write them   *)
(* while the exchange moves on:                                            *)
(*   "ws"    OrderReconciler._apply_user_event, one event after the other; *)
(*   "rest"  OrderReconciler._reconcile_rest_once (reconcile.py);          *)
(*   saver   PolymarketBroker.submit and the engine, which both call       *)
(*           save_execution with the same result.                          *)
(* Every store call (stores/supabase_reconcile.py, supabase_store.py)      *)
(* reads rows in one statement and writes them in a later one, and nothing *)
(* but the REST pass is under a lock: each statement is a step here.       *)
(*                                                                         *)
(* A trade has size 1 and its number stands for matched_at; the trades of  *)
(* the order are more than the cursor's 60 seconds apart, which is the     *)
(* worst case.  cancel_pending is read by the store but written by nobody, *)
(* and the statuses DELAYED and unknown ones are left out, and so is       *)
(* RETRYING, which differs from MATCHED only by its rank among reports.    *)
(***************************************************************************)
EXTENDS Naturals, Sequences, FiniteSets, FiniteSetsExt

CONSTANTS
    Trade,          \* trades of the order, numbered in the order of matching
    Size,           \* original_size
    MaxQueue,       \* bound: undelivered WebSocket events
    Faults          \* bound: the kinds of fault that are explored

ASSUME OrderAssumption ==
    /\ Trade \subseteq Nat \ {0}
    /\ Size \in Nat \ {0}
    /\ MaxQueue \in Nat \ {0}
    /\ Faults \subseteq {"link", "post", "call", "crash", "fail", "foreign",
                         "lag"}

VARIABLES
    ex,         \* the order at the exchange, and whether queries show it yet
    tr,         \* settlement of the trades at the exchange
    row,        \* the orders row
    fill,       \* the fills rows: settlement_status per trade
    owned,      \* the token is in the bot's footprint (durable_token_ids)
    saver,      \* the submission and its two saves
    wsq,        \* WebSocket events on their way
    link,       \* the WebSocket subscription: "up" or "down"
    healthy,    \* OrderReconciler.healthy
    task,       \* the store call of "ws" and "rest" that is under way
    pass,       \* the REST pass
    cursor,     \* _trade_after
    cache,      \* _bot_tokens_cache: unset, without or with the token
    quar        \* the token is in _quarantined_tokens

exchange == <<ex, tr>>
store == <<row, fill>>
rest == <<pass, cursor>>
vars == <<ex, tr, row, fill, owned, saver, wsq, link, healthy, task, pass,
          cursor, cache, quar>>

Actor == {"ws", "rest"}

Pending == {"MATCHED", "MINED"}

Final == {"CONFIRMED", "FAILED"}

Settlement == Pending \cup Final \cup {"none"}

Closed == {"matched", "cancelled"}

Open == {"submitted", "live", "partially_filled", "unknown"}

RowStatus == Open \cup {"none", "submitting", "matched", "mined", "confirmed",
                        "cancelled", "failed"}

(* held: response_payload.reconciliation_required; ids: its trade_ids *)
Row == [st : RowStatus, filled : 0 .. Size, miss : Nat, id : BOOLEAN,
        held : BOOLEAN, ids : SUBSET Trade]

NoRow == [st |-> "none", filled |-> 0, miss |-> 0, id |-> FALSE,
          held |-> FALSE, ids |-> {}]

(* A store call: o1/t1 holds an update, o2/t2 has read the order, t3 the    *)
(* fill, t4 has written the fill, t5 has read the order's fills.  data is   *)
(* what it remembers of its reads, or the payload it made of them.          *)
Task == [pc : {"idle", "o1", "o2", "t1", "t2", "t3", "t4", "t5"},
         st : Settlement \cup Closed \cup {"live"}, n : Nat, t : Trade \cup {0},
         data : Row]

NoFills == [t \in Trade |-> "none"]

NoTask == [pc |-> "idle", st |-> "none", n |-> 0, t |-> 0, data |-> NoRow]

Pass == [pc : {"idle", "snap", "get", "list", "each", "pend", "poll", "absent",
               "confirm", "write", "pos"},
         listed : BOOLEAN, absent : BOOLEAN, todo : SUBSET (Trade \X Settlement),
         seen : SUBSET Trade, latest : Nat]

NoPass == [pc |-> "idle", listed |-> FALSE, absent |-> FALSE, todo |-> {},
           seen |-> {}, latest |-> 0]

(* The result that is being saved: its status, whether it has an order id,  *)
(* reconciliation_required and trade_ids.                                   *)
Saver == [pc : {"idle", "reserved", "posted", "read1", "write1", "read2",
                "write2", "done"},
          st : {"none", "submitted", "unknown"}, id : BOOLEAN, held : BOOLEAN,
          ids : SUBSET Trade, data : Row]

NoSaver == [pc |-> "idle", st |-> "none", id |-> FALSE, held |-> FALSE,
            ids |-> {}, data |-> NoRow]

Event == [kind : {"order"}, st : Closed \cup {"live"}, n : Nat]
            \cup [kind : {"trade"}, t : Trade, st : Settlement]
            \cup [kind : {"foreign"}]

TypeOK ==
    /\ ex \in [st : Closed \cup {"none", "live"}, vis : BOOLEAN]
    /\ tr \in [Trade -> Settlement]
    /\ row \in Row
    /\ fill \in [Trade -> Settlement]
    /\ owned \in BOOLEAN
    /\ saver \in Saver
    /\ wsq \in Seq(Event)
    /\ link \in {"up", "down"}
    /\ healthy \in BOOLEAN
    /\ task \in [Actor -> Task]
    /\ pass \in Pass
    /\ cursor \in Nat
    /\ cache \in {"unset", "without", "with"}
    /\ quar \in BOOLEAN

Init ==
    /\ ex = [st |-> "none", vis |-> FALSE]
    /\ tr = NoFills
    /\ row = NoRow
    /\ fill = NoFills
    /\ owned = FALSE
    /\ saver = NoSaver
    /\ wsq = <<>>
    /\ link = "down"
    /\ healthy = FALSE
    /\ task = [a \in Actor |-> NoTask]
    /\ pass = NoPass
    /\ cursor = 0
    /\ cache = "unset"
    /\ quar = FALSE

-----------------------------------------------------------------------------
(* The merge functions *)

FillRank(s) == CASE s = "MATCHED" -> 0 [] s = "MINED" -> 2 [] s \in Final -> 3

(* _merge_fill_payload *)
MergedFill(cur, inc) ==
    CASE cur = "none" -> inc
      [] cur \in Final -> cur
      [] cur \in Pending /\ (inc = "FAILED" \/ FillRank(inc) >= FillRank(cur)) -> inc
      [] OTHER -> cur

Rank(st) == CASE st = "matched" -> 1 [] st = "mined" -> 2
              [] st = "confirmed" -> 3 [] OTHER -> 0

(* reconcile_order: the row that a report of status inc and n matched       *)
(* shares leads to, from the row as it was read.                            *)
ReportedStatus(cur, inc, filled) ==
    LET st == IF 0 < filled /\ filled < Size /\ inc # "cancelled"
              THEN "partially_filled"
              ELSE IF filled >= Size /\ inc = "live" THEN "matched" ELSE inc
    IN CASE cur = "confirmed" -> cur
         [] cur \in {"cancelled", "failed"} ->
                IF filled >= Size /\ st = "matched" THEN st ELSE cur
         [] OTHER -> IF Rank(cur) > Rank(st) THEN cur ELSE st

ReportedRow(r, inc, n) ==
    LET filled == Min({Size, Max({r.filled, n})})
    IN [r EXCEPT !.filled = filled, !.miss = 0,
                 !.st = ReportedStatus(r.st, inc, filled)]

(* _aggregate_order_fill_payload *)
Successful(fills) == {t \in Trade : fills[t] \notin {"none", "FAILED"}}

AggregateStatus(cur, fills) ==
    LET filled == Cardinality(Successful(fills))
        settled == {fills[t] : t \in Successful(fills)}
    IN CASE filled = 0 ->
                IF \E t \in Trade : fills[t] = "FAILED" THEN "failed" ELSE cur
         [] 0 < filled /\ filled < Size ->
                IF cur = "cancelled" THEN cur ELSE "partially_filled"
         [] OTHER -> IF "MATCHED" \in settled THEN "matched"
                     ELSE IF "MINED" \in settled THEN "mined" ELSE "confirmed"

FilledRow(cur, fills) ==
    [NoRow EXCEPT !.st = AggregateStatus(cur, fills),
                  !.filled = Cardinality(Successful(fills))]

(* _merge_execution_order_payload for the two results of a live POST; the   *)
(* filled size of either is zero.                                           *)
SavedStatus(cur, inc) ==
    IF cur \in {"submitting", "unknown"} \/ (cur = "submitted" /\ inc = "submitted")
    THEN inc ELSE cur

SavedRow(r, s) ==
    [r EXCEPT !.st = SavedStatus(r.st, s.st), !.id = r.id \/ s.id,
              !.held = r.held \/ s.held, !.ids = IF s.ids # {} THEN s.ids ELSE r.ids]

-----------------------------------------------------------------------------
(* The exchange *)

Matched == {t \in Trade : tr[t] # "none"}

Newest == Max(Matched \cup {0})

Deliver(es) == IF link = "up" THEN wsq' = wsq \o es ELSE UNCHANGED wsq

Room == link = "up" => Len(wsq) + 2 <= MaxQueue

OrderEvent(st, n) == [kind |-> "order", st |-> st, n |-> n]

TradeEvent(t, st) == [kind |-> "trade", t |-> t, st |-> st]

MatchTrade(t) ==
    /\ ex.st = "live" /\ Room
    /\ tr[t] = "none" /\ \A u \in Trade : u < t => tr[u] # "none"
    /\ Cardinality({u \in Matched : tr[u] # "FAILED"}) < Size
    /\ tr' = [tr EXCEPT ![t] = "MATCHED"]
    /\ ex' = [ex EXCEPT !.st = IF Cardinality(Matched) + 1 >= Size THEN "matched"
                               ELSE "live"]
    /\ Deliver(<<OrderEvent(ex'.st, Cardinality(Matched) + 1), TradeEvent(t, "MATCHED")>>)
    /\ UNCHANGED <<store, owned, saver, link, healthy, task, rest, cache, quar>>

SettleTrade(t) ==
    /\ Room
    /\ \E s \in Settlement :
          /\ \/ tr[t] = "MATCHED" /\ s = "MINED"
             \/ tr[t] = "MATCHED" /\ s = "FAILED" /\ "fail" \in Faults
             \/ tr[t] = "MINED" /\ s = "CONFIRMED"
          /\ tr' = [tr EXCEPT ![t] = s]
          /\ Deliver(<<TradeEvent(t, s)>>)
    /\ UNCHANGED <<ex, store, owned, saver, link, healthy, task, rest, cache, quar>>

(* Cancelled on request, or expired. *)
CancelOrder ==
    /\ ex.st = "live" /\ Room
    /\ ex' = [ex EXCEPT !.st = "cancelled"]
    /\ Deliver(<<OrderEvent("cancelled", Cardinality(Matched))>>)
    /\ UNCHANGED <<tr, store, owned, saver, link, healthy, task, rest, cache, quar>>

(* Somebody trades another token from the same wallet; bound: before the    *)
(* submission, on an empty stream.                                         *)
ForeignTrade ==
    /\ "foreign" \in Faults /\ link = "up" /\ wsq = <<>>
    /\ saver.pc = "idle"
    /\ wsq' = Append(wsq, [kind |-> "foreign"])
    /\ UNCHANGED <<exchange, store, owned, saver, link, healthy, task, rest, cache, quar>>

-----------------------------------------------------------------------------
(* PolymarketBroker.submit and the two saves *)

(* Up to the last guard, which asks the reconciler's health. *)
Reserve ==
    /\ saver.pc = "idle"
    /\ healthy
    /\ owned' = TRUE
    /\ row' = [NoRow EXCEPT !.st = "submitting"]
    /\ saver' = [saver EXCEPT !.pc = "reserved"]
    /\ UNCHANGED <<exchange, fill, wsq, link, healthy, task, rest, cache, quar>>

Post ==
    /\ saver.pc = "reserved"
    /\ \E vis \in {TRUE, "lag" \notin Faults} : ex' = [st |-> "live", vis |-> vis]
    /\ Room /\ Deliver(<<OrderEvent("live", 0)>>)
    /\ saver' = [saver EXCEPT !.pc = "posted"]
    /\ UNCHANGED <<tr, store, owned, link, healthy, task, rest, cache, quar>>

(* The answer: accepted, accepted while the control changed, or lost. *)
Respond ==
    /\ saver.pc = "posted"
    /\ \/ \E ids \in {{}, Matched} :
            saver' = [saver EXCEPT !.pc = "read1", !.st = "submitted",
                                   !.id = TRUE, !.ids = ids]
       \/ /\ "post" \in Faults
          /\ \E id \in BOOLEAN :
               saver' = [saver EXCEPT !.pc = "read1", !.st = "unknown",
                                      !.id = id, !.held = id]
    /\ UNCHANGED <<exchange, store, owned, wsq, link, healthy, task, rest, cache, quar>>

ReadExecution ==
    /\ saver.pc \in {"read1", "read2"}
    /\ saver' = [saver EXCEPT !.pc = IF @ = "read1" THEN "write1" ELSE "write2",
                              !.data = [SavedRow(row, saver) EXCEPT !.miss = 0]]
    /\ UNCHANGED <<exchange, store, owned, wsq, link, healthy, task, rest, cache, quar>>

(* The payload has every column but open_snapshot_miss_count. *)
WriteExecution ==
    /\ saver.pc \in {"write1", "write2"}
    /\ row' = [saver.data EXCEPT !.miss = row.miss]
    /\ saver' = IF saver.pc = "write1"
                THEN [saver EXCEPT !.pc = "read2", !.data = NoRow]
                ELSE [NoSaver EXCEPT !.pc = "done"]
    /\ UNCHANGED <<exchange, fill, owned, wsq, link, healthy, task, rest, cache, quar>>

-----------------------------------------------------------------------------
(* The store calls of the reconciler, for the actor a that makes them *)

SetTask(a, t) == task' = [task EXCEPT ![a] = t]

OrderUpdate(st, n) == [NoTask EXCEPT !.pc = "o1", !.st = st, !.n = n]

TradeUpdate(t, st) == [NoTask EXCEPT !.pc = "t1", !.t = t, !.st = st]

(* reconcile_order: a row without the order id is not found (orphan). *)
ReadOrder(a) ==
    /\ task[a].pc = "o1"
    /\ SetTask(a, IF row.id
                  THEN [NoTask EXCEPT !.pc = "o2",
                            !.data = ReportedRow(row, task[a].st, task[a].n)]
                  ELSE NoTask)
    /\ UNCHANGED <<exchange, store, owned, saver, wsq, link, healthy, rest, cache, quar>>

WriteOrder(a) ==
    /\ task[a].pc = "o2"
    /\ row' = task[a].data
    /\ SetTask(a, NoTask)
    /\ UNCHANGED <<exchange, fill, owned, saver, wsq, link, healthy, rest, cache, quar>>

(* reconcile_trade *)
ReadTradeOrder(a) ==
    /\ task[a].pc = "t1"
    /\ SetTask(a, [task[a] EXCEPT !.pc = "t2", !.data.st = row.st])
    /\ UNCHANGED <<exchange, store, owned, saver, wsq, link, healthy, rest, cache, quar>>

ReadFill(a) ==
    /\ task[a].pc = "t2"
    /\ SetTask(a, [task[a] EXCEPT !.pc = "t3",
                                 !.st = MergedFill(fill[task[a].t], @)])
    /\ UNCHANGED <<exchange, store, owned, saver, wsq, link, healthy, rest, cache, quar>>

UpsertFill(a) ==
    /\ task[a].pc = "t3"
    /\ fill' = [fill EXCEPT ![task[a].t] = task[a].st]
    /\ SetTask(a, [NoTask EXCEPT !.pc = "t4", !.data = task[a].data])
    /\ UNCHANGED <<exchange, row, owned, saver, wsq, link, healthy, rest, cache, quar>>

ReadFills(a) ==
    /\ task[a].pc = "t4"
    /\ SetTask(a, [task[a] EXCEPT !.pc = "t5", !.data = FilledRow(@.st, fill)])
    /\ UNCHANGED <<exchange, store, owned, saver, wsq, link, healthy, rest, cache, quar>>

WriteFilled(a) ==
    /\ task[a].pc = "t5"
    /\ row' = [row EXCEPT !.st = task[a].data.st, !.filled = task[a].data.filled,
                          !.miss = 0]
    /\ SetTask(a, NoTask)
    /\ UNCHANGED <<exchange, fill, owned, saver, wsq, link, healthy, rest, cache, quar>>

StoreCall(a) ==
    \/ ReadOrder(a) \/ WriteOrder(a) \/ ReadTradeOrder(a) \/ ReadFill(a)
    \/ UpsertFill(a) \/ ReadFills(a) \/ WriteFilled(a)

-----------------------------------------------------------------------------
(* Trades that map to no order *)

(* _bot_tokens: read once per pass *)
Footprint == IF cache # "unset" THEN cache ELSE IF owned THEN "with" ELSE "without"

(* _account_trade_updates for a trade of the order while the order id is    *)
(* not stored: quarantined if the footprint lacks the token, else an error. *)
Unmapped == cache' = Footprint /\ quar' = (quar \/ Footprint = "without")

-----------------------------------------------------------------------------
(* _apply_user_event *)

TakeEvent ==
    /\ link = "up" /\ wsq # <<>> /\ task["ws"].pc = "idle"
    /\ LET e == Head(wsq) IN
         \/ /\ e.kind = "order"
            /\ SetTask("ws", OrderUpdate(e.st, e.n))
            /\ wsq' = Tail(wsq)
            /\ UNCHANGED <<link, healthy, cache, quar>>
         \/ /\ e.kind = "trade" /\ row.id
            /\ SetTask("ws", TradeUpdate(e.t, e.st))
            /\ wsq' = Tail(wsq)
            /\ UNCHANGED <<link, healthy, cache, quar>>
         \/ /\ e.kind = "trade" /\ ~row.id
            /\ Unmapped
            /\ IF Footprint = "without"
               THEN wsq' = Tail(wsq) /\ UNCHANGED <<link, healthy>>
               ELSE wsq' = <<>> /\ link' = "down" /\ healthy' = FALSE
            /\ UNCHANGED task
         \/ /\ e.kind = "foreign"
            /\ cache' = Footprint
            /\ wsq' = Tail(wsq)
            /\ UNCHANGED <<task, link, healthy, quar>>
    /\ UNCHANGED <<exchange, store, owned, saver, rest>>

(* The stream ends, or an event raises: what was on its way is lost. *)
LinkDrops ==
    /\ "link" \in Faults
    /\ link = "up"
    /\ link' = "down" /\ healthy' = FALSE /\ wsq' = <<>>
    /\ SetTask("ws", NoTask)
    /\ UNCHANGED <<exchange, store, owned, saver, rest, cache, quar>>

-----------------------------------------------------------------------------
(* _reconcile_rest_once.  A step of the pass is taken when its store call   *)
(* has returned.                                                            *)

At(pc) == pass.pc = pc /\ task["rest"].pc = "idle"

(* list_open_orders.  A new order shows in queries before the next pass     *)
(* begins (30 seconds).                                                     *)
StartPass ==
    /\ At("idle")
    /\ cache' = "unset"
    /\ ex' = [ex EXCEPT !.vis = TRUE]
    /\ IF ex.st = "live" /\ ex'.vis
       THEN /\ SetTask("rest", OrderUpdate("live", Cardinality(Matched)))
            /\ pass' = [NoPass EXCEPT !.pc = "snap", !.listed = TRUE, !.latest = cursor]
       ELSE pass' = [NoPass EXCEPT !.pc = "snap", !.latest = cursor] /\ UNCHANGED task
    /\ UNCHANGED <<tr, store, owned, saver, wsq, link, healthy, cursor, quar>>

(* Seeded fault: unknown rows are not looked for. *)
FindMissingKnown ==
    /\ At("snap")
    /\ pass' = [pass EXCEPT !.pc = IF row.id /\ row.st \in Open \ {"unknown"}
                                        /\ ~pass.listed
                                   THEN "get" ELSE "list"]
    /\ UNCHANGED <<exchange, store, owned, saver, wsq, link, healthy, task,
                   cursor, cache, quar>>

(* reconcile_open_order_snapshot *)
FindMissing ==
    /\ At("snap")
    /\ pass' = [pass EXCEPT !.pc = IF row.id /\ row.st \in Open /\ ~pass.listed
                                   THEN "get" ELSE "list"]
    /\ UNCHANGED <<exchange, store, owned, saver, wsq, link, healthy, task, cursor, cache, quar>>

(* get_order; the exchange forgets an order some time after it closed. *)
GetOrder ==
    /\ At("get")
    /\ \/ /\ ex.vis
          /\ SetTask("rest", OrderUpdate(ex.st, Cardinality(Matched)))
          /\ pass' = [pass EXCEPT !.pc = "list"]
       \/ /\ ~ex.vis \/ ex.st \in Closed
          /\ pass' = [pass EXCEPT !.pc = "list", !.absent = TRUE]
          /\ UNCHANGED task
    /\ UNCHANGED <<exchange, store, owned, saver, wsq, link, healthy, cursor, cache, quar>>

(* list_account_trades: from the cursor, or from 0 for an absent order.     *)
(* The list may end with a trade of another order.                          *)
ListTrades ==
    /\ At("list")
    /\ \E latest \in {cursor, Newest + 1} :
         pass' = [pass EXCEPT !.pc = "each", !.latest = Max({cursor, latest}),
           !.todo = {<<t, tr[t]>> : t \in {u \in Matched : pass.absent \/ u >= cursor}}]
    /\ cache' = IF "foreign" \in Faults THEN Footprint ELSE cache
    /\ UNCHANGED <<exchange, store, owned, saver, wsq, link, healthy, task, cursor, quar>>

FailPass ==
    /\ healthy' = FALSE
    /\ pass' = NoPass
    /\ SetTask("rest", NoTask)

(* The next trade of the list, or the next pending one. *)
TakeTrade ==
    /\ At("each") \/ At("poll")
    /\ pass.todo # {}
    /\ LET u == CHOOSE x \in pass.todo : \A y \in pass.todo : x[1] <= y[1]
           t == u[1]
           done == [pass EXCEPT !.todo = @ \ {u}, !.seen = @ \cup {t},
                        !.latest = IF pass.pc = "each" THEN Max({@, t}) ELSE @]
       IN IF row.id
          THEN /\ SetTask("rest", TradeUpdate(t, IF pass.pc = "each" THEN u[2] ELSE tr[t]))
               /\ pass' = done
               /\ UNCHANGED <<healthy, cache, quar>>
          ELSE /\ Unmapped
               /\ IF Footprint = "without" THEN pass' = done /\ UNCHANGED <<healthy, task>>
                  ELSE FailPass
    /\ UNCHANGED <<exchange, store, owned, saver, wsq, link, cursor>>

(* Seeded fault: a mined trade counts as settled. *)
PendingTradesUnmined == {t \in Trade : fill[t] \in Pending \ {"MINED"}}

(* pending_trade_ids *)
PendingTrades ==
    {t \in Trade : fill[t] \in Pending \/ (row.st \in Open \cup {"matched", "mined"}
                                             /\ t \in row.ids /\ fill[t] \notin Final)}

FindPending ==
    /\ At("each") /\ pass.todo = {}
    /\ pass' = [pass EXCEPT !.pc = "poll",
                            !.todo = {<<t, "none">> : t \in PendingTrades \ pass.seen}]
    /\ UNCHANGED <<exchange, store, owned, saver, wsq, link, healthy, task, cursor, cache, quar>>

CheckPending ==
    /\ At("poll") /\ pass.todo = {}
    /\ pass' = [pass EXCEPT !.pc = IF PendingTrades = {} /\ pass.absent
                                   THEN "confirm" ELSE "pos"]
    /\ UNCHANGED <<exchange, store, owned, saver, wsq, link, healthy, task, cursor, cache, quar>>

(* Seeded fault: one miss is enough. *)
AbsentRowAtOnce(r) ==
    [NoRow EXCEPT !.miss = r.miss + 1, !.st = "cancelled"]

AbsentRow(r) ==
    [NoRow EXCEPT !.miss = r.miss + 1,
                  !.st = IF r.miss + 1 >= 2 THEN "cancelled" ELSE "unknown"]

(* confirm_orders_absent *)
ReadAbsent ==
    /\ At("confirm")
    /\ IF row.st \in Open /\ ~row.held
       THEN /\ pass' = [pass EXCEPT !.pc = "write"]
            /\ SetTask("rest", [NoTask EXCEPT !.data = AbsentRow(row)])
       ELSE pass' = [pass EXCEPT !.pc = "pos"] /\ UNCHANGED task
    /\ UNCHANGED <<exchange, store, owned, saver, wsq, link, healthy, cursor, cache, quar>>

WriteAbsent ==
    /\ At("write")
    /\ row' = [row EXCEPT !.st = task["rest"].data.st, !.miss = task["rest"].data.miss]
    /\ SetTask("rest", NoTask)
    /\ pass' = [pass EXCEPT !.pc = "pos"]
    /\ UNCHANGED <<exchange, fill, owned, saver, wsq, link, healthy, cursor, cache, quar>>

(* The position check: the exchange shows the shares of settled trades, and *)
(* perhaps of others, and the fill ledger must agree.                       *)
Shares(f) == Cardinality(Successful(f))

Settled(f) == Cardinality({t \in Trade : f[t] \in {"MINED", "CONFIRMED"}})

(* Seeded fault: the cursor moves to the time at which the pass ends. *)
NextCursorNow(p) == Newest + 1

NextCursor(p) == p.latest

CheckPositions ==
    /\ At("pos")
    /\ \E q \in Settled(tr) .. Shares(tr) :
         LET agrees == q = Shares(fill) IN
         /\ cache' = IF agrees THEN cache ELSE Footprint
         /\ quar' = (quar \/ (~agrees /\ Footprint = "without"))
         /\ IF agrees \/ Footprint = "without"
            THEN /\ cursor' = NextCursor(pass)
                 /\ link' = "up" /\ healthy' = TRUE
                 /\ pass' = NoPass
                 /\ UNCHANGED task
            ELSE FailPass /\ UNCHANGED <<cursor, link>>
    /\ UNCHANGED <<exchange, store, owned, saver, wsq>>

(* Any call of the pass raises. *)
PassRaises ==
    /\ "call" \in Faults
    /\ pass.pc # "idle"
    /\ FailPass
    /\ UNCHANGED <<exchange, store, owned, saver, wsq, link, cursor, cache, quar>>

(* The process is restarted: history is replayed from epoch 0. *)
Restart ==
    /\ "crash" \in Faults
    /\ saver' = IF saver.pc = "idle" THEN saver ELSE [NoSaver EXCEPT !.pc = "done"]
    /\ wsq' = <<>> /\ link' = "down" /\ healthy' = FALSE
    /\ task' = [a \in Actor |-> NoTask]
    /\ pass' = NoPass /\ cursor' = 0
    /\ cache' = "unset" /\ quar' = FALSE
    /\ UNCHANGED <<exchange, store, owned>>

-----------------------------------------------------------------------------
Submission == Reserve \/ Post \/ Respond \/ ReadExecution \/ WriteExecution

PassStep ==
    \/ StartPass \/ FindMissing \/ GetOrder \/ ListTrades \/ TakeTrade
    \/ FindPending \/ CheckPending \/ ReadAbsent \/ WriteAbsent \/ CheckPositions

Next ==
    \/ \E t \in Trade : MatchTrade(t) \/ SettleTrade(t)
    \/ CancelOrder \/ ForeignTrade
    \/ Submission
    \/ \E a \in Actor : StoreCall(a)
    \/ TakeEvent \/ LinkDrops
    \/ PassStep \/ PassRaises
    \/ Restart

Spec == Init /\ [][Next]_vars

(* Passes are periodic, store calls return, the saves are made, and the     *)
(* exchange settles its trades.                                             *)
FairSpec ==
    /\ Spec
    /\ WF_vars(PassStep) /\ WF_vars(TakeEvent) /\ WF_vars(Submission)
    /\ \A a \in Actor : WF_vars(StoreCall(a))
    /\ \A t \in Trade : WF_vars(SettleTrade(t))

-----------------------------------------------------------------------------
(* An order that the store holds cancelled is not open at the exchange: the *)
(* two-miss rule bridges the time in which queries do not show a new order, *)
(* and no stale write puts a cancellation over a live order                 *)
(* (confirm_orders_absent, reconcile_order).                                *)
CancelledIsGone == row.st = "cancelled" => ex.st # "live"

(* No trade is lost behind the cursor: one that later passes do not list    *)
(* any more has a fills row, whatever events were lost, whichever passes    *)
(* failed and however the two tasks overlapped (_reconcile_rest_once        *)
(* advances _trade_after last); unless the token is quarantined.            *)
NoTradeLost == ~quar => \A t \in Matched : t < cursor => fill[t] # "none"

(* The fills of an order whose id is stored converge: stale writes of       *)
(* overlapping tasks are repaired by later passes (pending_trade_ids).      *)
FillsConverge ==
    \A t \in Trade : <>[](row.id /\ tr[t] \in Final => fill[t] = tr[t])

(* The row of a closed order is settled in the end and stays settled, by a  *)
(* report, by its fills or by two confirmed absences.                       *)
RowSettles ==
    <>[](row.id /\ ~row.held /\ ex.st \in Closed => row.st \notin Open)

(* payloads.py:107: "Prevent stale REST/WS events from moving a fill out of *)
(* a terminal state."                                                       *)
TerminalFillStays ==
    [][\A t \in Trade : fill[t] \in Final => fill'[t] = fill[t]]_vars

(* payloads.py: "Make duplicate broker/engine saves idempotent and          *)
(* lifecycle-monotonic."                                                    *)
SavesAreMonotonic ==
    [][saver' # saver /\ row.st = "confirmed" => row'.st = "confirmed"]_vars

(* reconcile.py _is_foreign_token: "True when the bot has never signed an   *)
(* intent or order for this token."                                         *)
QuarantineIsForeign == [][quar' /\ ~quar => ~owned]_vars
=============================================================================
