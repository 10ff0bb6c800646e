----------------------------- MODULE LedgerReplay -----------------------------
(***************************************************************************)
(* The fill ledger against the account it describes.  The exchange matches  *)
(* trades, fails some of them at settlement and redeems resolved markets;   *)
(* the reconciler stores what it hears in any order                         *)
(* (reconcile_trade, reconcile_account_activity); the replay then has to    *)
(* give the account's holdings and its profit.                              *)
(***************************************************************************)
EXTENDS FillLedger

CONSTANTS
    Price,      \* price ticks of the instance
    Size,       \* trade sizes of the instance
    MaxEvents,  \* bound: events of the account
    MaxFailed   \* bound: trades that fail

VARIABLES
    hist,       \* what happened to the account, oldest first
    bad,        \* the trades that failed at settlement
    rows,       \* the events that have a row in fills or account_activities
    failed      \* the rows whose settlement_status is FAILED

vars == <<hist, bad, rows, failed>>

Index == 1 .. Len(hist)

(* The truth about an account: shares per token and cash in units, from a   *)
(* plain sum over the events that count.                                    *)
Flow(e, t) ==
    CASE e.kind = "FILL" /\ e.tok = t -> IF e.side = "BUY" THEN e.size ELSE 0 - e.size
      [] OTHER -> 0

RECURSIVE Holding(_, _, _)
Holding(h, S, t) ==
    IF h = <<>> THEN 0
    ELSE LET n == Len(h)
             e == h[n]
             before == Holding(SubSeq(h, 1, n - 1), S, t)
         IN IF n \notin S THEN before
            ELSE IF e.kind = "REDEEM" /\ e.cond = CondOf[t] THEN 0
            ELSE before + Flow(e, t)

Cash(e) ==
    CASE e.kind = "REDEEM" -> e.amount * Scale
      [] e.kind = "FILL" /\ e.side = "BUY" -> 0 - e.price * e.size * Scale - Fee
      [] e.kind = "FILL" /\ e.side = "SELL" -> e.price * e.size * Scale - Fee

Good == Index \ bad

(* What is left of the cost of the buy at n: every later sale takes out its *)
(* share of the holding, a redemption the rest.                             *)
RECURSIVE Left(_, _, _)
Left(n, m, c) ==
    IF m > Len(hist) THEN c
    ELSE LET e == hist[m]
             q == Holding(SubSeq(hist, 1, m - 1), Good, hist[n].tok)
         IN IF m \notin Good THEN Left(n, m + 1, c)
            ELSE IF e.kind = "REDEEM" /\ e.cond = CondOf[hist[n].tok] THEN 0
            ELSE IF e.kind = "FILL" /\ e.side = "SELL" /\ e.tok = hist[n].tok
            THEN Left(n, m + 1, (c * (q - e.size)) \div q)
            ELSE Left(n, m + 1, c)

CostLeft(t) ==
    MapThenSumSet(LAMBDA n : Left(n, n + 1, 0 - Cash(hist[n])),
                  {n \in Good : hist[n].kind = "FILL" /\ hist[n].side = "BUY"
                                    /\ hist[n].tok = t})

(* No share is sold that the account did not have. *)
Possible(h, S) ==
    \A n \in S : h[n].kind = "FILL" /\ h[n].side = "SELL"
        => Holding(SubSeq(h, 1, n - 1), S, h[n].tok) >= h[n].size

Init == hist = <<>> /\ bad = {} /\ rows = {} /\ failed = {}

Happens(e) ==
    /\ Len(hist) < MaxEvents
    /\ hist' = Append(hist, e)
    /\ UNCHANGED <<bad, rows, failed>>

Match(side, t, p, s) ==
    /\ side = "SELL" => s <= Holding(hist, Good, t)
    /\ Happens(Fill(side, t, p, s))

(* A market pays one tick-price unit per share of its winning token. *)
Redeem(t, pay) ==
    /\ \E u \in Token : CondOf[u] = CondOf[t] /\ Holding(hist, Good, u) > 0
    /\ Happens(Activity("REDEEM", CondOf[t], Holding(hist, Good, t) * pay))

SettlementFails(n) ==
    /\ hist[n].kind = "FILL" /\ n \notin bad
    /\ Cardinality(bad) < MaxFailed
    /\ \A m \in Index : hist[m].kind = "REDEEM" => m < n
    /\ Possible(hist, Good \ {n})
    /\ bad' = bad \cup {n}
    /\ UNCHANGED <<hist, rows, failed>>

(* reconcile_trade or reconcile_account_activity stores the event. *)
Store(n) ==
    /\ n \notin rows
    /\ rows' = rows \cup {n}
    /\ failed' = IF n \in bad THEN failed \cup {n} ELSE failed
    /\ UNCHANGED <<hist, bad>>

(* A later report of a trade that failed after it was stored. *)
StoreFailure(n) ==
    /\ n \in rows \cap bad /\ n \notin failed
    /\ failed' = failed \cup {n}
    /\ UNCHANGED <<hist, bad, rows>>

Next ==
    \/ \E side \in {"BUY", "SELL"}, t \in Token, p \in Price, s \in Size :
          Match(side, t, p, s)
    \/ \E t \in Token, pay \in {0, Max(Price) + 1} : Redeem(t, pay)
    \/ \E n \in Index : SettlementFails(n) \/ Store(n) \/ StoreFailure(n)

Spec == Init /\ [][Next]_vars

-----------------------------------------------------------------------------
Complete == rows = Index /\ failed = bad

Sum(S) == MapThenSumSet(LAMBDA n : Cash(hist[n]), S)

Book(l) == MapThenSumSet(LAMBDA t : l.cost[t], Token)

(* A complete ledger replays without an error, whatever order its rows came *)
(* in, to the account's holdings at their average cost, and no money        *)
(* appears or disappears: what was realized is the cash that came in plus   *)
(* the cost of what is still held (replay_fill_ledger).                     *)
CompleteIsExact ==
    Complete => \E l \in {Replay(hist, rows \ failed, 1)} :
        /\ l.ok
        /\ \A t \in Token : /\ l.qty[t] = Holding(hist, Good, t)
                             /\ l.cost[t] = CostLeft(t)
        /\ l.real = Sum(Good) + Book(l)

(* Profit "since midnight" is the change of cash plus inventory at cost     *)
(* since then, wherever midnight falls in the history (the cutoff argument  *)
(* of replay_fill_ledger, used for the daily loss limit).                   *)
TodayIsTheChange ==
    Complete => \A c \in 1 .. Len(hist) :
        \E now \in {Replay(hist, rows \ failed, c)},
           then \in {Replay(SubSeq(hist, 1, c - 1), Good, 1)} :
              now.real = Sum({n \in Good : n >= c}) + Book(now) - Book(then)

(* An incomplete ledger never invents shares: it raises, or what it holds   *)
(* too much of is covered by sales and redemptions it has not heard of.     *)
NoPhantomShares ==
    failed = bad \cap rows => \E l \in {Replay(hist, rows \ failed, 1)} :
        l.ok => \A t \in Token :
            l.qty[t] <= Holding(hist, Good, t)
                \/ \E n \in Good \ rows :
                      \/ hist[n].kind = "REDEEM" /\ hist[n].cond = CondOf[t]
                      \/ hist[n].kind = "FILL" /\ hist[n].side = "SELL" /\ hist[n].tok = t

(* The three together: the ledger, complete or not, tells the truth about   *)
(* the account (replay_fill_ledger).                                        *)
LedgerIsTrue == CompleteIsExact /\ TodayIsTheChange /\ NoPhantomShares
===============================================================================
