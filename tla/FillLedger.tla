------------------------------ MODULE FillLedger ------------------------------
(***************************************************************************)
(* stores/ledger.py: replay_fill_ledger, which rebuilds quantities, costs   *)
(* and realized profit from the durable fills and the redemptions, and      *)
(* activity_quarantine_reason, which decides what the replay leaves out.    *)
(*                                                                         *)
(* Money is counted in 1/Scale of a price tick, so that the average costs   *)
(* of the bounded instances are whole numbers; the tolerances of 10^-12 and *)
(* 10^-6 are then zero.  Events are given in the order the code sorts them. *)
(***************************************************************************)
EXTENDS Integers, FiniteSets, Sequences, FiniteSetsExt

CONSTANTS
    Token,          \* outcome tokens
    Condition,      \* markets; a market has several tokens
    CondOf,         \* the market of a token
    Scale,          \* units per price tick
    Fee             \* fee of a fill, in units

ASSUME LedgerAssumption ==
    /\ CondOf \in [Token -> Condition]
    /\ Scale \in Nat \ {0}
    /\ Fee \in Nat

Fill(side, tok, price, size) ==
    [kind |-> "FILL", side |-> side, tok |-> tok, price |-> price, size |-> size]

Activity(kind, cond, amount) == [kind |-> kind, cond |-> cond, amount |-> amount]

(* The accumulators of the replay; ok is FALSE after                        *)
(* IncompleteFillLedgerError.                                               *)
EmptyLedger == [ok |-> TRUE, qty |-> [t \in Token |-> 0],
                cost |-> [t \in Token |-> 0], real |-> 0, red |-> {}]

Failed(l) == [l EXCEPT !.ok = FALSE]

Bought(l, e) ==
    [l EXCEPT !.qty[e.tok] = @ + e.size,
              !.cost[e.tok] = @ + e.price * e.size * Scale + Fee]

(* Seeded fault: shares leave the inventory at the price they were sold for. *)
SoldAtPrice(l, e, counts) ==
    IF l.qty[e.tok] = 0 \/ e.size > l.qty[e.tok] THEN Failed(l)
    ELSE [l EXCEPT !.qty[e.tok] = @ - e.size,
                   !.cost[e.tok] = @ - e.price * e.size * Scale,
                   !.real = IF counts THEN @ - Fee ELSE @]

Sold(l, e, counts) ==
    IF l.qty[e.tok] = 0 \/ e.size > l.qty[e.tok] THEN Failed(l)
    ELSE LET released == (l.cost[e.tok] * e.size) \div l.qty[e.tok]
         IN [l EXCEPT !.qty[e.tok] = @ - e.size,
                      !.cost[e.tok] = @ - released,
                      !.real = IF counts
                               THEN @ + e.price * e.size * Scale - Fee - released
                               ELSE @]

(* A redemption closes every token of its market. *)
Redeemed(l, e, counts) ==
    LET held == {t \in Token : CondOf[t] = e.cond /\ l.qty[t] > 0}
        released == MapThenSumSet(LAMBDA t : l.cost[t], held)
    IN IF held = {} THEN IF e.amount > 0 THEN Failed(l)
                         ELSE [l EXCEPT !.red = @ \cup {e.cond}]
       ELSE [l EXCEPT !.red = @ \cup {e.cond},
                      !.real = IF counts THEN @ + e.amount * Scale - released ELSE @,
                      !.qty = [t \in Token |-> IF t \in held THEN 0 ELSE @[t]],
                      !.cost = [t \in Token |-> IF t \in held THEN 0 ELSE @[t]]]

(* One event; a failed ledger stays failed, since the replay has raised. *)
Applied(l, e, counts) ==
    CASE ~l.ok -> l
      [] l.ok /\ e.kind = "FILL" /\ e.side = "BUY" -> Bought(l, e)
      [] l.ok /\ e.kind = "FILL" /\ e.side = "SELL" -> Sold(l, e, counts)
      [] l.ok /\ e.kind = "REDEEM" -> Redeemed(l, e, counts)
      [] OTHER -> Failed(l)

(* The events of history h whose index is in S, realized profit counted     *)
(* from index since on.                                                     *)
Replay(h, S, since) ==
    LET upto[n \in 0 .. Len(h)] ==
            IF n = 0 THEN EmptyLedger
            ELSE IF n \in S THEN Applied(upto[n - 1], h[n], n >= since)
            ELSE upto[n - 1]
    IN upto[Len(h)]

(* activity_quarantine_reason # None, for an activity that occurred at n. *)
Excluded(cond, n, botConditions, baseline, enabled) ==
    /\ cond \notin botConditions
    /\ n < baseline \/ enabled
===============================================================================
