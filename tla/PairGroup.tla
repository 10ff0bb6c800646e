------------------------------ MODULE PairGroup ------------------------------
(***************************************************************************)
(* A pair order group: one YES and one NO entry leg of the same size, plus *)
(* the hedge legs appended to it.  This module holds the two independent   *)
(* implementations of its life cycle as operators: PairOrderManager        *)
(* (execution/order_manager.py) and the checks that the database functions *)
(* of migration 0009 repeat before they store a state.                     *)
(*                                                                         *)
(* A group state is a record [st, ver, inv, leg]: status, version, the     *)
(* stored inventory columns and the legs.  Prices, fees and average fill    *)
(* prices are left out, and so are leg versions, which only ever advance   *)
(* together with the group's.                                              *)
(***************************************************************************)
EXTENDS Integers, FiniteSets, FiniteSetsExt

CONSTANTS
    Target,     \* target_pair_size, the size of both entry legs
    MaxHedges   \* bound: hedge legs that may be appended to the group

ASSUME PairAssumption == Target \in Nat \ {0} /\ MaxHedges \in Nat

Yes   == 1
No    == 2
Entry == {Yes, No}
Hedge == 3 .. (2 + MaxHedges)
Leg   == Entry \cup Hedge

(* "none" is a leg, or a group, that has not been stored yet. *)
LegStatus == {"none", "planned", "open", "partially_filled", "filled",
              "cancel_pending", "cancelled", "rejected"}

LegRecord == [st : LegStatus, out : Entry, size : 0 .. Target,
              filled : 0 .. Target, id : BOOLEAN]

GroupStatus == {"none", "planned", "working", "imbalanced", "cancelling",
                "hedging", "paired", "cancelled", "frozen", "failed"}

Inventory == [paired : 0 .. Target, yes : Nat, no : Nat]

NoLeg == [st |-> "none", out |-> Yes, size |-> 0, filled |-> 0, id |-> FALSE]

NewLeg(o, n) == [st |-> "planned", out |-> o, size |-> n, filled |-> 0, id |-> FALSE]

PlannedLegs == [l \in Leg |-> IF l \in Entry THEN NewLeg(l, Target) ELSE NoLeg]

Stored(legs) == {l \in Leg : legs[l].st # "none"}

HedgeLegs(legs) == Stored(legs) \cap Hedge

(* The shares of outcome o: the k-th one that leg l bought is <<l, k>>. *)
SharesOf(legs, o) ==
    {x \in Leg \X (1 .. Target) : legs[x[1]].out = o /\ x[2] <= legs[x[1]].filled}

(* _bought_by_outcome: every leg of a pair group buys. *)
Bought(legs, o) == Cardinality(SharesOf(legs, o))

(* The inventory columns: paired_size, directional_yes_size, directional_no_size. *)
InventoryOf(legs) ==
    LET y == Bought(legs, Yes)
        n == Bought(legs, No)
    IN  [paired |-> Min({y, n, Target}), yes |-> Max({y - n, 0}), no |-> Max({n - y, 0})]

Even(inv) == inv.yes = 0 /\ inv.no = 0

Terminal(legs, l) == legs[l].st \in {"filled", "cancelled", "rejected"}

-----------------------------------------------------------------------------
(* PairOrderManager *)

(* _refresh_inventory, the status part *)
RefreshedStatus(st, legs, preserve) ==
    LET inv == InventoryOf(legs) IN
    IF st = "hedging" /\ HedgeLegs(legs) # {} /\ \A l \in HedgeLegs(legs) : Terminal(legs, l)
    THEN IF inv.paired > 0 /\ Even(inv) THEN "paired" ELSE "frozen"
    ELSE IF st \in {"cancelled", "paired"} /\ ~Even(inv) THEN "frozen"
    ELSE IF preserve \/ st \in {"cancelling", "hedging", "frozen", "failed"} THEN st
    ELSE IF inv.paired >= Target /\ Even(inv) THEN "paired"
    ELSE IF ~Even(inv) THEN "imbalanced"
    ELSE "working"

Refreshed(s, preserve) ==
    [s EXCEPT !.st = RefreshedStatus(s.st, s.leg, preserve), !.inv = InventoryOf(s.leg)]

(* record_submission *)
RecordSubmission(s, accepted) ==
    LET legs == [l \in Leg |->
            IF l \notin Entry THEN s.leg[l]
            ELSE IF l \in accepted THEN [s.leg[l] EXCEPT !.st = "open", !.id = TRUE]
            ELSE [s.leg[l] EXCEPT !.st = "rejected"]]
        st == IF accepted = Entry THEN "working"
              ELSE IF accepted # {} THEN "imbalanced" ELSE "failed"
    IN  Refreshed([s EXCEPT !.st = st, !.leg = legs], TRUE)

FilledLegStatus(leg) ==
    IF leg.filled + 1 = leg.size THEN "filled"
    ELSE IF leg.st \in {"cancelled", "cancel_pending"} THEN leg.st
    ELSE "partially_filled"

(* record_fill for a fill of one share of leg l *)
RecordFill(s, l) ==
    LET leg == [s.leg[l] EXCEPT !.filled = @ + 1, !.st = FilledLegStatus(s.leg[l])]
    IN  Refreshed([s EXCEPT !.leg[l] = leg], FALSE)

(* freeze_after_hedge_failure *)
Freeze(s) == [s EXCEPT !.st = "frozen"]

(* record_hedge_submission: the hedge leg opens, or the group is frozen. *)
RecordHedge(s, h, accepted) ==
    IF accepted
    THEN [s EXCEPT !.leg[h] = [s.leg[h] EXCEPT !.st = "open", !.id = TRUE]]
    ELSE Freeze([s EXCEPT !.leg[h] = [s.leg[h] EXCEPT !.st = "rejected"]])

(* Seeded fault: what is left directional is not looked at. *)
TerminalIgnoresDirection(s) ==
    LET r == Refreshed(s, TRUE) IN
    [r EXCEPT !.st = IF r.inv.paired > 0 THEN "paired" ELSE "cancelled"]

(* _terminal_without_working_orders *)
TerminalState(s) ==
    LET r == Refreshed(s, TRUE) IN
    [r EXCEPT !.st = IF ~Even(r.inv) THEN "frozen"
                     ELSE IF r.inv.paired > 0 THEN "paired" ELSE "cancelled"]

(* Seeded fault: on_leg_deadline goes on with a frozen group. *)
SettledNotFrozen == {"paired", "cancelled", "failed"}

(* on_leg_deadline leaves these groups alone ... *)
Settled == {"paired", "cancelled", "frozen", "failed"}

(* Seeded fault: a partially filled leg is not cancelled. *)
CancellableOpen(s) ==
    {l \in Leg : s.leg[l].id /\ s.leg[l].filled < s.leg[l].size /\ s.leg[l].st = "open"}

(* ... and cancels these legs of the others. *)
Cancellable(s) ==
    {l \in Leg : /\ s.leg[l].id
                 /\ s.leg[l].filled < s.leg[l].size
                 /\ s.leg[l].st \in {"open", "partially_filled"}}

CancelPending(s) ==
    [s EXCEPT !.st = "cancelling",
              !.leg = [l \in Leg |-> IF l \in Cancellable(s)
                                     THEN [s.leg[l] EXCEPT !.st = "cancel_pending"]
                                     ELSE s.leg[l]]]

(* confirm_cancellations: the cancelled legs, then what is left to do *)
CancelsConfirmed(s, ids) ==
    Refreshed([s EXCEPT !.leg = [l \in Leg |->
        IF l \in ids /\ s.leg[l].st = "cancel_pending"
        THEN [s.leg[l] EXCEPT !.st = "cancelled"] ELSE s.leg[l]]], TRUE)

StillPending(s) == \E l \in Leg : s.leg[l].st = "cancel_pending"

NextHedge(s) == Hedge \ Stored(s.leg)

WantsHedge(s) == ~StillPending(s) /\ ~Even(s.inv)

(* A hedge leg buys what is missing of the outcome that was bought less. *)
WithHedge(s, h) ==
    LET missing == IF s.inv.yes > 0 THEN No ELSE Yes
    IN  [s EXCEPT !.st = "hedging", !.leg[h] = NewLeg(missing, s.inv.yes + s.inv.no)]

(* The group after confirm_cancellations: waiting, terminal, frozen for want *)
(* of a bounded hedge, or hedging with leg h.                                *)
WithoutHedge(s) ==
    IF StillPending(s) THEN s ELSE IF Even(s.inv) THEN TerminalState(s) ELSE Freeze(s)

-----------------------------------------------------------------------------
(* Migration 0009 *)

(* commit_pair_group_transition over the durable group d *)
TransitionAccepts(d, s) ==
    /\ s.inv = InventoryOf(s.leg)
    /\ Stored(d.leg) \subseteq Stored(s.leg)
    /\ Cardinality(Stored(s.leg) \ Stored(d.leg)) <= 1
    /\ \A l \in Stored(s.leg) \ Stored(d.leg) :
          l \in Hedge /\ s.leg[l].filled = 0 /\ s.leg[l].st = "planned"
    /\ \A l \in Stored(d.leg) :
          /\ s.leg[l].filled = d.leg[l].filled
          /\ s.leg[l].size = d.leg[l].size
          /\ s.leg[l].out = d.leg[l].out

(* commit_pair_fill: the status it computes from the durable group *)
ExpectedGroupStatus(st, legs) ==
    LET y == Bought(legs, Yes)
        n == Bought(legs, No)
    IN  IF st \in {"frozen", "failed", "cancelling"} THEN st
        ELSE IF st = "hedging" /\ \E l \in HedgeLegs(legs) : ~Terminal(legs, l) THEN st
        ELSE IF st = "hedging" THEN IF y = n /\ y > 0 THEN "paired" ELSE "frozen"
        ELSE IF st \in {"cancelled", "paired"} /\ y # n THEN "frozen"
        ELSE IF y = n /\ y >= Target THEN "paired"
        ELSE IF y # n THEN "imbalanced"
        ELSE "working"

ExpectedLegStatus(leg) ==
    CASE leg.filled + 1 = leg.size                              -> "filled"
      [] leg.filled + 1 # leg.size /\ leg.st = "cancelled"      -> "cancelled"
      [] leg.filled + 1 # leg.size /\ leg.st = "cancel_pending" -> "cancel_pending"
      [] OTHER                                                  -> "partially_filled"

(* commit_pair_fill: does it take payload s for a fill of leg l? *)
FillAccepts(d, l, s) ==
    /\ d.leg[l].st # "none"
    /\ d.leg[l].filled + 1 <= d.leg[l].size
    /\ s.leg = [d.leg EXCEPT ![l] = [d.leg[l] EXCEPT !.filled = @ + 1,
                                                     !.st = ExpectedLegStatus(d.leg[l])]]
    /\ s.inv = InventoryOf(s.leg)
    /\ s.st = ExpectedGroupStatus(d.st, s.leg)
=============================================================================
