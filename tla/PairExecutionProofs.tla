------------------------- MODULE PairExecutionProofs -------------------------
(***************************************************************************)
(* Safety of PairExecution, for any number of process_deadline calls,      *)
(* hedges and faults, and whether or not a trade may be delivered before   *)
(* its order's id is stored.                                               *)
(*                                                                         *)
(* The state that a task computes from is a copy of the group that it read *)
(* in two statements.  The copy is out of date, or it is the durable group *)
(* (Copy): between the group row and the legs nobody can have stored       *)
(* anything without advancing the version that was read first.  So a task  *)
(* that wins the compare-and-set has computed from the durable group, and  *)
(* only the transitions of that one group need to be looked at: each       *)
(* leaves what was bought alone (Alike, Follows), and a fill adds a share  *)
(* to one leg and to one outcome (ApplyIs).                                *)
(*                                                                         *)
(* What was bought is related to what the exchange executed through the    *)
(* statuses of the legs (ExposureInv): a leg whose stored status is final  *)
(* has no open order, and every trade of it was seen (Known), if no trade  *)
(* is delivered before its order's id is stored.                           *)
(***************************************************************************)
EXTENDS PairExecution, TLAPS, FiniteSetTheorems

-----------------------------------------------------------------------------
(* Groups *)

(* A leg as the proofs need it: nothing is said of how large a hedge may be. *)
LegRec == [st : LegStatus, out : Entry, size : Nat, filled : 0 .. Target, id : BOOLEAN]

GroupRec == [st : GroupStatus, ver : Nat, inv : Inventory, leg : [Leg -> LegRec]]

(* Legs that are not stored have no id and have bought nothing. *)
LegsOK(legs) ==
    /\ legs \in [Leg -> LegRec]
    /\ \A l \in Leg : legs[l].st = "none" => legs[l].filled = 0 /\ legs[l].id = FALSE

GroupOK(d) ==
    /\ d \in GroupRec
    /\ LegsOK(d.leg)
    /\ d.st = "hedging" => HedgeLegs(d.leg) # {}

LEMMA LegFields ==
    ASSUME NEW g \in LegRec
    PROVE  /\ g.st \in LegStatus /\ g.out \in Entry /\ g.size \in Nat
           /\ g.filled \in 0 .. Target /\ g.filled \in Nat /\ g.id \in BOOLEAN
BY PairAssumption DEF LegRec

LEMMA GroupFields ==
    ASSUME NEW d \in GroupRec
    PROVE  d.st \in GroupStatus /\ d.ver \in Nat /\ d.inv \in Inventory /\ d.leg \in [Leg -> LegRec]
BY DEF GroupRec

LEMMA LegFacts == Entry = {1, 2} /\ Yes = 1 /\ No = 2 /\ Yes # No /\ Entry \subseteq Leg
BY DEF Entry, Yes, No, Leg

-----------------------------------------------------------------------------
(* What was bought *)

LEMMA FillFinite == IsFiniteSet(Leg) /\ IsFiniteSet(Fill)
<1>1. 3 \in Int /\ 2 + MaxHedges \in Int /\ 1 \in Int /\ Target \in Int
  BY PairAssumption
<1>2. IsFiniteSet(3 .. (2 + MaxHedges)) /\ IsFiniteSet(1 .. Target)
  BY <1>1, FS_Interval
<1>3. IsFiniteSet({1, 2})
  <2>1. {1, 2} = 1 .. 2
    OBVIOUS
  <2>2. 1 \in Int /\ 2 \in Int
    OBVIOUS
  <2>3. IsFiniteSet(1 .. 2)
    BY <2>2, FS_Interval
  <2> QED BY <2>1, <2>3
<1>4. IsFiniteSet(Leg)
  BY <1>2, <1>3, FS_Union DEF Leg, Entry, Yes, No, Hedge
<1>5. IsFiniteSet(Fill)
  BY <1>2, <1>4, FS_Product DEF Fill
<1> QED BY <1>4, <1>5

LEMMA BoughtIs ==
    ASSUME NEW legs, NEW o
    PROVE  IsFiniteSet(SharesOf(legs, o)) /\ Bought(legs, o) \in Nat
<1>1. SharesOf(legs, o) \subseteq Fill
  BY DEF SharesOf, Fill
<1> QED BY <1>1, FillFinite, FS_Subset, FS_CardinalityType DEF Bought

(* Legs that bought the same. *)
LEMMA BoughtSame ==
    ASSUME NEW legs \in [Leg -> LegRec], NEW more \in [Leg -> LegRec],
           \A l \in Leg : more[l].filled = legs[l].filled,
           \A l \in Leg : legs[l].filled # 0 => more[l].out = legs[l].out
    PROVE  /\ \A o : Bought(more, o) = Bought(legs, o)
           /\ InventoryOf(more) = InventoryOf(legs)
<1>1. ASSUME NEW o PROVE SharesOf(more, o) = SharesOf(legs, o)
  <2>1. ASSUME NEW x \in Leg \X (1 .. Target), x[2] <= legs[x[1]].filled
        PROVE  more[x[1]].out = legs[x[1]].out
    <3>1. x[1] \in Leg /\ x[2] \in 1 .. Target /\ legs[x[1]].filled \in Nat
      BY LegFields
    <3> QED BY <2>1, <3>1, PairAssumption
  <2> QED BY <2>1 DEF SharesOf
<1>2. \A o : Bought(more, o) = Bought(legs, o)
  BY <1>1 DEF Bought
<1>3. Bought(more, Yes) = Bought(legs, Yes) /\ Bought(more, No) = Bought(legs, No)
  BY <1>2
<1> QED BY <1>2, <1>3 DEF InventoryOf

(* Legs that bought one share more, in leg l. *)
LEMMA BoughtMore ==
    ASSUME NEW legs \in [Leg -> LegRec], NEW more \in [Leg -> LegRec], NEW l \in Leg,
           legs[l].filled + 1 <= Target, more[l].filled = legs[l].filled + 1,
           more[l].out = legs[l].out,
           \A m \in Leg \ {l} : more[m].filled = legs[m].filled /\ more[m].out = legs[m].out,
           NEW o
    PROVE  Bought(more, o) = Bought(legs, o) + IF legs[l].out = o THEN 1 ELSE 0
<1> DEFINE f == <<l, legs[l].filled + 1>>
<1>1. legs[l].filled \in Nat /\ \A m \in Leg : legs[m].filled \in Nat
  BY LegFields
<1>2. f \in Leg \X (1 .. Target) /\ f[1] = l /\ f[2] = legs[l].filled + 1
  BY <1>1, PairAssumption
<1>3. \A x \in Leg \X (1 .. Target) :
         /\ x[1] \in Leg /\ x[2] \in Nat
         /\ x[1] = l /\ x[2] = legs[l].filled + 1 => x = f
  BY PairAssumption
<1>4. f \notin SharesOf(legs, o)
  BY <1>1, <1>2 DEF SharesOf
<1> HIDE DEF f
<1>5. CASE legs[l].out = o
  <2>1. SharesOf(more, o) = SharesOf(legs, o) \cup {f}
    <3>1. ASSUME NEW x \in SharesOf(more, o) PROVE x \in SharesOf(legs, o) \cup {f}
      <4>1. x \in Leg \X (1 .. Target) /\ more[x[1]].out = o /\ x[2] <= more[x[1]].filled
        BY DEF SharesOf
      <4>2. CASE x[1] # l
        BY <1>3, <4>1, <4>2 DEF SharesOf
      <4>3. CASE x[1] = l
        BY <1>1, <1>3, <1>5, <4>1, <4>3 DEF SharesOf
      <4> QED BY <4>2, <4>3
    <3>2. ASSUME NEW x \in SharesOf(legs, o) PROVE x \in SharesOf(more, o)
      <4>1. x \in Leg \X (1 .. Target) /\ legs[x[1]].out = o /\ x[2] <= legs[x[1]].filled
        BY DEF SharesOf
      <4>2. x[2] <= more[x[1]].filled /\ more[x[1]].out = o
        BY <1>1, <1>3, <4>1
      <4> QED BY <4>1, <4>2 DEF SharesOf
    <3>3. f \in SharesOf(more, o)
      BY <1>1, <1>2, <1>5 DEF SharesOf
    <3> QED BY <3>1, <3>2, <3>3
  <2> QED BY ZenonT(60), <1>4, <1>5, <2>1, BoughtIs, FS_AddElement DEF Bought
<1>6. CASE legs[l].out # o
  <2>1. SharesOf(more, o) = SharesOf(legs, o)
    <3>1. \A x \in Leg \X (1 .. Target) : more[x[1]].out = o => x[1] # l
      BY <1>6
    <3>2. \A x \in Leg \X (1 .. Target) : legs[x[1]].out = o => x[1] # l
      BY <1>6
    <3> QED BY <1>3, <3>1, <3>2 DEF SharesOf
  <2>2. Bought(more, o) = Bought(legs, o) /\ Bought(legs, o) \in Nat
    BY <2>1, BoughtIs DEF Bought
  <2> QED BY <1>6, <2>2
<1> QED BY <1>5, <1>6

LEMMA LeastOfThree ==
    ASSUME NEW a \in Nat, NEW b \in Nat, NEW c \in Nat
    PROVE  /\ Min({a, b, c}) \in {a, b, c}
           /\ Min({a, b, c}) <= a /\ Min({a, b, c}) <= b /\ Min({a, b, c}) <= c
<1>1. \E x \in {a, b, c} : \A y \in {a, b, c} : x <= y
  OBVIOUS
<1>2. Min({a, b, c}) \in {a, b, c} /\ \A y \in {a, b, c} : Min({a, b, c}) =< y
  BY <1>1 DEF Min
<1> QED BY <1>2

LEMMA PositivePart ==
    ASSUME NEW a \in Int
    PROVE  Max({a, 0}) = IF a >= 0 THEN a ELSE 0
<1>1. \E x \in {a, 0} : \A y \in {a, 0} : x >= y
  OBVIOUS
<1>2. Max({a, 0}) \in {a, 0} /\ \A y \in {a, 0} : Max({a, 0}) >= y
  BY <1>1 DEF Max
<1> QED BY <1>2

LEMMA LeastIn ==
    ASSUME NEW T, T \subseteq Nat, T # {}
    PROVE  Min(T) \in T
<1>1. PICK x \in T : \A y \in T : ~ (<<y, x>> \in OpToRel(<, Nat))
  BY NatLessThanWellFounded, WFMin
<1>2. \A y \in T : ~ (y < x)
  BY <1>1 DEF OpToRel
<1>3. \A y \in T : x =< y
  BY <1>2
<1> QED BY <1>3 DEF Min

(* What the three columns say of the two sums. *)
LEMMA InventoryIs ==
    ASSUME NEW legs, NEW y, NEW n, y = Bought(legs, Yes), n = Bought(legs, No)
    PROVE  /\ InventoryOf(legs) \in Inventory
           /\ Even(InventoryOf(legs)) <=> y = n
           /\ InventoryOf(legs).paired > 0 <=> y > 0 /\ n > 0
           /\ InventoryOf(legs).paired >= Target <=> y >= Target /\ n >= Target
           /\ y \in Nat /\ n \in Nat
<1> DEFINE p == Min({y, n, Target})
           u == Max({y - n, 0})
           v == Max({n - y, 0})
<1>1. y \in Nat /\ n \in Nat /\ Target \in Nat /\ Target > 0
  BY BoughtIs, PairAssumption
<1>2. p \in {y, n, Target} /\ p <= y /\ p <= n /\ p <= Target
  BY <1>1, LeastOfThree
<1>3. u = IF y - n >= 0 THEN y - n ELSE 0
  BY <1>1, PositivePart
<1>4. v = IF n - y >= 0 THEN n - y ELSE 0
  BY <1>1, PositivePart
<1>5. InventoryOf(legs) = [paired |-> p, yes |-> u, no |-> v]
  BY DEF InventoryOf
<1> HIDE DEF p, u, v
<1>6. p \in 0 .. Target /\ u \in Nat /\ v \in Nat
  BY <1>1, <1>2, <1>3, <1>4
<1>7. /\ InventoryOf(legs) \in Inventory /\ InventoryOf(legs).paired = p
      /\ InventoryOf(legs).yes = u /\ InventoryOf(legs).no = v
  BY <1>5, <1>6 DEF Inventory
<1>8. Even(InventoryOf(legs)) <=> y = n
  BY <1>1, <1>3, <1>4, <1>7 DEF Even
<1>9. /\ p > 0 <=> (y > 0 /\ n > 0)
      /\ p >= Target <=> (y >= Target /\ n >= Target)
  BY <1>1, <1>2
<1> QED BY <1>1, <1>7, <1>8, <1>9

-----------------------------------------------------------------------------
(* What the transitions make of a group *)

(* A group as it is stored: its inventory columns are those of its legs. *)
GroupInv(d) == GroupOK(d) /\ d.inv = InventoryOf(d.leg)

(* s is d with other statuses; no leg was added and none bought anything. *)
Alike(d, s) ==
    /\ s \in GroupRec /\ s.ver = d.ver
    /\ \A l \in Leg : /\ s.leg[l].filled = d.leg[l].filled /\ s.leg[l].size = d.leg[l].size
                      /\ s.leg[l].out = d.leg[l].out
                      /\ s.leg[l].st = "none" <=> d.leg[l].st = "none"
                      /\ s.leg[l].st = "none" => s.leg[l].id = d.leg[l].id
    /\ s.inv = InventoryOf(s.leg)
    /\ s.st = "hedging" => d.st = "hedging"

LEMMA AlikeIsTaken ==
    ASSUME NEW d, GroupInv(d), NEW s, Alike(d, s)
    PROVE  GroupInv(s) /\ TransitionAccepts(d, s) /\ s.inv = d.inv
<1>1. /\ d \in GroupRec /\ s \in GroupRec
      /\ d.leg \in [Leg -> LegRec] /\ s.leg \in [Leg -> LegRec]
  BY GroupFields DEF GroupInv, GroupOK, Alike
<1>2. Stored(s.leg) = Stored(d.leg) /\ HedgeLegs(s.leg) = HedgeLegs(d.leg)
  BY DEF Stored, HedgeLegs, Alike
<1>3. InventoryOf(s.leg) = InventoryOf(d.leg)
  BY <1>1, BoughtSame DEF Alike
<1>4. Cardinality(Stored(s.leg) \ Stored(d.leg)) <= 1
  BY <1>2, FS_EmptySet
<1>5. LegsOK(s.leg)
  BY <1>1 DEF Alike, LegsOK, GroupInv, GroupOK
<1>6. GroupInv(s) /\ s.inv = d.inv
  BY <1>1, <1>2, <1>3, <1>5 DEF GroupInv, GroupOK, Alike
<1>7. TransitionAccepts(d, s)
  BY <1>2, <1>3, <1>4 DEF TransitionAccepts, Alike, Stored
<1> QED BY <1>6, <1>7

LEMMA StatusFacts ==
    /\ {"none", "planned", "open", "partially_filled", "filled", "cancel_pending",
        "cancelled", "rejected"} = LegStatus
    /\ {"none", "planned", "working", "imbalanced", "cancelling", "hedging", "paired",
        "cancelled", "frozen", "failed"} = GroupStatus
BY DEF LegStatus, GroupStatus

LEMMA RefreshedStatusIs ==
    ASSUME NEW st \in GroupStatus, NEW legs, NEW p
    PROVE  /\ RefreshedStatus(st, legs, p) \in GroupStatus
           /\ RefreshedStatus(st, legs, p) = "hedging" => st = "hedging"
BY StatusFacts DEF RefreshedStatus

LEMMA RefreshedIs ==
    ASSUME NEW d \in GroupRec, NEW p
    PROVE  /\ Refreshed(d, p) \in GroupRec /\ Refreshed(d, p).ver = d.ver
           /\ Refreshed(d, p).leg = d.leg /\ Refreshed(d, p).inv = InventoryOf(d.leg)
           /\ Refreshed(d, p).st = RefreshedStatus(d.st, d.leg, p)
<1>1. RefreshedStatus(d.st, d.leg, p) \in GroupStatus /\ InventoryOf(d.leg) \in Inventory
  BY GroupFields, RefreshedStatusIs, InventoryIs
<1> DEFINE st == RefreshedStatus(d.st, d.leg, p)
           inv == InventoryOf(d.leg)
<1>2. Refreshed(d, p) = [d EXCEPT !.st = st, !.inv = inv]
  BY DEF Refreshed
<1>3. st \in GroupStatus /\ inv \in Inventory
  BY <1>1
<1> HIDE DEF st, inv
<1>4. /\ [d EXCEPT !.st = st, !.inv = inv] \in GroupRec
      /\ [d EXCEPT !.st = st, !.inv = inv].ver = d.ver
      /\ [d EXCEPT !.st = st, !.inv = inv].leg = d.leg
      /\ [d EXCEPT !.st = st, !.inv = inv].inv = inv
      /\ [d EXCEPT !.st = st, !.inv = inv].st = st
  BY <1>3 DEF GroupRec
<1> QED BY <1>2, <1>4 DEF st, inv

LEMMA FreezeIs ==
    ASSUME NEW d, GroupInv(d)
    PROVE  Alike(d, Freeze(d))
<1>1. /\ d \in GroupRec /\ d.inv = InventoryOf(d.leg)
  BY DEF GroupInv, GroupOK
<1>2. /\ Freeze(d) \in GroupRec /\ Freeze(d).leg = d.leg /\ Freeze(d).inv = d.inv
      /\ Freeze(d).st = "frozen" /\ Freeze(d).ver = d.ver
  BY <1>1, StatusFacts DEF Freeze, GroupRec
<1> QED BY <1>1, <1>2 DEF Alike

LEMMA TerminalIs ==
    ASSUME NEW d, GroupInv(d)
    PROVE  Alike(d, TerminalState(d))
<1>1. d \in GroupRec
  BY DEF GroupInv, GroupOK
<1> DEFINE r == Refreshed(d, TRUE)
           st == IF ~Even(r.inv) THEN "frozen"
                 ELSE IF r.inv.paired > 0 THEN "paired" ELSE "cancelled"
<1>2. r \in GroupRec /\ r.leg = d.leg /\ r.inv = InventoryOf(d.leg) /\ r.ver = d.ver
  BY <1>1, RefreshedIs
<1>3. TerminalState(d) = [r EXCEPT !.st = st]
  BY DEF TerminalState
<1>4. st \in GroupStatus /\ st # "hedging"
  BY StatusFacts
<1> HIDE DEF r, st
<1>5. /\ [r EXCEPT !.st = st] \in GroupRec /\ [r EXCEPT !.st = st].leg = r.leg
      /\ [r EXCEPT !.st = st].inv = r.inv /\ [r EXCEPT !.st = st].st = st
      /\ [r EXCEPT !.st = st].ver = r.ver
  BY <1>2, <1>4 DEF GroupRec
<1>6. /\ TerminalState(d) \in GroupRec /\ TerminalState(d).leg = d.leg
      /\ TerminalState(d).inv = InventoryOf(d.leg) /\ TerminalState(d).st = st
      /\ TerminalState(d).ver = d.ver
  BY <1>2, <1>3, <1>5
<1> QED BY <1>4, <1>6 DEF Alike

(* Legs under new statuses. *)
Restated(legs, L, st) ==
    [l \in Leg |-> IF l \in L THEN [legs[l] EXCEPT !.st = st] ELSE legs[l]]

LEMMA RestatedLegs ==
    ASSUME NEW legs \in [Leg -> LegRec], NEW L \in SUBSET Leg, NEW st \in LegStatus \ {"none"},
           \A l \in L : legs[l].st # "none"
    PROVE  /\ Restated(legs, L, st) \in [Leg -> LegRec]
           /\ \A l \in Leg :
                /\ Restated(legs, L, st)[l].filled = legs[l].filled
                /\ Restated(legs, L, st)[l].size = legs[l].size
                /\ Restated(legs, L, st)[l].out = legs[l].out
                /\ Restated(legs, L, st)[l].st = "none" <=> legs[l].st = "none"
                /\ Restated(legs, L, st)[l].id = legs[l].id
<1> DEFINE more == Restated(legs, L, st)
<1>1. ASSUME NEW l \in Leg
      PROVE  /\ more[l] \in LegRec
             /\ more[l].filled = legs[l].filled /\ more[l].size = legs[l].size
             /\ more[l].out = legs[l].out
             /\ more[l].st = "none" <=> legs[l].st = "none"
             /\ more[l].id = legs[l].id
  <2>1. legs[l] \in LegRec
    OBVIOUS
  <2>2. CASE l \in L
    <3>1. more[l] = [legs[l] EXCEPT !.st = st]
      BY <2>2 DEF Restated
    <3> HIDE DEF more
    <3> QED BY <2>1, <2>2, <3>1 DEF LegRec
  <2>3. CASE l \notin L
    <3>1. more[l] = legs[l]
      BY <2>3 DEF Restated
    <3> QED BY <2>1, <3>1
  <2> QED BY <2>2, <2>3
<1>2. more = [l \in Leg |-> more[l]]
  BY DEF Restated
<1> HIDE DEF more
<1>3. more \in [Leg -> LegRec]
  BY <1>1, <1>2
<1> QED BY <1>1, <1>3 DEF more

LEMMA CancelPendingIs ==
    ASSUME NEW d, GroupInv(d)
    PROVE  Alike(d, CancelPending(d))
<1>1. d \in GroupRec /\ d.leg \in [Leg -> LegRec] /\ d.inv = InventoryOf(d.leg)
  BY GroupFields DEF GroupInv, GroupOK
<1> DEFINE L == Cancellable(d)
           legs == Restated(d.leg, L, "cancel_pending")
<1>2. L \in SUBSET Leg /\ \A l \in L : d.leg[l].st # "none"
  BY DEF Cancellable
<1>3. /\ legs \in [Leg -> LegRec]
      /\ \A l \in Leg : /\ legs[l].filled = d.leg[l].filled /\ legs[l].size = d.leg[l].size
                        /\ legs[l].out = d.leg[l].out
                        /\ legs[l].st = "none" <=> d.leg[l].st = "none"
                        /\ legs[l].id = d.leg[l].id
  <2>1. "cancel_pending" \in LegStatus \ {"none"}
    BY StatusFacts
  <2> HIDE DEF L
  <2> QED BY SMTT(60), <1>1, <1>2, <2>1, RestatedLegs
<1>4. CancelPending(d) = [d EXCEPT !.st = "cancelling", !.leg = legs]
  BY DEF CancelPending, Restated
<1> HIDE DEF legs
<1>5. /\ CancelPending(d) \in GroupRec /\ CancelPending(d).leg = legs
      /\ CancelPending(d).inv = d.inv /\ CancelPending(d).st = "cancelling"
      /\ CancelPending(d).ver = d.ver
  BY <1>1, <1>3, <1>4, StatusFacts DEF GroupRec
<1>6. InventoryOf(legs) = InventoryOf(d.leg)
  BY <1>1, <1>3, BoughtSame
<1> QED BY <1>1, <1>3, <1>5, <1>6 DEF Alike

LEMMA CancelsConfirmedIs ==
    ASSUME NEW d, GroupInv(d), NEW ids
    PROVE  Alike(d, CancelsConfirmed(d, ids))
<1>1. d \in GroupRec /\ d.leg \in [Leg -> LegRec] /\ d.inv = InventoryOf(d.leg)
  BY GroupFields DEF GroupInv, GroupOK
<1> DEFINE L == {l \in Leg : l \in ids /\ d.leg[l].st = "cancel_pending"}
           legs == Restated(d.leg, L, "cancelled")
           e == [d EXCEPT !.leg = legs]
<1>2. /\ legs \in [Leg -> LegRec]
      /\ \A l \in Leg : /\ legs[l].filled = d.leg[l].filled /\ legs[l].size = d.leg[l].size
                        /\ legs[l].out = d.leg[l].out
                        /\ legs[l].st = "none" <=> d.leg[l].st = "none"
                        /\ legs[l].id = d.leg[l].id
  <2>1. "cancelled" \in LegStatus \ {"none"}
    BY StatusFacts
  <2>2. L \in SUBSET Leg /\ \A l \in L : d.leg[l].st # "none"
    OBVIOUS
  <2> HIDE DEF L
  <2> QED BY <1>1, <2>1, <2>2, RestatedLegs
<1>3. CancelsConfirmed(d, ids) = Refreshed(e, TRUE)
  <2>1. [l \in Leg |-> IF l \in ids /\ d.leg[l].st = "cancel_pending"
                       THEN [d.leg[l] EXCEPT !.st = "cancelled"] ELSE d.leg[l]] = legs
    BY DEF Restated
  <2> QED BY <2>1 DEF CancelsConfirmed
<1> HIDE DEF legs
<1>4. e \in GroupRec /\ e.leg = legs /\ e.st = d.st /\ e.ver = d.ver
  BY <1>1, <1>2 DEF GroupRec
<1> HIDE DEF e
<1>5. /\ CancelsConfirmed(d, ids) \in GroupRec /\ CancelsConfirmed(d, ids).leg = legs
      /\ CancelsConfirmed(d, ids).inv = InventoryOf(legs)
      /\ CancelsConfirmed(d, ids).st = RefreshedStatus(d.st, legs, TRUE)
      /\ CancelsConfirmed(d, ids).ver = d.ver
  <2>1. /\ Refreshed(e, TRUE) \in GroupRec /\ Refreshed(e, TRUE).leg = e.leg
        /\ Refreshed(e, TRUE).inv = InventoryOf(e.leg)
        /\ Refreshed(e, TRUE).st = RefreshedStatus(e.st, e.leg, TRUE)
        /\ Refreshed(e, TRUE).ver = e.ver
    BY <1>4, RefreshedIs
  <2> QED BY <1>3, <1>4, <2>1
<1>6. CancelsConfirmed(d, ids).st = "hedging" => d.st = "hedging"
  BY <1>1, <1>5, GroupFields, RefreshedStatusIs
<1> QED BY <1>2, <1>5, <1>6 DEF Alike

LEMMA AlikeChain ==
    ASSUME NEW d, NEW s, Alike(d, s), NEW t, Alike(s, t)
    PROVE  Alike(d, t)
BY DEF Alike

LEMMA WithoutHedgeIs ==
    ASSUME NEW d, GroupInv(d), NEW ids
    PROVE  Alike(d, WithoutHedge(CancelsConfirmed(d, ids)))
<1> DEFINE s == CancelsConfirmed(d, ids)
<1>1. Alike(d, s) /\ GroupInv(s)
  BY CancelsConfirmedIs, AlikeIsTaken
<1> HIDE DEF s
<1>2. Alike(s, TerminalState(s)) /\ Alike(s, Freeze(s))
  BY <1>1, TerminalIs, FreezeIs
<1>3. Alike(d, TerminalState(s)) /\ Alike(d, Freeze(s))
  BY <1>1, <1>2, AlikeChain
<1>4. Alike(d, WithoutHedge(s))
  BY <1>1, <1>3 DEF WithoutHedge
<1> QED BY <1>4 DEF s

(* The group with a hedge: one leg more, which has bought nothing. *)
LEMMA WithHedgeIs ==
    ASSUME NEW d, GroupInv(d), NEW ids, NEW h \in NextHedge(CancelsConfirmed(d, ids)),
           NEW n, n = WithHedge(CancelsConfirmed(d, ids), h)
    PROVE  /\ n \in GroupRec /\ n.ver = d.ver /\ LegsOK(n.leg) /\ HedgeLegs(n.leg) # {}
           /\ h \in Hedge /\ h \in Leg /\ n.leg[h].st = "planned"
           /\ \A l \in Leg : /\ n.leg[l].filled = d.leg[l].filled
                             /\ d.leg[l].filled # 0 => n.leg[l].out = d.leg[l].out
                             /\ d.leg[l].st # "none" => n.leg[l].st # "none"
           /\ n.inv = InventoryOf(n.leg)
<1> DEFINE s == CancelsConfirmed(d, ids)
           o == IF s.inv.yes > 0 THEN No ELSE Yes
           g == NewLeg(o, s.inv.yes + s.inv.no)
<1>1. Alike(d, s) /\ GroupInv(s)
  BY CancelsConfirmedIs, AlikeIsTaken
<1>2. /\ s \in GroupRec /\ s.leg \in [Leg -> LegRec] /\ s.inv \in Inventory
      /\ LegsOK(s.leg) /\ s.inv = InventoryOf(s.leg) /\ s.ver = d.ver
  BY <1>1, GroupFields DEF GroupInv, GroupOK, Alike
<1>3. h \in Hedge /\ h \in Leg /\ s.leg[h].st = "none"
  BY DEF NextHedge, Stored, Leg
<1>4. n = [s EXCEPT !.st = "hedging", !.leg[h] = g]
  BY DEF WithHedge
<1>5. g \in LegRec /\ g.filled = 0 /\ g.st = "planned"
  <2>1. o \in Entry
    BY LegFacts
  <2>2. s.inv.yes + s.inv.no \in Nat
    BY <1>2 DEF Inventory
  <2>3. 0 \in 0 .. Target
    BY PairAssumption
  <2> HIDE DEF o, s
  <2> QED BY <2>1, <2>2, <2>3, StatusFacts DEF NewLeg, LegRec
<1>6. s.leg[h].filled = 0
  BY <1>2, <1>3 DEF LegsOK
<1> HIDE DEF s, g
<1> DEFINE legs == [s.leg EXCEPT ![h] = g]
<1>7. /\ n \in GroupRec /\ n.ver = s.ver /\ n.leg = [s.leg EXCEPT ![h] = g] /\ n.inv = s.inv
      /\ n.st = "hedging"
  <2>1. legs \in [Leg -> LegRec]
    BY <1>2, <1>3, <1>5
  <2>2. n = [s EXCEPT !.st = "hedging", !.leg = legs]
    BY <1>4
  <2> HIDE DEF legs
  <2>3. /\ n \in GroupRec /\ n.ver = s.ver /\ n.leg = legs /\ n.inv = s.inv
        /\ n.st = "hedging"
    BY <1>2, <2>1, <2>2, StatusFacts DEF GroupRec
  <2> QED BY <2>3 DEF legs
<1>8. n.leg[h] = g /\ \A l \in Leg \ {h} : n.leg[l] = s.leg[l]
  BY <1>2, <1>3, <1>7
<1>9. \A l \in Leg : /\ n.leg[l].filled = s.leg[l].filled
                     /\ s.leg[l].filled # 0 => n.leg[l].out = s.leg[l].out
  BY <1>5, <1>6, <1>8
<1>10. n.leg \in [Leg -> LegRec]
  BY <1>7, GroupFields
<1>11. n.inv = InventoryOf(n.leg)
  BY <1>2, <1>7, <1>9, <1>10, BoughtSame
<1>12. LegsOK(n.leg)
  BY <1>2, <1>5, <1>8, <1>10 DEF LegsOK
<1>13. h \in HedgeLegs(n.leg)
  BY <1>3, <1>5, <1>8 DEF HedgeLegs, Stored
<1>14. \A l \in Leg : /\ s.leg[l].filled = d.leg[l].filled /\ s.leg[l].out = d.leg[l].out
                      /\ d.leg[l].st # "none" => s.leg[l].st # "none"
  BY <1>1 DEF Alike
<1>15. \A l \in Leg : /\ n.leg[l].filled = d.leg[l].filled
                      /\ d.leg[l].filled # 0 => n.leg[l].out = d.leg[l].out
                      /\ d.leg[l].st # "none" => n.leg[l].st # "none"
  BY <1>3, <1>5, <1>8, <1>9, <1>14
<1> QED BY <1>2, <1>3, <1>5, <1>7, <1>8, <1>11, <1>12, <1>13, <1>15

LEMMA RecordHedgeIs ==
    ASSUME NEW d, GroupInv(d), NEW h \in Leg, d.leg[h].st # "none", NEW a \in BOOLEAN
    PROVE  Alike(d, RecordHedge(d, h, a))
<1>1. d \in GroupRec /\ d.leg \in [Leg -> LegRec] /\ d.inv = InventoryOf(d.leg)
  BY GroupFields DEF GroupInv, GroupOK
<1> DEFINE g == [d.leg[h] EXCEPT !.st = "open", !.id = TRUE]
           b == [d.leg[h] EXCEPT !.st = "rejected"]
<1>2. d.leg[h] \in LegRec
  BY <1>1
<1>3. /\ g \in LegRec /\ g.filled = d.leg[h].filled /\ g.size = d.leg[h].size
      /\ g.out = d.leg[h].out /\ g.st = "open"
  BY <1>2, StatusFacts DEF LegRec
<1>4. /\ b \in LegRec /\ b.filled = d.leg[h].filled /\ b.size = d.leg[h].size
      /\ b.out = d.leg[h].out /\ b.st = "rejected"
  BY <1>2, StatusFacts DEF LegRec
<1>5. RecordHedge(d, h, a) = IF a THEN [d EXCEPT !.leg[h] = g] ELSE Freeze([d EXCEPT !.leg[h] = b])
  BY DEF RecordHedge
<1> HIDE DEF g, b
<1> DEFINE s == [d EXCEPT !.leg[h] = g]
           t == [d EXCEPT !.leg[h] = b]
<1>6. /\ s \in GroupRec /\ s.leg = [d.leg EXCEPT ![h] = g] /\ s.inv = d.inv /\ s.st = d.st
      /\ s.ver = d.ver
  BY <1>1, <1>3 DEF GroupRec
<1>7. /\ t \in GroupRec /\ t.leg = [d.leg EXCEPT ![h] = b] /\ t.inv = d.inv /\ t.st = d.st
      /\ t.ver = d.ver
  BY <1>1, <1>4 DEF GroupRec
<1> HIDE DEF s, t
<1>8. Alike(d, s)
  <2>1. s.leg[h] = g /\ \A l \in Leg \ {h} : s.leg[l] = d.leg[l]
    BY <1>1, <1>6
  <2>2. \A l \in Leg : /\ s.leg[l].filled = d.leg[l].filled /\ s.leg[l].size = d.leg[l].size
                       /\ s.leg[l].out = d.leg[l].out
                       /\ s.leg[l].st = "none" <=> d.leg[l].st = "none"
                       /\ s.leg[l].st = "none" => s.leg[l].id = d.leg[l].id
    BY <1>3, <2>1
  <2>3. InventoryOf(s.leg) = InventoryOf(d.leg)
    BY <1>1, <1>6, <2>2, GroupFields, BoughtSame
  <2> QED BY <1>1, <1>6, <2>2, <2>3 DEF Alike
<1>9. Alike(d, t)
  <2>1. t.leg[h] = b /\ \A l \in Leg \ {h} : t.leg[l] = d.leg[l]
    BY <1>1, <1>7
  <2>2. \A l \in Leg : /\ t.leg[l].filled = d.leg[l].filled /\ t.leg[l].size = d.leg[l].size
                       /\ t.leg[l].out = d.leg[l].out
                       /\ t.leg[l].st = "none" <=> d.leg[l].st = "none"
                       /\ t.leg[l].st = "none" => t.leg[l].id = d.leg[l].id
    BY <1>4, <2>1
  <2>3. InventoryOf(t.leg) = InventoryOf(d.leg)
    BY <1>1, <1>7, <2>2, GroupFields, BoughtSame
  <2> QED BY <1>1, <1>7, <2>2, <2>3 DEF Alike
<1>10. Alike(d, Freeze(t))
  <2>1. GroupInv(t)
    BY <1>9, AlikeIsTaken
  <2> QED BY <1>9, <2>1, FreezeIs, AlikeChain
<1> QED BY <1>5, <1>8, <1>10 DEF s, t

(* Legs of which none has bought anything. *)
LEMMA NothingBought ==
    ASSUME NEW legs, \A l \in Leg : legs[l].filled = 0
    PROVE  /\ \A o : Bought(legs, o) = 0
           /\ InventoryOf(legs) = [paired |-> 0, yes |-> 0, no |-> 0]
<1>1. ASSUME NEW o PROVE SharesOf(legs, o) = {}
  <2>1. ASSUME NEW x \in SharesOf(legs, o) PROVE FALSE
    <3>1. x[1] \in Leg /\ x[2] \in 1 .. Target /\ x[2] <= legs[x[1]].filled
      BY DEF SharesOf
    <3> QED BY <3>1, PairAssumption
  <2> QED BY <2>1
<1>2. \A o : Bought(legs, o) = 0
  BY <1>1, FS_EmptySet DEF Bought
<1>3. Bought(legs, Yes) = 0 /\ Bought(legs, No) = 0
  BY <1>2
<1>4. 0 \in Nat /\ Target \in Nat /\ Target > 0 /\ 0 - 0 = 0 /\ 0 \in Int
  BY PairAssumption
<1>5. Min({0, 0, Target}) = 0
  BY <1>4, LeastOfThree
<1>6. Max({0 - 0, 0}) = 0
  BY <1>4, PositivePart
<1>7. InventoryOf(legs) = [paired |-> Min({0, 0, Target}), yes |-> Max({0 - 0, 0}),
                           no |-> Max({0 - 0, 0})]
  BY <1>3 DEF InventoryOf
<1> QED BY <1>2, <1>5, <1>6, <1>7

LEMMA NoGroupIs ==
    /\ GroupInv(NoGroup) /\ NoGroup \in GroupRec /\ NoGroup.ver = 0
    /\ \A l \in Leg : NoGroup.leg[l] = NoLeg /\ NoGroup.leg[l].filled = 0
    /\ \A o : Bought(NoGroup.leg, o) = 0
<1>1. NoLeg \in LegRec /\ NoLeg.filled = 0 /\ NoLeg.id = FALSE
  BY PairAssumption, StatusFacts, LegFacts DEF NoLeg, LegRec
<1> DEFINE legs == [l \in Leg |-> NoLeg]
           inv == [paired |-> 0, yes |-> 0, no |-> 0]
<1>2. /\ legs \in [Leg -> LegRec] /\ \A l \in Leg : legs[l] = NoLeg
      /\ \A l \in Leg : legs[l].filled = 0 /\ legs[l].id = FALSE
  BY <1>1
<1>3. inv \in Inventory
  BY PairAssumption DEF Inventory
<1>4. NoGroup = [st |-> "none", ver |-> 0, inv |-> inv, leg |-> legs]
  BY DEF NoGroup
<1>5. inv = InventoryOf(legs) /\ \A o : Bought(legs, o) = 0
  BY <1>2, NothingBought
<1> HIDE DEF legs, inv
<1>6. /\ NoGroup \in GroupRec /\ NoGroup.leg = legs /\ NoGroup.inv = inv /\ NoGroup.ver = 0
      /\ NoGroup.st = "none"
  BY <1>2, <1>3, <1>4, StatusFacts DEF GroupRec
<1> QED BY <1>2, <1>5, <1>6 DEF GroupInv, GroupOK, LegsOK

LEMMA PlanIs ==
    /\ GroupInv(PlanState) /\ PlanState.ver = 1
    /\ \A l \in Leg : PlanState.leg[l].filled = 0
    /\ \A l \in Entry : PlanState.leg[l].st = "planned"
    /\ \A o : Bought(PlanState.leg, o) = 0
<1>1. /\ \A l \in Leg : PlannedLegs[l] \in LegRec
      /\ \A l \in Leg : PlannedLegs[l].filled = 0 /\ PlannedLegs[l].id = FALSE
      /\ \A l \in Entry : PlannedLegs[l].st = "planned"
  BY PairAssumption, StatusFacts, LegFacts DEF PlannedLegs, NewLeg, NoLeg, LegRec
<1>2. PlannedLegs \in [Leg -> LegRec]
  BY <1>1 DEF PlannedLegs
<1> DEFINE legs == PlannedLegs
           inv == [paired |-> 0, yes |-> 0, no |-> 0]
<1>3. inv = InventoryOf(legs) /\ \A o : Bought(legs, o) = 0
  BY <1>1, NothingBought
<1>4. inv \in Inventory
  BY PairAssumption DEF Inventory
<1>5. PlanState = [st |-> "planned", ver |-> 1, inv |-> inv, leg |-> legs]
  <2> DEFINE empty == [l \in Leg |-> NoLeg]
  <2>1. NoGroup = [st |-> "none", ver |-> 0, inv |-> inv, leg |-> empty]
    BY DEF NoGroup
  <2>2. PlanState = [NoGroup EXCEPT !.st = "planned", !.ver = 1, !.leg = legs]
    BY DEF PlanState
  <2> HIDE DEF empty, inv, legs
  <2> QED BY <2>1, <2>2
<1>6. legs \in [Leg -> LegRec]
  BY <1>2
<1>7. \A l \in Leg : legs[l].st = "none" => legs[l].filled = 0 /\ legs[l].id = FALSE
  BY <1>1
<1>8. /\ \A l \in Leg : legs[l].filled = 0
      /\ \A l \in Entry : legs[l].st = "planned"
  BY <1>1
<1> HIDE DEF legs, inv
<1>9. /\ PlanState \in GroupRec /\ PlanState.leg = legs /\ PlanState.inv = inv
      /\ PlanState.ver = 1 /\ PlanState.st = "planned"
  BY <1>4, <1>5, <1>6, StatusFacts DEF GroupRec
<1> QED BY <1>3, <1>6, <1>7, <1>8, <1>9 DEF GroupInv, GroupOK, LegsOK

(* What submit_plan stores under the version it holds. *)
LEMMA SubmittedIs ==
    ASSUME NEW res
    PROVE  Alike(PlanState, SubmittedState(res))
<1> DEFINE d == PlanState
           A == Accepted(res)
           legs == [l \in Leg |->
                      IF l \notin Entry THEN d.leg[l]
                      ELSE IF l \in A THEN [d.leg[l] EXCEPT !.st = "open", !.id = TRUE]
                      ELSE [d.leg[l] EXCEPT !.st = "rejected"]]
           st == IF A = Entry THEN "working" ELSE IF A # {} THEN "imbalanced" ELSE "failed"
           e == [d EXCEPT !.st = st, !.leg = legs]
<1>1. RecordSubmission(d, A) = Refreshed(e, TRUE)
  BY DEF RecordSubmission
<1>2. /\ GroupInv(d) /\ d \in GroupRec /\ d.leg \in [Leg -> LegRec]
      /\ \A l \in Entry : d.leg[l].st # "none"
  BY PlanIs, GroupFields DEF GroupInv, GroupOK
<1> HIDE DEF d, A
<1>3. ASSUME NEW l \in Leg
      PROVE  /\ legs[l] \in LegRec
             /\ legs[l].filled = d.leg[l].filled /\ legs[l].size = d.leg[l].size
             /\ legs[l].out = d.leg[l].out
             /\ legs[l].st = "none" <=> d.leg[l].st = "none"
             /\ legs[l].st = "none" => legs[l].id = d.leg[l].id
  <2>1. d.leg[l] \in LegRec
    BY <1>2
  <2>2. CASE l \notin Entry
    BY <2>1, <2>2
  <2>3. CASE l \in Entry /\ l \in A
    <3>1. legs[l] = [d.leg[l] EXCEPT !.st = "open", !.id = TRUE]
      BY <2>3
    <3> HIDE DEF legs
    <3> QED BY <1>2, <2>1, <2>3, <3>1, StatusFacts DEF LegRec
  <2>4. CASE l \in Entry /\ l \notin A
    <3>1. legs[l] = [d.leg[l] EXCEPT !.st = "rejected"]
      BY <2>4
    <3> HIDE DEF legs
    <3> QED BY <1>2, <2>1, <2>4, <3>1, StatusFacts DEF LegRec
  <2> QED BY <2>2, <2>3, <2>4
<1>4. legs = [l \in Leg |-> legs[l]]
  OBVIOUS
<1>5. st \in GroupStatus /\ st # "hedging"
  BY StatusFacts
<1> HIDE DEF legs, st
<1>6. legs \in [Leg -> LegRec]
  BY <1>3, <1>4
<1>7. e \in GroupRec /\ e.leg = legs /\ e.st = st /\ e.ver = d.ver
  BY <1>2, <1>5, <1>6 DEF GroupRec
<1> HIDE DEF e
<1> DEFINE s == Refreshed(e, TRUE)
<1>8. /\ s \in GroupRec /\ s.leg = legs /\ s.inv = InventoryOf(legs) /\ s.ver = d.ver
      /\ s.st = RefreshedStatus(st, legs, TRUE)
  BY <1>7, RefreshedIs
<1>9. s.st # "hedging"
  BY <1>5, <1>8, RefreshedStatusIs
<1>10. Alike(d, s)
  BY <1>3, <1>8, <1>9 DEF Alike
<1>11. Alike(d, Freeze(s))
  <2>1. GroupInv(s)
    BY <1>2, <1>10, AlikeIsTaken
  <2> HIDE DEF s
  <2> QED BY <1>10, <2>1, FreezeIs, AlikeChain
<1>12. SubmittedState(res) = s \/ SubmittedState(res) = Freeze(s)
  BY <1>1 DEF SubmittedState, d, A
<1> QED BY <1>10, <1>11, <1>12 DEF d

(* The two implementations of a fill: commit_pair_fill takes what record_fill *)
(* makes of the group it stores.                                              *)
LEMMA FillIs ==
    ASSUME NEW d, GroupInv(d), NEW l \in Leg, d.leg[l].st # "none",
           d.leg[l].filled < d.leg[l].size, d.leg[l].filled < Target,
           NEW s, s = RecordFill(d, l)
    PROVE  /\ FillAccepts(d, l, s) /\ GroupInv(s) /\ s.ver = d.ver
           /\ s.leg[l].filled = d.leg[l].filled + 1 /\ s.leg[l].out = d.leg[l].out
           /\ s.leg[l].st # "none"
           /\ \A m \in Leg \ {l} : s.leg[m] = d.leg[m]
<1>1. /\ d \in GroupRec /\ d.leg \in [Leg -> LegRec] /\ d.st \in GroupStatus
      /\ d.leg[l] \in LegRec
      /\ d.st = "hedging" => HedgeLegs(d.leg) # {}
      /\ LegsOK(d.leg)
  BY GroupFields DEF GroupInv, GroupOK
<1>2. d.leg[l].filled \in Nat /\ d.leg[l].size \in Nat /\ d.leg[l].st \in LegStatus
  BY <1>1, LegFields
<1> DEFINE a == FilledLegStatus(d.leg[l])
           n == d.leg[l].filled + 1
           g == [d.leg[l] EXCEPT !.filled = n, !.st = a]
           legs == [d.leg EXCEPT ![l] = g]
           e == [d EXCEPT !.leg = legs]
<1>3. a \in LegStatus /\ a # "none" /\ a = ExpectedLegStatus(d.leg[l])
  BY <1>2, StatusFacts DEF FilledLegStatus, ExpectedLegStatus
<1>4. n \in 0 .. Target /\ n = d.leg[l].filled + 1
  BY <1>2, PairAssumption
<1>5. /\ [d.leg[l] EXCEPT !.filled = @ + 1, !.st = ExpectedLegStatus(d.leg[l])] = g
      /\ [d.leg[l] EXCEPT !.filled = @ + 1, !.st = FilledLegStatus(d.leg[l])] = g
  BY <1>3
<1>6. s = Refreshed(e, FALSE)
  BY <1>5 DEF RecordFill
<1> HIDE DEF a, n
<1>7. /\ g \in LegRec /\ g.filled = d.leg[l].filled + 1 /\ g.out = d.leg[l].out
      /\ g.st # "none" /\ g.size = d.leg[l].size
  BY <1>1, <1>3, <1>4 DEF LegRec
<1> HIDE DEF g
<1>8. legs \in [Leg -> LegRec] /\ legs[l] = g /\ \A m \in Leg \ {l} : legs[m] = d.leg[m]
  BY <1>1, <1>7
<1>9. legs = [d.leg EXCEPT ![l] = g]
  OBVIOUS
<1> HIDE DEF legs
<1>10. e \in GroupRec /\ e.leg = legs /\ e.st = d.st /\ e.ver = d.ver
  BY <1>1, <1>8 DEF GroupRec
<1> HIDE DEF e
<1>11. /\ s \in GroupRec /\ s.ver = d.ver /\ s.leg = legs /\ s.inv = InventoryOf(legs)
       /\ s.st = RefreshedStatus(d.st, legs, FALSE)
  <2>1. /\ Refreshed(e, FALSE) \in GroupRec /\ Refreshed(e, FALSE).ver = e.ver
        /\ Refreshed(e, FALSE).leg = e.leg /\ Refreshed(e, FALSE).inv = InventoryOf(e.leg)
        /\ Refreshed(e, FALSE).st = RefreshedStatus(e.st, e.leg, FALSE)
    BY <1>10, RefreshedIs
  <2>2. Refreshed(e, FALSE) = s
    BY <1>6
  <2> QED BY <1>10, <2>1, <2>2
<1>12. HedgeLegs(legs) = HedgeLegs(d.leg) /\ LegsOK(legs)
  BY <1>1, <1>7, <1>8 DEF HedgeLegs, Stored, LegsOK
<1>13. GroupInv(s)
  BY <1>1, <1>11, <1>12, RefreshedStatusIs DEF GroupInv, GroupOK
<1>14. s.st = ExpectedGroupStatus(d.st, legs)
  <2> DEFINE y == Bought(legs, Yes)
             m == Bought(legs, No)
             inv == InventoryOf(legs)
  <2>1. /\ Even(inv) <=> y = m
        /\ inv.paired > 0 <=> y > 0 /\ m > 0
        /\ inv.paired >= Target <=> y >= Target /\ m >= Target
        /\ y \in Nat /\ m \in Nat
    BY InventoryIs
  <2>2. d.st = "hedging" => HedgeLegs(legs) # {}
    BY <1>1, <1>12
  <2>3. RefreshedStatus(d.st, legs, FALSE) =
          IF d.st = "hedging" /\ HedgeLegs(legs) # {}
             /\ \A k \in HedgeLegs(legs) : Terminal(legs, k)
          THEN IF inv.paired > 0 /\ Even(inv) THEN "paired" ELSE "frozen"
          ELSE IF d.st \in {"cancelled", "paired"} /\ ~Even(inv) THEN "frozen"
          ELSE IF d.st \in {"cancelling", "hedging", "frozen", "failed"} THEN d.st
          ELSE IF inv.paired >= Target /\ Even(inv) THEN "paired"
          ELSE IF ~Even(inv) THEN "imbalanced"
          ELSE "working"
    BY DEF RefreshedStatus
  <2>4. ExpectedGroupStatus(d.st, legs) =
          IF d.st \in {"frozen", "failed", "cancelling"} THEN d.st
          ELSE IF d.st = "hedging" /\ \E k \in HedgeLegs(legs) : ~Terminal(legs, k) THEN d.st
          ELSE IF d.st = "hedging" THEN IF y = m /\ y > 0 THEN "paired" ELSE "frozen"
          ELSE IF d.st \in {"cancelled", "paired"} /\ y # m THEN "frozen"
          ELSE IF y = m /\ y >= Target THEN "paired"
          ELSE IF y # m THEN "imbalanced"
          ELSE "working"
    BY DEF ExpectedGroupStatus
  <2> HIDE DEF y, m, inv
  <2>5. CASE d.st = "hedging"
    BY <1>11, <2>1, <2>2, <2>3, <2>4, <2>5
  <2>6. CASE d.st # "hedging"
    BY <1>11, <2>1, <2>3, <2>4, <2>6, PairAssumption
  <2> QED BY <2>5, <2>6
<1>15. FillAccepts(d, l, s)
  <2>1. s.leg = [d.leg EXCEPT ![l] = [d.leg[l] EXCEPT !.filled = @ + 1,
                                                      !.st = ExpectedLegStatus(d.leg[l])]]
    BY <1>5, <1>9, <1>11
  <2>2. d.leg[l].filled + 1 <= d.leg[l].size
    BY <1>2
  <2>3. s.inv = InventoryOf(s.leg) /\ s.st = ExpectedGroupStatus(d.st, s.leg)
    BY <1>11, <1>14
  <2> QED BY <2>1, <2>2, <2>3 DEF FillAccepts
<1> QED BY <1>7, <1>8, <1>11, <1>13, <1>15

-----------------------------------------------------------------------------
(* The inductive invariant *)

FillRec == [pc : {"idle", "group", "legs", "commit"}, f : Fill \cup {NoFill}, try : Nat,
            snap : GroupRec]

RunRec == [pc : {"idle", "legs", "terminal", "mark", "cancel", "fail", "barrier",
                 "relegs", "confirm", "post", "hedged"},
           snap : GroupRec, ids : SUBSET Leg, h : Hedge \cup {0}, res : LegResult]

(* The group row as it was read: out of date, or that of d. *)
Header(d, s) ==
    /\ s \in GroupRec /\ s.ver >= 1 /\ s.ver <= d.ver
    /\ s.ver = d.ver => s.st = d.st /\ s.inv = d.inv

(* A group as it was read to the end: out of date, or d. *)
Copy(d, s) ==
    /\ s \in GroupRec /\ s.ver >= 1 /\ s.ver <= d.ver
    /\ s.ver = d.ver => s = d

(* The durable state: the group d, the applied fills sn and the stock sk, of *)
(* the executed trades x.                                                    *)
Ledger(d, x, sn, sk) ==
    /\ GroupInv(d)
    /\ d.ver = 0 => d = NoGroup
    /\ d.ver = 1 => d = PlanState
    /\ sn \subseteq x
    /\ \A l \in Leg : d.leg[l].filled = Cardinality({f \in sn : f[1] = l})
    /\ sk \in [Entry -> Nat]
    /\ \A o \in Entry : sk[o] = Bought(d.leg, o)

FillOK(d, x, t) ==
    /\ t \in FillRec
    /\ t.pc # "idle" => t.f \in x /\ d.leg[t.f[1]].st # "none"
    /\ t.pc = "legs" => Header(d, t.snap)
    /\ t.pc = "commit" => /\ Copy(d, t.snap)
                          /\ t.snap.leg[t.f[1]].filled < t.snap.leg[t.f[1]].size

RunOK(d, t) ==
    /\ t \in RunRec
    /\ t.pc \in {"legs", "relegs"} => Header(d, t.snap)
    /\ t.pc \notin {"idle", "legs", "relegs"} => Copy(d, t.snap)
    /\ t.pc \in {"post", "hedged"} => t.h \in Leg /\ t.snap.leg[t.h].st # "none"

PairInv ==
    /\ traded \in [Leg -> Nat]
    /\ sub \in SubmitTask
    /\ sub.pc = "new" => db.ver = 0
    /\ Ledger(db, Executed, seen, stock)
    /\ FillOK(db, Executed, fl)
    /\ run \in [Runner -> RunRec]
    /\ \A r \in Runner : RunOK(db, run[r])

(* What a stored state does to those who read an older one: the version      *)
(* advances, and no leg is lost.                                             *)
Advances(d, e) ==
    /\ e.ver = d.ver + 1
    /\ \A l \in Leg : d.leg[l].st # "none" => e.leg[l].st # "none"

LEMMA FillKept ==
    ASSUME NEW d \in GroupRec, NEW x, NEW e, NEW y, NEW t, FillOK(d, x, t), x \subseteq y,
           y \subseteq Fill, e = d \/ Advances(d, e)
    PROVE  FillOK(e, y, t)
<1>1. d.ver \in Nat
  BY GroupFields
<1>2. t \in FillRec /\ t.pc \in {"idle", "group", "legs", "commit"}
  BY DEF FillOK, FillRec
<1>3. t.pc # "idle" => t.f \in y /\ e.leg[t.f[1]].st # "none"
  <2>1. ASSUME t.f \in y PROVE t.f[1] \in Leg
    BY <2>1 DEF Fill
  <2> QED BY <2>1 DEF FillOK, Advances
<1>4. ASSUME Header(d, t.snap) PROVE Header(e, t.snap)
  <2>1. t.snap.ver \in Nat
    BY <1>4, GroupFields DEF Header
  <2> QED BY <1>1, <1>4, <2>1 DEF Header, Advances
<1>5. ASSUME Copy(d, t.snap) PROVE Copy(e, t.snap)
  <2>1. t.snap.ver \in Nat
    BY <1>5, GroupFields DEF Copy
  <2> QED BY <1>1, <1>5, <2>1 DEF Copy, Advances
<1> QED BY <1>2, <1>3, <1>4, <1>5 DEF FillOK

LEMMA RunKept ==
    ASSUME NEW d \in GroupRec, NEW e, NEW t, RunOK(d, t), e = d \/ Advances(d, e)
    PROVE  RunOK(e, t)
<1>1. d.ver \in Nat
  BY GroupFields
<1>4. ASSUME Header(d, t.snap) PROVE Header(e, t.snap)
  <2>1. t.snap.ver \in Nat
    BY <1>4, GroupFields DEF Header
  <2> QED BY <1>1, <1>4, <2>1 DEF Header, Advances
<1>5. ASSUME Copy(d, t.snap) PROVE Copy(e, t.snap)
  <2>1. t.snap.ver \in Nat
    BY <1>5, GroupFields DEF Copy
  <2> QED BY <1>1, <1>5, <2>1 DEF Copy, Advances
<1> QED BY <1>4, <1>5 DEF RunOK

(* A state that takes the place of d: nothing was bought, no leg was lost. *)
Follows(d, s) ==
    /\ GroupInv(s) /\ s.ver = d.ver
    /\ \A l \in Leg : /\ s.leg[l].filled = d.leg[l].filled
                      /\ d.leg[l].filled # 0 => s.leg[l].out = d.leg[l].out
                      /\ d.leg[l].st # "none" => s.leg[l].st # "none"

LEMMA AlikeFollows ==
    ASSUME NEW d, GroupInv(d), NEW s, Alike(d, s)
    PROVE  Follows(d, s)
BY AlikeIsTaken DEF Alike, Follows

(* Storing such a state. *)
LEMMA StoreIs ==
    ASSUME NEW d, NEW x, NEW sn, NEW sk, Ledger(d, x, sn, sk), NEW s, Follows(d, s),
           NEW k, k = d.ver, k >= 1
    PROVE  /\ Ledger([s EXCEPT !.ver = k + 1], x, sn, sk)
           /\ Advances(d, [s EXCEPT !.ver = k + 1])
           /\ [s EXCEPT !.ver = k + 1] \in GroupRec
           /\ [s EXCEPT !.ver = k + 1].leg = s.leg
           /\ [s EXCEPT !.ver = k + 1].ver = k + 1
<1>1. /\ d \in GroupRec /\ s \in GroupRec /\ k \in Nat
      /\ d.leg \in [Leg -> LegRec] /\ s.leg \in [Leg -> LegRec]
  BY GroupFields DEF Ledger, GroupInv, GroupOK, Follows
<1> DEFINE e == [s EXCEPT !.ver = k + 1]
<1>2. /\ e \in GroupRec /\ e.leg = s.leg /\ e.ver = k + 1 /\ e.st = s.st /\ e.inv = s.inv
  <2>1. k + 1 \in Nat
    BY <1>1
  <2> QED BY <1>1, <2>1 DEF GroupRec
<1> HIDE DEF e
<1>3. GroupInv(e)
  BY <1>2 DEF Follows, GroupInv, GroupOK
<1>4. \A o : Bought(e.leg, o) = Bought(d.leg, o)
  BY <1>1, <1>2, BoughtSame DEF Follows
<1>5. e.ver # 0 /\ e.ver # 1
  BY <1>1, <1>2
<1>6. Advances(d, e)
  BY <1>2 DEF Advances, Follows
<1>7. Ledger(e, x, sn, sk)
  BY <1>2, <1>3, <1>4, <1>5 DEF Ledger, Follows
<1> QED BY <1>2, <1>6, <1>7 DEF e

LEMMA WithHedgeFollows ==
    ASSUME NEW d, GroupInv(d), NEW ids, NEW h \in NextHedge(CancelsConfirmed(d, ids)),
           NEW n, n = WithHedge(CancelsConfirmed(d, ids), h)
    PROVE  Follows(d, n) /\ h \in Hedge /\ h \in Leg /\ n.leg[h].st # "none"
<1>1. /\ n \in GroupRec /\ n.ver = d.ver /\ LegsOK(n.leg) /\ HedgeLegs(n.leg) # {}
      /\ h \in Hedge /\ h \in Leg /\ n.leg[h].st = "planned"
      /\ n.inv = InventoryOf(n.leg)
  BY WithHedgeIs
<1>2. \A l \in Leg : /\ n.leg[l].filled = d.leg[l].filled
                     /\ d.leg[l].filled # 0 => n.leg[l].out = d.leg[l].out
                     /\ d.leg[l].st # "none" => n.leg[l].st # "none"
  BY WithHedgeIs
<1>3. GroupInv(n)
  BY <1>1 DEF GroupInv, GroupOK
<1> QED BY <1>1, <1>2, <1>3 DEF Follows

(* Trades counted by leg. *)
LEMMA CountBound ==
    ASSUME NEW S \in SUBSET Fill, NEW l \in Leg
    PROVE  /\ IsFiniteSet({f \in S : f[1] = l})
           /\ Cardinality({f \in S : f[1] = l}) \in Nat
           /\ Cardinality({f \in S : f[1] = l}) <= Target
<1>1. IsFiniteSet(1 .. Target) /\ Cardinality(1 .. Target) = Target
  <2>1. 1 \in Int /\ Target \in Int /\ 1 <= Target
    BY PairAssumption
  <2>2. IsFiniteSet(1 .. Target) /\ Cardinality(1 .. Target) = IF 1 > Target THEN 0 ELSE Target - 1 + 1
    BY <2>1, FS_Interval
  <2> QED BY <2>1, <2>2
<1> DEFINE C == {f \in S : f[1] = l}
           G == [f \in C |-> f[2]]
<1>2. \A f \in C : f[1] = l /\ f[2] \in 1 .. Target /\ f = <<f[1], f[2]>>
  BY DEF Fill
<1>3. G \in Injection(C, 1 .. Target)
  <2>1. G \in [C -> 1 .. Target]
    BY <1>2
  <2>2. \A a, b \in C : G[a] = G[b] => a = b
    BY <1>2
  <2>3. DOMAIN G = C
    OBVIOUS
  <2> HIDE DEF C, G
  <2> QED BY <2>1, <2>2, <2>3 DEF Injection, IsInjective
<1> HIDE DEF C, G
<1>4. IsFiniteSet(C) /\ Cardinality(C) <= Cardinality(1 .. Target)
  BY <1>1, <1>3, FS_Injection
<1>5. Cardinality(C) \in Nat
  BY <1>4, FS_CardinalityType
<1> QED BY <1>1, <1>4, <1>5 DEF C

(* Storing an applied fill. *)
LEMMA ApplyIs ==
    ASSUME NEW d, NEW x \in SUBSET Fill, NEW sn, NEW sk, Ledger(d, x, sn, sk),
           NEW f \in x, f \notin sn, NEW l, l = f[1], d.leg[l].st # "none",
           d.leg[l].filled < d.leg[l].size, NEW s, s = RecordFill(d, l),
           NEW k, k = d.ver, k >= 1
    PROVE  /\ Ledger([s EXCEPT !.ver = k + 1], x, sn \cup {f},
                     [sk EXCEPT ![s.leg[l].out] = @ + 1])
           /\ Advances(d, [s EXCEPT !.ver = k + 1])
           /\ [s EXCEPT !.ver = k + 1] \in GroupRec
           /\ FillAccepts(d, l, s)
<1> DEFINE C(m) == {g \in sn : g[1] = m}
           D(m) == {g \in sn \cup {f} : g[1] = m}
           o == d.leg[l].out
<1>1. /\ d \in GroupRec /\ d.leg \in [Leg -> LegRec] /\ k \in Nat /\ GroupInv(d)
      /\ sk \in [Entry -> Nat] /\ sn \subseteq x /\ sn \subseteq Fill
      /\ \A m \in Leg : d.leg[m].filled = Cardinality(C(m))
      /\ \A p \in Entry : sk[p] = Bought(d.leg, p)
  BY GroupFields DEF Ledger, GroupInv, GroupOK
<1>2. l \in Leg /\ d.leg[l] \in LegRec /\ o \in Entry /\ f \in Fill
  BY <1>1, LegFields DEF Fill
<1>3. /\ \A m \in Leg \ {l} : D(m) = C(m)
      /\ D(l) = C(l) \cup {f} /\ f \notin C(l)
  BY <1>2
<1>4. /\ Cardinality(D(l)) = Cardinality(C(l)) + 1
      /\ Cardinality(C(l)) \in Nat /\ Cardinality(D(l)) <= Target
  <2>1. IsFiniteSet(C(l)) /\ Cardinality(C(l)) \in Nat
    BY <1>1, <1>2, CountBound
  <2>2. sn \cup {f} \in SUBSET Fill
    BY <1>1, <1>2
  <2>3. Cardinality(D(l)) <= Target
    BY <1>2, <2>2, CountBound
  <2> QED BY <1>3, <2>1, <2>3, FS_AddElement
<1>5. d.leg[l].filled < Target
  BY <1>1, <1>2, <1>4, PairAssumption
<1>6. /\ FillAccepts(d, l, s) /\ GroupInv(s) /\ s.ver = d.ver
      /\ s.leg[l].filled = d.leg[l].filled + 1 /\ s.leg[l].out = o /\ s.leg[l].st # "none"
      /\ \A m \in Leg \ {l} : s.leg[m] = d.leg[m]
  BY <1>1, <1>2, <1>5, FillIs
<1> DEFINE e == [s EXCEPT !.ver = k + 1]
<1>7. /\ e \in GroupRec /\ e.leg = s.leg /\ e.ver = k + 1 /\ e.st = s.st /\ e.inv = s.inv
  <2>1. k + 1 \in Nat /\ s \in GroupRec
    BY <1>1, <1>6 DEF GroupInv, GroupOK
  <2> QED BY <2>1 DEF GroupRec
<1> HIDE DEF e, o
<1>8. GroupInv(e)
  BY <1>6, <1>7 DEF GroupInv, GroupOK
<1>9. Advances(d, e)
  BY <1>6, <1>7 DEF Advances
<1>10. e.ver # 0 /\ e.ver # 1
  BY <1>1, <1>7
<1>11. ASSUME NEW m \in Leg PROVE e.leg[m].filled = Cardinality(D(m))
  <2>1. CASE m = l
    BY <1>1, <1>2, <1>4, <1>6, <1>7, <2>1
  <2>2. CASE m # l
    BY <1>1, <1>3, <1>6, <1>7, <2>2
  <2> QED BY <2>1, <2>2
<1>12. ASSUME NEW p \in Entry PROVE [sk EXCEPT ![o] = @ + 1][p] = Bought(e.leg, p)
  <2>1. e.leg \in [Leg -> LegRec]
    BY <1>7, GroupFields
  <2>2. d.leg[l].filled \in Nat /\ d.leg[l].filled + 1 <= Target
    BY <1>2, <1>5, LegFields, PairAssumption
  <2>3. Bought(e.leg, p) = Bought(d.leg, p) + IF d.leg[l].out = p THEN 1 ELSE 0
    BY <1>1, <1>2, <1>6, <1>7, <2>1, <2>2, BoughtMore DEF o
  <2>4. Bought(d.leg, p) \in Nat /\ sk[p] = Bought(d.leg, p)
    BY <1>1, BoughtIs
  <2>5. CASE p = o
    BY <1>1, <1>2, <2>3, <2>4, <2>5 DEF o
  <2>6. CASE p # o
    BY <1>1, <1>2, <2>3, <2>4, <2>6 DEF o
  <2> QED BY <2>5, <2>6
<1>13. [sk EXCEPT ![o] = @ + 1] \in [Entry -> Nat]
  BY <1>1, <1>2
<1>14. sn \cup {f} \subseteq x
  BY <1>1
<1>15. Ledger(e, x, sn \cup {f}, [sk EXCEPT ![o] = @ + 1])
  BY <1>8, <1>10, <1>11, <1>12, <1>13, <1>14 DEF Ledger
<1> QED BY <1>6, <1>7, <1>9, <1>15 DEF e

-----------------------------------------------------------------------------
(* Initial states, reads, and what a step leaves alone *)

LEMMA IdleIs ==
    /\ \A d, x : FillOK(d, x, IdleFill)
    /\ \A d : RunOK(d, IdleRun)
    /\ IdleFill.pc = "idle" /\ IdleRun.pc = "idle"
    /\ IdleFill \in FillRec /\ IdleRun \in RunRec
<1>1. NoGroup \in GroupRec
  BY NoGroupIs
<1>2. IdleFill \in FillRec /\ IdleFill.pc = "idle"
  BY <1>1 DEF IdleFill, FillRec
<1>3. IdleRun \in RunRec /\ IdleRun.pc = "idle"
  BY <1>1 DEF IdleRun, RunRec, LegResult
<1> QED BY <1>2, <1>3 DEF FillOK, RunOK

LEMMA ExecutedIn == Executed \subseteq Fill
BY DEF Executed

LEMMA LoadGroupIs ==
    ASSUME NEW d \in GroupRec, d.ver >= 1, NEW s,
           s = [NoGroup EXCEPT !.st = d.st, !.ver = d.ver, !.inv = d.inv]
    PROVE  Header(d, s)
<1>1. NoGroup \in GroupRec /\ d.st \in GroupStatus /\ d.ver \in Nat /\ d.inv \in Inventory
  BY NoGroupIs, GroupFields
<1>2. s \in GroupRec /\ s.st = d.st /\ s.ver = d.ver /\ s.inv = d.inv
  BY <1>1 DEF GroupRec
<1> QED BY <1>1, <1>2 DEF Header

LEMMA LoadLegsIs ==
    ASSUME NEW d \in GroupRec, NEW s, Header(d, s), NEW c, c = [s EXCEPT !.leg = d.leg]
    PROVE  Copy(d, c)
<1>1. s \in GroupRec /\ d.leg \in [Leg -> LegRec]
  BY GroupFields DEF Header
<1>2. /\ c \in GroupRec /\ c.leg = d.leg /\ c.st = s.st /\ c.inv = s.inv /\ c.ver = s.ver
  BY <1>1 DEF GroupRec
<1>3. c.ver = d.ver => c = d
  <2>1. /\ c = [st |-> c.st, ver |-> c.ver, inv |-> c.inv, leg |-> c.leg]
        /\ d = [st |-> d.st, ver |-> d.ver, inv |-> d.inv, leg |-> d.leg]
    BY <1>2 DEF GroupRec
  <2>2. c.ver = d.ver => c.st = d.st /\ c.inv = d.inv /\ c.leg = d.leg
    BY <1>2 DEF Header
  <2> QED BY <2>1, <2>2
<1> QED BY <1>2, <1>3 DEF Header, Copy

LEMMA PairInit == Init => PairInv
<1> SUFFICES ASSUME Init PROVE PairInv
  OBVIOUS
<1>1. traded \in [Leg -> Nat] /\ sub \in SubmitTask
  <2>1. sub.res \in [Entry -> LegResult] /\ sub.pc = "new" /\ sub = [pc |-> sub.pc, res |-> sub.res]
    BY DEF Init, LegResult
  <2>2. sub \in SubmitTask
    BY <2>1 DEF SubmitTask
  <2>3. traded \in [Leg -> Nat]
    BY DEF Init
  <2> QED BY <2>2, <2>3
<1>2. Ledger(db, Executed, seen, stock)
  <2>1. db = NoGroup /\ seen = {}
    BY DEF Init
  <2>2. \A l \in Leg : db.leg[l].filled = Cardinality({f \in seen : f[1] = l})
    <3>1. ASSUME NEW l \in Leg PROVE {f \in seen : f[1] = l} = {}
      BY <2>1
    <3> QED BY <2>1, <3>1, NoGroupIs, FS_EmptySet
  <2>3. stock \in [Entry -> Nat] /\ \A o \in Entry : stock[o] = Bought(db.leg, o)
    BY <2>1, NoGroupIs DEF Init
  <2> QED BY <2>1, <2>2, <2>3, NoGroupIs DEF Ledger
<1>3. FillOK(db, Executed, fl)
  BY IdleIs DEF Init
<1>4. run \in [Runner -> RunRec] /\ \A r \in Runner : RunOK(db, run[r])
  BY IdleIs DEF Init
<1>5. db.ver = 0
  BY NoGroupIs DEF Init
<1> QED BY <1>1, <1>2, <1>3, <1>4, <1>5 DEF PairInv

(* The parts of the invariant, for the steps. *)
LEMMA InvParts ==
    ASSUME PairInv
    PROVE  /\ db \in GroupRec /\ GroupInv(db) /\ db.leg \in [Leg -> LegRec] /\ db.ver \in Nat
           /\ seen \subseteq Executed /\ Executed \in SUBSET Fill
           /\ traded \in [Leg -> Nat] /\ sub \in SubmitTask
           /\ fl \in FillRec /\ run \in [Runner -> RunRec]
           /\ \A l \in Leg : db.leg[l].st # "none" => db.ver >= 1
<1>1. /\ db \in GroupRec /\ GroupInv(db) /\ db.leg \in [Leg -> LegRec] /\ db.ver \in Nat
      /\ seen \subseteq Executed
      /\ db.ver = 0 => db = NoGroup
  BY GroupFields DEF PairInv, Ledger, GroupInv, GroupOK
<1>2. \A l \in Leg : db.leg[l].st # "none" => db.ver >= 1
  <2> SUFFICES ASSUME NEW l \in Leg, db.leg[l].st # "none" PROVE db.ver >= 1
    OBVIOUS
  <2>1. NoLeg.st = "none"
    BY DEF NoLeg
  <2>2. NoGroup.leg[l] = NoLeg
    BY NoGroupIs
  <2>3. db.ver # 0
    BY <1>1, <2>1, <2>2
  <2>4. db.ver \in Nat
    BY <1>1
  <2> QED BY <2>3, <2>4
<1> QED BY <1>1, <1>2, ExecutedIn DEF PairInv, FillOK

(* A step of the submitter, or of a trader, that leaves the group alone. *)
LEMMA SubmitQuiet ==
    ASSUME PairInv, UNCHANGED <<dbVars, traded, fl, run>>, sub' \in SubmitTask,
           sub'.pc = "new" => sub.pc = "new"
    PROVE  PairInv'
<1>1. db' = db /\ seen' = seen /\ stock' = stock /\ traded' = traded /\ fl' = fl /\ run' = run
  BY DEF dbVars
<1>2. Executed' = Executed
  BY <1>1 DEF Executed
<1> QED BY <1>1, <1>2 DEF PairInv

(* A step of on_fill that leaves the group alone. *)
LEMMA FillQuiet ==
    ASSUME PairInv, UNCHANGED <<dbVars, traded, sub, run>>, FillOK(db, Executed, fl')
    PROVE  PairInv'
<1>1. db' = db /\ seen' = seen /\ stock' = stock /\ traded' = traded /\ sub' = sub /\ run' = run
  BY DEF dbVars
<1>2. Executed' = Executed
  BY <1>1 DEF Executed
<1> QED BY <1>1, <1>2 DEF PairInv

(* A step of process_deadline that leaves the group alone. *)
LEMMA RunQuiet ==
    ASSUME PairInv, UNCHANGED <<dbVars, traded, sub, fl>>, NEW r \in Runner, NEW t,
           RunOK(db, t), SetRun(r, t)
    PROVE  PairInv'
<1>1. db' = db /\ seen' = seen /\ stock' = stock /\ traded' = traded /\ sub' = sub /\ fl' = fl
  BY DEF dbVars
<1>2. Executed' = Executed
  BY <1>1 DEF Executed
<1>3. run' = [run EXCEPT ![r] = t] /\ t \in RunRec /\ run \in [Runner -> RunRec]
  BY DEF SetRun, RunOK, PairInv
<1>4. run' \in [Runner -> RunRec] /\ \A q \in Runner : RunOK(db', run'[q])
  BY <1>1, <1>3 DEF PairInv
<1> QED BY <1>1, <1>2, <1>4 DEF PairInv

(* A step that stores a new state of the group, and moves one call of        *)
(* process_deadline or none.                                                 *)
LEMMA StoreStep ==
    ASSUME PairInv, UNCHANGED <<traded, fl>>, NEW s, Follows(db, s), NEW k, k = db.ver,
           k >= 1, Store(k, s), sub' \in SubmitTask, sub'.pc = "new" => sub.pc = "new",
           run' \in [Runner -> RunRec],
           \A r \in Runner : run'[r] = run[r] \/ RunOK(db', run'[r])
    PROVE  PairInv'
<1>1. /\ db' = [s EXCEPT !.ver = k + 1] /\ seen' = seen /\ stock' = stock
      /\ traded' = traded /\ fl' = fl
  BY DEF Store
<1>2. Executed' = Executed
  BY <1>1 DEF Executed
<1>3. Ledger(db, Executed, seen, stock) /\ db \in GroupRec
  BY InvParts DEF PairInv
<1>4. Ledger(db', Executed, seen, stock) /\ Advances(db, db') /\ db'.ver = k + 1
  BY <1>1, <1>3, StoreIs
<1>5. FillOK(db', Executed, fl)
  BY <1>3, <1>4, ExecutedIn, FillKept DEF PairInv
<1>6. \A r \in Runner : RunOK(db', run'[r])
  BY <1>3, <1>4, RunKept DEF PairInv
<1>7. sub.pc # "new"
  <2>1. sub.pc = "new" => k = 0
    BY DEF PairInv
  <2> QED BY <2>1
<1> QED BY <1>1, <1>2, <1>4, <1>5, <1>6, <1>7 DEF PairInv

-----------------------------------------------------------------------------
(* The steps *)

LEMMA TradeStep ==
    ASSUME PairInv, NEW l \in Leg, Trade(l)
    PROVE  PairInv'
<1>1. /\ db' = db /\ seen' = seen /\ stock' = stock /\ sub' = sub /\ fl' = fl /\ run' = run
      /\ traded' = [traded EXCEPT ![l] = @ + 1] /\ traded \in [Leg -> Nat]
  BY InvParts DEF Trade, dbVars
<1>2. traded' \in [Leg -> Nat] /\ \A m \in Leg : traded[m] <= traded'[m]
  BY <1>1
<1>3. Executed \subseteq Executed'
  <2>1. ASSUME NEW f \in Fill, f[2] <= traded[f[1]] PROVE f[2] <= traded'[f[1]]
    <3>1. f[1] \in Leg /\ f[2] \in Nat
      BY PairAssumption DEF Fill
    <3>2. traded[f[1]] \in Nat /\ traded'[f[1]] \in Nat /\ traded[f[1]] <= traded'[f[1]]
      BY <1>1, <1>2, <3>1
    <3> QED BY <2>1, <3>1, <3>2
  <2> QED BY <2>1 DEF Executed
<1>4. Executed' \subseteq Fill
  BY DEF Executed
<1>5. db \in GroupRec
  BY InvParts
<1>6. Ledger(db, Executed', seen, stock)
  BY <1>3 DEF PairInv, Ledger
<1>7. FillOK(db, Executed', fl)
  BY <1>3, <1>4, <1>5, FillKept DEF PairInv
<1> QED BY <1>1, <1>2, <1>6, <1>7 DEF PairInv

LEMMA SubIs ==
    ASSUME sub \in SubmitTask, NEW pc \in {"batch", "cancel", "cancelAll", "result", "freeze", "done"},
           SetSub(pc)
    PROVE  sub' \in SubmitTask /\ sub'.pc = pc /\ sub'.pc # "new"
BY DEF SetSub, SubmitTask

LEMMA PersistStep ==
    ASSUME PairInv, PersistPlan
    PROVE  PairInv'
<1>1. /\ db' = PlanState /\ seen' = seen /\ stock' = stock /\ traded' = traded /\ fl' = fl
      /\ run' = run
  BY DEF PersistPlan, exVars
<1>2. sub' \in SubmitTask /\ sub'.pc # "new"
  <2>1. sub \in SubmitTask /\ SetSub("batch")
    BY InvParts DEF PersistPlan
  <2> QED BY <2>1, SubIs
<1>3. db = NoGroup
  BY DEF PairInv, Ledger, PersistPlan
<1>4. Executed' = Executed
  BY <1>1 DEF Executed
<1>5. Advances(db, db')
  <2>1. \A l \in Leg : NoGroup.leg[l].st = "none"
    <3>1. NoLeg.st = "none"
      BY DEF NoLeg
    <3> QED BY <3>1, NoGroupIs
  <2>2. PlanState.ver = 0 + 1
    BY PlanIs
  <2> QED BY <1>1, <1>3, <2>1, <2>2, NoGroupIs DEF Advances
<1>6. Ledger(db', Executed, seen, stock)
  <2>1. /\ GroupInv(PlanState) /\ PlanState.ver # 0
    BY PlanIs
  <2>2. \A l \in Leg : PlanState.leg[l].filled = Cardinality({f \in seen : f[1] = l})
    BY <1>3, NoGroupIs, PlanIs DEF PairInv, Ledger
  <2>3. \A o \in Entry : stock[o] = Bought(PlanState.leg, o)
    BY <1>3, NoGroupIs, PlanIs DEF PairInv, Ledger
  <2>4. seen \subseteq Executed /\ stock \in [Entry -> Nat]
    BY DEF PairInv, Ledger
  <2> QED BY <1>1, <2>1, <2>2, <2>3, <2>4 DEF Ledger
<1>7. db \in GroupRec
  BY InvParts
<1>8. FillOK(db', Executed, fl)
  BY <1>5, <1>7, ExecutedIn, FillKept DEF PairInv
<1>9. \A r \in Runner : RunOK(db', run[r])
  BY <1>5, <1>7, RunKept DEF PairInv
<1> QED BY <1>1, <1>2, <1>4, <1>6, <1>8, <1>9 DEF PairInv

(* The plan is stored over version 1, which is the plan. *)
LEMMA PlanStoreStep ==
    ASSUME PairInv, UNCHANGED <<traded, fl, run>>, NEW s, Alike(PlanState, s), Store(1, s),
           db.ver = 1, sub' \in SubmitTask, sub'.pc # "new"
    PROVE  PairInv'
<1>1. db = PlanState /\ GroupInv(db)
  BY DEF PairInv, Ledger
<1>2. Follows(db, s)
  BY <1>1, AlikeFollows
<1>3. run' = run /\ run \in [Runner -> RunRec]
  BY InvParts
<1> DEFINE k == 1
<1>4. k = db.ver /\ k >= 1 /\ Store(k, s)
  OBVIOUS
<1> HIDE DEF k
<1> QED BY <1>2, <1>3, <1>4, StoreStep

LEMMA SubmissionStep ==
    ASSUME PairInv, Submission
    PROVE  PairInv'
<1>0. sub \in SubmitTask
  BY InvParts
<1>1. CASE PersistPlan
  BY <1>1, PersistStep
<1>2. CASE BuildIntentsFails
  <2>1. UNCHANGED <<dbVars, traded, fl, run>> /\ SetSub("freeze")
    BY <1>2 DEF BuildIntentsFails, exVars
  <2> QED BY <1>0, <2>1, SubIs, SubmitQuiet
<1>3. CASE SubmitBatch
  <2>1. PICK res \in [Entry -> LegResult \ {"none"}] :
           sub' = [pc  |-> IF PartlyAccepted(res) \/ \E l \in Entry : res[l] = "errorId"
                           THEN "cancel" ELSE "result",
                   res |-> res]
    BY <1>3 DEF SubmitBatch
  <2>2. res \in [Entry -> LegResult]
    OBVIOUS
  <2>3. sub' \in SubmitTask /\ sub'.pc # "new"
    BY <2>1, <2>2 DEF SubmitTask
  <2>4. UNCHANGED <<dbVars, traded, fl, run>>
    BY <1>3 DEF SubmitBatch
  <2> QED BY <2>3, <2>4, SubmitQuiet
<1>4. CASE BatchRaises
  <2>1. UNCHANGED <<dbVars, traded, fl, run>> /\ SetSub("cancelAll")
    BY <1>4 DEF BatchRaises
  <2> QED BY <1>0, <2>1, SubIs, SubmitQuiet
<1>5. CASE CancelAfterRaise
  <2>1. UNCHANGED <<dbVars, traded, fl, run>> /\ SetSub("freeze")
    BY <1>5 DEF CancelAfterRaise
  <2> QED BY <1>0, <2>1, SubIs, SubmitQuiet
<1>6. CASE CancelPartial
  <2>1. UNCHANGED <<dbVars, traded, fl, run>> /\ SetSub("result")
    BY <1>6 DEF CancelPartial
  <2> QED BY <1>0, <2>1, SubIs, SubmitQuiet
<1>7. CASE RecordResult
  <2>1. UNCHANGED <<traded, fl, run>> /\ SetSub("done")
    BY <1>7 DEF RecordResult
  <2>2. sub' \in SubmitTask /\ sub'.pc # "new"
    BY <1>0, <2>1, SubIs
  <2>3. CASE Committed(1, SubmittedState(sub.res))
    <3>1. PICK s : s = SubmittedState(sub.res)
      OBVIOUS
    <3>2. db.ver = 1 /\ Store(1, s) /\ Alike(PlanState, s)
      BY <1>7, <2>3, <3>1, SubmittedIs DEF RecordResult, Committed
    <3> QED BY <2>1, <2>2, <3>2, PlanStoreStep
  <2>4. CASE ~Committed(1, SubmittedState(sub.res))
    <3>1. UNCHANGED dbVars
      BY <1>7, <2>4 DEF RecordResult
    <3> QED BY <2>1, <2>2, <3>1, SubmitQuiet
  <2> QED BY <2>3, <2>4
<1>8. CASE FreezePlan
  <2>1. UNCHANGED <<traded, fl, run>> /\ SetSub("done")
    BY <1>8 DEF FreezePlan, exVars
  <2>2. sub' \in SubmitTask /\ sub'.pc # "new"
    BY <1>0, <2>1, SubIs
  <2>3. CASE Committed(1, Freeze(PlanState))
    <3>1. PICK s : s = Freeze(PlanState)
      OBVIOUS
    <3>2. db.ver = 1 /\ Store(1, s)
      BY <1>8, <2>3, <3>1 DEF FreezePlan, Committed
    <3>3. Alike(PlanState, s)
      BY <3>1, PlanIs, FreezeIs
    <3> QED BY <2>1, <2>2, <3>2, <3>3, PlanStoreStep
  <2>4. CASE ~Committed(1, Freeze(PlanState))
    <3>1. UNCHANGED dbVars
      BY <1>8, <2>4 DEF FreezePlan
    <3> QED BY <2>1, <2>2, <3>1, SubmitQuiet
  <2> QED BY <2>3, <2>4
<1> QED BY <1>1, <1>2, <1>3, <1>4, <1>5, <1>6, <1>7, <1>8 DEF Submission

LEMMA DeliverStep ==
    ASSUME PairInv, NEW f \in Fill, Deliver(f)
    PROVE  PairInv'
<1>1. UNCHANGED <<dbVars, traded, sub, run>> /\ f \in Executed
  BY DEF Deliver, exVars
<1>2. FillOK(db, Executed, fl')
  <2>1. CASE db.leg[f[1]].id
    <3>1. fl' = [IdleFill EXCEPT !.pc = "group", !.f = f]
      BY <2>1 DEF Deliver
    <3>2. fl' \in FillRec /\ fl'.pc = "group" /\ fl'.f = f
      BY <3>1, IdleIs DEF FillRec
    <3>3. f[1] \in Leg
      BY DEF Fill
    <3>4. db.leg[f[1]].st # "none"
      BY <2>1, <3>3, InvParts DEF GroupInv, GroupOK, LegsOK
    <3> QED BY <1>1, <3>2, <3>4 DEF FillOK
  <2>2. CASE ~db.leg[f[1]].id
    BY <2>2 DEF Deliver, PairInv
  <2> QED BY <2>1, <2>2
<1> QED BY <1>1, <1>2, FillQuiet

LEMMA FillLoadsGroupStep ==
    ASSUME PairInv, FillLoadsGroup
    PROVE  PairInv'
<1>1. UNCHANGED <<dbVars, traded, sub, run>>
  BY DEF FillLoadsGroup, exVars
<1>2. /\ fl \in FillRec /\ fl.pc = "group" /\ fl.f \in Executed
      /\ db.leg[fl.f[1]].st # "none"
  BY InvParts DEF FillLoadsGroup, PairInv, FillOK
<1>3. PICK s : s = LoadGroup
  OBVIOUS
<1>4. db \in GroupRec /\ db.ver >= 1
  <2>1. fl.f[1] \in Leg
    BY <1>2 DEF Executed, Fill
  <2> QED BY <1>2, <2>1, InvParts
<1>5. Header(db, s)
  BY <1>3, <1>4, LoadGroupIs DEF LoadGroup
<1>6. fl' = [fl EXCEPT !.pc = "legs", !.snap = s]
  BY <1>3 DEF FillLoadsGroup
<1>7. fl' \in FillRec /\ fl'.pc = "legs" /\ fl'.snap = s /\ fl'.f = fl.f
  BY <1>2, <1>5, <1>6 DEF FillRec, Header
<1>8. FillOK(db, Executed, fl')
  BY <1>2, <1>5, <1>7 DEF FillOK
<1> QED BY <1>1, <1>8, FillQuiet

LEMMA FillLoadsLegsStep ==
    ASSUME PairInv, FillLoadsLegs
    PROVE  PairInv'
<1>1. UNCHANGED <<dbVars, traded, sub, run>>
  BY DEF FillLoadsLegs, exVars
<1>2. /\ fl \in FillRec /\ fl.pc = "legs" /\ fl.f \in Executed
      /\ db.leg[fl.f[1]].st # "none" /\ Header(db, fl.snap)
      /\ db \in GroupRec /\ db.leg \in [Leg -> LegRec]
  BY InvParts DEF FillLoadsLegs, PairInv, FillOK
<1>3. CASE fl' = IdleFill
  BY <1>1, <1>3, IdleIs, FillQuiet
<1>4. CASE /\ db.leg[fl.f[1]].filled < db.leg[fl.f[1]].size
           /\ fl' = [fl EXCEPT !.pc = "commit", !.snap = LoadLegs(@)]
  <2>1. PICK c : c = [fl.snap EXCEPT !.leg = db.leg]
    OBVIOUS
  <2>2. Copy(db, c) /\ c \in GroupRec
    <3>1. PICK s : s = fl.snap
      OBVIOUS
    <3>2. PICK d : d = db
      OBVIOUS
    <3>3. Copy(d, c)
      BY <1>2, <2>1, <3>1, <3>2, LoadLegsIs
    <3> QED BY <3>2, <3>3 DEF Copy
  <2>3. fl' = [fl EXCEPT !.pc = "commit", !.snap = c]
    BY <1>4, <2>1 DEF LoadLegs
  <2>4. fl' \in FillRec /\ fl'.pc = "commit" /\ fl'.snap = c /\ fl'.f = fl.f
    BY <1>2, <2>2, <2>3 DEF FillRec
  <2>5. c.leg = db.leg
    BY <1>2, <2>1 DEF Header, GroupRec
  <2>6. FillOK(db, Executed, fl')
    BY <1>2, <1>4, <2>2, <2>4, <2>5 DEF FillOK
  <2> QED BY <1>1, <2>6, FillQuiet
<1>5. fl.f[1] \in Leg
  BY <1>2 DEF Executed, Fill
<1>6. db.leg[fl.f[1]].filled \in Nat /\ db.leg[fl.f[1]].size \in Nat
  BY <1>2, <1>5, LegFields
<1> QED BY <1>3, <1>4, <1>6 DEF FillLoadsLegs, FillDone, FillFails

LEMMA CommitFillStep ==
    ASSUME PairInv, CommitFill
    PROVE  PairInv'
<1>1. UNCHANGED <<traded, sub, run>>
  BY DEF CommitFill, exVars
<1>2. /\ fl \in FillRec /\ fl.pc = "commit" /\ fl.f \in Executed
      /\ db.leg[fl.f[1]].st # "none" /\ Copy(db, fl.snap)
      /\ fl.snap.leg[fl.f[1]].filled < fl.snap.leg[fl.f[1]].size
      /\ db \in GroupRec /\ run \in [Runner -> RunRec] /\ sub \in SubmitTask
  BY InvParts DEF CommitFill, PairInv, FillOK
<1>3. CASE UNCHANGED dbVars /\ fl' = IdleFill
  BY <1>1, <1>3, IdleIs, FillQuiet
<1>4. CASE UNCHANGED dbVars /\ fl' = [fl EXCEPT !.pc = "group", !.try = @ + 1]
  <2>1. fl' \in FillRec /\ fl'.pc = "group" /\ fl'.f = fl.f
    <3>1. PICK n : n = fl.try + 1
      OBVIOUS
    <3>2. n \in Nat
      BY <1>2, <3>1 DEF FillRec
    <3>3. fl' = [fl EXCEPT !.pc = "group", !.try = n]
      BY <1>4, <3>1
    <3> QED BY <1>2, <3>2, <3>3 DEF FillRec
  <2>2. FillOK(db, Executed, fl')
    BY <1>2, <2>1 DEF FillOK
  <2> QED BY <1>1, <1>4, <2>2, FillQuiet
<1>5. CASE /\ fl.f \notin seen /\ db.ver = fl.snap.ver /\ fl' = IdleFill
           /\ db' = [RecordFill(fl.snap, fl.f[1]) EXCEPT !.ver = fl.snap.ver + 1]
           /\ seen' = seen \cup {fl.f}
           /\ stock' = Credited(RecordFill(fl.snap, fl.f[1]).leg[fl.f[1]])
  <2>1. PICK f : f = fl.f
    OBVIOUS
  <2>2. PICK l : l = f[1]
    OBVIOUS
  <2>3. PICK k : k = db.ver
    OBVIOUS
  <2>4. PICK s : s = RecordFill(db, l)
    OBVIOUS
  <2>5. fl.snap = db /\ k >= 1
    BY <1>2, <1>5, <2>3 DEF Copy
  <2>6. /\ db' = [s EXCEPT !.ver = k + 1] /\ seen' = seen \cup {f}
        /\ stock' = [stock EXCEPT ![s.leg[l].out] = @ + 1]
    BY <1>5, <2>1, <2>2, <2>3, <2>4, <2>5 DEF Credited
  <2>7. Executed' = Executed /\ Executed \in SUBSET Fill
    BY <1>1 DEF Executed
  <2>8. Ledger(db, Executed, seen, stock)
    BY DEF PairInv
  <2>9. /\ f \in Executed /\ f \notin seen /\ db.leg[l].st # "none"
        /\ db.leg[l].filled < db.leg[l].size
    BY <1>2, <1>5, <2>1, <2>2, <2>5
  <2>10. Ledger(db', Executed, seen', stock') /\ Advances(db, db')
    BY <2>2, <2>3, <2>4, <2>5, <2>6, <2>7, <2>8, <2>9, ApplyIs
  <2>11. FillOK(db', Executed, fl')
    BY <1>5, IdleIs
  <2>12. \A r \in Runner : RunOK(db', run[r])
    BY <1>2, <2>10, RunKept DEF PairInv
  <2>13. sub.pc # "new"
    <3>1. sub.pc = "new" => k = 0
      BY <2>3 DEF PairInv
    <3> QED BY <2>5, <3>1
  <2> QED BY <1>1, <1>2, <2>7, <2>10, <2>11, <2>12, <2>13 DEF PairInv
<1> QED BY <1>3, <1>4, <1>5 DEF CommitFill, RetryFill, FillDone, FillFails

-----------------------------------------------------------------------------
(* process_deadline *)

(* What holds of a call that goes on with a group it has read to the end. *)
LEMMA CallIs ==
    ASSUME NEW d, NEW t \in RunRec, NEW s, Copy(d, s),
           NEW pc \in {"terminal", "mark", "cancel", "fail", "barrier", "confirm"},
           NEW ids \in SUBSET Leg, NEW u, u = [t EXCEPT !.pc = pc, !.snap = s, !.ids = ids]
    PROVE  RunOK(d, u)
<1>1. s \in GroupRec
  BY DEF Copy
<1>2. u \in RunRec /\ u.pc = pc /\ u.snap = s
  BY <1>1 DEF RunRec
<1> QED BY <1>2 DEF RunOK

(* The same call, at another place. *)
LEMMA MovedCallIs ==
    ASSUME NEW d, NEW t, RunOK(d, t), t.pc \notin {"idle", "legs", "relegs"},
           NEW pc \in {"terminal", "mark", "cancel", "fail", "barrier", "confirm"},
           NEW u, u = [t EXCEPT !.pc = pc]
    PROVE  RunOK(d, u)
<1>1. t \in RunRec /\ Copy(d, t.snap)
  BY DEF RunOK
<1>2. u \in RunRec /\ u.pc = pc /\ u.snap = t.snap
  BY <1>1 DEF RunRec
<1> QED BY <1>1, <1>2 DEF RunOK

(* A call that stores s if nobody has stored anything since it read. *)
LEMMA CommitStep ==
    ASSUME PairInv, UNCHANGED <<traded, sub, fl>>, NEW r \in Runner, Copy(db, run[r].snap),
           NEW s, NEW t, CommitOr(r, s, t),
           run[r].snap = db => /\ Follows(db, s)
                               /\ RunOK([s EXCEPT !.ver = db.ver + 1], t)
    PROVE  PairInv'
<1>1. run \in [Runner -> RunRec] /\ db \in GroupRec /\ sub \in SubmitTask
  BY InvParts
<1>2. CASE Committed(run[r].snap.ver, s)
  <2>1. db.ver = run[r].snap.ver /\ Store(run[r].snap.ver, s) /\ SetRun(r, t)
    BY <1>2 DEF CommitOr, Committed
  <2>2. run[r].snap = db /\ run[r].snap.ver >= 1
    BY <2>1 DEF Copy
  <2>3. PICK k : k = db.ver
    OBVIOUS
  <2>4. Follows(db, s) /\ RunOK([s EXCEPT !.ver = k + 1], t)
    BY <2>2, <2>3
  <2>5. Store(k, s) /\ k = db.ver /\ k >= 1
    BY <2>1, <2>2, <2>3
  <2>6. db' = [s EXCEPT !.ver = k + 1]
    BY <2>5 DEF Store
  <2>7. t \in RunRec
    BY <2>4 DEF RunOK
  <2>8. run' = [run EXCEPT ![r] = t]
    BY <2>1 DEF SetRun
  <2>9. run' \in [Runner -> RunRec] /\ \A q \in Runner : run'[q] = run[q] \/ RunOK(db', run'[q])
    BY <1>1, <2>4, <2>6, <2>7, <2>8
  <2> QED BY <1>1, <2>4, <2>5, <2>9, StoreStep
<1>3. CASE ~Committed(run[r].snap.ver, s)
  <2>1. UNCHANGED dbVars /\ SetRun(r, IdleRun)
    BY <1>3 DEF CommitOr
  <2> QED BY <2>1, IdleIs, RunQuiet
<1> QED BY <1>2, <1>3

LEMMA RunLoadsGroupStep ==
    ASSUME PairInv, NEW r \in Runner, RunLoadsGroup(r)
    PROVE  PairInv'
<1>1. UNCHANGED <<dbVars, traded, sub, fl>>
  BY DEF RunLoadsGroup, exVars
<1>2. PICK s : s = LoadGroup
  OBVIOUS
<1>3. db \in GroupRec /\ db.ver >= 1
  <2>1. NoGroup.st = "none"
    BY DEF NoGroup
  <2>2. db.ver # 0
    BY <2>1 DEF RunLoadsGroup, PairInv, Ledger
  <2>3. db \in GroupRec /\ db.ver \in Nat
    BY InvParts
  <2> QED BY <2>2, <2>3
<1>4. Header(db, s)
  BY <1>2, <1>3, LoadGroupIs DEF LoadGroup
<1>5. PICK t : t = [IdleRun EXCEPT !.pc = "legs", !.snap = s]
  OBVIOUS
<1>6. t \in RunRec /\ t.pc = "legs" /\ t.snap = s
  BY <1>4, <1>5, IdleIs DEF RunRec, Header
<1>7. RunOK(db, t)
  BY <1>4, <1>6 DEF RunOK
<1>8. SetRun(r, t)
  BY <1>2, <1>5 DEF RunLoadsGroup
<1> QED BY <1>1, <1>7, <1>8, RunQuiet

LEMMA RunLoadsLegsStep ==
    ASSUME PairInv, NEW r \in Runner, RunLoadsLegs(r)
    PROVE  PairInv'
<1>1. UNCHANGED <<dbVars, traded, sub, fl>>
  BY DEF RunLoadsLegs, exVars
<1>2. PICK t : t = run[r]
  OBVIOUS
<1>3. PICK d : d = db
  OBVIOUS
<1>4. t \in RunRec /\ Header(d, t.snap) /\ d \in GroupRec
  BY <1>2, <1>3, InvParts DEF RunLoadsLegs, PairInv, RunOK
<1>5. PICK s : s = LoadLegs(t.snap)
  OBVIOUS
<1>6. Copy(d, s)
  BY <1>3, <1>4, <1>5, LoadLegsIs DEF LoadLegs
<1>7. Cancellable(s) \in SUBSET Leg /\ t.ids \in SUBSET Leg
  BY <1>4 DEF Cancellable, RunRec
<1>8. CASE SetRun(r, IdleRun)
  BY <1>1, <1>8, IdleIs, RunQuiet
<1>9. CASE SetRun(r, [t EXCEPT !.pc = "mark", !.snap = s, !.ids = Cancellable(s)])
  <2>1. PICK u : u = [t EXCEPT !.pc = "mark", !.snap = s, !.ids = Cancellable(s)]
    OBVIOUS
  <2>2. RunOK(d, u)
    BY <1>4, <1>6, <1>7, <2>1, CallIs
  <2> QED BY <1>1, <1>3, <1>9, <2>1, <2>2, RunQuiet
<1>10. CASE SetRun(r, [t EXCEPT !.pc = "terminal", !.snap = s])
  <2>1. PICK u : u = [t EXCEPT !.pc = "terminal", !.snap = s]
    OBVIOUS
  <2>2. u \in RunRec /\ u.pc = "terminal" /\ u.snap = s
    BY <1>4, <1>6, <2>1 DEF RunRec, Copy
  <2>3. RunOK(d, u)
    BY <1>6, <2>2 DEF RunOK
  <2> QED BY <1>1, <1>3, <1>10, <2>1, <2>3, RunQuiet
<1> QED BY <1>2, <1>5, <1>8, <1>9, <1>10 DEF RunLoadsLegs

LEMMA CommitTerminalStep ==
    ASSUME PairInv, NEW r \in Runner, CommitTerminal(r)
    PROVE  PairInv'
<1>1. UNCHANGED <<traded, sub, fl>> /\ Copy(db, run[r].snap)
  BY DEF CommitTerminal, exVars, PairInv, RunOK
<1>2. PICK s : s = TerminalState(run[r].snap)
  OBVIOUS
<1>3. CommitOr(r, s, IdleRun)
  BY <1>2 DEF CommitTerminal
<1>4. run[r].snap = db => Follows(db, s)
  BY <1>2, InvParts, TerminalIs, AlikeFollows
<1> QED BY <1>1, <1>3, <1>4, IdleIs, CommitStep

LEMMA CommitFreezeStep ==
    ASSUME PairInv, NEW r \in Runner, CommitFreeze(r)
    PROVE  PairInv'
<1>1. UNCHANGED <<traded, sub, fl>> /\ Copy(db, run[r].snap)
  BY DEF CommitFreeze, exVars, PairInv, RunOK
<1>2. PICK s : s = Freeze(run[r].snap)
  OBVIOUS
<1>3. CommitOr(r, s, IdleRun)
  BY <1>2 DEF CommitFreeze
<1>4. run[r].snap = db => Follows(db, s)
  BY <1>2, InvParts, FreezeIs, AlikeFollows
<1> QED BY <1>1, <1>3, <1>4, IdleIs, CommitStep

LEMMA SteppedIs ==
    ASSUME NEW s \in GroupRec, NEW k \in Nat, NEW e, e = [s EXCEPT !.ver = k + 1]
    PROVE  Copy(e, e) /\ e.leg = s.leg /\ e \in GroupRec
<1>1. e \in GroupRec /\ e.ver = k + 1 /\ e.leg = s.leg
  <2>1. k + 1 \in Nat
    OBVIOUS
  <2> QED BY <2>1 DEF GroupRec
<1> QED BY <1>1 DEF Copy

LEMMA CommitCancelPendingStep ==
    ASSUME PairInv, NEW r \in Runner, CommitCancelPending(r)
    PROVE  PairInv'
<1>1. UNCHANGED <<traded, sub, fl>> /\ Copy(db, run[r].snap)
  BY DEF CommitCancelPending, exVars, PairInv, RunOK
<1>2. PICK s : s = CancelPending(run[r].snap)
  OBVIOUS
<1>3. PICK t : t = [run[r] EXCEPT !.pc = "cancel", !.snap = Stepped(s, @.ver)]
  OBVIOUS
<1>4. CommitOr(r, s, t)
  BY <1>2, <1>3 DEF CommitCancelPending
<1>5. ASSUME run[r].snap = db
      PROVE  Follows(db, s) /\ RunOK([s EXCEPT !.ver = db.ver + 1], t)
  <2>1. Follows(db, s) /\ s \in GroupRec
    <3>1. s = CancelPending(db) /\ GroupInv(db)
      BY <1>2, <1>5, InvParts
    <3>2. Alike(db, s)
      BY <3>1, CancelPendingIs
    <3> QED BY <3>1, <3>2, AlikeFollows DEF Alike
  <2>2. PICK k : k = db.ver
    OBVIOUS
  <2>3. PICK e : e = [s EXCEPT !.ver = k + 1]
    OBVIOUS
  <2>4. Copy(e, e)
    BY <2>1, <2>2, <2>3, InvParts, SteppedIs
  <2>5. PICK c : c = run[r]
    OBVIOUS
  <2>6. c \in RunRec /\ c.ids \in SUBSET Leg
    BY <2>5, InvParts DEF RunRec
  <2>7. t = [c EXCEPT !.pc = "cancel", !.snap = e, !.ids = c.ids]
    <3>1. c.snap.ver = k
      BY <1>5, <2>2, <2>5
    <3>2. t = [c EXCEPT !.pc = "cancel", !.snap = e]
      BY <1>3, <2>3, <2>5, <3>1 DEF Stepped
    <3> QED BY <2>6, <3>2 DEF RunRec
  <2>8. RunOK(e, t)
    BY <2>4, <2>6, <2>7, CallIs
  <2> QED BY <2>1, <2>2, <2>3, <2>8
<1> QED BY <1>1, <1>4, <1>5, CommitStep

LEMMA CancelOrdersStep ==
    ASSUME PairInv, NEW r \in Runner, CancelOrders(r)
    PROVE  PairInv'
<1>1. UNCHANGED <<dbVars, traded, sub, fl>>
  BY DEF CancelOrders
<1>2. PICK t : t = run[r]
  OBVIOUS
<1>3. RunOK(db, t) /\ t.pc = "cancel"
  BY <1>2 DEF CancelOrders, PairInv
<1>4. PICK d : d = db
  OBVIOUS
<1>5. CASE SetRun(r, [t EXCEPT !.pc = "barrier"])
  <2>1. PICK u : u = [t EXCEPT !.pc = "barrier"]
    OBVIOUS
  <2>2. RunOK(d, u)
    BY <1>3, <1>4, <2>1, MovedCallIs
  <2> QED BY <1>1, <1>4, <1>5, <2>1, <2>2, RunQuiet
<1>6. CASE SetRun(r, [t EXCEPT !.pc = "fail"])
  <2>1. PICK u : u = [t EXCEPT !.pc = "fail"]
    OBVIOUS
  <2>2. RunOK(d, u)
    BY <1>3, <1>4, <2>1, MovedCallIs
  <2> QED BY <1>1, <1>4, <1>6, <2>1, <2>2, RunQuiet
<1> QED BY <1>2, <1>5, <1>6 DEF CancelOrders

LEMMA BarrierRaisesStep ==
    ASSUME PairInv, NEW r \in Runner, BarrierRaises(r)
    PROVE  PairInv'
<1>1. UNCHANGED <<dbVars, traded, sub, fl>>
  BY DEF BarrierRaises, exVars
<1>2. PICK t : t = run[r]
  OBVIOUS
<1>3. PICK d : d = db
  OBVIOUS
<1>4. RunOK(d, t) /\ t.pc = "barrier"
  BY <1>2, <1>3 DEF BarrierRaises, PairInv
<1>5. PICK u : u = [t EXCEPT !.pc = "fail"]
  OBVIOUS
<1>6. RunOK(d, u)
  BY <1>4, <1>5, MovedCallIs
<1>7. SetRun(r, u)
  BY <1>2, <1>5 DEF BarrierRaises
<1> QED BY <1>1, <1>3, <1>6, <1>7, RunQuiet

LEMMA PassBarrierStep ==
    ASSUME PairInv, NEW r \in Runner, PassBarrier(r)
    PROVE  PairInv'
<1>1. UNCHANGED <<dbVars, traded, sub, fl>>
  BY DEF PassBarrier, exVars
<1>2. PICK t : t = run[r]
  OBVIOUS
<1>3. PICK s : s = LoadGroup
  OBVIOUS
<1>4. t \in RunRec /\ Copy(db, t.snap) /\ db \in GroupRec /\ db.ver \in Nat
  BY <1>2, InvParts DEF PassBarrier, PairInv, RunOK
<1>5. db.ver >= 1
  <2>1. t.snap.ver \in Nat /\ t.snap.ver >= 1 /\ t.snap.ver <= db.ver
    BY <1>4, GroupFields DEF Copy
  <2> QED BY <1>4, <2>1
<1>6. Header(db, s)
  BY <1>3, <1>4, <1>5, LoadGroupIs DEF LoadGroup
<1>7. PICK u : u = [t EXCEPT !.pc = "relegs", !.snap = s]
  OBVIOUS
<1>8. u \in RunRec /\ u.pc = "relegs" /\ u.snap = s
  BY <1>4, <1>6, <1>7 DEF RunRec, Header
<1>9. RunOK(db, u)
  BY <1>6, <1>8 DEF RunOK
<1>10. SetRun(r, u)
  BY <1>2, <1>3, <1>7 DEF PassBarrier
<1> QED BY <1>1, <1>9, <1>10, RunQuiet

LEMMA RunReloadsLegsStep ==
    ASSUME PairInv, NEW r \in Runner, RunReloadsLegs(r)
    PROVE  PairInv'
<1>1. UNCHANGED <<dbVars, traded, sub, fl>>
  BY DEF RunReloadsLegs, exVars
<1>2. PICK t : t = run[r]
  OBVIOUS
<1>3. PICK d : d = db
  OBVIOUS
<1>4. t \in RunRec /\ Header(d, t.snap) /\ d \in GroupRec
  BY <1>2, <1>3, InvParts DEF RunReloadsLegs, PairInv, RunOK
<1>5. PICK s : s = LoadLegs(t.snap)
  OBVIOUS
<1>6. Copy(d, s)
  BY <1>3, <1>4, <1>5, LoadLegsIs DEF LoadLegs
<1>7. PICK u : u = [t EXCEPT !.pc = "confirm", !.snap = s]
  OBVIOUS
<1>8. u \in RunRec /\ u.pc = "confirm" /\ u.snap = s
  BY <1>4, <1>6, <1>7 DEF RunRec, Copy
<1>9. RunOK(d, u)
  BY <1>6, <1>8 DEF RunOK
<1>10. SetRun(r, u)
  BY <1>2, <1>5, <1>7 DEF RunReloadsLegs
<1> QED BY <1>1, <1>3, <1>9, <1>10, RunQuiet

LEMMA ConfirmCancellationsStep ==
    ASSUME PairInv, NEW r \in Runner, ConfirmCancellations(r)
    PROVE  PairInv'
<1>1. UNCHANGED <<traded, sub, fl>> /\ Copy(db, run[r].snap) /\ GroupInv(db)
  BY InvParts DEF ConfirmCancellations, exVars, PairInv, RunOK
<1>2. PICK ids : ids = run[r].ids
  OBVIOUS
<1>3. PICK s : /\ s = CancelsConfirmed(run[r].snap, ids)
               /\ \/ CommitOr(r, WithoutHedge(s), IdleRun)
                  \/ /\ NextHedge(s) # {}
                     /\ LET h == Min(NextHedge(s))
                            n == WithHedge(s, h)
                        IN  CommitOr(r, n, [run[r] EXCEPT !.pc = "post", !.h = h,
                                                          !.snap = Stepped(n, @.ver)])
  BY <1>2 DEF ConfirmCancellations
<1>4. CASE CommitOr(r, WithoutHedge(s), IdleRun)
  <2>1. PICK p : p = WithoutHedge(s)
    OBVIOUS
  <2>2. ASSUME run[r].snap = db PROVE Follows(db, p)
    <3>1. p = WithoutHedge(CancelsConfirmed(db, ids))
      BY <1>3, <2>1, <2>2
    <3>2. Alike(db, p)
      BY <1>1, <3>1, WithoutHedgeIs
    <3> QED BY <1>1, <3>2, AlikeFollows
  <2>3. CommitOr(r, p, IdleRun)
    BY <1>4, <2>1
  <2> QED BY <1>1, <2>2, <2>3, IdleIs, CommitStep
<1>5. CASE NextHedge(s) # {} /\ ~CommitOr(r, WithoutHedge(s), IdleRun)
  <2>1. PICK h : h = Min(NextHedge(s))
    OBVIOUS
  <2>2. PICK n : n = WithHedge(s, h)
    OBVIOUS
  <2>3. PICK t : t = [run[r] EXCEPT !.pc = "post", !.h = h, !.snap = Stepped(n, @.ver)]
    OBVIOUS
  <2>4. CommitOr(r, n, t)
    BY <1>3, <1>5, <2>1, <2>2, <2>3
  <2>5. h \in NextHedge(s)
    <3>1. NextHedge(s) \subseteq Nat
      BY PairAssumption DEF NextHedge, Hedge
    <3> QED BY <1>5, <2>1, <3>1, LeastIn
  <2>6. ASSUME run[r].snap = db
        PROVE  Follows(db, n) /\ RunOK([n EXCEPT !.ver = db.ver + 1], t)
    <3>1. s = CancelsConfirmed(db, ids)
      BY <1>3, <2>6
    <3>2. /\ Follows(db, n) /\ h \in Hedge /\ h \in Leg /\ n.leg[h].st # "none"
      <4>1. h \in NextHedge(CancelsConfirmed(db, ids)) /\ n = WithHedge(CancelsConfirmed(db, ids), h)
        BY <2>2, <2>5, <3>1
      <4> QED BY <1>1, <4>1, WithHedgeFollows
    <3>3. n \in GroupRec
      BY <3>2 DEF Follows, GroupInv, GroupOK
    <3>4. PICK k : k = db.ver
      OBVIOUS
    <3>5. PICK e : e = [n EXCEPT !.ver = k + 1]
      OBVIOUS
    <3>6. Copy(e, e) /\ e.leg = n.leg /\ e \in GroupRec
      BY <3>3, <3>4, <3>5, InvParts, SteppedIs
    <3>7. PICK c : c = run[r]
      OBVIOUS
    <3>8. c \in RunRec /\ c.snap.ver = k
      BY <2>6, <3>4, <3>7, InvParts
    <3>9. t = [c EXCEPT !.pc = "post", !.h = h, !.snap = e]
      BY <2>3, <3>5, <3>7, <3>8 DEF Stepped
    <3>10. t \in RunRec /\ t.pc = "post" /\ t.h = h /\ t.snap = e
      BY <3>2, <3>6, <3>8, <3>9 DEF RunRec
    <3>11. RunOK(e, t)
      BY <3>2, <3>6, <3>10 DEF RunOK
    <3> QED BY <3>2, <3>4, <3>5, <3>11
  <2> QED BY <1>1, <2>4, <2>6, CommitStep
<1> QED BY <1>3, <1>4, <1>5

LEMMA PostHedgeStep ==
    ASSUME PairInv, NEW r \in Runner, PostHedge(r)
    PROVE  PairInv'
<1>1. UNCHANGED <<dbVars, traded, sub, fl>>
  BY DEF PostHedge
<1>2. PICK t : t = run[r]
  OBVIOUS
<1>3. RunOK(db, t) /\ t.pc = "post"
  BY <1>2 DEF PostHedge, PairInv
<1>4. PICK res \in LegResult \ {"none"} : SetRun(r, [run[r] EXCEPT !.pc = "hedged", !.res = res])
  BY DEF PostHedge
<1>5. PICK u : u = [t EXCEPT !.pc = "hedged", !.res = res]
  OBVIOUS
<1>6. t \in RunRec /\ Copy(db, t.snap) /\ t.h \in Leg /\ t.snap.leg[t.h].st # "none"
  BY <1>3 DEF RunOK
<1>7. u \in RunRec /\ u.pc = "hedged" /\ u.snap = t.snap /\ u.h = t.h
  BY <1>5, <1>6 DEF RunRec
<1>8. RunOK(db, u)
  BY <1>6, <1>7 DEF RunOK
<1>9. SetRun(r, u)
  BY <1>2, <1>4, <1>5
<1> QED BY <1>1, <1>8, <1>9, RunQuiet

LEMMA CommitHedgeStep ==
    ASSUME PairInv, NEW r \in Runner, CommitHedge(r)
    PROVE  PairInv'
<1>1. UNCHANGED <<traded, sub, fl>> /\ SetRun(r, IdleRun)
  BY DEF CommitHedge
<1>2. /\ Copy(db, run[r].snap) /\ run[r].h \in Leg
      /\ run[r].snap.leg[run[r].h].st # "none"
      /\ GroupInv(db) /\ run \in [Runner -> RunRec] /\ sub \in SubmitTask
  BY InvParts DEF CommitHedge, PairInv, RunOK
<1>3. PICK h, a, s : /\ h = run[r].h /\ a = (run[r].res = "accepted")
                     /\ s = RecordHedge(run[r].snap, h, a)
                     /\ \/ Committed(run[r].snap.ver, s) /\ Store(run[r].snap.ver, s)
                        \/ UNCHANGED dbVars
  BY DEF CommitHedge
<1>4. CASE Committed(run[r].snap.ver, s) /\ Store(run[r].snap.ver, s)
  <2>1. PICK k : k = db.ver
    OBVIOUS
  <2>2. /\ run[r].snap = db /\ Store(k, s) /\ k >= 1
    BY <1>2, <1>4, <2>1 DEF Committed, Copy
  <2>3. Alike(db, s)
    <3>1. h \in Leg /\ db.leg[h].st # "none" /\ s = RecordHedge(db, h, a) /\ a \in BOOLEAN
      BY <1>2, <1>3, <2>2
    <3> QED BY <1>2, <3>1, RecordHedgeIs
  <2>4. Follows(db, s)
    BY <1>2, <2>3, AlikeFollows
  <2>5. /\ run' \in [Runner -> RunRec]
        /\ \A q \in Runner : run'[q] = run[q] \/ RunOK(db', run'[q])
    BY <1>1, <1>2, IdleIs DEF SetRun
  <2> QED BY <1>1, <1>2, <2>1, <2>2, <2>4, <2>5, StoreStep
<1>5. CASE UNCHANGED dbVars
  BY <1>1, <1>5, IdleIs, RunQuiet
<1> QED BY <1>3, <1>4, <1>5

LEMMA FaultStep ==
    ASSUME PairInv, Fault
    PROVE  PairInv'
<1>0. sub \in SubmitTask
  BY InvParts
<1>1. CASE AbortSubmit
  <2>1. UNCHANGED <<dbVars, traded, fl, run>> /\ SetSub("done")
    BY <1>1 DEF AbortSubmit, exVars
  <2> QED BY <1>0, <2>1, SubIs, SubmitQuiet
<1>2. CASE AbortFill
  <2>1. UNCHANGED <<dbVars, traded, sub, run>> /\ fl' = IdleFill
    BY <1>2 DEF AbortFill, FillFails, exVars
  <2> QED BY <2>1, IdleIs, FillQuiet
<1>3. ASSUME NEW r \in Runner, AbortRun(r) PROVE PairInv'
  <2>1. UNCHANGED <<dbVars, traded, sub, fl>> /\ SetRun(r, IdleRun)
    BY <1>3 DEF AbortRun, exVars
  <2> QED BY <2>1, IdleIs, RunQuiet
<1>4. CASE Restart
  <2>1. /\ db' = db /\ seen' = seen /\ stock' = stock /\ traded' = traded
        /\ fl' = IdleFill /\ run' = [r \in Runner |-> IdleRun] /\ SetSub("done")
    BY <1>4 DEF Restart, dbVars, exVars
  <2>2. sub' \in SubmitTask /\ sub'.pc # "new"
    BY <1>0, <2>1, SubIs
  <2>3. Executed' = Executed
    BY <2>1 DEF Executed
  <2>4. FillOK(db', Executed', fl')
    BY <2>1, IdleIs
  <2>5. run' \in [Runner -> RunRec] /\ \A r \in Runner : RunOK(db', run'[r])
    BY <2>1, IdleIs
  <2> QED BY <2>1, <2>2, <2>3, <2>4, <2>5 DEF PairInv
<1> QED BY <1>1, <1>2, <1>3, <1>4 DEF Fault

LEMMA PairStep ==
    ASSUME PairInv, [Next]_vars
    PROVE  PairInv'
<1>1. CASE (\E l \in Leg : Trade(l)) /\ UNCHANGED calm
  BY <1>1, TradeStep
<1>2. CASE Submission /\ UNCHANGED calm
  BY <1>2, SubmissionStep
<1>3. CASE Delivery
  BY <1>3, DeliverStep DEF Delivery
<1>4. CASE OnFill
  BY <1>4, FillLoadsGroupStep, FillLoadsLegsStep, CommitFillStep DEF OnFill
<1>5. ASSUME NEW r \in Runner, ProcessDeadline(r) PROVE PairInv'
  <2>1. CASE RunLoadsGroup(r) \/ RunLoadsLegs(r) \/ CommitTerminal(r) \/ CommitCancelPending(r)
    BY <2>1, RunLoadsGroupStep, RunLoadsLegsStep, CommitTerminalStep, CommitCancelPendingStep
  <2>2. CASE CancelOrders(r) \/ CommitFreeze(r) \/ PassBarrier(r) \/ BarrierRaises(r)
    BY <2>2, CancelOrdersStep, CommitFreezeStep, PassBarrierStep, BarrierRaisesStep
  <2>3. CASE RunReloadsLegs(r) \/ ConfirmCancellations(r) \/ PostHedge(r) \/ CommitHedge(r)
    BY <2>3, RunReloadsLegsStep, ConfirmCancellationsStep, PostHedgeStep, CommitHedgeStep
  <2> QED BY <1>5, <2>1, <2>2, <2>3 DEF ProcessDeadline
<1>6. CASE Fault
  BY <1>6, FaultStep
<1>7. CASE UNCHANGED vars
  <2>1. /\ db' = db /\ seen' = seen /\ stock' = stock /\ traded' = traded /\ fl' = fl
        /\ run' = run /\ sub' = sub
    BY <1>7 DEF vars
  <2>2. UNCHANGED <<dbVars, traded, fl, run>>
    BY <2>1 DEF dbVars
  <2> QED BY <2>1, <2>2, InvParts, SubmitQuiet
<1> QED BY <1>1, <1>2, <1>3, <1>4, <1>5, <1>6, <1>7 DEF Next

-----------------------------------------------------------------------------
(* The theorems *)

LEMMA PairInductive == Spec => []PairInv
BY PairInit, PairStep, PTL DEF Spec

(* Every applied fill is counted once in its leg and once in pair_inventory, *)
(* and only executed shares are: whatever number of process_deadline calls   *)
(* runs beside on_fill, however often calls are cut off or the process       *)
(* restarts, and also when a trade is delivered before its order's id is     *)
(* stored (commit_pair_fill, order_manager.record_fill).                     *)
THEOREM InventoryTheorem == Spec => []InventoryExact
<1>1. PairInv => InventoryExact
  BY DEF PairInv, Ledger, InventoryExact
<1> QED BY <1>1, PairInductive, PTL

LEMMA FillIsTaken ==
    ASSUME PairInv
    PROVE  FillTaken
<1> SUFFICES ASSUME fl.pc = "commit", fl.f \notin seen, db.ver = fl.snap.ver
             PROVE  FillAccepts(db, fl.f[1], RecordFill(fl.snap, fl.f[1]))
  BY DEF FillTaken
<1>1. /\ fl.f \in Executed /\ db.leg[fl.f[1]].st # "none"
      /\ fl.snap.leg[fl.f[1]].filled < fl.snap.leg[fl.f[1]].size
      /\ fl.snap = db /\ db.ver >= 1
  BY DEF PairInv, FillOK, Copy
<1>2. PICK d, x, sn, sk : d = db /\ x = Executed /\ sn = seen /\ sk = stock
  OBVIOUS
<1>3. PICK f, l, s, k : f = fl.f /\ l = f[1] /\ s = RecordFill(d, l) /\ k = d.ver
  OBVIOUS
<1>4. x \in SUBSET Fill /\ Ledger(d, x, sn, sk)
  BY <1>2, ExecutedIn DEF PairInv
<1>5. /\ f \in x /\ f \notin sn /\ d.leg[l].st # "none" /\ d.leg[l].filled < d.leg[l].size
      /\ k >= 1
  BY <1>1, <1>2, <1>3
<1>6. FillAccepts(d, l, s)
  BY <1>3, <1>4, <1>5, ApplyIs
<1> QED BY <1>1, <1>2, <1>3, <1>6

LEMMA TransitionIsTaken ==
    ASSUME PairInv
    PROVE  TransitionTaken
<1> SUFFICES ASSUME NEW r \in Runner, db.ver = run[r].snap.ver
             PROVE  LET s == run[r].snap IN
                    /\ run[r].pc = "terminal" => TransitionAccepts(db, TerminalState(s))
                    /\ run[r].pc = "mark" => TransitionAccepts(db, CancelPending(s))
                    /\ run[r].pc = "fail" => TransitionAccepts(db, Freeze(s))
                    /\ run[r].pc = "confirm" =>
                          TransitionAccepts(db, WithoutHedge(CancelsConfirmed(s, run[r].ids)))
                    /\ run[r].pc = "hedged" =>
                          TransitionAccepts(db, RecordHedge(s, run[r].h, run[r].res = "accepted"))
  BY DEF TransitionTaken
<1>1. PICK t, d : t = run[r] /\ d = db
  OBVIOUS
<1>2. GroupInv(d) /\ RunOK(d, t) /\ d.ver = t.snap.ver
  BY <1>1, InvParts DEF PairInv
<1>3. t.pc \notin {"idle", "legs", "relegs"} => t.snap = d
  BY <1>2 DEF RunOK, Copy
<1>4. t.pc = "terminal" => TransitionAccepts(d, TerminalState(t.snap))
  <2>1. TransitionAccepts(d, TerminalState(d))
    BY <1>2, TerminalIs, AlikeIsTaken
  <2> QED BY <1>3, <2>1
<1>5. t.pc = "mark" => TransitionAccepts(d, CancelPending(t.snap))
  <2>1. TransitionAccepts(d, CancelPending(d))
    BY <1>2, CancelPendingIs, AlikeIsTaken
  <2> QED BY <1>3, <2>1
<1>6. t.pc = "fail" => TransitionAccepts(d, Freeze(t.snap))
  <2>1. TransitionAccepts(d, Freeze(d))
    BY <1>2, FreezeIs, AlikeIsTaken
  <2> QED BY <1>3, <2>1
<1>7. t.pc = "confirm" => TransitionAccepts(d, WithoutHedge(CancelsConfirmed(t.snap, t.ids)))
  <2>1. TransitionAccepts(d, WithoutHedge(CancelsConfirmed(d, t.ids)))
    BY <1>2, WithoutHedgeIs, AlikeIsTaken
  <2> QED BY <1>3, <2>1
<1>8. ASSUME t.pc = "hedged"
      PROVE  TransitionAccepts(d, RecordHedge(t.snap, t.h, t.res = "accepted"))
  <2>1. PICK a : a = (t.res = "accepted")
    OBVIOUS
  <2>2. t.h \in Leg /\ d.leg[t.h].st # "none" /\ a \in BOOLEAN
    BY <1>2, <1>3, <1>8, <2>1 DEF RunOK
  <2>3. TransitionAccepts(d, RecordHedge(d, t.h, a))
    BY <1>2, <2>2, RecordHedgeIs, AlikeIsTaken
  <2> QED BY <1>3, <1>8, <2>1, <2>3
<1> QED BY <1>1, <1>4, <1>5, <1>6, <1>7, <1>8

(* A fill and a transition that win the compare-and-set on the group's       *)
(* version pass every check of commit_pair_fill and of                       *)
(* commit_pair_group_transition, although the state was read in two          *)
(* statements and computed by PairOrderManager: what is not out of date is   *)
(* accepted.                                                                 *)
THEOREM AcceptedTheorem == Spec => []CurrentIsAccepted
<1>1. PairInv => CurrentIsAccepted
  BY FillIsTaken, TransitionIsTaken DEF CurrentIsAccepted
<1> QED BY <1>1, PairInductive, PTL

-----------------------------------------------------------------------------
(* What the group knows of the exchange *)

ExecutedBy(tr) == {f \in Fill : f[2] <= tr[f[1]]}

(* No order of leg l can trade, and the group was told of every trade of it. *)
Known(bk, tr, sn, l) ==
    bk[l] # "open" /\ \A f \in ExecutedBy(tr) : f[1] = l => f \in sn

(* The statuses of a leg that says so; "none" is a leg never posted. *)
Closed == {"none", "filled", "cancelled"}

(* What a group's status says of its legs.  A frozen or failed group may     *)
(* have legs in any status.                                                  *)
Shape(d) ==
    /\ \A l \in Leg :
          /\ l \in Entry /\ d.leg[l].st # "none" =>
                d.leg[l].out = l /\ d.leg[l].size = Target
          /\ d.leg[l].st \in {"open", "partially_filled"} =>
                d.leg[l].id = TRUE /\ d.leg[l].filled < d.leg[l].size
          /\ d.leg[l].st = "filled" => d.leg[l].filled = d.leg[l].size
          /\ d.leg[l].st = "planned" =>
                d.leg[l].id = FALSE /\ d.leg[l].filled = 0 /\ d.leg[l].size > 0
    /\ d.st = "none" => d.ver = 0
    /\ d.st = "planned" => d.ver = 1
    /\ d.st \in {"working", "imbalanced"} =>
          /\ \A l \in Entry : d.leg[l].st \in {"open", "partially_filled", "filled"}
          /\ \A l \in Hedge : d.leg[l].st = "none"
    /\ d.st = "cancelling" => \A l \in Leg : d.leg[l].st \in Closed \cup {"cancel_pending"}
    /\ d.st = "hedging" =>
          \E h \in Hedge : /\ d.leg[h].st \in {"planned", "open", "partially_filled"}
                           /\ \A l \in Leg \ {h} : d.leg[l].st \in Closed
    /\ d.st \in {"paired", "cancelled"} =>
          /\ \A l \in Leg : d.leg[l].st \in Closed
          /\ Bought(d.leg, Yes) = Bought(d.leg, No)

(* Orders of stored legs only, and never more than they are for. *)
Orders == [Leg -> {"none", "open", "closed"}]

Market(d, bk, tr) ==
    /\ bk \in Orders
    /\ \A l \in Leg : /\ tr[l] <= d.leg[l].size
                      /\ bk[l] = "open" => tr[l] < d.leg[l].size
                      /\ d.leg[l].st = "none" => bk[l] = "none" /\ tr[l] = 0

(* Verdicts: a cancelled leg is known, and so is every trade that the        *)
(* reconciler has dealt with of a leg with an id.                            *)
Verdicts(d, bk, tr, sn, nt) ==
    /\ \A l \in Leg : d.leg[l].st = "cancelled" => Known(bk, tr, sn, l)
    /\ nt \subseteq ExecutedBy(tr)
    /\ \A f \in nt : d.leg[f[1]].id = TRUE => f \in sn

(* submit_plan works on the plan it has stored; until it stores the ids no   *)
(* trade of an entry leg is dealt with.                                      *)
SubmitterOK(d, bk, tr, nt, pc) ==
    /\ pc \notin {"new", "done"} => d.ver = 1
    /\ pc \in {"new", "batch"} => \A l \in Leg : bk[l] = "none" /\ tr[l] = 0
    /\ pc \in {"batch", "cancel", "result"} => \A f \in nt : f[1] \notin Entry

Cancelling == {"cancel", "fail", "barrier", "relegs", "confirm"}

(* The shares that hedge h is for are those that are missing. *)
Matches(d, h) ==
    Bought(d.leg, d.leg[h].out) + d.leg[h].size =
        Bought(d.leg, IF d.leg[h].out = Yes THEN No ELSE Yes)

CallOK(d, bk, tr, sn, nt, t) ==
    /\ t.pc = "terminal" => TerminalState(t.snap).st = "frozen"
    /\ t.pc = "mark" => /\ t.snap.st \notin Settled
                        /\ t.ids = Cancellable(t.snap) /\ t.ids # {}
    /\ t.pc \in Cancelling =>
          /\ d.st \in {"cancelling", "frozen"}
          /\ \A l \in Leg : d.leg[l].st \in Closed \/ (d.leg[l].st = "cancel_pending" /\ l \in t.ids)
          /\ \A l \in t.ids : d.leg[l].id = TRUE
    /\ t.pc = "barrier" => \A l \in t.ids : bk[l] # "open"
    /\ t.pc \in {"relegs", "confirm"} => \A l \in t.ids : Known(bk, tr, sn, l)
    /\ t.pc = "post" =>
          /\ t.h \in Hedge /\ d.leg[t.h].st = "planned" /\ bk[t.h] = "none" /\ tr[t.h] = 0
          /\ \A l \in Leg \ {t.h} : d.leg[l].st \in Closed
          /\ d.st \in {"hedging", "frozen"}
          /\ Matches(d, t.h)
    /\ t.pc = "hedged" => t.h \in Hedge /\ d.leg[t.h].st = "planned" /\ \A f \in nt : f[1] # t.h
    /\ t.pc \in {"post", "hedged"} /\ t.snap.ver = d.ver => d.st = "hedging"

(* One call cancels at a time, and no two calls post the same hedge. *)
OneCanceller(rn) ==
    \A r, q \in Runner : r # q =>
        /\ ~(rn[r].pc \in Cancelling /\ rn[q].pc \in Cancelling)
        /\ rn[r].pc \in {"post", "hedged"} /\ rn[q].pc \in {"post", "hedged"} =>
              rn[r].h # rn[q].h

ExposureInv ==
    /\ Shape(db)
    /\ Market(db, book, traded)
    /\ Verdicts(db, book, traded, seen, notified)
    /\ SubmitterOK(db, book, traded, notified, sub.pc)
    /\ fl.pc # "idle" => db.leg[fl.f[1]].id = TRUE
    /\ \A r \in Runner : CallOK(db, book, traded, seen, notified, run[r])
    /\ OneCanceller(run)

LEMMA KnownKept ==
    ASSUME NEW bk, NEW tr, NEW sn, NEW l, Known(bk, tr, sn, l), NEW bl,
           bl[l] = "open" => bk[l] = "open", NEW so, sn \subseteq so
    PROVE  Known(bl, tr, so, l)
BY DEF Known

LEMMA ExecutedIs == Executed = ExecutedBy(traded)
BY DEF Executed, ExecutedBy

(* Trades executed of one leg. *)
LEMMA ExecutedBound ==
    ASSUME NEW tr \in [Leg -> Nat], NEW l \in Leg,
           NEW E, E = {f \in ExecutedBy(tr) : f[1] = l}
    PROVE  IsFiniteSet(E) /\ Cardinality(E) \in Nat /\ Cardinality(E) <= tr[l]
<1>1. tr[l] \in Nat
  OBVIOUS
<1>2. IsFiniteSet(1 .. tr[l]) /\ Cardinality(1 .. tr[l]) = tr[l]
  <2>1. 1 \in Int /\ tr[l] \in Int
    BY <1>1
  <2>2. /\ IsFiniteSet(1 .. tr[l])
        /\ Cardinality(1 .. tr[l]) = IF 1 > tr[l] THEN 0 ELSE tr[l] - 1 + 1
    BY <2>1, FS_Interval
  <2> QED BY <1>1, <2>2
<1> DEFINE G == [f \in E |-> f[2]]
<1>3. \A f \in E : f[1] = l /\ f[2] \in 1 .. tr[l] /\ f = <<f[1], f[2]>>
  BY <1>1, PairAssumption DEF ExecutedBy, Fill
<1>4. G \in Injection(E, 1 .. tr[l])
  <2>1. G \in [E -> 1 .. tr[l]]
    BY <1>3
  <2>2. \A a, b \in E : G[a] = G[b] => a = b
    BY <1>3
  <2>3. DOMAIN G = E
    OBVIOUS
  <2> HIDE DEF G
  <2> QED BY <2>1, <2>2, <2>3 DEF Injection, IsInjective
<1> HIDE DEF G
<1>5. IsFiniteSet(E) /\ Cardinality(E) <= Cardinality(1 .. tr[l])
  BY <1>2, <1>4, FS_Injection
<1>6. Cardinality(E) \in Nat
  BY <1>5, FS_CardinalityType
<1> QED BY <1>2, <1>5, <1>6

(* A leg in one of the three closed statuses is known. *)
LEMMA ClosedIsKnown ==
    ASSUME PairInv, ExposureInv, NEW l \in Leg, db.leg[l].st \in Closed
    PROVE  Known(book, traded, seen, l)
<1>1. traded \in [Leg -> Nat] /\ db.leg[l] \in LegRec
  BY InvParts
<1>2. CASE db.leg[l].st = "none"
  <2>1. book[l] = "none" /\ traded[l] = 0
    BY <1>2 DEF ExposureInv, Market
  <2>2. \A f \in ExecutedBy(traded) : f[1] # l
    BY <2>1, PairAssumption DEF ExecutedBy, Fill
  <2> QED BY <2>1, <2>2 DEF Known
<1>3. CASE db.leg[l].st = "cancelled"
  BY <1>3 DEF ExposureInv, Verdicts
<1>4. CASE db.leg[l].st = "filled"
  <2> DEFINE S == {f \in seen : f[1] = l}
             E == {f \in ExecutedBy(traded) : f[1] = l}
  <2>1. seen \subseteq ExecutedBy(traded) /\ S \subseteq E
    BY InvParts, ExecutedIs
  <2>2. IsFiniteSet(E) /\ Cardinality(E) \in Nat /\ Cardinality(E) <= traded[l]
    BY <1>1, ExecutedBound
  <2>3. Cardinality(S) = db.leg[l].size
    <3>1. db.leg[l].filled = Cardinality(S)
      BY DEF PairInv, Ledger
    <3>2. db.leg[l].filled = db.leg[l].size
      BY <1>4 DEF ExposureInv, Shape
    <3> QED BY <3>1, <3>2
  <2>4. /\ traded[l] <= db.leg[l].size
        /\ book[l] = "open" => traded[l] < db.leg[l].size
    BY DEF ExposureInv, Market
  <2>5. db.leg[l].size \in Nat /\ traded[l] \in Nat
    BY <1>1, LegFields
  <2> HIDE DEF S, E
  <2>6. /\ IsFiniteSet(S) /\ Cardinality(S) <= Cardinality(E)
        /\ Cardinality(S) = Cardinality(E) => S = E
    BY <2>1, <2>2, FS_Subset
  <2>7. Cardinality(S) = Cardinality(E) /\ book[l] # "open"
    BY <2>2, <2>3, <2>4, <2>5, <2>6
  <2>8. \A f \in ExecutedBy(traded) : f[1] = l => f \in seen
    BY <2>6, <2>7 DEF S, E
  <2> QED BY <2>7, <2>8 DEF Known
<1> QED BY <1>2, <1>3, <1>4 DEF Closed

(* Of known legs as much was executed as was bought. *)
LEMMA KnownIsBought ==
    ASSUME PairInv, \A l \in Leg : Known(book, traded, seen, l), NEW o
    PROVE  ExecutedOf(o) = Bought(db.leg, o)
<1> DEFINE C(l) == {f \in seen : f[1] = l}
<1>1. traded \in [Leg -> Nat] /\ db.leg \in [Leg -> LegRec]
  BY InvParts
<1>2. seen = Executed
  BY InvParts, ExecutedIs DEF Known, ExecutedBy, Fill
<1>3. ASSUME NEW l \in Leg, NEW k \in 1 .. Target
      PROVE  k <= traded[l] <=> k <= db.leg[l].filled
  <2>1. traded[l] \in Nat /\ Target \in Nat /\ k \in Nat /\ k >= 1 /\ k <= Target
    BY <1>1, PairAssumption
  <2> DEFINE m == IF traded[l] <= Target THEN traded[l] ELSE Target
             F == [j \in 1 .. m |-> <<l, j>>]
  <2>2. m \in Nat /\ \A j \in 1 .. Target : j <= traded[l] <=> j <= m
    BY <2>1
  <2>3. C(l) = {f \in Fill : f[1] = l /\ f[2] <= m}
    BY <1>2, <2>2 DEF Executed, Fill
  <2>4. Cardinality(C(l)) = m
    <3> HIDE DEF m
    <3>1. \A j \in 1 .. m : <<l, j>> \in C(l)
      <4>1. \A j \in 1 .. m : j \in 1 .. Target /\ j <= m
        BY <2>1, <2>2 DEF m
      <4> QED BY <2>3, <4>1 DEF Fill
    <3>2. \A f \in C(l) : f[2] \in 1 .. m /\ f = <<l, f[2]>>
      BY <2>2, <2>3, PairAssumption DEF Fill
    <3> HIDE DEF C
    <3>3. F \in [1 .. m -> C(l)] /\ DOMAIN F = 1 .. m
      BY <3>1
    <3>4. \A i, j \in 1 .. m : F[i] = F[j] => i = j
      OBVIOUS
    <3>5. \A f \in C(l) : \E j \in 1 .. m : F[j] = f
      BY <3>2
    <3> HIDE DEF F
    <3>6. F \in Surjection(1 .. m, C(l)) /\ F \in Injection(1 .. m, C(l))
      BY <3>3, <3>4, <3>5 DEF Surjection, Injection, IsInjective
    <3>7. IsFiniteSet(1 .. m) /\ Cardinality(1 .. m) = m
      <4>1. 1 \in Int /\ m \in Int
        BY <2>2
      <4>2. IsFiniteSet(1 .. m) /\ Cardinality(1 .. m) = IF 1 > m THEN 0 ELSE m - 1 + 1
        BY <4>1, FS_Interval
      <4> QED BY <2>2, <4>2
    <3> QED BY <3>6, <3>7, FS_Surjection
  <2>5. db.leg[l].filled = Cardinality(C(l))
    BY DEF PairInv, Ledger
  <2> QED BY <2>2, <2>4, <2>5
<1>4. {f \in Executed : db.leg[f[1]].out = o} = SharesOf(db.leg, o)
  <2>1. \A f \in Fill : f[1] \in Leg /\ f[2] \in 1 .. Target
    BY DEF Fill
  <2> QED BY <1>3, <2>1 DEF Executed, SharesOf, Fill
<1> QED BY <1>4 DEF ExecutedOf, Bought

(* Nothing is under way for a plan or for no group. *)
LEMMA EarlyGroup ==
    ASSUME PairInv, db.ver = 0 \/ db.ver = 1
    PROVE  /\ db.st = "none" \/ db.st = "planned"
           /\ \A l \in Leg : /\ db.leg[l].id = FALSE /\ db.leg[l].filled = 0
                             /\ db.leg[l].st \in {"none", "planned"}
           /\ Even(InventoryOf(db.leg)) /\ Cancellable(db) = {}
<1>1. db = NoGroup \/ db = PlanState
  BY DEF PairInv, Ledger
<1>2. /\ NoLeg.id = FALSE /\ NoLeg.filled = 0 /\ NoLeg.st = "none"
      /\ \A o, n : /\ NewLeg(o, n).id = FALSE /\ NewLeg(o, n).filled = 0
                   /\ NewLeg(o, n).st = "planned"
  BY DEF NoLeg, NewLeg
<1>3. \A l \in Leg : PlannedLegs[l] = NoLeg \/ PlannedLegs[l] = NewLeg(l, Target)
  BY DEF PlannedLegs
<1>4. PlanState.st = "planned" /\ PlanState.leg = PlannedLegs
  BY DEF PlanState, NoGroup
<1>5. NoGroup.st = "none" /\ \A l \in Leg : NoGroup.leg[l] = NoLeg
  BY DEF NoGroup
<1>6. /\ db.st = "none" \/ db.st = "planned"
      /\ \A l \in Leg : /\ db.leg[l].id = FALSE /\ db.leg[l].filled = 0
                        /\ db.leg[l].st \in {"none", "planned"}
  <2>1. CASE db = NoGroup
    BY <1>2, <1>5, <2>1
  <2>2. CASE db = PlanState
    <3>1. \A l \in Leg : db.leg[l] = NoLeg \/ db.leg[l] = NewLeg(l, Target)
      BY <1>3, <1>4, <2>2
    <3> QED BY <1>2, <1>4, <2>2, <3>1
  <2> QED BY <1>1, <2>1, <2>2
<1>7. InventoryOf(db.leg) = [paired |-> 0, yes |-> 0, no |-> 0]
  BY <1>6, NothingBought
<1>8. Even(InventoryOf(db.leg)) /\ Cancellable(db) = {}
  BY <1>6, <1>7 DEF Even, Cancellable
<1> QED BY <1>6, <1>8

-----------------------------------------------------------------------------
(* What leaves the exposure as it is *)

(* A call that neither cancels nor hedges relies on nothing but its copy. *)
LEMMA Bystander ==
    ASSUME NEW t, t.pc \notin Cancelling, t.pc \notin {"post", "hedged"},
           NEW d, NEW bk, NEW tr, NEW sn, NEW nt, CallOK(d, bk, tr, sn, nt, t),
           NEW e, NEW bl, NEW tl, NEW so, NEW mt
    PROVE  CallOK(e, bl, tl, so, mt, t)
BY DEF CallOK, Cancelling

LEMMA IdleCall ==
    ASSUME NEW e, NEW bl, NEW tl, NEW so, NEW mt
    PROVE  CallOK(e, bl, tl, so, mt, IdleRun)
BY IdleIs DEF CallOK, Cancelling

(* Orders were cancelled, and none was posted. *)
Shrinks(bk, bl) ==
    /\ bl \in Orders
    /\ \A l \in Leg : bl[l] = bk[l] \/ (bk[l] = "open" /\ bl[l] = "closed")

LEMMA CancelledShrinks ==
    ASSUME ExposureInv, NEW c
    PROVE  Shrinks(book, CancelledBook(c)) /\ Shrinks(book, book)
BY DEF Shrinks, CancelledBook, ExposureInv, Market, Orders

LEMMA KnownShrunk ==
    ASSUME NEW bk, NEW bl, Shrinks(bk, bl), NEW tr, NEW sn, NEW l \in Leg, Known(bk, tr, sn, l)
    PROVE  Known(bl, tr, sn, l)
BY DEF Known, Shrinks

LEMMA CallShrunk ==
    ASSUME NEW t \in RunRec, NEW bk, NEW bl, Shrinks(bk, bl), NEW d, NEW tr, NEW sn, NEW nt,
           CallOK(d, bk, tr, sn, nt, t)
    PROVE  CallOK(d, bl, tr, sn, nt, t)
<1>1. \A l \in t.ids : l \in Leg
  BY DEF RunRec
<1>2. \A l \in Leg : bl[l] = "open" => bk[l] = "open"
  BY DEF Shrinks
<1>3. \A l \in Leg : bk[l] = "none" => bl[l] = "none"
  BY DEF Shrinks
<1>4. \A l \in Leg : Known(bk, tr, sn, l) => Known(bl, tr, sn, l)
  BY KnownShrunk
<1>5. t.pc = "barrier" => \A l \in t.ids : bl[l] # "open"
  BY <1>1, <1>2 DEF CallOK
<1>6. t.pc \in {"relegs", "confirm"} => \A l \in t.ids : Known(bl, tr, sn, l)
  BY <1>1, <1>4 DEF CallOK
<1>7. t.pc = "post" => t.h \in Leg /\ bl[t.h] = "none"
  BY <1>3 DEF CallOK, Leg
<1> QED BY <1>5, <1>6, <1>7 DEF CallOK

(* A step that leaves the group, the trades and what was told alone. *)
LEMMA QuietExposure ==
    ASSUME PairInv, ExposureInv,
           db' = db, seen' = seen, traded' = traded, notified' = notified,
           Shrinks(book, book'),
           fl'.pc # "idle" => db.leg[fl'.f[1]].id = TRUE,
           sub'.pc \notin {"new", "done"} => db.ver = 1,
           sub'.pc \in {"new", "batch"} => sub.pc \in {"new", "batch"},
           sub'.pc \in {"batch", "cancel", "result"} => sub.pc \in {"batch", "cancel", "result"},
           \A r \in Runner : CallOK(db, book', traded, seen, notified, run'[r]),
           OneCanceller(run')
    PROVE  ExposureInv'
<1>1. Market(db, book', traded)
  BY DEF ExposureInv, Market, Shrinks
<1>2. Verdicts(db, book', traded, seen, notified)
  BY KnownShrunk DEF ExposureInv, Verdicts
<1>3. SubmitterOK(db, book', traded, notified, sub'.pc)
  <2>1. SubmitterOK(db, book, traded, notified, sub.pc)
    BY DEF ExposureInv
  <2>2. sub'.pc \in {"new", "batch"} => \A l \in Leg : book'[l] = "none" /\ traded[l] = 0
    BY <2>1 DEF SubmitterOK, Shrinks
  <2> QED BY <2>1, <2>2 DEF SubmitterOK
<1>4. Shape(db) 
  BY DEF ExposureInv
<1> QED BY <1>1, <1>2, <1>3, <1>4 DEF ExposureInv

(* One call moves on. *)
LEMMA OneKept ==
    ASSUME NEW rn \in [Runner -> RunRec], OneCanceller(rn), NEW r \in Runner, NEW u,
           u.pc \in Cancelling => rn[r].pc \in Cancelling,
           u.pc \in {"post", "hedged"} => rn[r].pc \in {"post", "hedged"} /\ u.h = rn[r].h,
           NEW rm, rm = [rn EXCEPT ![r] = u]
    PROVE  OneCanceller(rm)
<1>1. \A q \in Runner : rm[q] = IF q = r THEN u ELSE rn[q]
  OBVIOUS
<1> QED BY <1>1 DEF OneCanceller

LEMMA RunExposure ==
    ASSUME PairInv, ExposureInv,
           db' = db, seen' = seen, traded' = traded, notified' = notified, sub' = sub, fl' = fl,
           Shrinks(book, book'), NEW r \in Runner, NEW u, SetRun(r, u),
           CallOK(db, book', traded, seen, notified, u),
           u.pc \in Cancelling => run[r].pc \in Cancelling,
           u.pc \in {"post", "hedged"} => run[r].pc \in {"post", "hedged"} /\ u.h = run[r].h
    PROVE  ExposureInv'
<1>1. run \in [Runner -> RunRec] /\ run' = [run EXCEPT ![r] = u]
  BY InvParts DEF SetRun
<1>2. \A q \in Runner : CallOK(db, book', traded, seen, notified, run[q])
  BY <1>1, CallShrunk DEF ExposureInv
<1>3. \A q \in Runner : CallOK(db, book', traded, seen, notified, run'[q])
  BY <1>1, <1>2
<1>4. OneCanceller(run')
  <2>1. PICK rn, rm : rn = run /\ rm = [run EXCEPT ![r] = u]
    OBVIOUS
  <2>2. OneCanceller(rn)
    BY <2>1 DEF ExposureInv
  <2>3. OneCanceller(rm)
    BY <1>1, <2>1, <2>2, OneKept
  <2> QED BY <1>1, <2>1, <2>3
<1>5. /\ fl'.pc # "idle" => db.leg[fl'.f[1]].id = TRUE
      /\ sub'.pc \notin {"new", "done"} => db.ver = 1
  BY DEF ExposureInv, SubmitterOK
<1> QED BY <1>3, <1>4, <1>5, QuietExposure

(* The call ends. *)
LEMMA RunEndsExposure ==
    ASSUME PairInv, ExposureInv,
           db' = db, seen' = seen, traded' = traded, notified' = notified, sub' = sub, fl' = fl,
           Shrinks(book, book'), NEW r \in Runner, SetRun(r, IdleRun)
    PROVE  ExposureInv'
<1>1. IdleRun.pc \notin Cancelling /\ IdleRun.pc \notin {"post", "hedged"}
  BY IdleIs DEF Cancelling
<1>2. CallOK(db, book', traded, seen, notified, IdleRun)
  BY IdleCall
<1> QED BY <1>1, <1>2, RunExposure

-----------------------------------------------------------------------------
(* The steps of process_deadline that store nothing *)

LEMMA MovedCall ==
    ASSUME NEW t, t.pc \in Cancelling, NEW d, NEW bk, NEW bl, NEW tr, NEW sn, NEW nt,
           CallOK(d, bk, tr, sn, nt, t),
           NEW u, u.pc \in Cancelling, u.ids = t.ids,
           u.pc = "barrier" => \A l \in t.ids : bl[l] # "open",
           u.pc \in {"relegs", "confirm"} => \A l \in t.ids : Known(bl, tr, sn, l)
    PROVE  CallOK(d, bl, tr, sn, nt, u)
BY DEF CallOK, Cancelling

LEMMA RunLoadsGroupExposure ==
    ASSUME PairInv, ExposureInv, NEW r \in Runner, RunLoadsGroup(r)
    PROVE  ExposureInv'
<1>1. PICK s : s = LoadGroup
  OBVIOUS
<1>2. PICK u : u = [IdleRun EXCEPT !.pc = "legs", !.snap = s]
  OBVIOUS
<1>3. u.pc = "legs"
  BY <1>2, IdleIs DEF RunRec
<1>4. /\ db' = db /\ seen' = seen /\ traded' = traded /\ notified' = notified /\ sub' = sub
      /\ fl' = fl /\ Shrinks(book, book') /\ SetRun(r, u)
  BY <1>1, <1>2, CancelledShrinks DEF RunLoadsGroup, dbVars, exVars
<1>5. CallOK(db, book', traded, seen, notified, u)
  BY <1>3 DEF CallOK, Cancelling
<1> QED BY <1>3, <1>4, <1>5, RunExposure DEF Cancelling

LEMMA RunLoadsLegsExposure ==
    ASSUME PairInv, ExposureInv, NEW r \in Runner, RunLoadsLegs(r)
    PROVE  ExposureInv'
<1>1. /\ db' = db /\ seen' = seen /\ traded' = traded /\ notified' = notified /\ sub' = sub
      /\ fl' = fl /\ Shrinks(book, book')
  BY CancelledShrinks DEF RunLoadsLegs, dbVars, exVars
<1>2. PICK t, s : t = run[r] /\ s = LoadLegs(t.snap)
  OBVIOUS
<1>3. t \in RunRec
  BY <1>2, InvParts
<1>4. CASE SetRun(r, IdleRun)
  BY <1>1, <1>4, RunEndsExposure
<1>5. CASE /\ s.st \notin Settled /\ Cancellable(s) # {}
           /\ SetRun(r, [t EXCEPT !.pc = "mark", !.snap = s, !.ids = Cancellable(s)])
  <2>1. PICK ids : ids = Cancellable(s)
    OBVIOUS
  <2>2. PICK u : u = [t EXCEPT !.pc = "mark", !.snap = s, !.ids = ids]
    OBVIOUS
  <2>3. u.pc = "mark" /\ u.snap = s /\ u.ids = ids
    BY <1>3, <2>2 DEF RunRec
  <2>4. CallOK(db, book', traded, seen, notified, u)
    BY <1>5, <2>1, <2>3 DEF CallOK, Cancelling
  <2>5. SetRun(r, u)
    BY <1>5, <2>1, <2>2
  <2> QED BY <1>1, <2>3, <2>4, <2>5, RunExposure DEF Cancelling
<1>6. CASE /\ TerminalState(s).st = "frozen"
           /\ SetRun(r, [t EXCEPT !.pc = "terminal", !.snap = s])
  <2>1. PICK u : u = [t EXCEPT !.pc = "terminal", !.snap = s]
    OBVIOUS
  <2>2. u.pc = "terminal" /\ u.snap = s
    BY <1>3, <2>1 DEF RunRec
  <2>3. CallOK(db, book', traded, seen, notified, u)
    BY <1>6, <2>2 DEF CallOK, Cancelling
  <2>4. SetRun(r, u)
    BY <1>6, <2>1
  <2> QED BY <1>1, <2>2, <2>3, <2>4, RunExposure DEF Cancelling
<1> QED BY <1>2, <1>4, <1>5, <1>6 DEF RunLoadsLegs

LEMMA CancelOrdersExposure ==
    ASSUME PairInv, ExposureInv, NEW r \in Runner, CancelOrders(r)
    PROVE  ExposureInv'
<1>1. /\ db' = db /\ seen' = seen /\ traded' = traded /\ notified' = notified /\ sub' = sub
      /\ fl' = fl
  BY DEF CancelOrders, dbVars
<1>2. PICK t : t = run[r]
  OBVIOUS
<1>3. t \in RunRec /\ t.ids \in SUBSET Leg /\ t.pc = "cancel"
  BY <1>2, InvParts DEF RunRec, CancelOrders
<1>4. CallOK(db, book, traded, seen, notified, t) /\ t.pc \in Cancelling
  BY <1>2, <1>3 DEF ExposureInv, Cancelling
<1>5. CASE book' = CancelledBook(t.ids) /\ SetRun(r, [t EXCEPT !.pc = "barrier"])
  <2>1. PICK u : u = [t EXCEPT !.pc = "barrier"]
    OBVIOUS
  <2>2. u.pc = "barrier" /\ u.ids = t.ids /\ u.pc \in Cancelling
    BY <1>3, <2>1 DEF RunRec, Cancelling
  <2>3. \A l \in t.ids : book'[l] # "open"
    BY <1>3, <1>5 DEF CancelledBook
  <2>4. CallOK(db, book', traded, seen, notified, u)
    BY <1>4, <2>2, <2>3, MovedCall
  <2>5. Shrinks(book, book')
    BY <1>5, CancelledShrinks
  <2>6. SetRun(r, u)
    BY <1>5, <2>1
  <2> QED BY <1>1, <1>2, <1>4, <2>2, <2>4, <2>5, <2>6, RunExposure DEF Cancelling
<1>6. CASE BestEffortCancel(t.ids) /\ SetRun(r, [t EXCEPT !.pc = "fail"])
  <2>1. PICK u : u = [t EXCEPT !.pc = "fail"]
    OBVIOUS
  <2>2. u.pc = "fail" /\ u.ids = t.ids /\ u.pc \in Cancelling
    BY <1>3, <2>1 DEF RunRec, Cancelling
  <2>4. CallOK(db, book', traded, seen, notified, u)
    BY <1>4, <2>2, MovedCall
  <2>5. Shrinks(book, book')
    BY <1>6, CancelledShrinks DEF BestEffortCancel
  <2>6. SetRun(r, u)
    BY <1>6, <2>1
  <2> QED BY <1>1, <1>2, <1>4, <2>2, <2>4, <2>5, <2>6, RunExposure DEF Cancelling
<1> QED BY <1>2, <1>5, <1>6 DEF CancelOrders

(* Behind the barrier the cancelled legs are known: no order of theirs is    *)
(* open, and what the reconciler has dealt with was applied.                 *)
LEMMA PassBarrierExposure ==
    ASSUME PairInv, ExposureInv, NEW r \in Runner, PassBarrier(r)
    PROVE  ExposureInv'
<1>1. /\ db' = db /\ seen' = seen /\ traded' = traded /\ notified' = notified /\ sub' = sub
      /\ fl' = fl /\ book' = book
  BY DEF PassBarrier, dbVars, exVars
<1>2. PICK t : t = run[r]
  OBVIOUS
<1>3. t \in RunRec /\ t.ids \in SUBSET Leg /\ t.pc = "barrier" /\ Reconciled(t.ids)
  BY <1>2, InvParts DEF RunRec, PassBarrier
<1>4. CallOK(db, book, traded, seen, notified, t) /\ t.pc \in Cancelling
  BY <1>2, <1>3 DEF ExposureInv, Cancelling
<1>5. ASSUME NEW l \in t.ids PROVE Known(book, traded, seen, l)
  <2>1. book[l] # "open" /\ db.leg[l].id = TRUE
    BY <1>3, <1>4, <1>5 DEF CallOK, Cancelling
  <2>2. ASSUME NEW f \in ExecutedBy(traded), f[1] = l PROVE f \in seen
    <3>1. f \in notified
      BY <1>3, <1>5, <2>2, ExecutedIs DEF Reconciled
    <3> QED BY <2>1, <2>2, <3>1 DEF ExposureInv, Verdicts
  <2> QED BY <2>1, <2>2 DEF Known
<1>6. PICK s : s = LoadGroup
  OBVIOUS
<1>7. PICK u : u = [t EXCEPT !.pc = "relegs", !.snap = s]
  OBVIOUS
<1>8. u.pc = "relegs" /\ u.ids = t.ids /\ u.pc \in Cancelling
  BY <1>3, <1>7 DEF RunRec, Cancelling
<1>9. CallOK(db, book', traded, seen, notified, u)
  BY <1>1, <1>4, <1>5, <1>8, MovedCall
<1>10. SetRun(r, u) /\ Shrinks(book, book')
  BY <1>1, <1>2, <1>6, <1>7, CancelledShrinks DEF PassBarrier
<1> QED BY <1>1, <1>2, <1>4, <1>8, <1>9, <1>10, RunExposure DEF Cancelling

LEMMA BarrierRaisesExposure ==
    ASSUME PairInv, ExposureInv, NEW r \in Runner, BarrierRaises(r)
    PROVE  ExposureInv'
<1>1. /\ db' = db /\ seen' = seen /\ traded' = traded /\ notified' = notified /\ sub' = sub
      /\ fl' = fl /\ book' = book
  BY DEF BarrierRaises, dbVars, exVars
<1>2. PICK t : t = run[r]
  OBVIOUS
<1>3. t \in RunRec /\ t.pc = "barrier"
  BY <1>2, InvParts DEF BarrierRaises
<1>4. CallOK(db, book, traded, seen, notified, t) /\ t.pc \in Cancelling
  BY <1>2, <1>3 DEF ExposureInv, Cancelling
<1>5. PICK u : u = [t EXCEPT !.pc = "fail"]
  OBVIOUS
<1>6. u.pc = "fail" /\ u.ids = t.ids /\ u.pc \in Cancelling
  BY <1>3, <1>5 DEF RunRec, Cancelling
<1>7. CallOK(db, book', traded, seen, notified, u)
  BY <1>4, <1>6, MovedCall
<1>8. SetRun(r, u) /\ Shrinks(book, book')
  BY <1>1, <1>2, <1>5, CancelledShrinks DEF BarrierRaises
<1> QED BY <1>1, <1>2, <1>4, <1>6, <1>7, <1>8, RunExposure DEF Cancelling

LEMMA RunReloadsLegsExposure ==
    ASSUME PairInv, ExposureInv, NEW r \in Runner, RunReloadsLegs(r)
    PROVE  ExposureInv'
<1>1. /\ db' = db /\ seen' = seen /\ traded' = traded /\ notified' = notified /\ sub' = sub
      /\ fl' = fl /\ book' = book
  BY DEF RunReloadsLegs, dbVars, exVars
<1>2. PICK t, s : t = run[r] /\ s = LoadLegs(t.snap)
  OBVIOUS
<1>3. t \in RunRec /\ t.pc = "relegs"
  BY <1>2, InvParts DEF RunReloadsLegs
<1>4. CallOK(db, book, traded, seen, notified, t) /\ t.pc \in Cancelling
  BY <1>2, <1>3 DEF ExposureInv, Cancelling
<1>5. \A l \in t.ids : Known(book, traded, seen, l)
  BY <1>3, <1>4 DEF CallOK
<1>6. PICK u : u = [t EXCEPT !.pc = "confirm", !.snap = s]
  OBVIOUS
<1>7. u.pc = "confirm" /\ u.ids = t.ids /\ u.pc \in Cancelling
  BY <1>3, <1>6 DEF RunRec, Cancelling
<1>8. CallOK(db, book', traded, seen, notified, u)
  BY <1>1, <1>4, <1>5, <1>7, MovedCall
<1>9. SetRun(r, u) /\ Shrinks(book, book')
  BY <1>1, <1>2, <1>6, CancelledShrinks DEF RunReloadsLegs
<1> QED BY <1>1, <1>2, <1>4, <1>7, <1>8, <1>9, RunExposure DEF Cancelling

-----------------------------------------------------------------------------
(* The exchange, and the steps of submit_plan that store nothing *)

(* The plan, and what nobody does with it. *)
LEMMA PlanOnly ==
    ASSUME PairInv, ExposureInv, db.ver = 0 \/ db.ver = 1
    PROVE  /\ \A r \in Runner : run[r].pc \notin Cancelling /\ run[r].pc \notin {"post", "hedged"}
           /\ \A l \in Leg : db.leg[l].id # TRUE /\ db.leg[l].st \in {"none", "planned"}
           /\ \A l \in Hedge : db.leg[l].st = "none"
           /\ db.st \in {"none", "planned"}
           /\ fl.pc = "idle"
<1>1. /\ db.st = "none" \/ db.st = "planned"
      /\ \A l \in Leg : db.leg[l].id = FALSE /\ db.leg[l].st \in {"none", "planned"}
  BY EarlyGroup
<1>2. \A l \in Hedge : db.leg[l].st = "none"
  <2>1. db = NoGroup \/ db = PlanState
    BY DEF PairInv, Ledger
  <2>2. PlanState.leg = PlannedLegs
    BY DEF PlanState, NoGroup
  <2>3. \A l \in Hedge : l \in Leg /\ l \notin Entry
    BY PairAssumption DEF Hedge, Leg, Entry, Yes, No
  <2>4. NoLeg.st = "none"
    BY DEF NoLeg
  <2>5. \A l \in Hedge : PlannedLegs[l] = NoLeg
    BY <2>3 DEF PlannedLegs
  <2> QED BY <2>1, <2>2, <2>3, <2>4, <2>5, NoGroupIs
<1>3. ASSUME NEW r \in Runner
      PROVE  run[r].pc \notin Cancelling /\ run[r].pc \notin {"post", "hedged"}
  <2>1. CallOK(db, book, traded, seen, notified, run[r])
    BY DEF ExposureInv
  <2>2. run[r].pc \notin Cancelling
    BY <1>1, <2>1 DEF CallOK
  <2>3. run[r].pc # "post"
    BY <1>1, <2>1 DEF CallOK
  <2>4. run[r].pc # "hedged"
    BY <1>2, <2>1 DEF CallOK
  <2> QED BY <2>2, <2>3, <2>4
<1>4. fl.pc = "idle"
  <2>1. ASSUME fl.pc # "idle" PROVE FALSE
    <3>1. fl.f[1] \in Leg /\ db.leg[fl.f[1]].id = TRUE
      BY <2>1 DEF ExposureInv, PairInv, FillOK, Executed, Fill
    <3> QED BY <1>1, <3>1
  <2> QED BY <2>1
<1> QED BY <1>1, <1>2, <1>3, <1>4

LEMMA PostBatchExposure ==
    ASSUME PairInv, ExposureInv, sub.pc = "batch", NEW b \in [Entry -> {"none", "open"}],
           book' = [l \in Leg |-> IF l \in Entry THEN b[l] ELSE book[l]],
           db' = db, seen' = seen, traded' = traded, notified' = notified, fl' = fl, run' = run,
           sub'.pc \in {"cancel", "result", "cancelAll"}
    PROVE  ExposureInv'
<1>1. /\ db.ver = 1
      /\ \A l \in Leg : book[l] = "none" /\ traded[l] = 0
      /\ \A f \in notified : f[1] \notin Entry
  BY DEF ExposureInv, SubmitterOK
<1>2. SubmitterOK(db, book', traded, notified, sub'.pc)
  BY <1>1 DEF SubmitterOK
<1>3. \A l \in Entry : db.leg[l].st = "planned"
  BY <1>1, PlanIs DEF PairInv, Ledger
<1>4. Market(db, book', traded)
  <2>1. \A l \in Leg : l \notin Entry => book'[l] = "none"
    BY <1>1
  <2>2. \A l \in Entry : db.leg[l].size > 0
    BY <1>3, LegFacts DEF ExposureInv, Shape
  <2>3. \A l \in Leg : traded[l] <= db.leg[l].size
    BY DEF ExposureInv, Market
  <2>4. book' \in Orders
    BY <1>1 DEF Orders
  <2>5. \A l \in Entry : db.leg[l].st # "none"
    BY <1>3
  <2> QED BY <1>1, <2>1, <2>2, <2>3, <2>4, <2>5 DEF Market
<1>5. Verdicts(db, book', traded, seen, notified)
  <2>1. \A l \in Leg : db.leg[l].st # "cancelled"
    BY <1>1, PlanOnly
  <2> QED BY <2>1 DEF ExposureInv, Verdicts
<1>6. \A r \in Runner : CallOK(db, book', traded, seen, notified, run[r])
  <2> SUFFICES ASSUME NEW r \in Runner
               PROVE  CallOK(db, book', traded, seen, notified, run[r])
    OBVIOUS
  <2>1. run[r].pc \notin Cancelling /\ run[r].pc \notin {"post", "hedged"}
    BY <1>1, PlanOnly
  <2>2. CallOK(db, book, traded, seen, notified, run[r])
    BY DEF ExposureInv
  <2> QED BY <2>1, <2>2, Bystander
<1> QED BY <1>2, <1>4, <1>5, <1>6 DEF ExposureInv

LEMMA TradeExposure ==
    ASSUME PairInv, ExposureInv, NEW l \in Leg, Trade(l)
    PROVE  ExposureInv'
<1>1. /\ db' = db /\ seen' = seen /\ notified' = notified /\ sub' = sub /\ fl' = fl
      /\ run' = run /\ book[l] = "open"
      /\ traded' = [traded EXCEPT ![l] = @ + 1]
      /\ book' = [book EXCEPT ![l] = IF traded'[l] = db.leg[l].size THEN "closed" ELSE "open"]
      /\ traded \in [Leg -> Nat] /\ db.leg[l] \in LegRec
  BY InvParts DEF Trade, dbVars
<1>2. book \in Orders
  BY DEF ExposureInv, Market
<1>3. /\ traded'[l] = traded[l] + 1 /\ traded[l] \in Nat /\ db.leg[l].size \in Nat
      /\ \A m \in Leg \ {l} : traded'[m] = traded[m]
  BY <1>1, LegFields
<1>4. PICK b : b = IF traded'[l] = db.leg[l].size THEN "closed" ELSE "open"
  OBVIOUS
<1>5. /\ book' \in Orders /\ book'[l] = b
      /\ \A m \in Leg \ {l} : book'[m] = book[m]
  <2>1. book' = [book EXCEPT ![l] = b] /\ b \in {"none", "open", "closed"}
    BY <1>1, <1>4
  <2> QED BY <1>2, <2>1 DEF Orders
<1>6. traded[l] < db.leg[l].size /\ db.leg[l].st # "none"
  BY <1>1 DEF ExposureInv, Market
<1>7. Market(db, book', traded')
  <2>1. ASSUME NEW m \in Leg
        PROVE  /\ traded'[m] <= db.leg[m].size
               /\ book'[m] = "open" => traded'[m] < db.leg[m].size
               /\ db.leg[m].st = "none" => book'[m] = "none" /\ traded'[m] = 0
    <3>1. CASE m = l
      BY <1>3, <1>4, <1>5, <1>6, <3>1
    <3>2. CASE m # l
      BY <1>3, <1>5, <3>2 DEF ExposureInv, Market
    <3> QED BY <3>1, <3>2
  <2> QED BY <1>5, <2>1 DEF Market
<1>8. ASSUME NEW m \in Leg, Known(book, traded, seen, m)
      PROVE  m # l /\ Known(book', traded', seen, m)
  <2>1. m # l /\ book'[m] # "open" /\ traded'[m] = traded[m]
    BY <1>1, <1>3, <1>5, <1>8 DEF Known
  <2> QED BY <1>8, <2>1 DEF Known, ExecutedBy
<1>9. Verdicts(db, book', traded', seen, notified)
  <2>1. ExecutedBy(traded) \subseteq ExecutedBy(traded')
    <3>1. ASSUME NEW f \in Fill, f[2] <= traded[f[1]] PROVE f[2] <= traded'[f[1]]
      <4>1. f[1] \in Leg /\ f[2] \in Nat /\ traded[f[1]] \in Nat
        BY <1>1, PairAssumption DEF Fill
      <4>2. traded'[f[1]] = traded[f[1]] \/ traded'[f[1]] = traded[f[1]] + 1
        BY <1>3, <4>1
      <4> QED BY <3>1, <4>1, <4>2
    <3> QED BY <3>1 DEF ExecutedBy
  <2> QED BY <1>8, <2>1 DEF ExposureInv, Verdicts
<1>10. SubmitterOK(db, book', traded', notified, sub.pc)
  BY <1>1 DEF ExposureInv, SubmitterOK
<1>11. ASSUME NEW r \in Runner PROVE CallOK(db, book', traded', seen, notified, run[r])
  <2>1. CallOK(db, book, traded, seen, notified, run[r]) /\ \A m \in run[r].ids : m \in Leg
    BY InvParts DEF ExposureInv, RunRec
  <2>2. run[r].pc = "barrier" => \A m \in run[r].ids : book'[m] # "open"
    BY <1>1, <1>5, <2>1 DEF CallOK
  <2>3. run[r].pc \in {"relegs", "confirm"} =>
           \A m \in run[r].ids : Known(book', traded', seen, m)
    BY <1>8, <2>1 DEF CallOK
  <2>4. run[r].pc = "post" => book'[run[r].h] = "none" /\ traded'[run[r].h] = 0
    <3>1. run[r].pc = "post" => /\ run[r].h \in Leg /\ run[r].h # l
                                /\ book[run[r].h] = "none" /\ traded[run[r].h] = 0
      BY <1>1, <2>1 DEF CallOK, Leg
    <3> QED BY <1>3, <1>5, <3>1
  <2> QED BY <2>1, <2>2, <2>3, <2>4 DEF CallOK
<1> QED BY <1>1, <1>7, <1>9, <1>10, <1>11 DEF ExposureInv

(* A trade that was dealt with. *)
LEMMA NotifiedExposure ==
    ASSUME PairInv, ExposureInv, NEW f \in Executed, notified' = notified \cup {f},
           db' = db, seen' = seen, book' = book, traded' = traded, sub' = sub, run' = run,
           fl'.pc = "idle", db.leg[f[1]].id = TRUE => f \in seen,
           sub.pc \in {"batch", "cancel", "result"} => f[1] \notin Entry,
           \A r \in Runner : run[r].pc = "hedged" => f[1] # run[r].h
    PROVE  ExposureInv'
<1>1. f \in ExecutedBy(traded)
  BY ExecutedIs
<1>2. Verdicts(db, book, traded, seen, notified')
  BY <1>1 DEF ExposureInv, Verdicts
<1>3. SubmitterOK(db, book, traded, notified', sub.pc)
  BY DEF ExposureInv, SubmitterOK
<1>4. \A r \in Runner : CallOK(db, book, traded, seen, notified', run[r])
  BY DEF ExposureInv, CallOK
<1> QED BY <1>2, <1>3, <1>4 DEF ExposureInv

(* on_fill's trade is of a leg with an id: of no leg that is being posted. *)
LEMMA FillDoneExposure ==
    ASSUME PairInv, ExposureInv, fl.pc # "idle", fl.f \in seen, FillDone,
           db' = db, seen' = seen, book' = book, traded' = traded, sub' = sub, run' = run
    PROVE  ExposureInv'
<1>1. PICK f : f = fl.f
  OBVIOUS
<1>2. /\ f \in Executed /\ f[1] \in Leg /\ db.leg[f[1]].id = TRUE
      /\ notified' = notified \cup {f} /\ fl'.pc = "idle"
  BY <1>1, IdleIs DEF ExposureInv, PairInv, FillOK, FillDone, Executed, Fill
<1>3. sub.pc \notin {"batch", "cancel", "result"}
  <2>1. db.ver # 1
    BY <1>2, PlanOnly
  <2> QED BY <2>1 DEF ExposureInv, SubmitterOK
<1>4. ASSUME NEW r \in Runner, run[r].pc = "hedged" PROVE f[1] # run[r].h
  <2>1. run[r].h \in Leg /\ db.leg[run[r].h].st = "planned"
    BY <1>4 DEF ExposureInv, CallOK, Leg
  <2>2. db.leg[run[r].h].id = FALSE
    BY <2>1 DEF ExposureInv, Shape
  <2> QED BY <1>2, <2>2
<1> QED BY <1>1, <1>2, <1>3, <1>4, NotifiedExposure

LEMMA DeliverExposure ==
    ASSUME PairInv, ExposureInv, DeliverEarly = FALSE, NEW f \in Fill, Deliver(f)
    PROVE  ExposureInv'
<1>1. /\ db' = db /\ seen' = seen /\ book' = book /\ traded' = traded /\ sub' = sub
      /\ run' = run /\ f \in Executed /\ ~Storing(f[1]) /\ f[1] \in Leg
  BY DEF Deliver, dbVars, exVars, Fill
<1>2. db.leg[f[1]].id \in BOOLEAN
  BY <1>1, InvParts, LegFields
<1>3. CASE db.leg[f[1]].id = TRUE
  <2>1. fl' = [IdleFill EXCEPT !.pc = "group", !.f = f] /\ notified' = notified
    BY <1>3 DEF Deliver
  <2>2. fl'.f = f
    BY <2>1, IdleIs DEF FillRec
  <2>3. \A r \in Runner : CallOK(db, book', traded, seen, notified, run'[r])
    BY <1>1 DEF ExposureInv
  <2>4. OneCanceller(run') /\ Shrinks(book, book')
    BY <1>1, CancelledShrinks DEF ExposureInv
  <2>5. sub'.pc \notin {"new", "done"} => db.ver = 1
    BY <1>1 DEF ExposureInv, SubmitterOK
  <2> QED BY <1>1, <1>3, <2>1, <2>2, <2>3, <2>4, <2>5, QuietExposure
<1>4. CASE db.leg[f[1]].id = FALSE
  <2>1. fl' = fl /\ notified' = notified \cup {f} /\ fl.pc = "idle"
    BY <1>4 DEF Deliver
  <2> QED BY <1>1, <1>4, <2>1, NotifiedExposure DEF Storing
<1> QED BY <1>2, <1>3, <1>4

LEMMA FillLoadsExposure ==
    ASSUME PairInv, ExposureInv, FillLoadsGroup \/ FillLoadsLegs
    PROVE  ExposureInv'
<1>1. /\ db' = db /\ seen' = seen /\ book' = book /\ traded' = traded /\ sub' = sub
      /\ run' = run /\ fl.pc # "idle" /\ fl \in FillRec
  BY InvParts DEF FillLoadsGroup, FillLoadsLegs, dbVars, exVars
<1>2. CASE fl.f \in seen /\ FillDone
  BY <1>1, <1>2, FillDoneExposure
<1>3. CASE notified' = notified /\ (fl'.pc # "idle" => fl'.f = fl.f)
  <2>1. \A r \in Runner : CallOK(db, book', traded, seen, notified, run'[r])
    BY <1>1 DEF ExposureInv
  <2>2. OneCanceller(run') /\ Shrinks(book, book')
    BY <1>1, CancelledShrinks DEF ExposureInv
  <2>3. sub'.pc \notin {"new", "done"} => db.ver = 1
    BY <1>1 DEF ExposureInv, SubmitterOK
  <2>4. fl'.pc # "idle" => db.leg[fl'.f[1]].id = TRUE
    BY <1>1, <1>3 DEF ExposureInv
  <2> QED BY <1>1, <1>3, <2>1, <2>2, <2>3, <2>4, QuietExposure
<1>4. CASE FillLoadsGroup
  <2>1. PICK s : s = LoadGroup
    OBVIOUS
  <2>2. fl' = [fl EXCEPT !.pc = "legs", !.snap = s] /\ notified' = notified
    BY <1>4, <2>1 DEF FillLoadsGroup
  <2>3. fl'.f = fl.f
    BY <1>1, <2>2 DEF FillRec
  <2> QED BY <1>3, <2>2, <2>3
<1>5. CASE FillLoadsLegs
  <2>1. CASE FillFails
    BY <1>3, <2>1, IdleIs DEF FillFails
  <2>2. CASE fl' = [fl EXCEPT !.pc = "commit", !.snap = LoadLegs(@)] /\ notified' = notified
    <3>1. PICK s : s = LoadLegs(fl.snap)
      OBVIOUS
    <3>2. fl' = [fl EXCEPT !.pc = "commit", !.snap = s]
      BY <2>2, <3>1
    <3>3. fl'.f = fl.f
      BY <1>1, <3>2 DEF FillRec
    <3> QED BY <1>3, <2>2, <3>3
  <2> QED BY <1>2, <1>5, <2>1, <2>2 DEF FillLoadsLegs
<1> QED BY <1>4, <1>5

(* A step of the submitter that stores nothing and posts nothing. *)
LEMMA SubExposure ==
    ASSUME PairInv, ExposureInv, db' = db, seen' = seen, traded' = traded,
           notified' = notified, fl' = fl, run' = run, Shrinks(book, book'),
           sub'.pc \notin {"new", "done"} => sub.pc \notin {"new", "done"},
           sub'.pc \notin {"new", "batch"},
           sub'.pc \in {"cancel", "result"} => sub.pc \in {"batch", "cancel", "result"}
    PROVE  ExposureInv'
<1>1. \A r \in Runner : CallOK(db, book', traded, seen, notified, run'[r])
  <2> SUFFICES ASSUME NEW r \in Runner
               PROVE  CallOK(db, book', traded, seen, notified, run[r])
    OBVIOUS
  <2>1. CallOK(db, book, traded, seen, notified, run[r]) /\ run[r] \in RunRec
    BY InvParts DEF ExposureInv
  <2> QED BY <2>1, CallShrunk
<1>2. OneCanceller(run') /\ (fl'.pc # "idle" => db.leg[fl'.f[1]].id = TRUE)
  BY DEF ExposureInv
<1>3. sub'.pc \notin {"new", "done"} => db.ver = 1
  BY DEF ExposureInv, SubmitterOK
<1> QED BY <1>1, <1>2, <1>3, QuietExposure

LEMMA SubmitterExposure ==
    ASSUME PairInv, ExposureInv,
           BuildIntentsFails \/ SubmitBatch \/ BatchRaises \/ CancelAfterRaise \/ CancelPartial
    PROVE  ExposureInv'
<1>0. sub \in SubmitTask
  BY InvParts
<1>1. CASE BuildIntentsFails
  <2>1. /\ db' = db /\ seen' = seen /\ traded' = traded /\ notified' = notified /\ fl' = fl
        /\ run' = run /\ book' = book /\ SetSub("freeze") /\ sub.pc = "batch"
    BY <1>1 DEF BuildIntentsFails, dbVars, exVars
  <2>2. sub'.pc = "freeze"
    BY <1>0, <2>1, SubIs
  <2> QED BY <2>1, <2>2, SubExposure, CancelledShrinks
<1>2. CASE SubmitBatch
  <2>1. PICK res \in [Entry -> LegResult \ {"none"}], b \in [Entry -> {"none", "open"}] :
           /\ book' = [l \in Leg |-> IF l \in Entry THEN b[l] ELSE book[l]]
           /\ sub' = [pc  |-> IF PartlyAccepted(res) \/ \E l \in Entry : res[l] = "errorId"
                              THEN "cancel" ELSE "result",
                      res |-> res]
    BY <1>2 DEF SubmitBatch
  <2>2. sub'.pc \in {"cancel", "result"}
    BY <2>1
  <2>3. /\ db' = db /\ seen' = seen /\ traded' = traded /\ notified' = notified /\ fl' = fl
        /\ run' = run /\ sub.pc = "batch"
    BY <1>2 DEF SubmitBatch, dbVars
  <2> QED BY <2>1, <2>2, <2>3, PostBatchExposure
<1>3. CASE BatchRaises
  <2>1. PICK b \in [Entry -> {"none", "open"}] :
           book' = [l \in Leg |-> IF l \in Entry THEN b[l] ELSE book[l]]
    BY <1>3 DEF BatchRaises
  <2>2. /\ db' = db /\ seen' = seen /\ traded' = traded /\ notified' = notified /\ fl' = fl
        /\ run' = run /\ sub.pc = "batch" /\ SetSub("cancelAll")
    BY <1>3 DEF BatchRaises, dbVars
  <2>3. sub'.pc = "cancelAll"
    BY <1>0, <2>2, SubIs
  <2> QED BY <2>1, <2>2, <2>3, PostBatchExposure
<1>4. CASE CancelAfterRaise
  <2>1. /\ db' = db /\ seen' = seen /\ traded' = traded /\ notified' = notified /\ fl' = fl
        /\ run' = run /\ BestEffortCancel(Leg) /\ SetSub("freeze") /\ sub.pc = "cancelAll"
    BY <1>4 DEF CancelAfterRaise, dbVars
  <2>2. sub'.pc = "freeze" /\ Shrinks(book, book')
    BY <1>0, <2>1, SubIs, CancelledShrinks DEF BestEffortCancel
  <2> QED BY <2>1, <2>2, SubExposure
<1>5. CASE CancelPartial
  <2>1. /\ db' = db /\ seen' = seen /\ traded' = traded /\ notified' = notified /\ fl' = fl
        /\ run' = run /\ BestEffortCancel(WithId(sub.res)) /\ SetSub("result")
        /\ sub.pc = "cancel"
    BY <1>5 DEF CancelPartial, dbVars
  <2>2. sub'.pc = "result" /\ Shrinks(book, book')
    BY <1>0, <2>1, SubIs, CancelledShrinks DEF BestEffortCancel
  <2> QED BY <2>1, <2>2, SubExposure
<1> QED BY <1>1, <1>2, <1>3, <1>4, <1>5

(* The hedge is posted: an order of a leg that nobody has posted before, for *)
(* which no trade was ever delivered.                                        *)
LEMMA PostHedgeExposure ==
    ASSUME PairInv, ExposureInv, NEW r \in Runner, PostHedge(r)
    PROVE  ExposureInv'
<1>1. /\ db' = db /\ seen' = seen /\ traded' = traded /\ notified' = notified /\ sub' = sub
      /\ fl' = fl /\ run[r].pc = "post"
  BY DEF PostHedge, dbVars
<1>2. PICK t : t = run[r]
  OBVIOUS
<1>3. PICK h : h = t.h
  OBVIOUS
<1>4. PICK res \in LegResult \ {"none"} :
         /\ \E b \in BookAfter(res) \cup IF res = "errorId" THEN {"closed"} ELSE {} :
               book' = [book EXCEPT ![h] = b]
         /\ SetRun(r, [t EXCEPT !.pc = "hedged", !.res = res])
  BY <1>2, <1>3 DEF PostHedge
<1>5. PICK b \in {"none", "open", "closed"} : book' = [book EXCEPT ![h] = b]
  BY <1>4 DEF BookAfter
<1>6. PICK u : u = [t EXCEPT !.pc = "hedged", !.res = res]
  OBVIOUS
<1>7. t \in RunRec /\ run \in [Runner -> RunRec] /\ u.pc = "hedged" /\ u.h = h /\ u.snap = t.snap
  <2>1. t \in RunRec /\ run \in [Runner -> RunRec]
    BY <1>2, InvParts
  <2> QED BY <1>3, <1>6, <2>1 DEF RunRec
<1>8. CallOK(db, book, traded, seen, notified, t) /\ t.pc = "post"
  BY <1>1, <1>2 DEF ExposureInv
<1>9. /\ h \in Hedge /\ h \in Leg /\ db.leg[h].st = "planned" /\ book[h] = "none"
      /\ traded[h] = 0 /\ \A l \in Leg \ {h} : db.leg[l].st \in Closed
      /\ db.st \in {"hedging", "frozen"}
      /\ u.snap.ver = db.ver => db.st = "hedging"
  BY <1>3, <1>7, <1>8 DEF CallOK, Leg
<1>10. /\ book' \in Orders /\ \A l \in Leg \ {h} : book'[l] = book[l]
  BY <1>5 DEF ExposureInv, Market, Orders
<1>11. Market(db, book', traded)
  <2>1. db.leg[h].size > 0
    BY <1>9 DEF ExposureInv, Shape
  <2> QED BY <1>9, <1>10, <2>1 DEF ExposureInv, Market
<1>12. Verdicts(db, book', traded, seen, notified)
  <2>1. ASSUME NEW l \in Leg, db.leg[l].st = "cancelled"
        PROVE  Known(book', traded, seen, l)
    <3>1. l # h /\ Known(book, traded, seen, l)
      BY <1>9, <2>1 DEF ExposureInv, Verdicts
    <3> QED BY <1>10, <3>1 DEF Known
  <2> QED BY <2>1 DEF ExposureInv, Verdicts
<1>13. db.ver # 0 /\ db.ver # 1
  BY <1>9, PlanOnly
<1>14. SubmitterOK(db, book', traded, notified, sub.pc)
  <2>1. sub.pc = "new" => db.ver = 0
    BY DEF PairInv
  <2> QED BY <1>13, <2>1 DEF ExposureInv, SubmitterOK
<1>15. \A f \in notified : f[1] # h
  <2> SUFFICES ASSUME NEW f \in notified, f[1] = h PROVE FALSE
    OBVIOUS
  <2>1. f \in Fill /\ f[2] <= traded[h]
    BY DEF ExposureInv, Verdicts, ExecutedBy
  <2>2. f[2] \in 1 .. Target
    BY <2>1 DEF Fill
  <2> QED BY <1>9, <2>1, <2>2, PairAssumption
<1>16. CallOK(db, book', traded, seen, notified, u)
  BY <1>7, <1>9, <1>15 DEF CallOK, Cancelling
<1>17. ASSUME NEW q \in Runner, q # r PROVE CallOK(db, book', traded, seen, notified, run[q])
  <2>1. CallOK(db, book, traded, seen, notified, run[q])
    BY DEF ExposureInv
  <2>2. run[q].pc \notin Cancelling
    BY <1>9, <2>1 DEF CallOK, Closed
  <2>3. run[q].pc # "post"
    <3>1. run[q].pc = "post" => run[q].h # h
      BY <1>1, <1>2, <1>3, <1>17 DEF ExposureInv, OneCanceller
    <3>2. run[q].pc = "post" => \A l \in Leg \ {run[q].h} : db.leg[l].st \in Closed
      BY <2>1 DEF CallOK
    <3> QED BY <1>9, <3>1, <3>2 DEF Closed
  <2> QED BY <2>1, <2>2, <2>3 DEF CallOK, Cancelling
<1>18. run' = [run EXCEPT ![r] = u]
  BY <1>4, <1>6 DEF SetRun
<1>19. \A q \in Runner : CallOK(db, book', traded, seen, notified, run'[q])
  BY <1>7, <1>16, <1>17, <1>18
<1>20. OneCanceller(run')
  <2>1. PICK rn, rm : rn = run /\ rm = [run EXCEPT ![r] = u]
    OBVIOUS
  <2>2. OneCanceller(rn) /\ rn \in [Runner -> RunRec] /\ rn[r] = t
    BY <1>2, <1>7, <2>1 DEF ExposureInv
  <2>3. OneCanceller(rm)
    BY <1>3, <1>7, <1>8, <2>1, <2>2, OneKept DEF Cancelling
  <2> QED BY <1>18, <2>1, <2>3
<1> QED BY <1>1, <1>11, <1>12, <1>14, <1>19, <1>20 DEF ExposureInv

LEMMA FaultExposure ==
    ASSUME PairInv, ExposureInv, Fault
    PROVE  ExposureInv'
<1>0. sub \in SubmitTask
  BY InvParts
<1>1. CASE AbortSubmit
  <2>1. /\ db' = db /\ seen' = seen /\ traded' = traded /\ notified' = notified /\ fl' = fl
        /\ run' = run /\ book' = book /\ SetSub("done")
    BY <1>1 DEF AbortSubmit, dbVars, exVars
  <2>2. sub'.pc = "done"
    BY <1>0, <2>1, SubIs
  <2> QED BY <2>1, <2>2, SubExposure, CancelledShrinks
<1>2. CASE AbortFill
  <2>1. /\ db' = db /\ seen' = seen /\ traded' = traded /\ notified' = notified
        /\ fl' = IdleFill /\ run' = run /\ book' = book /\ sub' = sub
    BY <1>2 DEF AbortFill, FillFails, dbVars, exVars
  <2>2. /\ \A r \in Runner : CallOK(db, book', traded, seen, notified, run'[r])
        /\ OneCanceller(run') /\ Shrinks(book, book')
        /\ sub'.pc \notin {"new", "done"} => db.ver = 1
    BY <2>1, CancelledShrinks DEF ExposureInv, SubmitterOK
  <2> QED BY <2>1, <2>2, IdleIs, QuietExposure
<1>3. ASSUME NEW r \in Runner, AbortRun(r) PROVE ExposureInv'
  <2>1. /\ db' = db /\ seen' = seen /\ traded' = traded /\ notified' = notified
        /\ fl' = fl /\ SetRun(r, IdleRun) /\ book' = book /\ sub' = sub
    BY <1>3 DEF AbortRun, dbVars, exVars
  <2> QED BY <2>1, RunEndsExposure, CancelledShrinks
<1>4. CASE Restart
  <2>1. /\ db' = db /\ seen' = seen /\ traded' = traded /\ notified' = {}
        /\ fl' = IdleFill /\ book' = book /\ SetSub("done")
        /\ run' = [r \in Runner |-> IdleRun]
    BY <1>4 DEF Restart, dbVars, exVars
  <2>2. sub'.pc = "done" /\ IdleRun.pc = "idle" /\ fl'.pc = "idle"
    BY <1>0, <2>1, SubIs, IdleIs
  <2>3. Verdicts(db, book, traded, seen, {}) /\ SubmitterOK(db, book, traded, {}, "done")
    BY DEF ExposureInv, Verdicts, SubmitterOK
  <2>4. \A r \in Runner : CallOK(db, book, traded, seen, {}, run'[r])
    BY <2>1, IdleCall
  <2>5. OneCanceller(run')
    BY <2>1, <2>2 DEF OneCanceller, Cancelling
  <2> QED BY <2>1, <2>2, <2>3, <2>4, <2>5 DEF ExposureInv
<1> QED BY <1>1, <1>2, <1>3, <1>4 DEF Fault

-----------------------------------------------------------------------------
(* Storing a state of the group *)

LEMMA StampedIs ==
    ASSUME NEW s \in GroupRec, NEW k \in Nat, NEW e, e = [s EXCEPT !.ver = k + 1]
    PROVE  e.leg = s.leg /\ e.st = s.st /\ e.ver = k + 1 /\ e.inv = s.inv /\ e \in GroupRec
<1>1. k + 1 \in Nat
  OBVIOUS
<1> QED BY <1>1 DEF GroupRec

LEMMA FrozenIs ==
    ASSUME NEW d, GroupInv(d)
    PROVE  /\ Freeze(d).leg = d.leg /\ Freeze(d).st = "frozen" /\ Freeze(d) \in GroupRec
           /\ TerminalState(d).leg = d.leg /\ TerminalState(d) \in GroupRec
           /\ TerminalState(d).st =
                IF ~Even(InventoryOf(d.leg)) THEN "frozen"
                ELSE IF InventoryOf(d.leg).paired > 0 THEN "paired" ELSE "cancelled"
<1>1. d \in GroupRec
  BY DEF GroupInv, GroupOK
<1>2. Freeze(d).leg = d.leg /\ Freeze(d).st = "frozen" /\ Freeze(d) \in GroupRec
  BY <1>1, StatusFacts DEF Freeze, GroupRec
<1> DEFINE r == Refreshed(d, TRUE)
           st == IF ~Even(r.inv) THEN "frozen"
                 ELSE IF r.inv.paired > 0 THEN "paired" ELSE "cancelled"
<1>3. r \in GroupRec /\ r.leg = d.leg /\ r.inv = InventoryOf(d.leg)
  BY <1>1, RefreshedIs
<1>4. TerminalState(d) = [r EXCEPT !.st = st]
  BY DEF TerminalState
<1>5. st \in GroupStatus
  BY StatusFacts
<1>6. st = IF ~Even(InventoryOf(d.leg)) THEN "frozen"
           ELSE IF InventoryOf(d.leg).paired > 0 THEN "paired" ELSE "cancelled"
  BY <1>3
<1> HIDE DEF r, st
<1>7. /\ TerminalState(d).leg = r.leg /\ TerminalState(d).st = st
      /\ TerminalState(d) \in GroupRec
  BY <1>3, <1>4, <1>5 DEF GroupRec
<1> QED BY <1>2, <1>3, <1>6, <1>7

LEMMA StoreExposure ==
    ASSUME PairInv, ExposureInv, NEW e, db' = e, seen' = seen, book' = book, traded' = traded,
           notified' = notified, fl' = fl, sub'.pc = "done",
           \A l \in Leg : db.leg[l].id = TRUE => e.leg[l].id = TRUE,
           Shape(e), Market(e, book, traded), Verdicts(e, book, traded, seen, notified),
           \A r \in Runner : CallOK(e, book, traded, seen, notified, run'[r]),
           OneCanceller(run')
    PROVE  ExposureInv'
<1>1. fl.pc # "idle" => fl.f[1] \in Leg
  BY DEF PairInv, FillOK, Executed, Fill
<1>2. fl.pc # "idle" => e.leg[fl.f[1]].id = TRUE
  BY <1>1 DEF ExposureInv
<1>3. SubmitterOK(e, book, traded, notified, "done")
  BY DEF SubmitterOK
<1> QED BY <1>2, <1>3 DEF ExposureInv

(* Only submit_plan itself runs on a plan. *)
LEMMA SubmitterDone ==
    ASSUME PairInv, ExposureInv, db.ver # 0, db.ver # 1
    PROVE  sub.pc = "done"
BY DEF PairInv, ExposureInv, SubmitterOK

(* The copies of the calls are older than what is stored. *)
LEMMA CopyIsOld ==
    ASSUME PairInv, NEW r \in Runner, run[r].pc \in {"post", "hedged"}, NEW n, n = db.ver + 1
    PROVE  run[r].snap.ver # n
<1>1. Copy(db, run[r].snap)
  BY DEF PairInv, RunOK
<1>2. run[r].snap.ver \in Nat /\ db.ver \in Nat /\ run[r].snap.ver <= db.ver
  BY <1>1, InvParts, GroupFields DEF Copy
<1> QED BY <1>2

(* One call stores e, and no other cancels or hedges. *)
LEMMA LoneExposure ==
    ASSUME PairInv, ExposureInv, NEW r \in Runner, NEW t, SetRun(r, t),
           \A q \in Runner \ {r} : run[q].pc \notin Cancelling /\ run[q].pc \notin {"post", "hedged"},
           NEW e, db' = e, seen' = seen, book' = book, traded' = traded,
           notified' = notified, fl' = fl, sub' = sub, db.ver # 0, db.ver # 1,
           \A l \in Leg : db.leg[l].id = TRUE => e.leg[l].id = TRUE,
           Shape(e), Market(e, book, traded), Verdicts(e, book, traded, seen, notified),
           CallOK(e, book, traded, seen, notified, t)
    PROVE  ExposureInv'
<1>1. run' = [run EXCEPT ![r] = t] /\ run \in [Runner -> RunRec]
  BY InvParts DEF SetRun
<1>2. \A q \in Runner : CallOK(e, book, traded, seen, notified, run'[q])
  <2> SUFFICES ASSUME NEW q \in Runner
               PROVE  CallOK(e, book, traded, seen, notified, run'[q])
    OBVIOUS
  <2>1. CASE q = r
    BY <1>1, <2>1
  <2>2. CASE q # r
    <3>1. run'[q] = run[q] /\ run[q].pc \notin Cancelling /\ run[q].pc \notin {"post", "hedged"}
      BY <1>1, <2>2
    <3>2. CallOK(db, book, traded, seen, notified, run[q])
      BY DEF ExposureInv
    <3>3. CallOK(e, book, traded, seen, notified, run[q])
      BY <3>1, <3>2, Bystander
    <3> QED BY <3>1, <3>3
  <2> QED BY <2>1, <2>2
<1>3. OneCanceller(run')
  <2>1. \A q \in Runner \ {r} :
           run'[q].pc \notin Cancelling /\ run'[q].pc \notin {"post", "hedged"}
    BY <1>1
  <2> QED BY <2>1 DEF OneCanceller
<1>4. sub'.pc = "done"
  BY SubmitterDone
<1> QED BY <1>2, <1>3, <1>4, StoreExposure

(* A frozen group is as exposed as it was. *)
LEMMA FrozenExposure ==
    ASSUME PairInv, ExposureInv, NEW e, db' = e, e.leg = db.leg, e.st = "frozen",
           e.ver = db.ver + 1, seen' = seen, book' = book, traded' = traded,
           notified' = notified, fl' = fl, sub'.pc = "done",
           \A r \in Runner : run'[r] = run[r] \/ run'[r] = IdleRun
    PROVE  ExposureInv'
<1>1. Shape(e) /\ Market(e, book, traded) /\ Verdicts(e, book, traded, seen, notified)
  BY DEF ExposureInv, Shape, Market, Verdicts
<1>2. ASSUME NEW r \in Runner PROVE CallOK(e, book, traded, seen, notified, run'[r])
  <2>1. CASE run'[r] = IdleRun
    BY <2>1, IdleCall
  <2>2. CASE run'[r] = run[r]
    <3>1. PICK t : t = run[r]
      OBVIOUS
    <3>2. CallOK(db, book, traded, seen, notified, t)
      BY <3>1 DEF ExposureInv
    <3>3. t.pc \in {"post", "hedged"} => t.snap.ver # e.ver
      BY <3>1, CopyIsOld
    <3>4. t.pc = "post" => Matches(e, t.h)
      BY <3>2 DEF CallOK, Matches
    <3>5. CallOK(e, book, traded, seen, notified, t)
      BY <3>2, <3>3, <3>4 DEF CallOK
    <3> QED BY <2>2, <3>1, <3>5
  <2> QED BY <2>1, <2>2
<1>3. OneCanceller(run')
  <2>1. IdleRun.pc = "idle"
    BY IdleIs
  <2>2. OneCanceller(run)
    BY DEF ExposureInv
  <2> QED BY <2>1, <2>2 DEF OneCanceller, Cancelling
<1> QED BY <1>1, <1>2, <1>3, StoreExposure

LEMMA CommitExposure ==
    ASSUME PairInv, ExposureInv, NEW r \in Runner, Copy(db, run[r].snap),
           NEW s, NEW t, CommitOr(r, s, t),
           book' = book, traded' = traded, notified' = notified, sub' = sub, fl' = fl,
           (/\ run[r].snap = db /\ SetRun(r, t) /\ seen' = seen
            /\ db' = [s EXCEPT !.ver = db.ver + 1]) => ExposureInv'
    PROVE  ExposureInv'
<1>1. CASE Committed(run[r].snap.ver, s)
  <2>1. db.ver = run[r].snap.ver /\ Store(run[r].snap.ver, s) /\ SetRun(r, t)
    BY <1>1 DEF CommitOr, Committed
  <2>2. run[r].snap = db
    BY <2>1 DEF Copy
  <2>3. seen' = seen /\ db' = [s EXCEPT !.ver = db.ver + 1]
    BY <2>1 DEF Store
  <2> QED BY <2>1, <2>2, <2>3
<1>2. CASE ~Committed(run[r].snap.ver, s)
  <2>1. UNCHANGED dbVars /\ SetRun(r, IdleRun)
    BY <1>2 DEF CommitOr
  <2>2. db' = db /\ seen' = seen
    BY <2>1 DEF dbVars
  <2> QED BY <2>1, <2>2, RunEndsExposure, CancelledShrinks
<1> QED BY <1>1, <1>2

LEMMA CommitTerminalExposure ==
    ASSUME PairInv, ExposureInv, NEW r \in Runner, CommitTerminal(r)
    PROVE  ExposureInv'
<1>1. /\ book' = book /\ traded' = traded /\ notified' = notified /\ sub' = sub /\ fl' = fl
      /\ run[r].pc = "terminal" /\ Copy(db, run[r].snap)
  BY DEF CommitTerminal, exVars, PairInv, RunOK
<1>2. PICK s : s = TerminalState(run[r].snap)
  OBVIOUS
<1>3. CommitOr(r, s, IdleRun)
  BY <1>2 DEF CommitTerminal
<1>4. ASSUME run[r].snap = db, SetRun(r, IdleRun), seen' = seen,
             db' = [s EXCEPT !.ver = db.ver + 1]
      PROVE  ExposureInv'
  <2>1. s = TerminalState(db) /\ s.st = "frozen"
    BY <1>1, <1>2, <1>4 DEF ExposureInv, CallOK
  <2>2. s.leg = db.leg /\ s \in GroupRec /\ ~Even(InventoryOf(db.leg))
    BY <2>1, InvParts, FrozenIs
  <2>3. PICK e, k : k = db.ver /\ e = [s EXCEPT !.ver = k + 1]
    OBVIOUS
  <2>4. e.leg = db.leg /\ e.st = "frozen" /\ e.ver = db.ver + 1 /\ db' = e
    BY <1>4, <2>1, <2>2, <2>3, InvParts, StampedIs
  <2>5. sub'.pc = "done"
    BY <1>1, <2>2, EarlyGroup, SubmitterDone
  <2>6. \A q \in Runner : run'[q] = run[q] \/ run'[q] = IdleRun
    BY <1>4, InvParts DEF SetRun
  <2> QED BY <1>1, <1>4, <2>4, <2>5, <2>6, FrozenExposure
<1> QED BY <1>1, <1>3, <1>4, CommitExposure

LEMMA CommitFreezeExposure ==
    ASSUME PairInv, ExposureInv, NEW r \in Runner, CommitFreeze(r)
    PROVE  ExposureInv'
<1>1. /\ book' = book /\ traded' = traded /\ notified' = notified /\ sub' = sub /\ fl' = fl
      /\ run[r].pc = "fail" /\ Copy(db, run[r].snap)
  BY DEF CommitFreeze, exVars, PairInv, RunOK
<1>2. PICK s : s = Freeze(run[r].snap)
  OBVIOUS
<1>3. CommitOr(r, s, IdleRun)
  BY <1>2 DEF CommitFreeze
<1>4. ASSUME run[r].snap = db, SetRun(r, IdleRun), seen' = seen,
             db' = [s EXCEPT !.ver = db.ver + 1]
      PROVE  ExposureInv'
  <2>1. s = Freeze(db)
    BY <1>2, <1>4
  <2>2. s.leg = db.leg /\ s \in GroupRec /\ s.st = "frozen"
    BY <2>1, InvParts, FrozenIs
  <2>3. PICK e, k : k = db.ver /\ e = [s EXCEPT !.ver = k + 1]
    OBVIOUS
  <2>4. e.leg = db.leg /\ e.st = "frozen" /\ e.ver = db.ver + 1 /\ db' = e
    BY <1>4, <2>1, <2>2, <2>3, InvParts, StampedIs
  <2>5. sub'.pc = "done"
    <3>1. run[r].pc \in Cancelling
      BY <1>1 DEF Cancelling
    <3> QED BY <1>1, <3>1, PlanOnly, SubmitterDone
  <2>6. \A q \in Runner : run'[q] = run[q] \/ run'[q] = IdleRun
    BY <1>4, InvParts DEF SetRun
  <2> QED BY <1>1, <1>4, <2>4, <2>5, <2>6, FrozenExposure
<1> QED BY <1>1, <1>3, <1>4, CommitExposure

-----------------------------------------------------------------------------
(* The plan *)

LEMMA PlanLegs ==
    /\ PlanState.st = "planned" /\ PlanState.ver = 1 /\ PlanState \in GroupRec
    /\ \A l \in Entry : /\ PlanState.leg[l].st = "planned" /\ PlanState.leg[l].out = l
                        /\ PlanState.leg[l].size = Target /\ PlanState.leg[l].filled = 0
                        /\ PlanState.leg[l].id = FALSE
    /\ \A l \in Leg \ Entry : /\ PlanState.leg[l].st = "none" /\ PlanState.leg[l].id = FALSE
                              /\ PlanState.leg[l].filled = 0
<1>1. PlanState.st = "planned" /\ PlanState.ver = 1 /\ PlanState.leg = PlannedLegs
  BY DEF PlanState, NoGroup
<1>2. \A l \in Entry : PlannedLegs[l] = NewLeg(l, Target)
  BY LegFacts DEF PlannedLegs
<1>3. \A l \in Leg \ Entry : PlannedLegs[l] = NoLeg
  BY DEF PlannedLegs
<1>4. NoLeg.st = "none" /\ NoLeg.id = FALSE /\ NoLeg.filled = 0
  BY DEF NoLeg
<1>5. \A l \in Entry : /\ NewLeg(l, Target).st = "planned" /\ NewLeg(l, Target).out = l
                       /\ NewLeg(l, Target).size = Target /\ NewLeg(l, Target).filled = 0
                       /\ NewLeg(l, Target).id = FALSE
  BY DEF NewLeg
<1>6. PlanState \in GroupRec
  BY PlanIs DEF GroupInv, GroupOK
<1> QED BY <1>1, <1>2, <1>3, <1>4, <1>5, <1>6

LEMMA PersistExposure ==
    ASSUME PairInv, ExposureInv, PersistPlan
    PROVE  ExposureInv'
<1>1. /\ db' = PlanState /\ seen' = seen /\ book' = book /\ traded' = traded
      /\ notified' = notified /\ fl' = fl /\ run' = run /\ sub.pc = "new"
      /\ SetSub("batch") /\ sub \in SubmitTask
  BY InvParts DEF PersistPlan, exVars
<1>2. sub'.pc = "batch"
  BY <1>1, SubIs
<1>3. db.ver = 0
  BY <1>1 DEF PairInv
<1>4. \A l \in Leg : book[l] = "none" /\ traded[l] = 0
  BY <1>1 DEF ExposureInv, SubmitterOK
<1>5. notified = {}
  <2> SUFFICES ASSUME NEW f \in notified PROVE FALSE
    OBVIOUS
  <2>1. f \in Fill /\ f[2] <= traded[f[1]]
    BY DEF ExposureInv, Verdicts, ExecutedBy
  <2>2. f[1] \in Leg /\ f[2] \in 1 .. Target
    BY <2>1 DEF Fill
  <2> QED BY <1>4, <2>1, <2>2, PairAssumption
<1>6. Shape(PlanState)
  BY PlanLegs, PairAssumption DEF Shape
<1>7. Market(PlanState, book, traded)
  <2>1. \A l \in Leg : PlanState.leg[l].size \in Nat
    BY PlanLegs, GroupFields, LegFields
  <2>2. book \in Orders
    BY DEF ExposureInv, Market
  <2> QED BY <1>4, <2>1, <2>2 DEF Market
<1>8. Verdicts(PlanState, book, traded, seen, notified)
  BY <1>5, PlanLegs DEF Verdicts
<1>9. SubmitterOK(PlanState, book, traded, notified, "batch")
  BY <1>4, <1>5, PlanLegs DEF SubmitterOK
<1>10. \A r \in Runner : CallOK(PlanState, book, traded, seen, notified, run[r])
  <2> SUFFICES ASSUME NEW r \in Runner
               PROVE  CallOK(PlanState, book, traded, seen, notified, run[r])
    OBVIOUS
  <2>1. run[r].pc \notin Cancelling /\ run[r].pc \notin {"post", "hedged"}
    BY <1>3, PlanOnly
  <2>2. CallOK(db, book, traded, seen, notified, run[r])
    BY DEF ExposureInv
  <2> QED BY <2>1, <2>2, Bystander
<1>11. fl.pc = "idle"
  BY <1>3, PlanOnly
<1> QED BY <1>1, <1>2, <1>6, <1>7, <1>8, <1>9, <1>10, <1>11 DEF ExposureInv

(* What submit_plan stores: both legs open, or a group that is over. *)
SubmittedAs(s, res) ==
    /\ s \in GroupRec
    /\ \A l \in Leg \ Entry : s.leg[l] = PlanState.leg[l]
    /\ \A l \in Entry :
         /\ s.leg[l].out = l /\ s.leg[l].size = Target /\ s.leg[l].filled = 0
         /\ \/ s.leg[l].st = "open" /\ s.leg[l].id = TRUE
            \/ s.leg[l].st = "rejected" /\ s.leg[l].id = FALSE /\ l \notin Accepted(res)
    /\ \/ s.st \in {"failed", "frozen"}
       \/ s.st = "working" /\ Accepted(res) = Entry

LEMMA SubmittedLegs ==
    ASSUME NEW res \in [Entry -> LegResult], NEW s, s = SubmittedState(res)
    PROVE  SubmittedAs(s, res)
<1> DEFINE d == PlanState
           A == Accepted(res)
           legs == [l \in Leg |->
                      IF l \notin Entry THEN d.leg[l]
                      ELSE IF l \in A THEN [d.leg[l] EXCEPT !.st = "open", !.id = TRUE]
                      ELSE [d.leg[l] EXCEPT !.st = "rejected"]]
           st == IF A = Entry THEN "working" ELSE IF A # {} THEN "imbalanced" ELSE "failed"
           e == [d EXCEPT !.st = st, !.leg = legs]
<1>1. RecordSubmission(d, A) = Refreshed(e, TRUE)
  BY DEF RecordSubmission
<1>2. /\ d \in GroupRec /\ d.leg \in [Leg -> LegRec]
      /\ \A l \in Entry : /\ d.leg[l].st = "planned" /\ d.leg[l].out = l
                          /\ d.leg[l].size = Target /\ d.leg[l].filled = 0
                          /\ d.leg[l].id = FALSE
  BY PlanLegs, GroupFields
<1>3. s = IF PartlyAccepted(res) \/ \E l \in Entry : res[l] \in {"error", "errorId"}
          THEN Freeze(Refreshed(e, TRUE)) ELSE Refreshed(e, TRUE)
  BY <1>1 DEF SubmittedState
<1>4. ASSUME NEW l \in Leg
      PROVE  /\ legs[l] \in LegRec
             /\ l \notin Entry => legs[l] = d.leg[l]
             /\ l \in Entry =>
                  /\ legs[l].out = l /\ legs[l].size = Target /\ legs[l].filled = 0
                  /\ \/ legs[l].st = "open" /\ legs[l].id = TRUE
                     \/ legs[l].st = "rejected" /\ legs[l].id = FALSE /\ l \notin A
  <2>1. d.leg[l] \in LegRec
    BY <1>2
  <2> HIDE DEF d, A
  <2>2. CASE l \notin Entry
    BY <2>1, <2>2
  <2>3. CASE l \in Entry /\ l \in A
    <3>1. legs[l] = [d.leg[l] EXCEPT !.st = "open", !.id = TRUE]
      BY <2>3
    <3> HIDE DEF legs
    <3> QED BY <1>2, <2>1, <2>3, <3>1, StatusFacts DEF LegRec
  <2>4. CASE l \in Entry /\ l \notin A
    <3>1. legs[l] = [d.leg[l] EXCEPT !.st = "rejected"]
      BY <2>4
    <3> HIDE DEF legs
    <3> QED BY <1>2, <2>1, <2>4, <3>1, StatusFacts DEF LegRec
  <2> QED BY <2>2, <2>3, <2>4
<1>5. legs = [l \in Leg |-> legs[l]]
  OBVIOUS
<1>6. st \in GroupStatus
  BY StatusFacts
<1>7. ~PartlyAccepted(res) => (A = Entry /\ st = "working") \/ st = "failed"
  BY LegFacts DEF PartlyAccepted
<1> HIDE DEF legs, st, d, A
<1>8. legs \in [Leg -> LegRec]
  BY <1>4, <1>5
<1>9. e \in GroupRec /\ e.leg = legs /\ e.st = st
  BY <1>2, <1>6, <1>8 DEF GroupRec
<1> HIDE DEF e
<1> DEFINE g == Refreshed(e, TRUE)
<1>10. g \in GroupRec /\ g.leg = legs /\ g.st = RefreshedStatus(st, legs, TRUE)
  <2>1. /\ Refreshed(e, TRUE) \in GroupRec /\ Refreshed(e, TRUE).leg = e.leg
        /\ Refreshed(e, TRUE).st = RefreshedStatus(e.st, e.leg, TRUE)
    BY <1>9, RefreshedIs
  <2> QED BY <1>9, <2>1
<1>11. st \in {"working", "failed"} => g.st = st
  BY <1>10 DEF RefreshedStatus
<1> HIDE DEF g
<1>12. Freeze(g) \in GroupRec /\ Freeze(g).leg = legs /\ Freeze(g).st = "frozen"
  BY <1>10, StatusFacts DEF Freeze, GroupRec
<1>13. s = Freeze(g) \/ (s = g /\ ~PartlyAccepted(res))
  BY <1>3 DEF g
<1>14. s \in GroupRec /\ s.leg = legs
  BY <1>10, <1>12, <1>13
<1>15. \/ s.st \in {"failed", "frozen"}
       \/ s.st = "working" /\ A = Entry
  BY <1>7, <1>11, <1>12, <1>13
<1>16. \A l \in Leg \ Entry : s.leg[l] = PlanState.leg[l]
  BY <1>4, <1>14 DEF d
<1>17. \A l \in Entry :
         /\ s.leg[l].out = l /\ s.leg[l].size = Target /\ s.leg[l].filled = 0
         /\ \/ s.leg[l].st = "open" /\ s.leg[l].id = TRUE
            \/ s.leg[l].st = "rejected" /\ s.leg[l].id = FALSE /\ l \notin Accepted(res)
  BY <1>4, <1>14, LegFacts DEF A
<1> QED BY <1>14, <1>15, <1>16, <1>17 DEF A, SubmittedAs

LEMMA RecordResultExposure ==
    ASSUME PairInv, ExposureInv, RecordResult
    PROVE  ExposureInv'
<1>1. /\ traded' = traded /\ notified' = notified /\ fl' = fl /\ run' = run
      /\ sub.pc = "result" /\ SetSub("done") /\ sub \in SubmitTask
  BY InvParts DEF RecordResult
<1>2. sub'.pc = "done" /\ sub.res \in [Entry -> LegResult]
  <2>1. sub'.pc = "done"
    BY <1>1, SubIs
  <2>2. sub.res \in [Entry -> LegResult]
    BY <1>1 DEF SubmitTask
  <2> QED BY <2>1, <2>2
<1>3. PICK s : s = SubmittedState(sub.res)
  OBVIOUS
<1>4. CASE ~Committed(1, s)
  <2>1. db' = db /\ seen' = seen /\ BestEffortCancel(Accepted(sub.res))
    BY <1>3, <1>4 DEF RecordResult, dbVars
  <2>2. Shrinks(book, book')
    BY <2>1, CancelledShrinks DEF BestEffortCancel
  <2> QED BY <1>1, <1>2, <2>1, <2>2, SubExposure
<1>5. CASE Committed(1, s)
  <2>1. db.ver = 1 /\ Store(1, s) /\ book' = book
    BY <1>3, <1>5 DEF RecordResult, Committed
  <2>2. PICK e : e = [s EXCEPT !.ver = 1 + 1]
    OBVIOUS
  <2>3. db' = e /\ seen' = seen
    BY <2>1, <2>2 DEF Store
  <2>4. PICK res : res = sub.res
    OBVIOUS
  <2>5. SubmittedAs(s, res)
    <3>1. res \in [Entry -> LegResult] /\ s = SubmittedState(res)
      BY <1>2, <1>3, <2>4
    <3> QED BY <3>1, SubmittedLegs
  <2>6. e.leg = s.leg /\ e.st = s.st /\ e.ver = 1 + 1
    <3>1. 1 \in Nat
      OBVIOUS
    <3> QED BY <2>2, <2>5, <3>1, StampedIs DEF SubmittedAs
  <2>7. \A l \in Leg \ Entry : e.leg[l].st = "none" /\ e.leg[l].id = FALSE /\ e.leg[l].filled = 0
    BY <2>5, <2>6, PlanLegs DEF SubmittedAs
  <2>8. \A l \in Entry : /\ e.leg[l].out = l /\ e.leg[l].size = Target /\ e.leg[l].filled = 0
                         /\ e.leg[l].st \in {"open", "rejected"}
                         /\ e.leg[l].st = "open" => e.leg[l].id = TRUE
                         /\ e.leg[l].st = "rejected" => l \notin Accepted(res)
    BY <2>5, <2>6 DEF SubmittedAs
  <2>9. Shape(e)
    <3>1. e.st \in {"failed", "frozen", "working"}
      BY <2>5, <2>6 DEF SubmittedAs
    <3>2. e.st = "working" => \A l \in Entry : e.leg[l].st = "open"
      BY <2>5, <2>6, <2>8 DEF SubmittedAs
    <3>3. \A l \in Hedge : l \in Leg \ Entry
      BY PairAssumption DEF Hedge, Leg, Entry, Yes, No
    <3>4. Target > 0
      BY PairAssumption
    <3>5. \A l \in Leg :
            /\ l \in Entry /\ e.leg[l].st # "none" => e.leg[l].out = l /\ e.leg[l].size = Target
            /\ e.leg[l].st \in {"open", "partially_filled"} =>
                  e.leg[l].id = TRUE /\ e.leg[l].filled < e.leg[l].size
            /\ e.leg[l].st \notin {"filled", "planned"}
      BY <2>7, <2>8, <3>4
    <3> QED BY <2>7, <3>1, <3>2, <3>3, <3>5 DEF Shape
  <2>10. db = PlanState
    BY <2>1 DEF PairInv, Ledger
  <2>11. Market(e, book, traded)
    <3>1. \A l \in Leg : l \in Entry => e.leg[l].size = db.leg[l].size
      BY <2>8, <2>10, PlanLegs
    <3>2. \A l \in Leg : l \notin Entry => e.leg[l] = db.leg[l]
      BY <2>5, <2>6, <2>10 DEF SubmittedAs
    <3>3. \A l \in Leg : l \in Entry => e.leg[l].st # "none"
      BY <2>8
    <3> QED BY <3>1, <3>2, <3>3 DEF ExposureInv, Market
  <2>12. Verdicts(e, book, traded, seen, notified)
    <3>1. \A l \in Leg : e.leg[l].st # "cancelled"
      BY <2>7, <2>8
    <3>2. ASSUME NEW f \in notified PROVE e.leg[f[1]].id # TRUE
      <4>1. f[1] \in Leg \ Entry
        BY <1>1 DEF ExposureInv, SubmitterOK, Verdicts, ExecutedBy, Fill
      <4> QED BY <2>7, <4>1
    <3> QED BY <3>1, <3>2 DEF ExposureInv, Verdicts
  <2>13. \A r \in Runner : CallOK(e, book, traded, seen, notified, run[r])
    <3> SUFFICES ASSUME NEW r \in Runner
                 PROVE  CallOK(e, book, traded, seen, notified, run[r])
      OBVIOUS
    <3>1. run[r].pc \notin Cancelling /\ run[r].pc \notin {"post", "hedged"}
      BY <2>1, PlanOnly
    <3>2. CallOK(db, book, traded, seen, notified, run[r])
      BY DEF ExposureInv
    <3> QED BY <3>1, <3>2, Bystander
  <2>14. \A l \in Leg : db.leg[l].id = TRUE => e.leg[l].id = TRUE
    BY <2>1, PlanOnly
  <2>15. OneCanceller(run')
    BY <1>1 DEF ExposureInv
  <2> QED BY <1>1, <1>2, <2>1, <2>3, <2>9, <2>11, <2>12, <2>13, <2>14, <2>15, StoreExposure
<1> QED BY <1>4, <1>5

LEMMA FreezePlanExposure ==
    ASSUME PairInv, ExposureInv, FreezePlan
    PROVE  ExposureInv'
<1>1. /\ traded' = traded /\ notified' = notified /\ fl' = fl /\ run' = run /\ book' = book
      /\ SetSub("done") /\ sub \in SubmitTask
  BY InvParts DEF FreezePlan, exVars
<1>2. sub'.pc = "done"
  BY <1>1, SubIs
<1>3. PICK s : s = Freeze(PlanState)
  OBVIOUS
<1>4. CASE ~Committed(1, s)
  <2>1. db' = db /\ seen' = seen
    BY <1>3, <1>4 DEF FreezePlan, dbVars
  <2> QED BY <1>1, <1>2, <2>1, SubExposure, CancelledShrinks
<1>5. CASE Committed(1, s)
  <2>1. db.ver = 1 /\ Store(1, s)
    BY <1>3, <1>5 DEF FreezePlan, Committed
  <2>2. PICK e : e = [s EXCEPT !.ver = 1 + 1]
    OBVIOUS
  <2>3. db' = e /\ seen' = seen
    BY <2>1, <2>2 DEF Store
  <2>4. db = PlanState
    BY <2>1 DEF PairInv, Ledger
  <2>5. s.leg = db.leg /\ s.st = "frozen" /\ s \in GroupRec
    BY <1>3, <2>4, PlanIs, FrozenIs
  <2>6. e.leg = db.leg /\ e.st = "frozen" /\ e.ver = db.ver + 1
    <3>1. 1 \in Nat
      OBVIOUS
    <3> QED BY <2>1, <2>2, <2>5, <3>1, StampedIs
  <2> QED BY <1>1, <1>2, <2>3, <2>6, FrozenExposure
<1> QED BY <1>4, <1>5

-----------------------------------------------------------------------------
(* Marking the working legs *)

LEMMA RestatedStatus ==
    ASSUME NEW legs \in [Leg -> LegRec], NEW L, NEW st, NEW l \in Leg
    PROVE  Restated(legs, L, st)[l].st = IF l \in L THEN st ELSE legs[l].st
<1>1. legs[l] \in LegRec
  OBVIOUS
<1>2. Restated(legs, L, st)[l] = IF l \in L THEN [legs[l] EXCEPT !.st = st] ELSE legs[l]
  BY DEF Restated
<1>3. [legs[l] EXCEPT !.st = st].st = st
  BY <1>1 DEF LegRec
<1> QED BY <1>2, <1>3

(* Legs that differ from those of d in their statuses only. *)
SameBut(legs, d, L, st) ==
    \A l \in Leg : /\ legs[l].filled = d.leg[l].filled /\ legs[l].size = d.leg[l].size
                   /\ legs[l].out = d.leg[l].out /\ legs[l].id = d.leg[l].id
                   /\ legs[l].st = IF l \in L THEN st ELSE d.leg[l].st

LEMMA RestatedSame ==
    ASSUME NEW d, d.leg \in [Leg -> LegRec], NEW L \in SUBSET Leg,
           NEW st \in LegStatus \ {"none"}, \A l \in L : d.leg[l].st # "none"
    PROVE  /\ SameBut(Restated(d.leg, L, st), d, L, st)
           /\ Restated(d.leg, L, st) \in [Leg -> LegRec]
<1>1. PICK legs : legs = d.leg
  OBVIOUS
<1>2. /\ Restated(legs, L, st) \in [Leg -> LegRec]
      /\ \A l \in Leg : /\ Restated(legs, L, st)[l].filled = legs[l].filled
                        /\ Restated(legs, L, st)[l].size = legs[l].size
                        /\ Restated(legs, L, st)[l].out = legs[l].out
                        /\ Restated(legs, L, st)[l].id = legs[l].id
  BY <1>1, RestatedLegs
<1>3. \A l \in Leg : Restated(legs, L, st)[l].st = IF l \in L THEN st ELSE legs[l].st
  BY <1>1, RestatedStatus
<1> QED BY <1>1, <1>2, <1>3 DEF SameBut

LEMMA MarkedIs ==
    ASSUME NEW d, GroupInv(d), NEW s, s = CancelPending(d)
    PROVE  /\ s \in GroupRec /\ s.st = "cancelling"
           /\ SameBut(s.leg, d, Cancellable(d), "cancel_pending")
<1>1. d \in GroupRec /\ d.leg \in [Leg -> LegRec]
  BY GroupFields DEF GroupInv, GroupOK
<1> DEFINE L == Cancellable(d)
           legs == Restated(d.leg, L, "cancel_pending")
<1>2. L \in SUBSET Leg /\ \A l \in L : d.leg[l].st # "none"
  BY DEF Cancellable
<1>3. legs \in [Leg -> LegRec] /\ SameBut(legs, d, L, "cancel_pending")
  <2>1. "cancel_pending" \in LegStatus \ {"none"}
    BY StatusFacts
  <2> HIDE DEF L
  <2> QED BY <1>1, <1>2, <2>1, RestatedSame
<1>4. s = [d EXCEPT !.st = "cancelling", !.leg = legs]
  BY DEF CancelPending, Restated
<1> HIDE DEF legs, L
<1>5. s \in GroupRec /\ s.leg = legs /\ s.st = "cancelling"
  BY <1>1, <1>3, <1>4, StatusFacts DEF GroupRec
<1> QED BY <1>3, <1>5 DEF L

(* A group with a leg to cancel: its other legs are closed, and no call has  *)
(* begun to cancel or to hedge.                                              *)
LEMMA MarkedGroup ==
    ASSUME PairInv, ExposureInv, db.st \notin Settled, Cancellable(db) # {}
    PROVE  /\ \A l \in Leg : db.leg[l].st \in Closed \/ l \in Cancellable(db)
           /\ \A q \in Runner : run[q].pc \notin Cancelling /\ run[q].pc \notin {"post", "hedged"}
           /\ db.ver # 0 /\ db.ver # 1
<1>1. PICK c \in Leg : /\ db.leg[c].id = TRUE /\ db.leg[c].st \in {"open", "partially_filled"}
                       /\ c \in Cancellable(db)
  <2>1. PICK c \in Leg : c \in Cancellable(db)
    BY DEF Cancellable
  <2>2. db.leg[c].id \in BOOLEAN
    BY InvParts, LegFields
  <2> QED BY <2>1, <2>2 DEF Cancellable
<1>2. db.ver # 0 /\ db.ver # 1
  BY <1>1, PlanOnly
<1>3. Shape(db) /\ db.st \in GroupStatus
  BY InvParts, GroupFields DEF ExposureInv
<1>4. \A l \in Leg : db.leg[l].st \in {"open", "partially_filled"} => l \in Cancellable(db)
  BY <1>3 DEF Shape, Cancellable
<1>5. \A l \in Leg : db.leg[l].st \in Closed \/ l \in Cancellable(db)
  <2>1. CASE db.st \in {"working", "imbalanced"}
    BY <1>3, <1>4, <2>1 DEF Shape, Closed, Leg
  <2>2. CASE db.st = "hedging"
    <3>1. PICK h \in Hedge : \A l \in Leg \ {h} : db.leg[l].st \in Closed
      BY <1>3, <2>2 DEF Shape
    <3>2. c = h
      BY <1>1, <3>1 DEF Closed
    <3> QED BY <1>1, <3>1, <3>2
  <2>3. db.st # "cancelling"
    BY <1>1, <1>3 DEF Shape, Closed
  <2>4. db.st # "none" /\ db.st # "planned"
    BY <1>2, <1>3 DEF Shape
  <2> QED BY <1>3, <2>1, <2>2, <2>3, <2>4, StatusFacts DEF Settled
<1>6. ASSUME NEW q \in Runner
      PROVE  run[q].pc \notin Cancelling /\ run[q].pc \notin {"post", "hedged"}
  <2>1. CallOK(db, book, traded, seen, notified, run[q])
    BY DEF ExposureInv
  <2>2. run[q].pc \notin Cancelling
    BY <1>1, <2>1 DEF CallOK, Closed
  <2>3. ASSUME run[q].pc \in {"post", "hedged"} PROVE FALSE
    <3>1. run[q].h \in Leg /\ db.leg[run[q].h].st = "planned"
      BY <2>1, <2>3 DEF CallOK, Leg
    <3>2. run[q].h \notin Cancellable(db)
      BY <3>1 DEF Cancellable
    <3> QED BY <1>5, <3>1, <3>2 DEF Closed
  <2> QED BY <2>2, <2>3
<1> QED BY <1>2, <1>5, <1>6

LEMMA CommitCancelPendingExposure ==
    ASSUME PairInv, ExposureInv, NEW r \in Runner, CommitCancelPending(r)
    PROVE  ExposureInv'
<1>1. /\ book' = book /\ traded' = traded /\ notified' = notified /\ sub' = sub /\ fl' = fl
      /\ run[r].pc = "mark" /\ Copy(db, run[r].snap)
  BY DEF CommitCancelPending, exVars, PairInv, RunOK
<1>2. PICK s : s = CancelPending(run[r].snap)
  OBVIOUS
<1>3. PICK t : t = [run[r] EXCEPT !.pc = "cancel", !.snap = Stepped(s, @.ver)]
  OBVIOUS
<1>4. CommitOr(r, s, t)
  BY <1>2, <1>3 DEF CommitCancelPending
<1>5. ASSUME run[r].snap = db, SetRun(r, t), seen' = seen, db' = [s EXCEPT !.ver = db.ver + 1]
      PROVE  ExposureInv'
  <2>1. PICK L : L = Cancellable(db)
    OBVIOUS
  <2>2. db.st \notin Settled /\ run[r].ids = L /\ L # {}
    BY <1>1, <1>5, <2>1 DEF ExposureInv, CallOK
  <2>3. /\ \A l \in Leg : db.leg[l].st \in Closed \/ l \in L
        /\ \A q \in Runner : run[q].pc \notin Cancelling /\ run[q].pc \notin {"post", "hedged"}
        /\ db.ver # 0 /\ db.ver # 1
    BY <2>1, <2>2, MarkedGroup
  <2>4. s \in GroupRec /\ s.st = "cancelling" /\ SameBut(s.leg, db, L, "cancel_pending")
    <3>1. s = CancelPending(db) /\ GroupInv(db)
      BY <1>2, <1>5, InvParts
    <3> QED BY <2>1, <3>1, MarkedIs
  <2>5. PICK e, k : k = db.ver /\ e = [s EXCEPT !.ver = k + 1]
    OBVIOUS
  <2>6. db' = e /\ e.leg = s.leg /\ e.st = "cancelling" /\ e.ver = k + 1
    BY <1>5, <2>4, <2>5, InvParts, StampedIs
  <2>7. \A l \in Leg : /\ e.leg[l].filled = db.leg[l].filled /\ e.leg[l].size = db.leg[l].size
                       /\ e.leg[l].out = db.leg[l].out /\ e.leg[l].id = db.leg[l].id
                       /\ l \in L => e.leg[l].st = "cancel_pending"
                       /\ l \notin L => e.leg[l].st = db.leg[l].st
    BY <2>4, <2>6 DEF SameBut
  <2>8. \A l \in L : l \in Leg /\ db.leg[l].id = TRUE /\ db.leg[l].st # "none"
    <3>1. \A l \in L : l \in Leg /\ db.leg[l].st # "none" /\ db.leg[l].id
      BY <2>1 DEF Cancellable
    <3>2. \A l \in Leg : db.leg[l].id \in BOOLEAN
      BY InvParts, LegFields
    <3> QED BY <3>1, <3>2
  <2>9. Shape(e)
    <3>1. \A l \in Leg : e.leg[l].st \in Closed \cup {"cancel_pending"}
      BY <2>3, <2>7
    <3>2. Shape(db)
      BY DEF ExposureInv
    <3>3. \A l \in Leg :
            /\ l \in Entry /\ e.leg[l].st # "none" => e.leg[l].out = l /\ e.leg[l].size = Target
            /\ e.leg[l].st = "filled" => e.leg[l].filled = e.leg[l].size
      BY <2>7, <2>8, <3>2 DEF Shape
    <3> QED BY <2>6, <3>1, <3>3 DEF Shape, Closed
  <2>10. Market(e, book, traded)
    BY <2>7, <2>8 DEF ExposureInv, Market
  <2>11. Verdicts(e, book, traded, seen, notified)
    <3>1. \A l \in Leg : e.leg[l].st = "cancelled" => db.leg[l].st = "cancelled"
      BY <2>7
    <3>2. \A f \in notified : f[1] \in Leg
      BY DEF ExposureInv, Verdicts, ExecutedBy, Fill
    <3> QED BY <2>7, <3>1, <3>2 DEF ExposureInv, Verdicts
  <2>12. t.pc = "cancel" /\ t.ids = L
    <3>1. PICK c, n : c = run[r] /\ n = Stepped(s, c.snap.ver)
      OBVIOUS
    <3>2. c \in RunRec /\ t = [c EXCEPT !.pc = "cancel", !.snap = n]
      BY <1>3, <3>1, InvParts
    <3>3. t.pc = "cancel" /\ t.ids = c.ids
      BY <3>2 DEF RunRec
    <3> QED BY <2>2, <3>1, <3>3
  <2>13. CallOK(e, book, traded, seen, notified, t)
    <3>1. \A l \in Leg : e.leg[l].st \in Closed \/ (e.leg[l].st = "cancel_pending" /\ l \in L)
      BY <2>3, <2>7
    <3>2. \A l \in L : e.leg[l].id = TRUE
      BY <2>7, <2>8
    <3> QED BY <2>6, <2>12, <3>1, <3>2 DEF CallOK, Cancelling
  <2>14. \A l \in Leg : db.leg[l].id = TRUE => e.leg[l].id = TRUE
    BY <2>7
  <2> QED BY <1>1, <1>5, <2>3, <2>6, <2>9, <2>10, <2>11, <2>13, <2>14, LoneExposure
<1> QED BY <1>1, <1>4, <1>5, CommitExposure

-----------------------------------------------------------------------------
(* Confirming the cancellations *)

LEMMA ConfirmedIs ==
    ASSUME NEW d, GroupInv(d), NEW ids, NEW s, s = CancelsConfirmed(d, ids)
    PROVE  /\ GroupInv(s) /\ s \in GroupRec /\ s.leg \in [Leg -> LegRec]
           /\ SameBut(s.leg, d, {l \in Leg : l \in ids /\ d.leg[l].st = "cancel_pending"},
                      "cancelled")
<1>1. d \in GroupRec /\ d.leg \in [Leg -> LegRec]
  BY GroupFields DEF GroupInv, GroupOK
<1> DEFINE L == {l \in Leg : l \in ids /\ d.leg[l].st = "cancel_pending"}
           legs == Restated(d.leg, L, "cancelled")
           e == [d EXCEPT !.leg = legs]
<1>2. legs \in [Leg -> LegRec] /\ SameBut(legs, d, L, "cancelled")
  <2>1. "cancelled" \in LegStatus \ {"none"}
    BY StatusFacts
  <2>2. L \in SUBSET Leg /\ \A l \in L : d.leg[l].st # "none"
    OBVIOUS
  <2> HIDE DEF L
  <2> QED BY <1>1, <2>1, <2>2, RestatedSame
<1>3. s = Refreshed(e, TRUE)
  <2>1. [l \in Leg |-> IF l \in ids /\ d.leg[l].st = "cancel_pending"
                       THEN [d.leg[l] EXCEPT !.st = "cancelled"] ELSE d.leg[l]] = legs
    BY DEF Restated
  <2> QED BY <2>1 DEF CancelsConfirmed
<1> HIDE DEF legs, L
<1>4. e \in GroupRec /\ e.leg = legs
  BY <1>1, <1>2 DEF GroupRec
<1> HIDE DEF e
<1>5. s.leg = legs
  BY ZenonT(60), <1>3, <1>4, RefreshedIs
<1>6. GroupInv(s) /\ s \in GroupRec
  <2>1. Alike(d, s)
    BY CancelsConfirmedIs
  <2>2. GroupInv(s)
    BY <2>1, AlikeIsTaken
  <2> QED BY <2>2 DEF GroupInv, GroupOK
<1> QED BY <1>2, <1>5, <1>6 DEF L

(* Once the cancellations are confirmed, every leg is closed. *)
ClosedFrom(d, legs) ==
    \A l \in Leg : /\ legs[l].filled = d.leg[l].filled /\ legs[l].size = d.leg[l].size
                   /\ legs[l].out = d.leg[l].out /\ legs[l].id = d.leg[l].id
                   /\ legs[l].st \in Closed
                   /\ legs[l].st = "none" <=> d.leg[l].st = "none"
                   /\ legs[l].st = "filled" <=> d.leg[l].st = "filled"
                   /\ legs[l].st = "cancelled" => Known(book, traded, seen, l)

LEMMA ConfirmedGroup ==
    ASSUME PairInv, ExposureInv, NEW r \in Runner, run[r].pc = "confirm",
           NEW s, s = CancelsConfirmed(db, run[r].ids)
    PROVE  /\ GroupInv(s) /\ ClosedFrom(db, s.leg) /\ ~StillPending(s)
           /\ \A q \in Runner \ {r} :
                 run[q].pc \notin Cancelling /\ run[q].pc \notin {"post", "hedged"}
           /\ db.ver # 0 /\ db.ver # 1
<1>1. PICK ids : ids = run[r].ids
  OBVIOUS
<1>2. run[r].pc \in Cancelling
  BY DEF Cancelling
<1>3. CallOK(db, book, traded, seen, notified, run[r])
  BY DEF ExposureInv
<1>4. /\ \A l \in Leg : db.leg[l].st \in Closed \/ (db.leg[l].st = "cancel_pending" /\ l \in ids)
      /\ \A l \in ids : Known(book, traded, seen, l)
  BY <1>1, <1>2, <1>3 DEF CallOK
<1>5. PICK L : L = {l \in Leg : l \in ids /\ db.leg[l].st = "cancel_pending"}
  OBVIOUS
<1>6. GroupInv(s) /\ SameBut(s.leg, db, L, "cancelled")
  <2>1. GroupInv(db) /\ s = CancelsConfirmed(db, ids)
    BY <1>1, InvParts
  <2> QED BY <1>5, <2>1, ConfirmedIs
<1>7. ClosedFrom(db, s.leg)
  <2> SUFFICES ASSUME NEW l \in Leg
               PROVE  /\ s.leg[l].filled = db.leg[l].filled /\ s.leg[l].size = db.leg[l].size
                      /\ s.leg[l].out = db.leg[l].out /\ s.leg[l].id = db.leg[l].id
                      /\ s.leg[l].st \in Closed
                      /\ s.leg[l].st = "none" <=> db.leg[l].st = "none"
                      /\ s.leg[l].st = "filled" <=> db.leg[l].st = "filled"
                      /\ s.leg[l].st = "cancelled" => Known(book, traded, seen, l)
    BY DEF ClosedFrom
  <2>1. /\ s.leg[l].filled = db.leg[l].filled /\ s.leg[l].size = db.leg[l].size
        /\ s.leg[l].out = db.leg[l].out /\ s.leg[l].id = db.leg[l].id
        /\ s.leg[l].st = IF l \in L THEN "cancelled" ELSE db.leg[l].st
    BY <1>6 DEF SameBut
  <2>2. CASE l \in L
    <3>1. Known(book, traded, seen, l) /\ db.leg[l].st = "cancel_pending"
      BY <1>4, <1>5, <2>2
    <3> QED BY <2>1, <2>2, <3>1 DEF Closed
  <2>3. CASE l \notin L
    <3>1. db.leg[l].st \in Closed
      BY <1>4, <1>5, <2>3
    <3>2. db.leg[l].st = "cancelled" => Known(book, traded, seen, l)
      BY <3>1, ClosedIsKnown
    <3> QED BY <2>1, <2>3, <3>1, <3>2
  <2> QED BY <2>2, <2>3
<1>8. ~StillPending(s)
  BY <1>7 DEF StillPending, ClosedFrom, Closed
<1>9. ASSUME NEW q \in Runner \ {r}
      PROVE  run[q].pc \notin Cancelling /\ run[q].pc \notin {"post", "hedged"}
  <2>1. CallOK(db, book, traded, seen, notified, run[q]) /\ run[q].pc \notin Cancelling
    BY <1>2 DEF ExposureInv, OneCanceller
  <2>2. run[q].pc \in {"post", "hedged"} =>
           run[q].h \in Leg /\ db.leg[run[q].h].st = "planned"
    BY <2>1 DEF CallOK, Leg
  <2> QED BY <1>4, <2>1, <2>2 DEF Closed
<1>10. db.ver # 0 /\ db.ver # 1
  BY <1>2, PlanOnly
<1> QED BY <1>6, <1>7, <1>8, <1>9, <1>10

LEMMA ClosedShape ==
    ASSUME PairInv, ExposureInv, NEW e, ClosedFrom(db, e.leg),
           \/ e.st = "frozen"
           \/ e.st \in {"paired", "cancelled"} /\ Bought(e.leg, Yes) = Bought(e.leg, No)
    PROVE  /\ Shape(e) /\ Market(e, book, traded)
           /\ Verdicts(e, book, traded, seen, notified)
<1>1. \A l \in Leg : /\ e.leg[l].filled = db.leg[l].filled /\ e.leg[l].size = db.leg[l].size
                     /\ e.leg[l].out = db.leg[l].out /\ e.leg[l].id = db.leg[l].id
                     /\ e.leg[l].st \in Closed
                     /\ e.leg[l].st = "none" <=> db.leg[l].st = "none"
                     /\ e.leg[l].st = "filled" <=> db.leg[l].st = "filled"
                     /\ e.leg[l].st = "cancelled" => Known(book, traded, seen, l)
  BY DEF ClosedFrom
<1>2. Shape(e)
  <2>1. \A l \in Leg :
          /\ l \in Entry /\ e.leg[l].st # "none" => e.leg[l].out = l /\ e.leg[l].size = Target
          /\ e.leg[l].st = "filled" => e.leg[l].filled = e.leg[l].size
          /\ e.leg[l].st \notin {"open", "partially_filled", "planned"}
    BY <1>1 DEF ExposureInv, Shape, Closed
  <2> QED BY <1>1, <2>1 DEF Shape
<1>3. Market(e, book, traded)
  BY <1>1 DEF ExposureInv, Market
<1>4. Verdicts(e, book, traded, seen, notified)
  <2>1. \A f \in notified : f[1] \in Leg
    BY DEF ExposureInv, Verdicts, ExecutedBy, Fill
  <2> QED BY <1>1, <2>1 DEF ExposureInv, Verdicts
<1> QED BY <1>2, <1>3, <1>4

(* The directional columns are the difference of the two sums. *)
LEMMA DirectionIs ==
    ASSUME NEW legs, NEW y, NEW n, y = Bought(legs, Yes), n = Bought(legs, No)
    PROVE  /\ y \in Nat /\ n \in Nat
           /\ InventoryOf(legs).yes = IF y - n >= 0 THEN y - n ELSE 0
           /\ InventoryOf(legs).no = IF n - y >= 0 THEN n - y ELSE 0
<1>1. y \in Nat /\ n \in Nat
  BY BoughtIs
<1>2. /\ InventoryOf(legs).yes = Max({y - n, 0})
      /\ InventoryOf(legs).no = Max({n - y, 0})
  BY DEF InventoryOf
<1>3. y - n \in Int /\ n - y \in Int
  BY <1>1
<1> QED BY <1>1, <1>2, <1>3, PositivePart

(* n is s with leg h as a hedge, for the shares that are missing. *)
HedgedFrom(s, n, h) ==
    /\ n \in GroupRec /\ n.st = "hedging" /\ h \in Hedge /\ h \in Leg
    /\ s.leg[h].st = "none" /\ n.leg[h].st = "planned" /\ n.leg[h].filled = 0
    /\ n.leg[h].id = FALSE /\ n.leg[h].size \in Nat /\ n.leg[h].size > 0
    /\ \A l \in Leg \ {h} : n.leg[l] = s.leg[l]
    /\ Matches(n, h)

LEMMA HedgedIs ==
    ASSUME NEW s, GroupInv(s), ~Even(s.inv), NEW h, h \in NextHedge(s),
           NEW n, n = WithHedge(s, h)
    PROVE  HedgedFrom(s, n, h)
<1> DEFINE o == IF s.inv.yes > 0 THEN No ELSE Yes
           g == NewLeg(o, s.inv.yes + s.inv.no)
           legs == [s.leg EXCEPT ![h] = g]
<1>1. /\ s \in GroupRec /\ s.leg \in [Leg -> LegRec] /\ s.inv \in Inventory
      /\ LegsOK(s.leg) /\ s.inv = InventoryOf(s.leg)
  BY GroupFields DEF GroupInv, GroupOK
<1>2. h \in Hedge /\ h \in Leg /\ s.leg[h].st = "none"
  BY DEF NextHedge, Stored, Leg
<1>3. s.leg[h].filled = 0
  BY <1>1, <1>2 DEF LegsOK
<1>4. n = [s EXCEPT !.st = "hedging", !.leg = legs]
  BY DEF WithHedge
<1>5. /\ g \in LegRec /\ g.filled = 0 /\ g.st = "planned" /\ g.id = FALSE /\ g.out = o
      /\ g.size = s.inv.yes + s.inv.no /\ o \in Entry /\ g.size \in Nat
  <2>1. o \in Entry
    BY LegFacts
  <2>2. s.inv.yes + s.inv.no \in Nat
    BY <1>1 DEF Inventory
  <2>3. 0 \in 0 .. Target
    BY PairAssumption
  <2> HIDE DEF o
  <2> QED BY <2>1, <2>2, <2>3, StatusFacts DEF NewLeg, LegRec
<1> HIDE DEF g
<1>6. legs \in [Leg -> LegRec] /\ legs[h] = g /\ \A l \in Leg \ {h} : legs[l] = s.leg[l]
  BY <1>1, <1>2, <1>5
<1> HIDE DEF legs
<1>7. n \in GroupRec /\ n.st = "hedging" /\ n.leg = legs
  BY <1>1, <1>4, <1>6, StatusFacts DEF GroupRec
<1>8. PICK y, m : y = Bought(s.leg, Yes) /\ m = Bought(s.leg, No)
  OBVIOUS
<1>9. /\ y \in Nat /\ m \in Nat
      /\ s.inv.yes = IF y - m >= 0 THEN y - m ELSE 0
      /\ s.inv.no = IF m - y >= 0 THEN m - y ELSE 0
  BY <1>1, <1>8, DirectionIs
<1>10. g.size > 0 /\ g.size = (IF y - m >= 0 THEN y - m ELSE m - y) /\ y # m
  BY <1>5, <1>9 DEF Even
<1>11. Bought(n.leg, Yes) = y /\ Bought(n.leg, No) = m
  <2>1. \A l \in Leg : /\ legs[l].filled = s.leg[l].filled
                       /\ s.leg[l].filled # 0 => legs[l].out = s.leg[l].out
    BY <1>3, <1>5, <1>6
  <2> QED BY <1>1, <1>6, <1>7, <1>8, <2>1, BoughtSame
<1>12. o = IF y - m > 0 THEN No ELSE Yes
  BY <1>9
<1>13. Matches(n, h)
  <2>1. n.leg[h].out = o /\ n.leg[h].size = g.size
    BY <1>5, <1>6, <1>7
  <2> HIDE DEF o
  <2>2. CASE y - m > 0
    BY <1>9, <1>10, <1>11, <1>12, <2>1, <2>2, LegFacts DEF Matches
  <2>3. CASE ~(y - m > 0)
    BY <1>9, <1>10, <1>11, <1>12, <2>1, <2>3, LegFacts DEF Matches
  <2> QED BY <2>2, <2>3
<1> QED BY <1>2, <1>5, <1>6, <1>7, <1>10, <1>13 DEF HedgedFrom

(* Confirmed without a hedge: the group has ended, balanced or frozen. *)
LEMMA EndedIs ==
    ASSUME NEW s, GroupInv(s), ~StillPending(s), NEW p, p = WithoutHedge(s)
    PROVE  /\ p \in GroupRec /\ p.leg = s.leg
           /\ \/ p.st = "frozen"
              \/ p.st \in {"paired", "cancelled"} /\ Bought(s.leg, Yes) = Bought(s.leg, No)
<1>1. s.inv = InventoryOf(s.leg)
  BY DEF GroupInv
<1>2. Even(InventoryOf(s.leg)) <=> Bought(s.leg, Yes) = Bought(s.leg, No)
  BY InventoryIs
<1>3. p = IF Even(InventoryOf(s.leg)) THEN TerminalState(s) ELSE Freeze(s)
  BY <1>1 DEF WithoutHedge
<1> QED BY <1>2, <1>3, FrozenIs

LEMMA ConfirmedExposure ==
    ASSUME PairInv, ExposureInv, NEW r \in Runner, run[r].pc = "confirm",
           NEW s, s = CancelsConfirmed(db, run[r].ids), NEW p, p = WithoutHedge(s),
           SetRun(r, IdleRun), db' = [p EXCEPT !.ver = db.ver + 1],
           seen' = seen, book' = book, traded' = traded, notified' = notified,
           sub' = sub, fl' = fl
    PROVE  ExposureInv'
<1>1. /\ GroupInv(s) /\ ClosedFrom(db, s.leg) /\ ~StillPending(s)
      /\ \A q \in Runner \ {r} :
            run[q].pc \notin Cancelling /\ run[q].pc \notin {"post", "hedged"}
      /\ db.ver # 0 /\ db.ver # 1
  BY ConfirmedGroup
<1>2. /\ p \in GroupRec /\ p.leg = s.leg
      /\ \/ p.st = "frozen"
         \/ p.st \in {"paired", "cancelled"} /\ Bought(s.leg, Yes) = Bought(s.leg, No)
  BY <1>1, EndedIs
<1>3. PICK e, k : k = db.ver /\ e = [p EXCEPT !.ver = k + 1]
  OBVIOUS
<1>4. db' = e /\ e.leg = s.leg /\ e.st = p.st
  BY <1>2, <1>3, InvParts, StampedIs
<1>5. Shape(e) /\ Market(e, book, traded) /\ Verdicts(e, book, traded, seen, notified)
  <2>1. ClosedFrom(db, e.leg)
    BY <1>1, <1>4
  <2> QED BY <1>2, <1>4, <2>1, ClosedShape
<1>6. \A l \in Leg : db.leg[l].id = TRUE => e.leg[l].id = TRUE
  BY <1>1, <1>4 DEF ClosedFrom
<1> QED BY <1>1, <1>4, <1>5, <1>6, IdleCall, LoneExposure

LEMMA HedgeExposure ==
    ASSUME PairInv, ExposureInv, NEW r \in Runner, run[r].pc = "confirm",
           NEW s, s = CancelsConfirmed(db, run[r].ids), ~Even(s.inv), NEW h \in NextHedge(s),
           NEW n, n = WithHedge(s, h),
           NEW t, t.pc = "post", t.h = h, SetRun(r, t), db' = [n EXCEPT !.ver = db.ver + 1],
           seen' = seen, book' = book, traded' = traded, notified' = notified,
           sub' = sub, fl' = fl
    PROVE  ExposureInv'
<1>1. /\ GroupInv(s) /\ ClosedFrom(db, s.leg)
      /\ \A q \in Runner \ {r} :
            run[q].pc \notin Cancelling /\ run[q].pc \notin {"post", "hedged"}
      /\ db.ver # 0 /\ db.ver # 1
  BY ConfirmedGroup
<1>2. /\ n \in GroupRec /\ n.st = "hedging" /\ h \in Hedge /\ h \in Leg
      /\ s.leg[h].st = "none" /\ n.leg[h].st = "planned" /\ n.leg[h].filled = 0
      /\ n.leg[h].id = FALSE /\ n.leg[h].size \in Nat /\ n.leg[h].size > 0
      /\ \A l \in Leg \ {h} : n.leg[l] = s.leg[l]
      /\ Matches(n, h)
  <2>1. HedgedFrom(s, n, h)
    BY <1>1, HedgedIs
  <2> QED BY <2>1 DEF HedgedFrom
<1>3. PICK e, k : k = db.ver /\ e = [n EXCEPT !.ver = k + 1]
  OBVIOUS
<1>4. db' = e /\ e.leg = n.leg /\ e.st = "hedging"
  BY <1>2, <1>3, InvParts, StampedIs
<1>5. \A l \in Leg \ {h} :
         /\ e.leg[l].filled = db.leg[l].filled /\ e.leg[l].size = db.leg[l].size
         /\ e.leg[l].out = db.leg[l].out /\ e.leg[l].id = db.leg[l].id
         /\ e.leg[l].st \in Closed
         /\ e.leg[l].st = "none" <=> db.leg[l].st = "none"
         /\ e.leg[l].st = "filled" <=> db.leg[l].st = "filled"
         /\ e.leg[l].st = "cancelled" => Known(book, traded, seen, l)
  <2>1. \A l \in Leg \ {h} : e.leg[l] = s.leg[l]
    BY <1>2, <1>4
  <2>2. ClosedFrom(db, s.leg)
    BY <1>1
  <2> QED BY <2>1, <2>2 DEF ClosedFrom
<1>6. h \notin Entry /\ db.leg[h].st = "none" /\ book[h] = "none" /\ traded[h] = 0
  <2>1. db.leg[h].st = "none"
    BY <1>1, <1>2 DEF ClosedFrom
  <2>2. h \notin Entry
    BY <1>2, PairAssumption, LegFacts DEF Hedge
  <2> QED BY <1>2, <2>1, <2>2 DEF ExposureInv, Market
<1>7. Shape(e)
  <2>1. \A l \in Leg \ {h} :
          /\ l \in Entry /\ e.leg[l].st # "none" => e.leg[l].out = l /\ e.leg[l].size = Target
          /\ e.leg[l].st = "filled" => e.leg[l].filled = e.leg[l].size
          /\ e.leg[l].st \notin {"open", "partially_filled", "planned"}
    BY <1>5 DEF ExposureInv, Shape, Closed
  <2>2. /\ e.leg[h].st = "planned" /\ e.leg[h].id = FALSE /\ e.leg[h].filled = 0
        /\ e.leg[h].size > 0
    BY <1>2, <1>4
  <2>3. \E x \in Hedge : /\ e.leg[x].st \in {"planned", "open", "partially_filled"}
                         /\ \A l \in Leg \ {x} : e.leg[l].st \in Closed
    BY <1>2, <1>5, <2>2
  <2>4. \A l \in Leg :
          /\ l \in Entry /\ e.leg[l].st # "none" =>
                e.leg[l].out = l /\ e.leg[l].size = Target
          /\ e.leg[l].st \in {"open", "partially_filled"} =>
                e.leg[l].id = TRUE /\ e.leg[l].filled < e.leg[l].size
          /\ e.leg[l].st = "filled" => e.leg[l].filled = e.leg[l].size
          /\ e.leg[l].st = "planned" =>
                e.leg[l].id = FALSE /\ e.leg[l].filled = 0 /\ e.leg[l].size > 0
    <3> SUFFICES ASSUME NEW l \in Leg
                 PROVE  /\ l \in Entry /\ e.leg[l].st # "none" =>
                              e.leg[l].out = l /\ e.leg[l].size = Target
                        /\ e.leg[l].st \in {"open", "partially_filled"} =>
                              e.leg[l].id = TRUE /\ e.leg[l].filled < e.leg[l].size
                        /\ e.leg[l].st = "filled" => e.leg[l].filled = e.leg[l].size
                        /\ e.leg[l].st = "planned" =>
                              e.leg[l].id = FALSE /\ e.leg[l].filled = 0 /\ e.leg[l].size > 0
      OBVIOUS
    <3>1. CASE l = h
      BY <1>6, <2>2, <3>1
    <3>2. CASE l # h
      BY <2>1, <3>2
    <3> QED BY <3>1, <3>2
  <2> QED BY <1>4, <2>3, <2>4 DEF Shape
<1>8. Market(e, book, traded)
  <2>1. e.leg[h].size \in Nat /\ e.leg[h].st # "none"
    BY <1>2, <1>4
  <2>2. traded[h] <= e.leg[h].size /\ (book[h] = "open" => traded[h] < e.leg[h].size)
    BY <1>6, <2>1
  <2> QED BY <1>5, <2>1, <2>2 DEF ExposureInv, Market
<1>9. Verdicts(e, book, traded, seen, notified)
  <2>1. \A f \in notified : f[1] \in Leg
    BY DEF ExposureInv, Verdicts, ExecutedBy, Fill
  <2>2. e.leg[h].id = FALSE /\ e.leg[h].st = "planned"
    BY <1>2, <1>4
  <2>3. \A l \in Leg : e.leg[l].st = "cancelled" => Known(book, traded, seen, l)
    BY <1>5, <2>2
  <2>4. \A f \in notified : e.leg[f[1]].id = TRUE => f \in seen
    BY <1>5, <2>1, <2>2 DEF ExposureInv, Verdicts
  <2> QED BY <2>3, <2>4 DEF ExposureInv, Verdicts
<1>10. \A l \in Leg : db.leg[l].id = TRUE => e.leg[l].id = TRUE
  <2>1. db.leg[h].id = FALSE
    BY <1>2, <1>6, InvParts DEF GroupInv, GroupOK, LegsOK
  <2> QED BY <1>5, <2>1
<1>11. CallOK(e, book, traded, seen, notified, t)
  <2>1. Matches(e, h)
    BY <1>2, <1>4 DEF Matches
  <2>2. e.leg[h].st = "planned"
    BY <1>2, <1>4
  <2>3. \A l \in Leg \ {h} : e.leg[l].st \in Closed
    BY <1>5
  <2> QED BY <1>2, <1>4, <1>6, <2>1, <2>2, <2>3 DEF CallOK, Cancelling
<1> QED BY <1>1, <1>4, <1>7, <1>8, <1>9, <1>10, <1>11, LoneExposure

LEMMA ConfirmCancellationsExposure ==
    ASSUME PairInv, ExposureInv, NEW r \in Runner, ConfirmCancellations(r)
    PROVE  ExposureInv'
<1>1. /\ book' = book /\ traded' = traded /\ notified' = notified /\ sub' = sub /\ fl' = fl
      /\ run[r].pc = "confirm" /\ Copy(db, run[r].snap)
  BY DEF ConfirmCancellations, exVars, PairInv, RunOK
<1>2. PICK s : s = CancelsConfirmed(run[r].snap, run[r].ids)
  OBVIOUS
<1>3. CASE CommitOr(r, WithoutHedge(s), IdleRun)
  <2>1. PICK p : p = WithoutHedge(s)
    OBVIOUS
  <2>2. CommitOr(r, p, IdleRun)
    BY <1>3, <2>1
  <2>3. ASSUME run[r].snap = db, SetRun(r, IdleRun), seen' = seen,
               db' = [p EXCEPT !.ver = db.ver + 1]
        PROVE  ExposureInv'
    <3>1. s = CancelsConfirmed(db, run[r].ids)
      BY <1>2, <2>3
    <3> QED BY <1>1, <2>1, <2>3, <3>1, ConfirmedExposure
  <2> QED BY <1>1, <2>2, <2>3, CommitExposure
<1>4. CASE /\ WantsHedge(s) /\ NextHedge(s) # {}
           /\ LET h == Min(NextHedge(s))
                  n == WithHedge(s, h)
              IN  CommitOr(r, n, [run[r] EXCEPT !.pc = "post", !.h = h,
                                                !.snap = Stepped(n, @.ver)])
  <2>1. PICK h : h = Min(NextHedge(s))
    OBVIOUS
  <2>2. h \in NextHedge(s) /\ ~Even(s.inv)
    <3>1. NextHedge(s) \subseteq Nat
      BY PairAssumption DEF NextHedge, Hedge
    <3> QED BY <1>4, <2>1, <3>1, LeastIn DEF WantsHedge
  <2>3. PICK n : n = WithHedge(s, h)
    OBVIOUS
  <2>4. PICK t : t = [run[r] EXCEPT !.pc = "post", !.h = h, !.snap = Stepped(n, @.ver)]
    OBVIOUS
  <2>5. CommitOr(r, n, t)
    BY <1>4, <2>1, <2>3, <2>4
  <2>6. t.pc = "post" /\ t.h = h
    <3>1. PICK c, m : c = run[r] /\ m = Stepped(n, c.snap.ver)
      OBVIOUS
    <3>2. c \in RunRec /\ t = [c EXCEPT !.pc = "post", !.h = h, !.snap = m]
      BY <2>4, <3>1, InvParts
    <3> QED BY <3>2 DEF RunRec
  <2>7. ASSUME run[r].snap = db, SetRun(r, t), seen' = seen,
               db' = [n EXCEPT !.ver = db.ver + 1]
        PROVE  ExposureInv'
    <3>1. s = CancelsConfirmed(db, run[r].ids)
      BY <1>2, <2>7
    <3> QED BY <1>1, <2>2, <2>3, <2>6, <2>7, <3>1, HedgeExposure
  <2> QED BY <1>1, <2>5, <2>7, CommitExposure
<1> QED BY <1>2, <1>3, <1>4 DEF ConfirmCancellations

-----------------------------------------------------------------------------
(* Storing the result of a hedge *)

(* s is d with the hedge's result: leg h is open, or it was rejected and the *)
(* group is frozen.                                                          *)
RecordedFrom(d, s, h, a) ==
    /\ s \in GroupRec
    /\ s.st = IF a THEN d.st ELSE "frozen"
    /\ \A l \in Leg \ {h} : s.leg[l] = d.leg[l]
    /\ s.leg[h].filled = d.leg[h].filled /\ s.leg[h].size = d.leg[h].size
    /\ s.leg[h].out = d.leg[h].out
    /\ a => s.leg[h].st = "open" /\ s.leg[h].id = TRUE
    /\ ~a => s.leg[h].st = "rejected" /\ s.leg[h].id = d.leg[h].id

LEMMA RecordedIs ==
    ASSUME NEW d \in GroupRec, NEW h \in Leg, NEW a \in BOOLEAN,
           NEW s, s = RecordHedge(d, h, a)
    PROVE  RecordedFrom(d, s, h, a)
<1> DEFINE g == [d.leg[h] EXCEPT !.st = "open", !.id = TRUE]
           b == [d.leg[h] EXCEPT !.st = "rejected"]
<1>1. d.leg \in [Leg -> LegRec] /\ d.leg[h] \in LegRec
  BY GroupFields
<1>2. /\ g \in LegRec /\ g.filled = d.leg[h].filled /\ g.size = d.leg[h].size
      /\ g.out = d.leg[h].out /\ g.st = "open" /\ g.id = TRUE
  BY <1>1, StatusFacts DEF LegRec
<1>3. /\ b \in LegRec /\ b.filled = d.leg[h].filled /\ b.size = d.leg[h].size
      /\ b.out = d.leg[h].out /\ b.st = "rejected" /\ b.id = d.leg[h].id
  BY <1>1, StatusFacts DEF LegRec
<1>4. s = IF a THEN [d EXCEPT !.leg[h] = g] ELSE Freeze([d EXCEPT !.leg[h] = b])
  BY DEF RecordHedge
<1> HIDE DEF g, b
<1>5. CASE a
  <2>1. s = [d EXCEPT !.leg[h] = g]
    BY <1>4, <1>5
  <2>2. s \in GroupRec /\ s.st = d.st /\ s.leg = [d.leg EXCEPT ![h] = g]
    BY <1>2, <2>1 DEF GroupRec
  <2>3. s.leg[h] = g /\ \A l \in Leg \ {h} : s.leg[l] = d.leg[l]
    BY <1>1, <2>2
  <2> QED BY <1>2, <1>5, <2>2, <2>3 DEF RecordedFrom
<1>6. CASE ~a
  <2>1. PICK c : c = [d EXCEPT !.leg[h] = b]
    OBVIOUS
  <2>2. c \in GroupRec /\ c.leg = [d.leg EXCEPT ![h] = b]
    BY <1>3, <2>1 DEF GroupRec
  <2>3. s = [c EXCEPT !.st = "frozen"]
    BY <1>4, <1>6, <2>1 DEF Freeze
  <2>4. s \in GroupRec /\ s.st = "frozen" /\ s.leg = c.leg
    BY <2>2, <2>3, StatusFacts DEF GroupRec
  <2>5. s.leg[h] = b /\ \A l \in Leg \ {h} : s.leg[l] = d.leg[l]
    BY <1>1, <2>2, <2>4
  <2> QED BY <1>3, <1>6, <2>4, <2>5 DEF RecordedFrom
<1> QED BY <1>5, <1>6

(* A call that stores the result of its hedge is alone with the group. *)
LEMMA HedgingAlone ==
    ASSUME PairInv, ExposureInv, NEW r \in Runner, run[r].pc \in {"post", "hedged"},
           run[r].snap.ver = db.ver, NEW h, h = run[r].h
    PROVE  /\ h \in Hedge /\ h \in Leg /\ db.st = "hedging" /\ db.leg[h].st = "planned"
           /\ \A l \in Leg \ {h} : db.leg[l].st \in Closed
           /\ \A q \in Runner \ {r} :
                 run[q].pc \notin Cancelling /\ run[q].pc \notin {"post", "hedged"}
           /\ db.ver # 0 /\ db.ver # 1
<1>1. PICK t : t = run[r]
  OBVIOUS
<1>2. CallOK(db, book, traded, seen, notified, t) /\ t.pc \in {"post", "hedged"} /\ t.h = h
  BY <1>1 DEF ExposureInv
<1>3. h \in Hedge /\ h \in Leg /\ db.leg[h].st = "planned"
  BY <1>2 DEF CallOK, Leg
<1>4. db.st = "hedging"
  BY <1>1, <1>2 DEF CallOK
<1>5. \A l \in Leg \ {h} : db.leg[l].st \in Closed
  <2>1. PICK x \in Hedge : \A l \in Leg \ {x} : db.leg[l].st \in Closed
    BY <1>4 DEF ExposureInv, Shape
  <2>2. x = h
    BY <1>3, <2>1 DEF Closed
  <2> QED BY <2>1, <2>2
<1>6. ASSUME NEW q \in Runner \ {r}
      PROVE  run[q].pc \notin Cancelling /\ run[q].pc \notin {"post", "hedged"}
  <2>1. CallOK(db, book, traded, seen, notified, run[q])
    BY DEF ExposureInv
  <2>2. run[q].pc \notin Cancelling
    BY <1>4, <2>1 DEF CallOK
  <2>3. ASSUME run[q].pc \in {"post", "hedged"} PROVE FALSE
    <3>1. run[q].h \in Leg /\ db.leg[run[q].h].st = "planned"
      BY <2>1, <2>3 DEF CallOK, Leg
    <3>2. run[q].h # h
      BY <1>1, <1>2, <2>3 DEF ExposureInv, OneCanceller
    <3> QED BY <1>5, <3>1, <3>2 DEF Closed
  <2> QED BY <2>2, <2>3
<1>7. db.ver # 0 /\ db.ver # 1
  BY <1>4, EarlyGroup
<1> QED BY <1>3, <1>4, <1>5, <1>6, <1>7

LEMMA HedgeStoredExposure ==
    ASSUME PairInv, ExposureInv, NEW r \in Runner, run[r].pc = "hedged",
           run[r].snap = db, NEW h, h = run[r].h, NEW a \in BOOLEAN,
           NEW s, s = RecordHedge(db, h, a), SetRun(r, IdleRun),
           db' = [s EXCEPT !.ver = db.ver + 1],
           seen' = seen, book' = book, traded' = traded, notified' = notified,
           sub' = sub, fl' = fl
    PROVE  ExposureInv'
<1>1. /\ h \in Hedge /\ h \in Leg /\ db.st = "hedging" /\ db.leg[h].st = "planned"
      /\ \A l \in Leg \ {h} : db.leg[l].st \in Closed
      /\ \A q \in Runner \ {r} :
            run[q].pc \notin Cancelling /\ run[q].pc \notin {"post", "hedged"}
      /\ db.ver # 0 /\ db.ver # 1
  BY HedgingAlone
<1>2. RecordedFrom(db, s, h, a)
  BY <1>1, InvParts, RecordedIs
<1>3. PICK e, k : k = db.ver /\ e = [s EXCEPT !.ver = k + 1]
  OBVIOUS
<1>4. db' = e /\ e.leg = s.leg /\ e.st = s.st
  BY <1>2, <1>3, InvParts, StampedIs DEF RecordedFrom
<1>5. /\ e.st = IF a THEN "hedging" ELSE "frozen"
      /\ \A l \in Leg \ {h} : e.leg[l] = db.leg[l]
      /\ e.leg[h].filled = db.leg[h].filled /\ e.leg[h].size = db.leg[h].size
      /\ e.leg[h].out = db.leg[h].out
      /\ a => e.leg[h].st = "open" /\ e.leg[h].id = TRUE
      /\ ~a => e.leg[h].st = "rejected" /\ e.leg[h].id = db.leg[h].id
  <2>1. e.leg = s.leg /\ e.st = s.st /\ db.st = "hedging"
    BY <1>1, <1>4
  <2>2. RecordedFrom(db, s, h, a)
    BY <1>2
  <2> QED BY <2>1, <2>2 DEF RecordedFrom
<1>6. /\ db.leg[h].id = FALSE /\ db.leg[h].filled = 0 /\ db.leg[h].size > 0
      /\ h \notin Entry /\ \A f \in notified : f[1] # h
  <2>1. h \notin Entry
    BY <1>1, PairAssumption, LegFacts DEF Hedge
  <2>2. \A f \in notified : f[1] # h
    BY DEF ExposureInv, CallOK
  <2> QED BY <1>1, <2>1, <2>2 DEF ExposureInv, Shape
<1>7. Shape(e)
  <2>1. \A l \in Leg :
          /\ l \in Entry /\ e.leg[l].st # "none" =>
                e.leg[l].out = l /\ e.leg[l].size = Target
          /\ e.leg[l].st \in {"open", "partially_filled"} =>
                e.leg[l].id = TRUE /\ e.leg[l].filled < e.leg[l].size
          /\ e.leg[l].st = "filled" => e.leg[l].filled = e.leg[l].size
          /\ e.leg[l].st = "planned" =>
                e.leg[l].id = FALSE /\ e.leg[l].filled = 0 /\ e.leg[l].size > 0
    <3> SUFFICES ASSUME NEW l \in Leg
                 PROVE  /\ l \in Entry /\ e.leg[l].st # "none" =>
                              e.leg[l].out = l /\ e.leg[l].size = Target
                        /\ e.leg[l].st \in {"open", "partially_filled"} =>
                              e.leg[l].id = TRUE /\ e.leg[l].filled < e.leg[l].size
                        /\ e.leg[l].st = "filled" => e.leg[l].filled = e.leg[l].size
                        /\ e.leg[l].st = "planned" =>
                              e.leg[l].id = FALSE /\ e.leg[l].filled = 0 /\ e.leg[l].size > 0
      OBVIOUS
    <3>1. CASE l = h
      BY <1>5, <1>6, <3>1
    <3>2. CASE l # h
      BY <1>5, <3>2 DEF ExposureInv, Shape
    <3> QED BY <3>1, <3>2
  <2>2. e.st = "hedging" =>
          \E x \in Hedge : /\ e.leg[x].st \in {"planned", "open", "partially_filled"}
                           /\ \A l \in Leg \ {x} : e.leg[l].st \in Closed
    BY <1>1, <1>5
  <2> QED BY <1>5, <2>1, <2>2 DEF Shape
<1>8. Market(e, book, traded)
  <2>1. \A l \in Leg : e.leg[l].size = db.leg[l].size /\ (e.leg[l].st = "none" => db.leg[l].st = "none")
    BY <1>5
  <2> QED BY <2>1 DEF ExposureInv, Market
<1>9. Verdicts(e, book, traded, seen, notified)
  <2>1. \A f \in notified : f[1] \in Leg \ {h}
    BY <1>6 DEF ExposureInv, Verdicts, ExecutedBy, Fill
  <2>2. \A l \in Leg : e.leg[l].st = "cancelled" => db.leg[l].st = "cancelled"
    BY <1>5
  <2> QED BY <1>5, <2>1, <2>2 DEF ExposureInv, Verdicts
<1>10. \A l \in Leg : db.leg[l].id = TRUE => e.leg[l].id = TRUE
  BY <1>5, <1>6
<1> QED BY <1>1, <1>4, <1>7, <1>8, <1>9, <1>10, IdleCall, LoneExposure

LEMMA CommitHedgeExposure ==
    ASSUME PairInv, ExposureInv, NEW r \in Runner, CommitHedge(r)
    PROVE  ExposureInv'
<1>1. /\ traded' = traded /\ notified' = notified /\ sub' = sub /\ fl' = fl
      /\ run[r].pc = "hedged" /\ Copy(db, run[r].snap) /\ SetRun(r, IdleRun)
  BY DEF CommitHedge, PairInv, RunOK
<1>2. PICK h, a : h = run[r].h /\ a = (run[r].res = "accepted")
  OBVIOUS
<1>3. PICK s : s = RecordHedge(run[r].snap, h, a)
  OBVIOUS
<1>4. CASE Committed(run[r].snap.ver, s)
  <2>1. db.ver = run[r].snap.ver /\ Store(run[r].snap.ver, s) /\ book' = book
    BY <1>2, <1>3, <1>4 DEF CommitHedge, Committed
  <2>2. run[r].snap = db
    BY <1>1, <2>1 DEF Copy
  <2>3. seen' = seen /\ db' = [s EXCEPT !.ver = db.ver + 1]
    BY <2>1 DEF Store
  <2>4. a \in BOOLEAN /\ s = RecordHedge(db, h, a)
    BY <1>2, <1>3, <2>2
  <2> QED BY <1>1, <1>2, <2>1, <2>2, <2>3, <2>4, HedgeStoredExposure
<1>5. CASE ~Committed(run[r].snap.ver, s)
  <2>1. UNCHANGED dbVars /\ \E c : book' = CancelledBook(c)
    BY <1>2, <1>3, <1>5 DEF CommitHedge, BestEffortCancel
  <2>2. db' = db /\ seen' = seen /\ Shrinks(book, book')
    BY <2>1, CancelledShrinks DEF dbVars
  <2> QED BY <1>1, <2>2, RunEndsExposure
<1> QED BY <1>4, <1>5

-----------------------------------------------------------------------------
(* Applying a fill *)

(* What was bought of an outcome that only leg l has bought. *)
LEMMA BoughtOfOne ==
    ASSUME NEW legs \in [Leg -> LegRec], NEW l \in Leg, NEW o,
           \A m \in Leg \ {l} : legs[m].out # o \/ legs[m].filled = 0
    PROVE  Bought(legs, o) \in Nat /\ Bought(legs, o) <= legs[l].filled
<1> DEFINE S == SharesOf(legs, o)
           G == [x \in S |-> x[2]]
<1>1. legs[l].filled \in Nat /\ \A m \in Leg : legs[m].filled \in Nat
  BY LegFields
<1>2. IsFiniteSet(1 .. legs[l].filled) /\ Cardinality(1 .. legs[l].filled) = legs[l].filled
  <2>1. 1 \in Int /\ legs[l].filled \in Int
    BY <1>1
  <2>2. /\ IsFiniteSet(1 .. legs[l].filled)
        /\ Cardinality(1 .. legs[l].filled) =
              IF 1 > legs[l].filled THEN 0 ELSE legs[l].filled - 1 + 1
    BY <2>1, FS_Interval
  <2> QED BY <1>1, <2>2
<1>3. \A x \in S : x[1] = l /\ x[2] \in 1 .. legs[l].filled /\ x = <<x[1], x[2]>>
  <2> SUFFICES ASSUME NEW x \in S
               PROVE  x[1] = l /\ x[2] \in 1 .. legs[l].filled /\ x = <<x[1], x[2]>>
    OBVIOUS
  <2>1. /\ x \in Leg \X (1 .. Target) /\ legs[x[1]].out = o /\ x[2] <= legs[x[1]].filled
    BY DEF SharesOf
  <2>2. x[1] \in Leg /\ x[2] \in Nat /\ x[2] >= 1 /\ x = <<x[1], x[2]>>
    BY <2>1, PairAssumption
  <2>3. x[1] = l
    BY <2>1, <2>2
  <2> QED BY <1>1, <2>1, <2>2, <2>3
<1>4. G \in Injection(S, 1 .. legs[l].filled)
  <2>1. G \in [S -> 1 .. legs[l].filled] /\ DOMAIN G = S
    BY <1>3
  <2>2. \A a, b \in S : G[a] = G[b] => a = b
    BY <1>3
  <2> HIDE DEF S, G
  <2> QED BY <2>1, <2>2 DEF Injection, IsInjective
<1> HIDE DEF S, G
<1>5. Cardinality(S) <= Cardinality(1 .. legs[l].filled)
  BY <1>2, <1>4, FS_Injection
<1> QED BY <1>2, <1>5, BoughtIs DEF S, Bought

(* s is d with one more share of leg l. *)
FilledFrom(d, s, l) ==
    /\ s \in GroupRec
    /\ \A m \in Leg \ {l} : s.leg[m] = d.leg[m]
    /\ s.leg[l].filled = d.leg[l].filled + 1 /\ s.leg[l].size = d.leg[l].size
    /\ s.leg[l].out = d.leg[l].out /\ s.leg[l].id = d.leg[l].id
    /\ s.leg[l].st = ExpectedLegStatus(d.leg[l])
    /\ s.st = ExpectedGroupStatus(d.st, s.leg)

LEMMA AppliedIs ==
    ASSUME PairInv, NEW f \in Executed, f \notin seen, NEW l, l = f[1],
           db.leg[l].st # "none", db.leg[l].filled < db.leg[l].size,
           NEW s, s = RecordFill(db, l)
    PROVE  FilledFrom(db, s, l)
<1>1. /\ db \in GroupRec /\ GroupInv(db) /\ db.leg \in [Leg -> LegRec]
      /\ seen \in SUBSET Fill /\ f \in Fill /\ l \in Leg /\ db.leg[l] \in LegRec
  BY InvParts DEF Fill
<1>2. db.leg[l].filled < Target
  <2> DEFINE C == {g \in seen : g[1] = l}
             D == {g \in seen \cup {f} : g[1] = l}
  <2>1. IsFiniteSet(C) /\ Cardinality(C) \in Nat
    BY <1>1, CountBound
  <2>2. seen \cup {f} \in SUBSET Fill
    BY <1>1
  <2>3. Cardinality(D) <= Target
    BY <1>1, <2>2, CountBound
  <2>4. D = C \cup {f} /\ f \notin C
    OBVIOUS
  <2>5. db.leg[l].filled = Cardinality(C)
    BY <1>1 DEF PairInv, Ledger
  <2> HIDE DEF C, D
  <2>6. Cardinality(D) = Cardinality(C) + 1
    BY <2>1, <2>4, FS_AddElement
  <2> QED BY <2>1, <2>3, <2>5, <2>6, PairAssumption
<1>3. FillAccepts(db, l, s) /\ GroupInv(s)
  BY <1>1, <1>2, FillIs
<1>4. PICK g, n, a : /\ g = [db.leg[l] EXCEPT !.filled = n, !.st = a]
                     /\ n = db.leg[l].filled + 1 /\ a = ExpectedLegStatus(db.leg[l])
  OBVIOUS
<1>5. s.leg = [db.leg EXCEPT ![l] = g] /\ s.st = ExpectedGroupStatus(db.st, s.leg)
  <2>1. [db.leg[l] EXCEPT !.filled = @ + 1, !.st = ExpectedLegStatus(db.leg[l])] = g
    BY <1>4
  <2> QED BY <1>3, <2>1 DEF FillAccepts
<1>6. /\ g.filled = n /\ g.st = a /\ g.size = db.leg[l].size /\ g.out = db.leg[l].out
      /\ g.id = db.leg[l].id
  BY <1>1, <1>4 DEF LegRec
<1>7. s.leg[l] = g /\ \A m \in Leg \ {l} : s.leg[m] = db.leg[m]
  BY <1>1, <1>5
<1>8. s \in GroupRec
  BY <1>3 DEF GroupInv, GroupOK
<1> QED BY <1>4, <1>5, <1>6, <1>7, <1>8 DEF FilledFrom

(* A fill that was not applied yet is of a leg that is not closed. *)
LEMMA FillingLeg ==
    ASSUME PairInv, ExposureInv, NEW f \in Executed, f \notin seen, NEW l, l = f[1],
           db.leg[l].id = TRUE
    PROVE  /\ l \in Leg
           /\ db.leg[l].st \in {"open", "partially_filled", "cancel_pending", "rejected"}
           /\ db.ver # 0 /\ db.ver # 1 /\ db.st \notin {"none", "planned", "paired", "cancelled"}
<1>1. l \in Leg /\ f \in ExecutedBy(traded)
  BY InvParts, ExecutedIs DEF Fill
<1>2. db.leg[l].st \notin Closed
  BY <1>1, ClosedIsKnown DEF Known
<1>3. db.leg[l].st # "planned"
  BY <1>1 DEF ExposureInv, Shape
<1>4. db.leg[l].st \in LegStatus
  BY <1>1, InvParts, LegFields
<1>5. db.ver # 0 /\ db.ver # 1
  BY <1>1, PlanOnly
<1>6. db.st \notin {"none", "planned", "paired", "cancelled"}
  BY <1>1, <1>2, <1>5 DEF ExposureInv, Shape
<1> QED BY <1>1, <1>2, <1>3, <1>4, <1>5, <1>6, StatusFacts DEF Closed

(* The leg after the fill. *)
LEMMA FilledLegIs ==
    ASSUME NEW g \in LegRec, g.filled < g.size,
           g.st \in {"open", "partially_filled", "cancel_pending", "rejected"},
           NEW a, a = ExpectedLegStatus(g)
    PROVE  /\ a = "filled" <=> g.filled + 1 = g.size
           /\ a = "cancel_pending" => g.st = "cancel_pending" /\ g.filled + 1 < g.size
           /\ a = "partially_filled" => g.st # "cancel_pending" /\ g.filled + 1 < g.size
           /\ a \in {"filled", "cancel_pending", "partially_filled"}
<1>1. g.filled \in Nat /\ g.size \in Nat
  BY LegFields
<1>2. g.filled + 1 = g.size \/ g.filled + 1 < g.size
  BY <1>1
<1>3. a = IF g.filled + 1 = g.size THEN "filled"
          ELSE IF g.st = "cancel_pending" THEN "cancel_pending" ELSE "partially_filled"
  BY DEF ExpectedLegStatus
<1> QED BY <1>1, <1>2, <1>3

(* The legs after a fill of leg l: those of d, but for that leg. *)
ShareAdded(d, e, l) ==
    /\ l \in Leg /\ d.leg[l].st \in {"open", "partially_filled", "cancel_pending", "rejected"}
    /\ e.leg[l].st \in {"filled", "cancel_pending", "partially_filled"}
    /\ e.leg[l].st = "filled" => e.leg[l].filled = e.leg[l].size
    /\ e.leg[l].st = "partially_filled" => e.leg[l].filled < e.leg[l].size
    /\ e.leg[l].st = "cancel_pending" => d.leg[l].st = "cancel_pending"
    /\ d.leg[l].st = "cancel_pending" => e.leg[l].st \in {"filled", "cancel_pending"}
    /\ e.leg[l].size = d.leg[l].size /\ e.leg[l].out = d.leg[l].out
    /\ e.leg[l].id = TRUE
    /\ \A m \in Leg \ {l} : e.leg[m] = d.leg[m]

LEMMA FilledLegs ==
    ASSUME PairInv, ExposureInv, NEW f \in Executed, f \notin seen, NEW l, l = f[1],
           db.leg[l].id = TRUE, db.leg[l].filled < db.leg[l].size,
           NEW e, FilledFrom(db, e, l)
    PROVE  ShareAdded(db, e, l)
<1>1. /\ l \in Leg
      /\ db.leg[l].st \in {"open", "partially_filled", "cancel_pending", "rejected"}
  BY FillingLeg
<1>2. db.leg[l] \in LegRec /\ db.leg[l].filled \in Nat
  BY <1>1, InvParts, LegFields
<1>3. PICK a : a = ExpectedLegStatus(db.leg[l])
  OBVIOUS
<1>4. /\ a = "filled" <=> db.leg[l].filled + 1 = db.leg[l].size
      /\ a = "cancel_pending" =>
            db.leg[l].st = "cancel_pending" /\ db.leg[l].filled + 1 < db.leg[l].size
      /\ a = "partially_filled" =>
            db.leg[l].st # "cancel_pending" /\ db.leg[l].filled + 1 < db.leg[l].size
      /\ a \in {"filled", "cancel_pending", "partially_filled"}
  BY <1>1, <1>2, <1>3, FilledLegIs
<1>5. /\ e.leg[l].filled = db.leg[l].filled + 1 /\ e.leg[l].size = db.leg[l].size
      /\ e.leg[l].out = db.leg[l].out /\ e.leg[l].id = TRUE /\ e.leg[l].st = a
      /\ \A m \in Leg \ {l} : e.leg[m] = db.leg[m]
  BY <1>3 DEF FilledFrom
<1> QED BY <1>1, <1>2, <1>4, <1>5 DEF ShareAdded

(* What Shape says of one leg. *)
LegShape(e, m) ==
    /\ m \in Entry /\ e.leg[m].st # "none" =>
         e.leg[m].out = m /\ e.leg[m].size = Target
    /\ e.leg[m].st \in {"open", "partially_filled"} =>
         e.leg[m].id = TRUE /\ e.leg[m].filled < e.leg[m].size
    /\ e.leg[m].st = "filled" => e.leg[m].filled = e.leg[m].size
    /\ e.leg[m].st = "planned" =>
         e.leg[m].id = FALSE /\ e.leg[m].filled = 0 /\ e.leg[m].size > 0

LEMMA FilledLegShape ==
    ASSUME PairInv, ExposureInv, NEW f \in Executed, f \notin seen, NEW l, l = f[1],
           db.leg[l].id = TRUE, db.leg[l].filled < db.leg[l].size,
           NEW e, FilledFrom(db, e, l), NEW m \in Leg
    PROVE  LegShape(e, m)
<1>1. /\ l \in Leg /\ db.leg[l].st \in {"open", "partially_filled", "cancel_pending", "rejected"}
      /\ e.leg[l].st \in {"filled", "cancel_pending", "partially_filled"}
      /\ e.leg[l].st = "filled" => e.leg[l].filled = e.leg[l].size
      /\ e.leg[l].st = "partially_filled" => e.leg[l].filled < e.leg[l].size
      /\ e.leg[l].size = db.leg[l].size /\ e.leg[l].out = db.leg[l].out
      /\ e.leg[l].id = TRUE
      /\ \A x \in Leg \ {l} : e.leg[x] = db.leg[x]
  <2>1. ShareAdded(db, e, l)
    BY FilledLegs
  <2> QED BY <2>1 DEF ShareAdded
<1>2. CASE m = l
  <2>1. l \in Entry => db.leg[l].out = l /\ db.leg[l].size = Target
    BY <1>1 DEF ExposureInv, Shape
  <2> QED BY <1>1, <1>2, <2>1 DEF LegShape
<1>3. CASE m # l
  <2>1. e.leg[m] = db.leg[m]
    BY <1>1, <1>3
  <2> QED BY <2>1 DEF ExposureInv, Shape, LegShape
<1> QED BY <1>2, <1>3

(* The entry legs of a working group are paired when both are filled. *)
LEMMA WorkingFilled ==
    ASSUME PairInv, ExposureInv, NEW f \in Executed, f \notin seen, NEW l, l = f[1],
           db.leg[l].id = TRUE, db.leg[l].filled < db.leg[l].size,
           NEW e, FilledFrom(db, e, l), db.st \in {"working", "imbalanced"}
    PROVE  /\ \A m \in Entry : e.leg[m].st \in {"open", "partially_filled", "filled"}
           /\ \A m \in Hedge : e.leg[m].st = "none"
           /\ e.st \in {"paired", "working", "imbalanced"}
           /\ e.st = "paired" => /\ \A m \in Leg : e.leg[m].st \in Closed
                                 /\ Bought(e.leg, Yes) = Bought(e.leg, No)
<1>1. /\ l \in Leg /\ db.leg[l].st \in {"open", "partially_filled", "cancel_pending", "rejected"}
      /\ e.leg[l].st \in {"filled", "cancel_pending", "partially_filled"}
      /\ e.leg[l].st = "cancel_pending" => db.leg[l].st = "cancel_pending"
      /\ \A m \in Leg \ {l} : e.leg[m] = db.leg[m]
  <2>1. ShareAdded(db, e, l)
    BY FilledLegs
  <2> QED BY <2>1 DEF ShareAdded
<1>2. /\ \A m \in Entry : db.leg[m].st \in {"open", "partially_filled", "filled"}
      /\ \A m \in Hedge : db.leg[m].st = "none"
  BY DEF ExposureInv, Shape
<1>3. /\ \A m \in Entry : e.leg[m].st \in {"open", "partially_filled", "filled"}
      /\ \A m \in Hedge : e.leg[m].st = "none"
  <2>1. l \in Entry /\ l \notin Hedge
    BY <1>1, <1>2 DEF Leg
  <2>2. \A m \in Entry : m \in Leg
    BY DEF Leg
  <2>3. \A m \in Hedge : m \in Leg \ {l}
    BY <2>1 DEF Leg
  <2> QED BY <1>1, <1>2, <2>1, <2>2, <2>3
<1>4. PICK y, n : y = Bought(e.leg, Yes) /\ n = Bought(e.leg, No)
  OBVIOUS
<1>5. e.st = IF y = n /\ y >= Target THEN "paired" ELSE IF y # n THEN "imbalanced" ELSE "working"
  BY <1>4 DEF FilledFrom, ExpectedGroupStatus
<1>6. ASSUME e.st = "paired"
      PROVE  \A m \in Leg : e.leg[m].st \in Closed
  <2>1. y = n /\ y >= Target /\ y \in Nat
    BY <1>4, <1>5, <1>6, BoughtIs
  <2>2. e.leg \in [Leg -> LegRec] /\ LegsOK(db.leg)
    BY InvParts, GroupFields DEF FilledFrom, GroupInv, GroupOK
  <2>3. \A m \in Hedge : e.leg[m].filled = 0
    <3>1. \A m \in Hedge : m \in Leg \ {l}
      BY <1>1, <1>3 DEF Leg
    <3> QED BY <1>1, <1>2, <2>2, <3>1 DEF LegsOK
  <2>4. ASSUME NEW m \in Entry
        PROVE  m \in Leg /\ e.leg[m].out = m /\ e.leg[m].size = Target
    <3>1. m \in Leg /\ e.leg[m].st # "none"
      BY <1>3 DEF Leg
    <3>2. LegShape(e, m)
      BY <3>1, FilledLegShape
    <3> QED BY <3>1, <3>2 DEF LegShape
  <2>5. ASSUME NEW m \in Entry PROVE e.leg[m].st = "filled"
    <3>1. \A x \in Leg \ {m} : e.leg[x].out # m \/ e.leg[x].filled = 0
      BY <2>3, <2>4 DEF Leg
    <3>2. Bought(e.leg, m) <= e.leg[m].filled
      BY <2>2, <2>4, <3>1, BoughtOfOne
    <3>3. Bought(e.leg, m) = y
      BY <1>4, <2>1, LegFacts
    <3>4. e.leg[m].filled \in Nat /\ ~(e.leg[m].filled < e.leg[m].size)
      BY <2>1, <2>2, <2>4, <3>2, <3>3, LegFields, PairAssumption
    <3>5. e.leg[m].st \in {"open", "partially_filled"} => e.leg[m].filled < e.leg[m].size
      <4>1. LegShape(e, m)
        BY <2>4, FilledLegShape
      <4> QED BY <4>1 DEF LegShape
    <3> QED BY <1>3, <3>4, <3>5
  <2> QED BY <1>3, <2>5 DEF Leg, Closed
<1> QED BY <1>3, <1>4, <1>5, <1>6

(* A hedge that is filled ends the group. *)
LEMMA HedgeFilled ==
    ASSUME PairInv, ExposureInv, NEW f \in Executed, f \notin seen, NEW l, l = f[1],
           db.leg[l].id = TRUE, db.leg[l].filled < db.leg[l].size,
           NEW e, FilledFrom(db, e, l), db.st = "hedging"
    PROVE  /\ e.st \in {"hedging", "paired", "frozen"}
           /\ e.st = "hedging" =>
                \E h \in Hedge : /\ e.leg[h].st \in {"planned", "open", "partially_filled"}
                                 /\ \A m \in Leg \ {h} : e.leg[m].st \in Closed
           /\ e.st = "paired" => /\ \A m \in Leg : e.leg[m].st \in Closed
                                 /\ Bought(e.leg, Yes) = Bought(e.leg, No)
<1>1. /\ l \in Leg /\ db.leg[l].st \in {"open", "partially_filled", "cancel_pending", "rejected"}
      /\ e.leg[l].st \in {"filled", "cancel_pending", "partially_filled"}
      /\ e.leg[l].st = "cancel_pending" => db.leg[l].st = "cancel_pending"
      /\ \A m \in Leg \ {l} : e.leg[m] = db.leg[m]
  <2>1. ShareAdded(db, e, l)
    BY FilledLegs
  <2> QED BY <2>1 DEF ShareAdded
<1>2. PICK h \in Hedge : /\ db.leg[h].st \in {"planned", "open", "partially_filled"}
                         /\ \A m \in Leg \ {h} : db.leg[m].st \in Closed
  BY DEF ExposureInv, Shape
<1>3. h = l
  BY <1>1, <1>2 DEF Closed
<1>4. \A m \in Leg \ {l} : e.leg[m].st \in Closed
  BY <1>1, <1>2, <1>3
<1>5. l \in Hedge /\ e.leg[l].st \in {"filled", "partially_filled"}
  BY <1>1, <1>2, <1>3
<1>6. \A m \in HedgeLegs(e.leg) : m # l => Terminal(e.leg, m)
  BY <1>4 DEF HedgeLegs, Stored, Terminal, Closed
<1>7. l \in HedgeLegs(e.leg)
  BY <1>1, <1>5 DEF HedgeLegs, Stored
<1>8. PICK y, n : y = Bought(e.leg, Yes) /\ n = Bought(e.leg, No)
  OBVIOUS
<1>9. e.st = IF \E m \in HedgeLegs(e.leg) : ~Terminal(e.leg, m) THEN "hedging"
             ELSE IF y = n /\ y > 0 THEN "paired" ELSE "frozen"
  BY <1>8 DEF FilledFrom, ExpectedGroupStatus
<1>10. CASE e.leg[l].st = "filled"
  <2>1. \A m \in HedgeLegs(e.leg) : Terminal(e.leg, m)
    BY <1>6, <1>10 DEF Terminal
  <2>2. \A m \in Leg : e.leg[m].st \in Closed
    BY <1>4, <1>10 DEF Closed
  <2> QED BY <1>8, <1>9, <2>1, <2>2
<1>11. CASE e.leg[l].st = "partially_filled"
  <2>1. ~Terminal(e.leg, l)
    BY <1>11 DEF Terminal
  <2>2. e.st = "hedging"
    BY <1>7, <1>9, <2>1
  <2> QED BY <1>4, <1>5, <1>11, <2>2
<1> QED BY <1>5, <1>10, <1>11

LEMMA FilledShape ==
    ASSUME PairInv, ExposureInv, NEW f \in Executed, f \notin seen, NEW l, l = f[1],
           db.leg[l].id = TRUE, db.leg[l].filled < db.leg[l].size,
           NEW e, FilledFrom(db, e, l)
    PROVE  Shape(e) /\ (db.st \in {"cancelling", "frozen"} => e.st = db.st)
<1>1. ShareAdded(db, e, l)
  BY FilledLegs
<1>2. db.st \notin {"none", "planned", "paired", "cancelled"} /\ db.st \in GroupStatus
  BY FillingLeg, InvParts, GroupFields
<1>3. \A m \in Leg : LegShape(e, m)
  BY FilledLegShape
<1>4. CASE db.st \in {"frozen", "failed", "cancelling"}
  <2>1. e.st = db.st
    BY <1>4 DEF FilledFrom, ExpectedGroupStatus
  <2>2. ASSUME db.st = "cancelling", NEW m \in Leg
        PROVE  e.leg[m].st \in Closed \cup {"cancel_pending"}
    <3>1. db.leg[m].st \in Closed \cup {"cancel_pending"}
      BY <2>2 DEF ExposureInv, Shape
    <3>2. CASE m = l
      BY <1>1, <3>1, <3>2 DEF ShareAdded, Closed
    <3>3. CASE m # l
      BY <1>1, <3>1, <3>3 DEF ShareAdded
    <3> QED BY <3>2, <3>3
  <2> QED BY <1>3, <1>4, <2>1, <2>2 DEF Shape, LegShape
<1>5. CASE db.st \in {"working", "imbalanced"}
  <2>1. /\ \A m \in Entry : e.leg[m].st \in {"open", "partially_filled", "filled"}
        /\ \A m \in Hedge : e.leg[m].st = "none"
        /\ e.st \in {"paired", "working", "imbalanced"}
        /\ e.st = "paired" => /\ \A m \in Leg : e.leg[m].st \in Closed
                              /\ Bought(e.leg, Yes) = Bought(e.leg, No)
    BY <1>5, WorkingFilled
  <2> QED BY <1>3, <1>5, <2>1 DEF Shape, LegShape
<1>6. CASE db.st = "hedging"
  <2>1. /\ e.st \in {"hedging", "paired", "frozen"}
        /\ e.st = "hedging" =>
             \E h \in Hedge : /\ e.leg[h].st \in {"planned", "open", "partially_filled"}
                              /\ \A m \in Leg \ {h} : e.leg[m].st \in Closed
        /\ e.st = "paired" => /\ \A m \in Leg : e.leg[m].st \in Closed
                              /\ Bought(e.leg, Yes) = Bought(e.leg, No)
    BY <1>6, HedgeFilled
  <2> QED BY <1>3, <1>6, <2>1 DEF Shape, LegShape
<1> QED BY <1>2, <1>4, <1>5, <1>6, StatusFacts

(* What the calls rely on survives the fill. *)
LEMMA FilledCall ==
    ASSUME PairInv, ExposureInv, NEW f \in Executed, f \notin seen, NEW l, l = f[1],
           db.leg[l].id = TRUE, db.leg[l].filled < db.leg[l].size,
           NEW e, FilledFrom(db, e, l), NEW v, v.leg = e.leg, v.st = e.st, v.ver = db.ver + 1,
           NEW r \in Runner
    PROVE  CallOK(v, book, traded, seen \cup {f}, notified \cup {f}, run[r])
<1>1. PICK t : t = run[r]
  OBVIOUS
<1>2. CallOK(db, book, traded, seen, notified, t) /\ t \in RunRec
  BY <1>1, InvParts DEF ExposureInv
<1>3. ShareAdded(db, e, l)
  BY FilledLegs
<1>4. \A m \in Leg : Known(book, traded, seen, m) => Known(book, traded, seen \cup {f}, m)
  BY DEF Known
<1>5. t.pc \in {"post", "hedged"} => t.snap.ver # v.ver
  BY <1>1, CopyIsOld
<1>6. CASE t.pc \in Cancelling
  <2>1. v.st \in {"cancelling", "frozen"}
    <3>1. db.st \in {"cancelling", "frozen"}
      BY <1>2, <1>6 DEF CallOK
    <3> QED BY <3>1, FilledShape
  <2>2. ASSUME NEW m \in Leg
        PROVE  v.leg[m].st \in Closed \/ (v.leg[m].st = "cancel_pending" /\ m \in t.ids)
    <3>1. db.leg[m].st \in Closed \/ (db.leg[m].st = "cancel_pending" /\ m \in t.ids)
      BY <1>2, <1>6 DEF CallOK
    <3>2. CASE m = l
      BY <1>3, <3>1, <3>2 DEF ShareAdded, Closed
    <3>3. CASE m # l
      BY <1>3, <3>1, <3>3 DEF ShareAdded
    <3> QED BY <3>2, <3>3
  <2>3. ASSUME NEW m \in t.ids PROVE v.leg[m].id = TRUE
    <3>1. m \in Leg /\ db.leg[m].id = TRUE
      BY <1>2, <1>6 DEF CallOK, RunRec
    <3> QED BY <1>3, <3>1 DEF ShareAdded
  <2>4. t.pc \in {"relegs", "confirm"} => \A m \in t.ids : Known(book, traded, seen \cup {f}, m)
    <3>1. \A m \in t.ids : m \in Leg
      BY <1>2 DEF RunRec
    <3> QED BY <1>2, <1>4, <3>1 DEF CallOK
  <2>5. t.pc = "barrier" => \A m \in t.ids : book[m] # "open"
    BY <1>2 DEF CallOK
  <2> QED BY <1>1, <1>6, <2>1, <2>2, <2>3, <2>4, <2>5 DEF CallOK, Cancelling
<1>7. CASE t.pc = "post"
  <2>1. /\ t.h \in Leg /\ db.leg[t.h].st = "planned"
        /\ \A m \in Leg \ {t.h} : db.leg[m].st \in Closed
    BY <1>2, <1>7 DEF CallOK, Leg
  <2>2. db.leg[l].st \notin Closed /\ db.leg[l].st # "planned" /\ l \in Leg
    BY <1>3 DEF ShareAdded, Closed
  <2> QED BY <2>1, <2>2
<1>8. CASE t.pc = "hedged"
  <2>1. t.h \in Hedge /\ t.h \in Leg /\ db.leg[t.h].st = "planned" /\ \A g \in notified : g[1] # t.h
    BY <1>2, <1>8 DEF CallOK, Leg
  <2>2. t.h # l /\ v.leg[t.h] = db.leg[t.h]
    BY <1>3, <2>1 DEF ShareAdded
  <2>3. \A g \in notified \cup {f} : g[1] # t.h
    BY <2>1, <2>2
  <2> QED BY <1>1, <1>5, <1>8, <2>1, <2>2, <2>3 DEF CallOK, Cancelling
<1>9. CASE t.pc \notin Cancelling /\ t.pc \notin {"post", "hedged"}
  BY <1>1, <1>2, <1>9, Bystander
<1> QED BY <1>6, <1>7, <1>8, <1>9

LEMMA AppliedExposure ==
    ASSUME PairInv, ExposureInv, NEW f \in Executed, f \notin seen, NEW l, l = f[1],
           db.leg[l].id = TRUE, db.leg[l].filled < db.leg[l].size,
           NEW s, s = RecordFill(db, l), db' = [s EXCEPT !.ver = db.ver + 1],
           seen' = seen \cup {f}, notified' = notified \cup {f}, fl' = IdleFill,
           book' = book, traded' = traded, sub' = sub, run' = run
    PROVE  ExposureInv'
<1>1. l \in Leg /\ f \in ExecutedBy(traded) /\ db.leg[l].st # "none" /\ sub.pc = "done"
  BY FillingLeg, ExecutedIs, SubmitterDone
<1>2. FilledFrom(db, s, l)
  BY <1>1, AppliedIs
<1>3. ShareAdded(db, s, l)
  BY <1>2, FilledLegs
<1>4. PICK e, k : k = db.ver /\ e = [s EXCEPT !.ver = k + 1]
  OBVIOUS
<1>5. db' = e /\ e.leg = s.leg /\ e.st = s.st /\ e.ver = db.ver + 1
  BY <1>2, <1>4, InvParts, StampedIs DEF FilledFrom
<1>6. Shape(e)
  <2>1. Shape(s) /\ s.st \notin {"none", "planned"}
    <3>1. Shape(s)
      BY <1>2, FilledShape
    <3>2. db.st \notin {"none", "planned", "paired", "cancelled"}
      BY FillingLeg
    <3>3. s.st \notin {"none", "planned"}
      BY <1>2, <3>2 DEF FilledFrom, ExpectedGroupStatus
    <3> QED BY <3>1, <3>3
  <2> QED BY <1>5, <2>1 DEF Shape
<1>7. Market(e, book, traded)
  <2>1. \A m \in Leg : e.leg[m].size = db.leg[m].size /\ (e.leg[m].st = "none" => db.leg[m].st = "none")
    BY <1>3, <1>5 DEF ShareAdded
  <2> QED BY <2>1 DEF ExposureInv, Market
<1>8. Verdicts(e, book, traded, seen \cup {f}, notified \cup {f})
  <2>1. \A m \in Leg : e.leg[m].st = "cancelled" => db.leg[m].st = "cancelled"
    BY <1>3, <1>5 DEF ShareAdded
  <2>2. \A m \in Leg : e.leg[m].st = "cancelled" => Known(book, traded, seen \cup {f}, m)
    BY <2>1, KnownKept DEF ExposureInv, Verdicts
  <2>3. \A g \in notified : g[1] \in Leg
    BY DEF ExposureInv, Verdicts, ExecutedBy, Fill
  <2>4. \A m \in Leg : e.leg[m].id = TRUE => db.leg[m].id = TRUE
    BY <1>3, <1>5 DEF ShareAdded
  <2>5. \A g \in notified \cup {f} : e.leg[g[1]].id = TRUE => g \in seen \cup {f}
    BY <2>3, <2>4 DEF ExposureInv, Verdicts
  <2>6. notified \cup {f} \subseteq ExecutedBy(traded)
    BY <1>1 DEF ExposureInv, Verdicts
  <2> QED BY <2>2, <2>5, <2>6 DEF Verdicts
<1>9. SubmitterOK(e, book, traded, notified \cup {f}, "done")
  BY DEF SubmitterOK
<1>10. \A r \in Runner : CallOK(e, book, traded, seen \cup {f}, notified \cup {f}, run[r])
  BY <1>2, <1>5, FilledCall
<1>11. OneCanceller(run) /\ fl'.pc = "idle"
  BY IdleIs DEF ExposureInv
<1> QED BY <1>1, <1>5, <1>6, <1>7, <1>8, <1>9, <1>10, <1>11 DEF ExposureInv

LEMMA CommitFillExposure ==
    ASSUME PairInv, ExposureInv, CommitFill
    PROVE  ExposureInv'
<1>1. /\ book' = book /\ traded' = traded /\ sub' = sub /\ run' = run
      /\ fl \in FillRec /\ fl.pc = "commit"
  BY InvParts DEF CommitFill, exVars
<1>2. PICK f, l, s : f = fl.f /\ l = f[1] /\ s = RecordFill(fl.snap, l)
  OBVIOUS
<1>3. /\ f \in Executed /\ Copy(db, fl.snap) /\ db.leg[l].id = TRUE
      /\ fl.snap.leg[l].filled < fl.snap.leg[l].size
  BY <1>1, <1>2 DEF PairInv, FillOK, ExposureInv
<1>4. CASE UNCHANGED dbVars /\ f \in seen /\ FillDone
  <2>1. db' = db /\ seen' = seen /\ fl.f \in seen /\ fl.pc # "idle"
    BY <1>1, <1>2, <1>4 DEF dbVars
  <2> QED BY <1>1, <1>4, <2>1, FillDoneExposure
<1>5. CASE UNCHANGED dbVars /\ notified' = notified /\ (fl'.pc # "idle" => fl'.f = fl.f)
  <2>1. \A r \in Runner : CallOK(db, book', traded, seen, notified, run'[r])
    BY <1>1 DEF ExposureInv
  <2>2. OneCanceller(run') /\ Shrinks(book, book')
    BY <1>1, CancelledShrinks DEF ExposureInv
  <2>3. sub'.pc \notin {"new", "done"} => db.ver = 1
    BY <1>1 DEF ExposureInv, SubmitterOK
  <2>4. fl'.pc # "idle" => db.leg[fl'.f[1]].id = TRUE
    BY <1>1, <1>5 DEF ExposureInv
  <2>5. db' = db /\ seen' = seen
    BY <1>5 DEF dbVars
  <2> QED BY <1>1, <1>5, <2>1, <2>2, <2>3, <2>4, <2>5, QuietExposure
<1>6. CASE /\ f \notin seen /\ db.ver = fl.snap.ver
           /\ db' = [s EXCEPT !.ver = fl.snap.ver + 1]
           /\ seen' = seen \cup {f} /\ FillDone
  <2>1. fl.snap = db
    BY <1>3, <1>6 DEF Copy
  <2>2. /\ s = RecordFill(db, l) /\ db' = [s EXCEPT !.ver = db.ver + 1]
        /\ db.leg[l].filled < db.leg[l].size
    BY <1>2, <1>3, <1>6, <2>1
  <2>3. notified' = notified \cup {f} /\ fl' = IdleFill
    BY <1>2, <1>6 DEF FillDone
  <2> QED BY <1>1, <1>2, <1>3, <1>6, <2>2, <2>3, AppliedExposure
<1>7. CASE UNCHANGED dbVars /\ (RetryFill \/ FillFails)
  <2>1. CASE FillFails
    BY <1>5, <1>7, <2>1, IdleIs DEF FillFails
  <2>2. CASE fl' = [fl EXCEPT !.pc = "group", !.try = @ + 1] /\ notified' = notified
    <3>1. PICK n : n = fl.try + 1
      OBVIOUS
    <3>2. fl' = [fl EXCEPT !.pc = "group", !.try = n]
      BY <2>2, <3>1
    <3>3. fl'.f = fl.f
      BY <1>1, <3>2 DEF FillRec
    <3> QED BY <1>5, <1>7, <2>2, <3>3
  <2> QED BY <1>7, <2>1, <2>2 DEF RetryFill
<1> QED BY <1>2, <1>4, <1>6, <1>7 DEF CommitFill

-----------------------------------------------------------------------------
(* The exposure invariant *)

LEMMA ExposureInit == Init => ExposureInv
<1> SUFFICES ASSUME Init PROVE ExposureInv
  OBVIOUS
<1>1. /\ db = NoGroup /\ seen = {} /\ notified = {} /\ fl = IdleFill
      /\ run = [r \in Runner |-> IdleRun]
      /\ book = [l \in Leg |-> "none"] /\ traded = [l \in Leg |-> 0]
  BY DEF Init
<1>2. /\ db.st = "none" /\ db.ver = 0
      /\ \A l \in Leg : db.leg[l].st = "none" /\ db.leg[l].size = 0
  <2>1. NoLeg.st = "none" /\ NoLeg.size = 0
    BY DEF NoLeg
  <2>2. NoGroup.st = "none"
    BY DEF NoGroup
  <2> QED BY <1>1, <2>1, <2>2, NoGroupIs
<1>3. Shape(db)
  BY <1>2 DEF Shape
<1>4. Market(db, book, traded)
  BY <1>1, <1>2 DEF Market, Orders
<1>5. Verdicts(db, book, traded, seen, notified)
  BY <1>1, <1>2 DEF Verdicts
<1>6. SubmitterOK(db, book, traded, notified, sub.pc)
  <2>1. sub.pc = "new"
    BY DEF Init
  <2> QED BY <1>1, <2>1 DEF SubmitterOK
<1>7. \A r \in Runner : CallOK(db, book, traded, seen, notified, run[r])
  BY <1>1, IdleCall
<1>8. OneCanceller(run)
  BY <1>1, IdleIs DEF OneCanceller, Cancelling
<1> QED BY <1>1, <1>3, <1>4, <1>5, <1>6, <1>7, <1>8, IdleIs DEF ExposureInv

LEMMA RunnerExposure ==
    ASSUME PairInv, ExposureInv, NEW r \in Runner, ProcessDeadline(r)
    PROVE  ExposureInv'
BY RunLoadsGroupExposure, RunLoadsLegsExposure, CommitTerminalExposure,
   CommitCancelPendingExposure, CancelOrdersExposure, CommitFreezeExposure,
   PassBarrierExposure, BarrierRaisesExposure, RunReloadsLegsExposure,
   ConfirmCancellationsExposure, PostHedgeExposure, CommitHedgeExposure
   DEF ProcessDeadline

LEMMA ExposureStep ==
    ASSUME PairInv, ExposureInv, DeliverEarly = FALSE, [Next]_vars
    PROVE  ExposureInv'
<1>1. ASSUME NEW l \in Leg, Trade(l) PROVE ExposureInv'
  BY <1>1, TradeExposure
<1>2. CASE Submission
  BY <1>2, PersistExposure, SubmitterExposure, RecordResultExposure, FreezePlanExposure
     DEF Submission
<1>3. CASE Delivery
  BY <1>3, DeliverExposure DEF Delivery
<1>4. CASE OnFill
  BY <1>4, FillLoadsExposure, CommitFillExposure DEF OnFill
<1>5. ASSUME NEW r \in Runner, ProcessDeadline(r) PROVE ExposureInv'
  BY <1>5, RunnerExposure
<1>6. CASE Fault
  BY <1>6, FaultExposure
<1>7. CASE UNCHANGED vars
  <2>1. /\ db' = db /\ seen' = seen /\ book' = book /\ traded' = traded
        /\ notified' = notified /\ sub' = sub /\ fl' = fl /\ run' = run
    BY <1>7 DEF vars
  <2> QED BY <2>1 DEF ExposureInv
<1> QED BY <1>1, <1>2, <1>3, <1>4, <1>5, <1>6, <1>7 DEF Next

LEMMA ExposureHolds ==
    ASSUME DeliverEarly = FALSE
    PROVE  Spec => [](PairInv /\ ExposureInv)
<1>1. Init => PairInv /\ ExposureInv
  BY PairInit, ExposureInit
<1>2. PairInv /\ ExposureInv /\ [Next]_vars => (PairInv /\ ExposureInv)'
  BY PairStep, ExposureStep
<1> QED BY <1>1, <1>2, PTL DEF Spec

(* A group that says "paired" or "cancelled": each of its legs is closed, so *)
(* that the group was told of every trade, and what it bought is balanced.   *)
LEMMA EndedIsBalanced ==
    ASSUME PairInv, ExposureInv
    PROVE  NoSilentImbalance
<1> SUFFICES ASSUME db.st \in {"paired", "cancelled"}
             PROVE  ExecutedOf(Yes) = ExecutedOf(No)
  BY DEF NoSilentImbalance
<1>1. (\A l \in Leg : db.leg[l].st \in Closed) /\ Bought(db.leg, Yes) = Bought(db.leg, No)
  BY DEF ExposureInv, Shape
<1>2. \A l \in Leg : Known(book, traded, seen, l)
  BY <1>1, ClosedIsKnown
<1>3. ExecutedOf(Yes) = Bought(db.leg, Yes) /\ ExecutedOf(No) = Bought(db.leg, No)
  BY <1>2, KnownIsBought
<1> QED BY <1>1, <1>3

(* A call about to post its hedge: the other legs are closed, and the hedge  *)
(* has no order yet.                                                         *)
LEMMA PostedIsMissing ==
    ASSUME PairInv, ExposureInv
    PROVE  HedgeMatchesExposure
<1> SUFFICES ASSUME NEW r \in Runner, run[r].pc = "post", NEW h, h = run[r].h
             PROVE  /\ \A l \in Leg : book[l] # "open"
                    /\ ExecutedOf(db.leg[h].out) + db.leg[h].size =
                          ExecutedOf(IF db.leg[h].out = Yes THEN No ELSE Yes)
  BY DEF HedgeMatchesExposure
<1>1. CallOK(db, book, traded, seen, notified, run[r])
  BY DEF ExposureInv
<1>2. /\ h \in Leg /\ book[h] = "none" /\ traded[h] = 0 /\ Matches(db, h)
      /\ \A l \in Leg \ {h} : db.leg[l].st \in Closed
  BY <1>1 DEF CallOK, Leg
<1>3. Known(book, traded, seen, h)
  <2>1. \A f \in ExecutedBy(traded) : f[1] # h
    BY <1>2, PairAssumption DEF ExecutedBy, Fill
  <2> QED BY <1>2, <2>1 DEF Known
<1>4. \A l \in Leg : Known(book, traded, seen, l)
  BY <1>2, <1>3, ClosedIsKnown
<1>5. \A o : ExecutedOf(o) = Bought(db.leg, o)
  BY <1>4, KnownIsBought
<1>6. \A l \in Leg : book[l] # "open"
  BY <1>4 DEF Known
<1>7. /\ ExecutedOf(db.leg[h].out) = Bought(db.leg, db.leg[h].out)
      /\ ExecutedOf(IF db.leg[h].out = Yes THEN No ELSE Yes) =
            Bought(db.leg, IF db.leg[h].out = Yes THEN No ELSE Yes)
  BY <1>5
<1> QED BY <1>2, <1>6, <1>7 DEF Matches

(* If no trade is delivered before the order's id is stored, a group that    *)
(* says "paired" or "cancelled" has no exposure at the exchange: neither an  *)
(* order that can trade nor a trade that nobody has told the group of.       *)
THEOREM SilentImbalanceTheorem ==
    ASSUME DeliverEarly = FALSE
    PROVE  Spec => []NoSilentImbalance
<1>1. PairInv /\ ExposureInv => NoSilentImbalance
  BY EndedIsBalanced
<1> QED BY <1>1, ExposureHolds, PTL

(* Under the same hypothesis, a hedge is posted when no order of the group   *)
(* can trade any more, for exactly the shares that are missing.              *)
THEOREM HedgeTheorem ==
    ASSUME DeliverEarly = FALSE
    PROVE  Spec => []HedgeMatchesExposure
<1>1. PairInv /\ ExposureInv => HedgeMatchesExposure
  BY PostedIsMissing
<1> QED BY <1>1, ExposureHolds, PTL

-----------------------------------------------------------------------------
(* One call at a time *)

(* What a call that has read the group relies on when no other call runs: on *)
(* the status it decided from, and, while it cancels, that the group says so *)
(* (only a call takes it out of "cancelling", on_fill leaves it there).      *)
LoneOK(st, t) ==
    /\ t.pc = "terminal" => TerminalState(t.snap).st = "frozen"
    /\ t.pc = "mark" => t.snap.st \notin Settled
    /\ t.pc \in Cancelling => st = "cancelling"

LoneInv == \A r \in Runner : LoneOK(db.st, run[r])

StaysFrozen == db.st = "frozen" => db'.st = "frozen"

OneRunner == \A r, q \in Runner : r = q

LEMMA LoneIdle ==
    ASSUME NEW st
    PROVE  LoneOK(st, IdleRun)
BY IdleIs DEF LoneOK, Cancelling

(* No call moves. *)
LEMMA LoneKept ==
    ASSUME LoneInv, run' = run, db.st = "cancelling" => db'.st = "cancelling"
    PROVE  LoneInv'
BY DEF LoneInv, LoneOK

(* The call moves. *)
LEMMA LoneMoved ==
    ASSUME PairInv, OneRunner, NEW r \in Runner, NEW u, SetRun(r, u), LoneOK(db'.st, u)
    PROVE  LoneInv'
<1>1. run \in [Runner -> RunRec] /\ run' = [run EXCEPT ![r] = u]
  BY InvParts DEF SetRun
<1>2. \A q \in Runner : run'[q] = u
  BY <1>1 DEF OneRunner
<1> QED BY <1>2 DEF LoneInv

(* The call stores s, or loses the compare-and-set and ends. *)
LEMMA LoneCommit ==
    ASSUME PairInv, OneRunner, NEW r \in Runner, Copy(db, run[r].snap), NEW s, NEW t,
           CommitOr(r, s, t),
           run[r].snap = db => /\ s \in GroupRec /\ LoneOK(s.st, t)
                               /\ db.st = "frozen" => s.st = "frozen"
    PROVE  LoneInv' /\ StaysFrozen
<1>1. CASE Committed(run[r].snap.ver, s)
  <2>1. db.ver = run[r].snap.ver /\ Store(run[r].snap.ver, s) /\ SetRun(r, t)
    BY <1>1 DEF CommitOr, Committed
  <2>2. run[r].snap = db
    BY <2>1 DEF Copy
  <2>3. PICK k : k = db.ver
    OBVIOUS
  <2>4. db' = [s EXCEPT !.ver = k + 1] /\ k \in Nat
    BY <2>1, <2>3, InvParts DEF Store
  <2>5. db'.st = s.st
    BY <2>2, <2>4, StampedIs
  <2>6. LoneOK(db'.st, t) /\ StaysFrozen
    BY <2>2, <2>5 DEF StaysFrozen
  <2> QED BY <2>1, <2>6, LoneMoved
<1>2. CASE ~Committed(run[r].snap.ver, s)
  <2>1. db' = db /\ SetRun(r, IdleRun)
    BY <1>2 DEF CommitOr, dbVars
  <2> QED BY <2>1, LoneIdle, LoneMoved DEF StaysFrozen
<1> QED BY <1>1, <1>2

(* The steps of a call that store nothing. *)
LEMMA LoneReads ==
    ASSUME PairInv, LoneInv, OneRunner, NEW r \in Runner,
           \/ RunLoadsGroup(r) \/ CancelOrders(r) \/ PassBarrier(r) \/ BarrierRaises(r)
           \/ RunReloadsLegs(r) \/ PostHedge(r) \/ AbortRun(r)
    PROVE  LoneInv' /\ StaysFrozen
<1>1. db' = db
  BY DEF RunLoadsGroup, CancelOrders, PassBarrier, BarrierRaises, RunReloadsLegs, PostHedge,
         AbortRun, dbVars
<1>2. PICK t : t = run[r]
  OBVIOUS
<1>3. t \in RunRec /\ LoneOK(db.st, t)
  BY <1>2, InvParts DEF LoneInv
<1>4. ASSUME NEW pc \in {"legs", "fail", "barrier", "relegs", "confirm", "hedged"}, NEW u,
             u.pc = pc, pc \in Cancelling => t.pc \in Cancelling
      PROVE  LoneOK(db'.st, u)
  BY <1>1, <1>3, <1>4 DEF LoneOK
<1>5. CASE RunLoadsGroup(r)
  <2>1. PICK u : u = [IdleRun EXCEPT !.pc = "legs", !.snap = LoadGroup]
    OBVIOUS
  <2>2. u.pc = "legs"
    BY <2>1, IdleIs DEF RunRec
  <2>3. LoneOK(db'.st, u)
    BY <1>4, <2>2 DEF Cancelling
  <2> QED BY <1>1, <1>5, <2>1, <2>3, LoneMoved DEF RunLoadsGroup, StaysFrozen
<1>6. CASE CancelOrders(r) \/ BarrierRaises(r)
  <2>1. t.pc \in Cancelling
    BY <1>2, <1>6 DEF CancelOrders, BarrierRaises, Cancelling
  <2>2. PICK pc \in {"barrier", "fail"} : SetRun(r, [t EXCEPT !.pc = pc])
    BY <1>2, <1>6 DEF CancelOrders, BarrierRaises
  <2>3. [t EXCEPT !.pc = pc].pc = pc
    BY <1>3 DEF RunRec
  <2>4. LoneOK(db'.st, [t EXCEPT !.pc = pc])
    BY <1>4, <2>1, <2>3
  <2> QED BY <1>1, <2>2, <2>4, LoneMoved DEF StaysFrozen
<1>7. CASE PassBarrier(r) \/ RunReloadsLegs(r)
  <2>1. t.pc \in Cancelling
    BY <1>2, <1>7 DEF PassBarrier, RunReloadsLegs, Cancelling
  <2>2. PICK pc \in {"relegs", "confirm"} : \E c : SetRun(r, [t EXCEPT !.pc = pc, !.snap = c])
    BY <1>2, <1>7 DEF PassBarrier, RunReloadsLegs
  <2>5. PICK c : SetRun(r, [t EXCEPT !.pc = pc, !.snap = c])
    BY <2>2
  <2>3. [t EXCEPT !.pc = pc, !.snap = c].pc = pc
    BY <1>3 DEF RunRec
  <2>4. LoneOK(db'.st, [t EXCEPT !.pc = pc, !.snap = c])
    BY <1>4, <2>1, <2>3
  <2> QED BY <1>1, <2>5, <2>4, LoneMoved DEF StaysFrozen
<1>8. CASE PostHedge(r)
  <2>1. PICK res : SetRun(r, [t EXCEPT !.pc = "hedged", !.res = res])
    BY <1>2, <1>8 DEF PostHedge
  <2>2. [t EXCEPT !.pc = "hedged", !.res = res].pc = "hedged"
    BY <1>3 DEF RunRec
  <2>3. LoneOK(db'.st, [t EXCEPT !.pc = "hedged", !.res = res])
    BY <1>4, <2>2 DEF Cancelling
  <2> QED BY <1>1, <2>1, <2>3, LoneMoved DEF StaysFrozen
<1>9. CASE AbortRun(r)
  BY <1>1, <1>9, LoneIdle, LoneMoved DEF AbortRun, StaysFrozen
<1> QED BY <1>5, <1>6, <1>7, <1>8, <1>9

LEMMA LoneDecides ==
    ASSUME PairInv, OneRunner, NEW r \in Runner, RunLoadsLegs(r)
    PROVE  LoneInv' /\ StaysFrozen
<1>1. db' = db
  BY DEF RunLoadsLegs, dbVars
<1>2. PICK t : t = run[r]
  OBVIOUS
<1>3. t \in RunRec
  BY <1>2, InvParts
<1>4. PICK s : s = LoadLegs(t.snap)
  OBVIOUS
<1>5. CASE SetRun(r, IdleRun)
  BY <1>1, <1>5, LoneIdle, LoneMoved DEF StaysFrozen
<1>6. CASE /\ s.st \notin Settled
           /\ SetRun(r, [t EXCEPT !.pc = "mark", !.snap = s, !.ids = Cancellable(s)])
  <2>1. PICK u : u = [t EXCEPT !.pc = "mark", !.snap = s, !.ids = Cancellable(s)]
    OBVIOUS
  <2>2. u.pc = "mark" /\ u.snap = s
    BY <1>3, <2>1 DEF RunRec
  <2>3. LoneOK(db'.st, u)
    BY <1>6, <2>2 DEF LoneOK, Cancelling
  <2> QED BY <1>1, <1>6, <2>1, <2>3, LoneMoved DEF StaysFrozen
<1>7. CASE /\ TerminalState(s).st = "frozen"
           /\ SetRun(r, [t EXCEPT !.pc = "terminal", !.snap = s])
  <2>1. PICK u : u = [t EXCEPT !.pc = "terminal", !.snap = s]
    OBVIOUS
  <2>2. u.pc = "terminal" /\ u.snap = s
    BY <1>3, <2>1 DEF RunRec
  <2>3. LoneOK(db'.st, u)
    BY <1>7, <2>2 DEF LoneOK, Cancelling
  <2> QED BY <1>1, <1>7, <2>1, <2>3, LoneMoved DEF StaysFrozen
<1> QED BY <1>2, <1>4, <1>5, <1>6, <1>7 DEF RunLoadsLegs

LEMMA LoneStores ==
    ASSUME PairInv, LoneInv, OneRunner, NEW r \in Runner,
           CommitTerminal(r) \/ CommitCancelPending(r) \/ CommitFreeze(r)
    PROVE  LoneInv' /\ StaysFrozen
<1>1. PICK t : t = run[r]
  OBVIOUS
<1>2. t \in RunRec /\ LoneOK(db.st, t) /\ GroupInv(db) /\ RunOK(db, t)
  BY <1>1, InvParts DEF LoneInv, PairInv
<1>3. Copy(db, t.snap)
  BY <1>1, <1>2 DEF RunOK, CommitTerminal, CommitCancelPending, CommitFreeze
<1>4. CASE CommitTerminal(r)
  <2>1. PICK s : s = TerminalState(t.snap)
    OBVIOUS
  <2>2. CommitOr(r, s, IdleRun) /\ s.st = "frozen"
    BY <1>1, <1>2, <1>4, <2>1 DEF CommitTerminal, LoneOK
  <2>3. t.snap = db => s \in GroupRec
    BY <1>2, <2>1, FrozenIs
  <2> QED BY <1>1, <1>3, <2>2, <2>3, LoneIdle, LoneCommit
<1>5. CASE CommitFreeze(r)
  <2>1. PICK s : s = Freeze(t.snap)
    OBVIOUS
  <2>2. CommitOr(r, s, IdleRun)
    BY <1>1, <1>5, <2>1 DEF CommitFreeze
  <2>3. t.snap = db => s \in GroupRec /\ s.st = "frozen"
    BY <1>2, <2>1, FrozenIs
  <2> QED BY <1>1, <1>3, <2>2, <2>3, LoneIdle, LoneCommit
<1>6. CASE CommitCancelPending(r)
  <2>1. PICK s : s = CancelPending(t.snap)
    OBVIOUS
  <2>2. PICK u : u = [t EXCEPT !.pc = "cancel", !.snap = Stepped(s, @.ver)]
    OBVIOUS
  <2>3. CommitOr(r, s, u)
    BY <1>1, <1>6, <2>1, <2>2 DEF CommitCancelPending
  <2>4. u.pc = "cancel"
    BY <1>2, <2>2 DEF RunRec
  <2>5. t.snap.st # "frozen"
    BY <1>1, <1>2, <1>6 DEF CommitCancelPending, LoneOK, Settled
  <2>6. t.snap = db => s \in GroupRec /\ s.st = "cancelling"
    BY <1>2, <2>1, MarkedIs
  <2>7. t.snap = db => LoneOK(s.st, u)
    BY <2>4, <2>6 DEF LoneOK
  <2> QED BY <1>1, <1>3, <2>3, <2>5, <2>6, <2>7, LoneCommit
<1> QED BY <1>4, <1>5, <1>6

LEMMA LoneConfirms ==
    ASSUME PairInv, LoneInv, OneRunner, NEW r \in Runner, ConfirmCancellations(r)
    PROVE  LoneInv' /\ StaysFrozen
<1>1. PICK t : t = run[r]
  OBVIOUS
<1>2. t \in RunRec /\ LoneOK(db.st, t) /\ GroupInv(db) /\ RunOK(db, t) /\ t.pc = "confirm"
  BY <1>1, InvParts DEF LoneInv, PairInv, ConfirmCancellations
<1>3. Copy(db, t.snap) /\ db.st = "cancelling"
  BY <1>2 DEF RunOK, LoneOK, Cancelling
<1>4. PICK ids : ids = t.ids
  OBVIOUS
<1>5. PICK s : /\ s = CancelsConfirmed(t.snap, ids)
               /\ \/ CommitOr(r, WithoutHedge(s), IdleRun)
                  \/ /\ NextHedge(s) # {}
                     /\ LET h == Min(NextHedge(s))
                            n == WithHedge(s, h)
                        IN  CommitOr(r, n, [run[r] EXCEPT !.pc = "post", !.h = h,
                                                          !.snap = Stepped(n, @.ver)])
  BY <1>1, <1>4 DEF ConfirmCancellations
<1>6. CASE CommitOr(r, WithoutHedge(s), IdleRun)
  <2>1. PICK p : p = WithoutHedge(s)
    OBVIOUS
  <2>2. t.snap = db => p \in GroupRec
    <3>1. p = WithoutHedge(CancelsConfirmed(t.snap, ids))
      BY <1>5, <2>1
    <3>2. t.snap = db => Alike(db, p)
      BY <1>2, <3>1, WithoutHedgeIs
    <3> QED BY <3>2 DEF Alike
  <2>3. CommitOr(r, p, IdleRun)
    BY <1>6, <2>1
  <2> QED BY <1>1, <1>3, <2>2, <2>3, LoneIdle, LoneCommit
<1>7. CASE NextHedge(s) # {} /\ ~CommitOr(r, WithoutHedge(s), IdleRun)
  <2>1. PICK h : h = Min(NextHedge(s))
    OBVIOUS
  <2>2. PICK n : n = WithHedge(s, h)
    OBVIOUS
  <2>3. PICK u : u = [t EXCEPT !.pc = "post", !.h = h, !.snap = Stepped(n, @.ver)]
    OBVIOUS
  <2>4. CommitOr(r, n, u)
    BY <1>1, <1>5, <1>7, <2>1, <2>2, <2>3
  <2>5. h \in NextHedge(s)
    <3>1. NextHedge(s) \subseteq Nat
      BY PairAssumption DEF NextHedge, Hedge
    <3> QED BY <1>7, <2>1, <3>1, LeastIn
  <2>6. ASSUME t.snap = db PROVE n \in GroupRec
    <3>1. h \in NextHedge(CancelsConfirmed(db, ids)) /\ n = WithHedge(CancelsConfirmed(db, ids), h)
      BY <1>5, <2>2, <2>5, <2>6
    <3> QED BY <1>2, <3>1, WithHedgeIs
  <2>7. u.pc = "post"
    BY <1>2, <2>3 DEF RunRec
  <2>8. LoneOK(n.st, u)
    BY <2>7 DEF LoneOK, Cancelling
  <2> QED BY <1>1, <1>3, <2>4, <2>6, <2>8, LoneCommit
<1> QED BY <1>5, <1>6, <1>7

LEMMA LoneHedges ==
    ASSUME PairInv, LoneInv, OneRunner, NEW r \in Runner, CommitHedge(r)
    PROVE  LoneInv' /\ StaysFrozen
<1>1. PICK t : t = run[r]
  OBVIOUS
<1>2. /\ Copy(db, t.snap) /\ t.h \in Leg /\ db \in GroupRec /\ SetRun(r, IdleRun)
  BY <1>1, InvParts DEF CommitHedge, PairInv, RunOK
<1>3. LoneInv'
  BY <1>2, LoneIdle, LoneMoved
<1>4. PICK h, a, s : /\ h = t.h /\ a = (t.res = "accepted") /\ s = RecordHedge(t.snap, h, a)
                     /\ \/ Committed(t.snap.ver, s) /\ Store(t.snap.ver, s)
                        \/ UNCHANGED dbVars
  BY <1>1 DEF CommitHedge
<1>5. CASE Committed(t.snap.ver, s) /\ Store(t.snap.ver, s)
  <2>1. PICK k : k = db.ver
    OBVIOUS
  <2>2. t.snap = db /\ k \in Nat /\ db' = [s EXCEPT !.ver = k + 1]
    BY <1>2, <1>5, <2>1, InvParts DEF Committed, Copy, Store
  <2>3. RecordedFrom(db, s, h, a)
    BY <1>2, <1>4, <2>2, RecordedIs
  <2>4. db'.st = s.st
    BY <2>2, <2>3, StampedIs DEF RecordedFrom
  <2> QED BY <1>3, <2>3, <2>4 DEF RecordedFrom, StaysFrozen
<1>6. CASE UNCHANGED dbVars
  BY <1>3, <1>6 DEF StaysFrozen, dbVars
<1> QED BY <1>4, <1>5, <1>6

(* submit_plan stores a group that is not there yet, or is only planned. *)
LEMMA LoneSubmits ==
    ASSUME PairInv, LoneInv, Submission
    PROVE  LoneInv' /\ StaysFrozen
<1>1. run' = run
  BY DEF Submission, PersistPlan, BuildIntentsFails, SubmitBatch, BatchRaises,
         CancelAfterRaise, CancelPartial, RecordResult, FreezePlan
<1>2. db' = db \/ db.ver = 0 \/ db.ver = 1
  BY DEF Submission, PersistPlan, BuildIntentsFails, SubmitBatch, BatchRaises,
         CancelAfterRaise, CancelPartial, RecordResult, FreezePlan, Committed, dbVars, PairInv
<1>3. db' = db \/ db.st \in {"none", "planned"}
  BY <1>2, EarlyGroup
<1> QED BY <1>1, <1>3, LoneKept DEF StaysFrozen

(* A fill leaves a group frozen, and leaves it cancelling. *)
LEMMA LoneFills ==
    ASSUME PairInv, LoneInv, OnFill
    PROVE  LoneInv' /\ StaysFrozen
<1>1. run' = run
  BY DEF OnFill, FillLoadsGroup, FillLoadsLegs, CommitFill
<1>2. CASE db' = db
  BY <1>1, <1>2, LoneKept DEF StaysFrozen
<1>3. CASE CommitFill /\ db' # db
  <2>1. PICK f, l, s : f = fl.f /\ l = f[1] /\ s = RecordFill(fl.snap, l)
    OBVIOUS
  <2>2. /\ f \notin seen /\ db.ver = fl.snap.ver
        /\ db' = [s EXCEPT !.ver = fl.snap.ver + 1]
    BY <1>3, <2>1 DEF CommitFill, dbVars
  <2>3. /\ fl.snap = db /\ f \in Executed /\ db.leg[l].st # "none"
        /\ db.leg[l].filled < db.leg[l].size
    BY <1>3, <2>1, <2>2 DEF CommitFill, PairInv, FillOK, Copy
  <2>4. FilledFrom(db, s, l)
    BY <2>1, <2>2, <2>3, AppliedIs
  <2>5. PICK k : k = db.ver
    OBVIOUS
  <2>6. k \in Nat /\ db' = [s EXCEPT !.ver = k + 1]
    BY <2>2, <2>3, <2>5, InvParts
  <2>7. db'.st = s.st
    BY <2>4, <2>6, StampedIs DEF FilledFrom
  <2>8. db.st \in {"frozen", "cancelling"} => db'.st = db.st
    BY <2>4, <2>7 DEF FilledFrom, ExpectedGroupStatus
  <2> QED BY <1>1, <2>8, LoneKept DEF StaysFrozen
<1> QED BY <1>2, <1>3 DEF OnFill, FillLoadsGroup, FillLoadsLegs, dbVars

LEMMA LoneStep ==
    ASSUME PairInv, LoneInv, OneRunner, [Next]_vars
    PROVE  LoneInv' /\ StaysFrozen
<1>1. CASE (\E l \in Leg : Trade(l)) \/ Delivery \/ UNCHANGED vars
  <2>1. db' = db /\ run' = run
    BY <1>1 DEF Trade, Delivery, Deliver, vars, dbVars
  <2> QED BY <2>1, LoneKept DEF StaysFrozen
<1>2. CASE Submission
  BY <1>2, LoneSubmits
<1>3. CASE OnFill
  BY <1>3, LoneFills
<1>4. ASSUME NEW r \in Runner, ProcessDeadline(r) PROVE LoneInv' /\ StaysFrozen
  BY <1>4, LoneReads, LoneDecides, LoneStores, LoneConfirms, LoneHedges DEF ProcessDeadline
<1>5. CASE Fault
  <2>1. CASE AbortSubmit \/ AbortFill
    <3>1. db' = db /\ run' = run
      BY <2>1 DEF AbortSubmit, AbortFill, dbVars
    <3> QED BY <3>1, LoneKept DEF StaysFrozen
  <2>2. CASE Restart
    <3>1. db' = db /\ run' = [r \in Runner |-> IdleRun]
      BY <2>2 DEF Restart, dbVars
    <3> QED BY <3>1, LoneIdle DEF LoneInv, StaysFrozen
  <2>3. ASSUME NEW r \in Runner, AbortRun(r) PROVE LoneInv' /\ StaysFrozen
    BY <2>3, LoneReads
  <2> QED BY <1>5, <2>1, <2>2, <2>3 DEF Fault
<1> QED BY <1>1, <1>2, <1>3, <1>4, <1>5 DEF Next

(* PairOrderManager calls itself a "cancel -> hedge -> freeze state machine". *)
(* With at most one call of process_deadline at a time no step leads out of   *)
(* "frozen": a call that decided before the group froze loses its             *)
(* compare-and-set, and one that has begun to cancel keeps the group from     *)
(* freezing.  A second call can freeze the group under the first; then the    *)
(* first, back from the barrier, takes the frozen group on.                   *)
THEOREM FrozenTheorem ==
    ASSUME OneRunner
    PROVE  Spec => FrozenStays
<1>1. Init => PairInv /\ LoneInv
  <2>1. Init => LoneInv
    BY LoneIdle DEF Init, LoneInv
  <2> QED BY <2>1, PairInit
<1>2. PairInv /\ LoneInv /\ [Next]_vars => (PairInv /\ LoneInv)'
  BY PairStep, LoneStep
<1>3. PairInv /\ LoneInv /\ [Next]_vars => [db.st = "frozen" => db'.st = "frozen"]_vars
  BY LoneStep DEF StaysFrozen
<1> QED BY <1>1, <1>2, <1>3, PTL DEF Spec, FrozenStays
=============================================================================
