--------------------------- MODULE PersonalProofs ---------------------------
(* Proofs about a personal deployment: the account gate of the in-memory     *)
(* store for any workers and intents, the paper account for any tokens and   *)
(* events, and the switch between simulated and real-money trading for any   *)
(* workers, orders and risk policies.                                        *)
EXTENDS MemoryGate, PaperAccount, ModeSwitch, TLAPS

-----------------------------------------------------------------------------
(* The in-memory account gate                                                 *)
-----------------------------------------------------------------------------
(* The type invariant with the two bounds it rests on: a token is never     *)
(* ahead of the grants, the control row never ahead of its bound.           *)
Bounded ==
    /\ MTypeOK
    /\ lease.token <= grants
    /\ ctl.ver <= MaxVersion

LEMMA LeaseFields ==
    ASSUME NEW l \in Lease
    PROVE  /\ l.owner \in Worker \cup {NoWorker} /\ l.token \in Nat /\ l.live \in BOOLEAN
           /\ [l EXCEPT !.live = FALSE] \in Lease
           /\ [l EXCEPT !.live = FALSE].token = l.token
BY DEF Lease

LEMMA ClaimedLease ==
    ASSUME NEW l \in Lease, NEW w \in Worker
    PROVE  /\ Claimed(l, w) \in Lease
           /\ Claimed(l, w).token = IF l.owner = w THEN l.token ELSE l.token + 1
BY DEF Lease, Claimed

LEMMA InitialRows ==
    /\ InitialLease \in Lease /\ InitialLease.token = 0
    /\ InitialControl \in Control /\ InitialControl.ver = 1
    /\ InitialControl.pend = FALSE
BY DEF InitialLease, InitialControl, Lease, Control

(* What the control operators do to a row. *)
LEMMA ControlSteps ==
    ASSUME NEW c \in Control
    PROVE  /\ c.ver \in Nat /\ c.pend \in BOOLEAN
           /\ Armed(c) \in Control /\ Armed(c).ver = c.ver + 1 /\ Armed(c).pend = c.pend
           /\ Disarmed(c) \in Control /\ Disarmed(c).ver = c.ver + 1 /\ Disarmed(c).pend = TRUE
           /\ Expired(c) \in Control /\ Expired(c).ver = c.ver + 1 /\ Expired(c).pend = TRUE
           /\ Acknowledged(c) \in Control /\ Acknowledged(c).ver = c.ver + 1
           /\ [c EXCEPT !.fresh = FALSE] \in Control
           /\ [c EXCEPT !.fresh = FALSE].ver = c.ver
           /\ [c EXCEPT !.fresh = FALSE].pend = c.pend
<1>1. /\ c.armed \in BOOLEAN /\ c.fresh \in BOOLEAN /\ c.pend \in BOOLEAN
      /\ c.real \in BOOLEAN /\ c.ver \in Nat
  BY DEF Control
<1>2. Armed(c) \in Control /\ Armed(c).ver = c.ver + 1 /\ Armed(c).pend = c.pend
  BY <1>1 DEF Control, Armed
<1>3. Disarmed(c) \in Control /\ Disarmed(c).ver = c.ver + 1 /\ Disarmed(c).pend = TRUE
  BY <1>1 DEF Control, Disarmed
<1>4. Expired(c) \in Control /\ Expired(c).ver = c.ver + 1 /\ Expired(c).pend = TRUE
  BY <1>1 DEF Control, Expired
<1>5. Acknowledged(c) \in Control /\ Acknowledged(c).ver = c.ver + 1
  BY <1>1 DEF Control, Acknowledged
<1>6. /\ [c EXCEPT !.fresh = FALSE] \in Control
      /\ [c EXCEPT !.fresh = FALSE].ver = c.ver
      /\ [c EXCEPT !.fresh = FALSE].pend = c.pend
  BY <1>1 DEF Control
<1> QED BY <1>1, <1>2, <1>3, <1>4, <1>5, <1>6

(* save_execution keeps the record's shape and its history. *)
LEMMA SavedOrder ==
    ASSUME NEW o \in Order, NEW st \in Status, NEW id \in BOOLEAN
    PROVE  /\ Saved(o, st, id) \in Order
           /\ Saved(o, st, id).tok = o.tok /\ Saved(o, st, id).grant = o.grant
           /\ Saved(o, st, id).posted = o.posted
           /\ Saved(o, st, id).answered = (id \/ st = "rejected")
           /\ ~Saved(o, st, id).answered => Saved(o, st, id).unresolved = o.unresolved
           /\ Saved(o, st, id).st \in {o.st, st}
           /\ ~id => Saved(o, st, id).st = o.st
BY DEF Order, Saved

(* A step that moves only the control row, or only the orders.             *)
LEMMA ControlMoves ==
    ASSUME Bounded, ctl' \in Control, ctl'.ver <= MaxVersion,
           UNCHANGED <<lease, order, view, grants>>
    PROVE  Bounded'
BY DEF Bounded, MTypeOK

LEMMA OrdersMove ==
    ASSUME Bounded, order' \in [Intent -> Order], UNCHANGED <<lease, ctl, view, grants>>
    PROVE  Bounded'
BY DEF Bounded, MTypeOK

LEMMA NextVersion ==
    ASSUME Bounded, Versioned
    PROVE  ctl \in Control /\ ctl.ver + 1 <= MaxVersion
<1>1. ctl \in Control /\ ctl.ver \in Nat
  BY ControlSteps DEF Bounded, MTypeOK
<1> QED BY <1>1, MemoryGateAssumption DEF Versioned

(* Every reachable state of the store is well-typed: no step of a worker,   *)
(* an operator or the clock leaves the shapes the gate is read with.        *)
THEOREM BoundedInvariant == MSpec => []Bounded
<1>1. MInit => Bounded
  BY InitialRows, MemoryGateAssumption DEF MInit, Bounded, MTypeOK, NoOrder, Order, Status
<1>2. Bounded /\ [MNext]_mvars => Bounded'
  <2> SUFFICES ASSUME Bounded, [MNext]_mvars PROVE Bounded'
    OBVIOUS
  <2> USE MemoryGateAssumption
  <2>1. CASE UNCHANGED mvars
    BY <2>1 DEF Bounded, MTypeOK, mvars
  <2>0. /\ lease \in Lease /\ ctl \in Control /\ ctl.ver \in 0..MaxVersion
        /\ lease.token \in 0..grants /\ grants \in 0..MaxGrants
        /\ order \in [Intent -> Order]
        /\ view \in [Worker -> [token : 0..MaxGrants, ver : 0..MaxVersion, grant : 0..MaxGrants]]
    <3>1. /\ lease \in Lease /\ ctl \in Control /\ grants \in 0..MaxGrants
          /\ order \in [Intent -> Order] /\ lease.token <= grants /\ ctl.ver <= MaxVersion
          /\ view \in [Worker -> [token : 0..MaxGrants, ver : 0..MaxVersion, grant : 0..MaxGrants]]
      BY DEF Bounded, MTypeOK
    <3>2. lease.token \in Nat /\ ctl.ver \in Nat
      BY <3>1, LeaseFields, ControlSteps
    <3> QED BY <3>1, <3>2
  <2>2. ASSUME NEW w \in Worker, Claim(w) PROVE Bounded'
    <3>1. lease' = Claimed(lease, w) /\ lease' \in Lease
      BY <2>0, <2>2, ClaimedLease DEF Claim
    <3>2. lease'.token = IF lease.owner = w THEN lease.token ELSE lease.token + 1
      BY <2>0, <3>1, ClaimedLease
    <3>3. grants' = (IF lease.owner = w THEN grants ELSE grants + 1) /\ grants' <= MaxGrants
      BY <2>2 DEF Claim
    <3>4. grants' \in 0..MaxGrants /\ lease'.token \in 0..MaxGrants /\ lease'.token <= grants'
      BY <2>0, <3>2, <3>3
    <3>5. view' \in [Worker -> [token : 0..MaxGrants, ver : 0..MaxVersion, grant : 0..MaxGrants]]
      BY <2>0, <2>2, <3>4 DEF Claim
    <3> QED
      BY <2>0, <2>2, <3>1, <3>4, <3>5 DEF Claim, Bounded, MTypeOK
  <2>3. ASSUME NEW w \in Worker, Release(w) PROVE Bounded'
    BY <2>0, <2>3, InitialRows DEF Release, Bounded, MTypeOK
  <2>4. ASSUME NEW w \in Worker, ReadControl(w) PROVE Bounded'
    <3>1. view' \in [Worker -> [token : 0..MaxGrants, ver : 0..MaxVersion, grant : 0..MaxGrants]]
      BY <2>0, <2>4 DEF ReadControl
    <3> QED BY <2>4, <3>1 DEF ReadControl, Bounded, MTypeOK
  <2>5. ASSUME NEW w \in Worker, Acknowledge(w) PROVE Bounded'
    <3>1. Versioned /\ ctl' = Acknowledged(ctl) /\ UNCHANGED <<lease, order, view, grants>>
      BY <2>5 DEF Acknowledge
    <3> QED BY <3>1, NextVersion, ControlSteps, ControlMoves
  <2>6. ASSUME NEW w \in Worker, NEW i \in Intent, PrepareSigned(w, i) PROVE Bounded'
    <3>1. order' \in [Intent -> Order]
      <4>1. order[i] \in Order /\ view[w].token \in Nat /\ view[w].grant \in Nat
        BY <2>0
      <4> QED BY <2>0, <2>6, <4>1 DEF PrepareSigned, Order
    <3> QED BY <2>6, <3>1, OrdersMove DEF PrepareSigned
  <2>7. ASSUME NEW w \in Worker, NEW i \in Intent, Mark(w, i) PROVE Bounded'
    <3>1. order' \in [Intent -> Order]
      BY <2>0, <2>7 DEF Mark, Order
    <3> QED BY <2>7, <3>1, OrdersMove DEF Mark
  <2>8. ASSUME NEW i \in Intent, Answer(i) PROVE Bounded'
    <3>1. PICK id \in BOOLEAN, st \in {"submitted", "rejected", "unknown"} :
              order' = [order EXCEPT ![i] = Saved(order[i], st, id)]
      BY <2>8 DEF Answer
    <3>2. st \in Status
      BY DEF Status
    <3>3. Saved(order[i], st, id) \in Order
      BY <2>0, <3>2, SavedOrder
    <3>4. order' \in [Intent -> Order]
      BY <2>0, <3>1, <3>3
    <3> QED BY <2>8, <3>4, OrdersMove DEF Answer
  <2>9. ASSUME NEW i \in Intent, NEW st \in {"live", "matched", "cancelled"},
               ReconcileOrder(i, st) PROVE Bounded'
    <3>1. order' \in [Intent -> Order]
      BY <2>0, <2>9 DEF ReconcileOrder, Order, Status
    <3> QED BY <2>9, <3>1, OrdersMove DEF ReconcileOrder
  <2>10. CASE LeaseLapses
    BY <2>0, <2>10, LeaseFields DEF LeaseLapses, Bounded, MTypeOK
  <2>11. CASE Arm
    <3>1. Versioned /\ ctl' = Armed(ctl) /\ UNCHANGED <<lease, order, view, grants>>
      BY <2>11 DEF Arm
    <3> QED BY <3>1, NextVersion, ControlSteps, ControlMoves
  <2>12. CASE ArmLapses
    <3>1. ctl' = [ctl EXCEPT !.fresh = FALSE] /\ UNCHANGED <<lease, order, view, grants>>
      BY <2>12 DEF ArmLapses
    <3>2. ctl' \in Control /\ ctl'.ver = ctl.ver
      BY <2>0, <3>1, ControlSteps
    <3> QED BY <2>0, <3>1, <3>2, ControlMoves
  <2>13. CASE Expire
    <3>1. Versioned /\ ctl' = Expired(ctl) /\ UNCHANGED <<lease, order, view, grants>>
      BY <2>13 DEF Expire
    <3> QED BY <3>1, NextVersion, ControlSteps, ControlMoves
  <2>14. CASE Disarm
    <3>1. Versioned /\ ctl' = Disarmed(ctl) /\ UNCHANGED <<lease, order, view, grants>>
      BY <2>14 DEF Disarm
    <3> QED BY <3>1, NextVersion, ControlSteps, ControlMoves
  <2> QED
    BY <2>1, <2>2, <2>3, <2>4, <2>5, <2>6, <2>7, <2>8, <2>9, <2>10, <2>11, <2>12,
       <2>13, <2>14 DEF MNext
<1> QED BY <1>1, <1>2, PTL DEF MSpec

(* The type invariant that the runs check.                                  *)
THEOREM TypeInvariant == MSpec => []MTypeOK
<1>1. Bounded => MTypeOK
  BY DEF Bounded
<1> QED BY <1>1, BoundedInvariant, PTL

-----------------------------------------------------------------------------
(* The strengthening: the intent itself, not just some intent, is in        *)
(* unresolved_live_orders.                                                  *)
PostedIsUnresolved ==
    \A i \in Intent : order[i].posted /\ ~order[i].answered => order[i].unresolved

(* No answer, lost or late, takes a posted order out of sight: at every     *)
(* moment an order without a conclusive answer keeps the store's            *)
(* has_unresolved_live_orders true, for any number of workers and orders.   *)
THEOREM InFlightTheorem == MSpec => []InFlightIsUnresolved
<1>1. MInit => PostedIsUnresolved
  BY DEF MInit, PostedIsUnresolved, NoOrder
<1>2. Bounded /\ PostedIsUnresolved /\ [MNext]_mvars => PostedIsUnresolved'
  <2> SUFFICES ASSUME Bounded, PostedIsUnresolved, [MNext]_mvars
               PROVE  PostedIsUnresolved'
    OBVIOUS
  <2>0. order \in [Intent -> Order]
    BY DEF Bounded, MTypeOK
  <2>1. ASSUME UNCHANGED order PROVE PostedIsUnresolved'
    BY <2>1 DEF PostedIsUnresolved
  <2>2. ASSUME NEW w \in Worker, NEW i \in Intent, PrepareSigned(w, i)
        PROVE  PostedIsUnresolved'
    BY <2>0, <2>2 DEF PrepareSigned, PostedIsUnresolved, Order
  <2>3. ASSUME NEW w \in Worker, NEW i \in Intent, Mark(w, i) PROVE PostedIsUnresolved'
    BY <2>0, <2>3 DEF Mark, PostedIsUnresolved, Order
  <2>4. ASSUME NEW i \in Intent, Answer(i) PROVE PostedIsUnresolved'
    <3>1. PICK id \in BOOLEAN, st \in {"submitted", "rejected", "unknown"} :
              order' = [order EXCEPT ![i] = Saved(order[i], st, id)]
      BY <2>4 DEF Answer
    <3>2. order[i] \in Order /\ st \in Status
      BY <2>0 DEF Status
    <3>3. ~Saved(order[i], st, id).answered
              => Saved(order[i], st, id).unresolved = order[i].unresolved
      BY <3>2, SavedOrder
    <3>4. order[i].posted /\ ~order[i].answered
      BY <2>4 DEF Answer
    <3>5. order[i].unresolved
      BY <3>4 DEF PostedIsUnresolved
    <3> QED
      BY <2>0, <3>1, <3>3, <3>5 DEF PostedIsUnresolved
  <2>5. ASSUME NEW i \in Intent, NEW st \in {"live", "matched", "cancelled"},
               ReconcileOrder(i, st) PROVE PostedIsUnresolved'
    BY <2>0, <2>5 DEF ReconcileOrder, PostedIsUnresolved, Order
  <2> QED
    BY <2>1, <2>2, <2>3, <2>4, <2>5
       DEF MNext, mvars, Claim, Release, ReadControl, Acknowledge, LeaseLapses, Arm,
           ArmLapses, Expire, Disarm
<1>3. PostedIsUnresolved => InFlightIsUnresolved
  BY DEF PostedIsUnresolved, InFlightIsUnresolved, HasUnresolved
<1> QED BY <1>1, <1>2, <1>3, BoundedInvariant, PTL DEF MSpec

-----------------------------------------------------------------------------
(* Tokens count the grants: in the lease, in what a worker holds, and in    *)
(* every signed record.                                                     *)
TokensAreGrants ==
    /\ lease.token = grants
    /\ \A w \in Worker : view[w].token = view[w].grant
    /\ \A i \in Intent : order[i].tok = order[i].grant

(* As long as no lease is released, a token of an earlier grant moves no    *)
(* order to submission: the fence of the in-memory store is as strong as    *)
(* the database's, however leases lapse and change hands.                   *)
THEOREM FenceTheorem ==
    ASSUME "release" \notin Allow
    PROVE  MSpec => FencedMark
<1>1. MInit => TokensAreGrants
  BY InitialRows DEF MInit, TokensAreGrants, NoOrder
<1>2. Bounded /\ TokensAreGrants /\ [MNext]_mvars => TokensAreGrants'
  <2> SUFFICES ASSUME Bounded, TokensAreGrants, [MNext]_mvars
               PROVE  TokensAreGrants'
    OBVIOUS
  <2>0. /\ lease \in Lease /\ order \in [Intent -> Order]
        /\ view \in [Worker -> [token : 0..MaxGrants, ver : 0..MaxVersion, grant : 0..MaxGrants]]
    BY DEF Bounded, MTypeOK
  <2>1. ASSUME UNCHANGED <<lease, order, view, grants>> PROVE TokensAreGrants'
    BY <2>1 DEF TokensAreGrants
  <2>2. ASSUME NEW w \in Worker, Claim(w) PROVE TokensAreGrants'
    <3>1. lease'.token = IF lease.owner = w THEN lease.token ELSE lease.token + 1
      BY <2>0, <2>2, ClaimedLease DEF Claim
    <3>2. grants' = IF lease.owner = w THEN grants ELSE grants + 1
      BY <2>2 DEF Claim
    <3>3. lease'.token = grants'
      BY <3>1, <3>2 DEF TokensAreGrants
    <3>4. \A v \in Worker : view'[v].token = view'[v].grant
      BY <2>0, <2>2, <3>3 DEF Claim, TokensAreGrants
    <3> QED BY <2>2, <3>3, <3>4 DEF Claim, TokensAreGrants
  <2>3. ASSUME NEW w \in Worker, Release(w) PROVE TokensAreGrants'
    BY <2>3 DEF Release
  <2>4. ASSUME NEW w \in Worker, ReadControl(w) PROVE TokensAreGrants'
    BY <2>0, <2>4 DEF ReadControl, TokensAreGrants
  <2>5. ASSUME NEW w \in Worker, NEW i \in Intent, PrepareSigned(w, i)
        PROVE  TokensAreGrants'
    BY <2>0, <2>5 DEF PrepareSigned, TokensAreGrants, Order
  <2>6. ASSUME NEW w \in Worker, NEW i \in Intent, Mark(w, i) PROVE TokensAreGrants'
    BY <2>0, <2>6 DEF Mark, TokensAreGrants, Order
  <2>7. ASSUME NEW i \in Intent, Answer(i) PROVE TokensAreGrants'
    <3>1. PICK id \in BOOLEAN, st \in {"submitted", "rejected", "unknown"} :
              order' = [order EXCEPT ![i] = Saved(order[i], st, id)]
      BY <2>7 DEF Answer
    <3>2. order[i] \in Order /\ st \in Status
      BY <2>0 DEF Status
    <3>3. /\ Saved(order[i], st, id).tok = order[i].tok
          /\ Saved(order[i], st, id).grant = order[i].grant
      BY <3>2, SavedOrder
    <3> QED BY <2>0, <2>7, <3>1, <3>3 DEF Answer, TokensAreGrants
  <2>8. ASSUME NEW i \in Intent, NEW st \in {"live", "matched", "cancelled"},
               ReconcileOrder(i, st) PROVE TokensAreGrants'
    BY <2>0, <2>8 DEF ReconcileOrder, TokensAreGrants, Order
  <2>9. CASE LeaseLapses
    BY <2>0, <2>9, LeaseFields DEF LeaseLapses, TokensAreGrants
  <2> QED
    BY <2>1, <2>2, <2>3, <2>4, <2>5, <2>6, <2>7, <2>8, <2>9
       DEF MNext, mvars, Acknowledge, Arm, ArmLapses, Expire, Disarm
<1>3. Bounded /\ TokensAreGrants /\ [MNext]_mvars =>
         [\A i \in Intent : ~order[i].posted /\ order'[i].posted =>
             order[i].grant = grants /\ lease.live]_mvars
  <2> SUFFICES ASSUME Bounded, TokensAreGrants, MNext, NEW i \in Intent,
                      ~order[i].posted, order'[i].posted
               PROVE  order[i].grant = grants /\ lease.live
    BY DEF mvars
  <2>0. order \in [Intent -> Order]
    BY DEF Bounded, MTypeOK
  <2>1. order' # order
    OBVIOUS
  <2>2. ASSUME NEW w \in Worker, NEW j \in Intent, Mark(w, j)
        PROVE  order[i].grant = grants /\ lease.live
    <3>1. i = j
      BY <2>0, <2>2 DEF Mark, Order
    <3> QED BY <2>2, <3>1 DEF Mark, MarkGranted, TokensAreGrants
  <2>3. ASSUME NEW w \in Worker, NEW j \in Intent, PrepareSigned(w, j) PROVE FALSE
    BY <2>0, <2>3 DEF PrepareSigned, Order
  <2>4. ASSUME NEW j \in Intent, Answer(j) PROVE FALSE
    <3>1. PICK id \in BOOLEAN, st \in {"submitted", "rejected", "unknown"} :
              order' = [order EXCEPT ![j] = Saved(order[j], st, id)]
      BY <2>4 DEF Answer
    <3>2. order[j] \in Order /\ st \in Status
      BY <2>0 DEF Status
    <3>3. Saved(order[j], st, id).posted = order[j].posted
      BY <3>2, SavedOrder
    <3> QED BY <2>0, <3>1, <3>3
  <2>5. ASSUME NEW j \in Intent, NEW st \in {"live", "matched", "cancelled"},
               ReconcileOrder(j, st) PROVE FALSE
    BY <2>0, <2>5 DEF ReconcileOrder, Order
  <2> QED
    BY <2>1, <2>2, <2>3, <2>4, <2>5
       DEF MNext, Claim, Release, ReadControl, Acknowledge, LeaseLapses, Arm,
           ArmLapses, Expire, Disarm
<1> QED BY <1>1, <1>2, <1>3, BoundedInvariant, PTL DEF MSpec, FencedMark

-----------------------------------------------------------------------------
NoneUnknown == \A i \in Intent : order[i].st # "unknown"

(* Where an ambiguous answer carries no order id, the cancellation is       *)
(* acknowledged only when the store reports no unresolved order at all.     *)
THEOREM AcknowledgementTheorem ==
    ASSUME "errorWithId" \notin Allow
    PROVE  MSpec => AckMeansQuiet
<1>1. MInit => NoneUnknown
  BY DEF MInit, NoneUnknown, NoOrder
<1>2. Bounded /\ NoneUnknown /\ [MNext]_mvars => NoneUnknown'
  <2> SUFFICES ASSUME Bounded, NoneUnknown, [MNext]_mvars PROVE NoneUnknown'
    OBVIOUS
  <2>0. order \in [Intent -> Order]
    BY DEF Bounded, MTypeOK
  <2>1. ASSUME UNCHANGED order PROVE NoneUnknown'
    BY <2>1 DEF NoneUnknown
  <2>2. ASSUME NEW w \in Worker, NEW i \in Intent, PrepareSigned(w, i) PROVE NoneUnknown'
    BY <2>0, <2>2 DEF PrepareSigned, NoneUnknown, Order
  <2>3. ASSUME NEW w \in Worker, NEW i \in Intent, Mark(w, i) PROVE NoneUnknown'
    BY <2>0, <2>3 DEF Mark, NoneUnknown, Order
  <2>4. ASSUME NEW i \in Intent, Answer(i) PROVE NoneUnknown'
    <3>1. PICK id \in BOOLEAN, st \in {"submitted", "rejected", "unknown"} :
              /\ st = "unknown" /\ id => "errorWithId" \in Allow
              /\ order' = [order EXCEPT ![i] = Saved(order[i], st, id)]
      BY <2>4 DEF Answer
    <3>2. order[i] \in Order /\ st \in Status
      BY <2>0 DEF Status
    <3>3. /\ Saved(order[i], st, id).st \in {order[i].st, st}
          /\ ~id => Saved(order[i], st, id).st = order[i].st
      BY <3>2, SavedOrder
    <3>4. Saved(order[i], st, id).st # "unknown"
      BY <3>1, <3>3 DEF NoneUnknown
    <3> QED BY <2>0, <3>1, <3>4 DEF NoneUnknown
  <2>5. ASSUME NEW i \in Intent, NEW st \in {"live", "matched", "cancelled"},
               ReconcileOrder(i, st) PROVE NoneUnknown'
    BY <2>0, <2>5 DEF ReconcileOrder, NoneUnknown, Order
  <2> QED
    BY <2>1, <2>2, <2>3, <2>4, <2>5
       DEF MNext, mvars, Claim, Release, ReadControl, Acknowledge, LeaseLapses, Arm,
           ArmLapses, Expire, Disarm
<1>3. Bounded /\ NoneUnknown /\ [MNext]_mvars =>
         [ctl.pend /\ ~ctl'.pend => ~HasUnresolved]_mvars
  <2> SUFFICES ASSUME Bounded, NoneUnknown, MNext, ctl.pend, ~ctl'.pend
               PROVE  ~HasUnresolved
    BY DEF mvars
  <2>0. ctl \in Control
    BY DEF Bounded, MTypeOK
  <2>1. ASSUME NEW w \in Worker, Acknowledge(w) PROVE ~HasUnresolved
    BY <2>1 DEF Acknowledge, AckGranted, HasUnresolved, NoneUnknown
  <2>2. ~Arm /\ ~ArmLapses /\ ~Expire /\ ~Disarm
    BY <2>0, ControlSteps DEF Arm, ArmLapses, Expire, Disarm
  <2>3. ctl' # ctl
    OBVIOUS
  <2> QED
    BY <2>1, <2>2, <2>3
       DEF MNext, Claim, Release, ReadControl, PrepareSigned, Mark, Answer,
           ReconcileOrder, LeaseLapses
<1> QED BY <1>1, <1>2, <1>3, BoundedInvariant, PTL DEF MSpec, AckMeansQuiet

-----------------------------------------------------------------------------
(* The paper account                                                          *)
-----------------------------------------------------------------------------
(* The shape of an account and of a worker process: a record is the one its  *)
(* fields make up.                                                           *)
IsAccount(a) ==
    /\ a = [cash |-> a.cash, pos |-> a.pos, cost |-> a.cost, event |-> a.event,
            pnl |-> a.pnl, peak |-> a.peak, start |-> a.start, day |-> a.day,
            history |-> a.history]
    /\ a.history \in Seq(Nat)

IsDesk(r) ==
    r = [up |-> r.up, phase |-> r.phase, token |-> r.token, fence |-> r.fence,
         held |-> r.held, mem |-> r.mem, fresh |-> r.fresh]

(* What a cycle must start from: the trades saved, and the money and the      *)
(* positions with them.                                                       *)
SameAccount(a, b) == a.history = b.history /\ a.cash = b.cash /\ a.pos = b.pos

LEMMA PortfolioSame ==
    ASSUME NEW a, IsAccount(a)
    PROVE  IsAccount(Portfolio(a)) /\ SameAccount(Portfolio(a), a)
<1> DEFINE b == IF today > a.day
                THEN [a EXCEPT !.day = today, !.start = Equity(a), !.pnl = 0] ELSE a
<1>1. IsAccount(b) /\ SameAccount(b, a)
  <2>1. CASE b = a
    BY <2>1 DEF SameAccount
  <2>2. CASE b = [a EXCEPT !.day = today, !.start = Equity(a), !.pnl = 0]
    <3> DEFINE q == Equity(a)
    <3> HIDE DEF q, b
    <3>1. b = [a EXCEPT !.day = today, !.start = q, !.pnl = 0]
      BY <2>2 DEF q
    <3> QED BY <3>1 DEF IsAccount, SameAccount
  <2> QED BY <2>1, <2>2
<1> DEFINE q == IF b.peak < Equity(b) THEN Equity(b) ELSE b.peak
<1>2. Portfolio(a) = [b EXCEPT !.peak = q]
  BY DEF Portfolio
<1> HIDE DEF b, q
<1>3. ASSUME NEW c, c = [b EXCEPT !.peak = q] PROVE IsAccount(c) /\ SameAccount(c, b)
  BY <1>1, <1>3 DEF IsAccount, SameAccount
<1> QED BY <1>1, <1>2, <1>3 DEF SameAccount

LEMMA RecordedHistory ==
    ASSUME NEW a, IsAccount(a), NEW id \in Nat
    PROVE  /\ IsAccount(Recorded(a, id))
           /\ Recorded(a, id).history = Append(a.history, id)
<1>1. Append(a.history, id) \in Seq(Nat)
  BY DEF IsAccount
<1> DEFINE h == Append(a.history, id)
<1>2. Recorded(a, id) = [a EXCEPT !.history = h]
  BY DEF Recorded
<1> HIDE DEF h
<1>3. h \in Seq(Nat)
  BY <1>1 DEF h
<1>4. IsAccount([a EXCEPT !.history = h]) /\ [a EXCEPT !.history = h].history = h
  BY <1>3 DEF IsAccount
<1> QED BY <1>2, <1>4 DEF h

(* A trade adds itself to the history, filled or refused. *)
LEMMA BoughtRecorded ==
    ASSUME NEW a, IsAccount(a), NEW id \in Nat, NEW t, NEW n, NEW c
    PROVE  /\ IsAccount(Bought(a, id, t, n, c))
           /\ Bought(a, id, t, n, c).history = Append(a.history, id)
<1> DEFINE r == Recorded(a, id)
           b == Bought(a, id, t, n, c)
           x == n * c
<1>1. IsAccount(r) /\ r.history = Append(a.history, id)
  BY RecordedHistory
<1>2. \/ b = r
      \/ b = [r EXCEPT !.cash = @ - x, !.pos[t] = @ + n, !.cost[t] = @ + x,
                       !.event[EventOf[t]] = @ + x]
  BY DEF Bought
<1> HIDE DEF r, b, x
<1>3. CASE b = [r EXCEPT !.cash = @ - x, !.pos[t] = @ + n, !.cost[t] = @ + x,
                         !.event[EventOf[t]] = @ + x]
  <2>1. IsAccount(b) /\ b.history = r.history
    BY <1>1, <1>3 DEF IsAccount
  <2> QED BY <1>1, <2>1 DEF b
<1>4. CASE b = r
  BY <1>1, <1>4 DEF b
<1> QED BY <1>2, <1>3, <1>4

LEMMA SoldRecorded ==
    ASSUME NEW a, IsAccount(a), NEW id \in Nat, NEW t, NEW size, NEW n, NEW c
    PROVE  /\ IsAccount(Sold(a, id, t, size, n, c))
           /\ Sold(a, id, t, size, n, c).history = Append(a.history, id)
<1> DEFINE r == Recorded(a, id)
           b == Sold(a, id, t, size, n, c)
           x == n * c
           basis == (a.cost[t] * n) \div a.pos[t]
<1>1. IsAccount(r) /\ r.history = Append(a.history, id)
  BY RecordedHistory
<1>2. \/ b = r
      \/ b = [r EXCEPT !.cash = @ + x, !.pnl = @ + x - basis, !.pos[t] = @ - n,
                       !.cost[t] = @ - basis, !.event[EventOf[t]] = @ - basis]
  BY DEF Sold
<1> HIDE DEF r, b, x, basis
<1>3. CASE b = [r EXCEPT !.cash = @ + x, !.pnl = @ + x - basis, !.pos[t] = @ - n,
                         !.cost[t] = @ - basis, !.event[EventOf[t]] = @ - basis]
  <2>1. IsAccount(b) /\ b.history = r.history
    BY <1>1, <1>3 DEF IsAccount
  <2> QED BY <1>1, <2>1 DEF b
<1>4. CASE b = r
  BY <1>1, <1>4 DEF b
<1> QED BY <1>2, <1>3, <1>4

(* Saving and loading leave the history, the money and the positions alone. *)
LEMMA SavedSame ==
    ASSUME NEW a, IsAccount(a)
    PROVE  /\ IsAccount(Exported(a)) /\ SameAccount(Exported(a), a)
           /\ IsAccount(Restored(a)) /\ SameAccount(Restored(a), a)
<1>1. ASSUME NEW x, NEW b, b = [a EXCEPT !.cost = x] PROVE IsAccount(b) /\ SameAccount(b, a)
  BY <1>1 DEF IsAccount, SameAccount
<1>2. ASSUME NEW x, NEW b, b = [a EXCEPT !.event = x] PROVE IsAccount(b) /\ SameAccount(b, a)
  BY <1>2 DEF IsAccount, SameAccount
<1>3. IsAccount(Exported(a)) /\ SameAccount(Exported(a), a)
  BY <1>1 DEF Exported
<1>4. IsAccount(Restored(a)) /\ SameAccount(Restored(a), a)
  BY <1>2 DEF Restored
<1> QED BY <1>3, <1>4

LEMMA FreshIs ==
    IsAccount(Fresh) /\ Fresh.history = << >>
<1>1. << >> \in Seq(Nat)
  OBVIOUS
<1> DEFINE p == [t \in Tokens |-> 0]
           e == [v \in Events |-> 0]
           h == << >>
<1>2. Fresh = [cash |-> Bankroll, pos |-> p, cost |-> p, event |-> e, pnl |-> 0,
               peak |-> Bankroll, start |-> Bankroll, day |-> today, history |-> h]
  BY DEF Fresh
<1> HIDE DEF p, e, h
<1>3. Fresh.history = h /\ IsAccount(Fresh)
  BY <1>1, <1>2 DEF IsAccount, h
<1> QED BY <1>3 DEF h

-----------------------------------------------------------------------------
(* The worker processes: a step changes some fields of one of them. *)
AreDesks(d) == d = [x \in Worker |-> d[x]] /\ \A w \in Worker : IsDesk(d[w])

OnlyDesk(d, w, r, e) == e = [d EXCEPT ![w] = r]

LEMMA OneDesk ==
    ASSUME NEW d, AreDesks(d), NEW w \in Worker, NEW r, IsDesk(r),
           NEW e, OnlyDesk(d, w, r, e)
    PROVE  /\ AreDesks(e) /\ e[w] = r
           /\ \A x \in Worker \ {w} : e[x] = d[x]
<1>1. e = [x \in Worker |-> IF x = w THEN r ELSE d[x]]
  BY DEF AreDesks, OnlyDesk
<1>2. e[w] = r /\ \A x \in Worker \ {w} : e[x] = d[x]
  BY <1>1
<1>3. e = [x \in Worker |-> e[x]]
  BY <1>1
<1> QED BY <1>2, <1>3 DEF AreDesks

(* The fields of a process. *)
DeskIs(s, phase, token, fence, held, mem, fresh) ==
    /\ IsDesk(s) /\ s.phase = phase /\ s.token = token /\ s.fence = fence
    /\ s.held = held /\ s.mem = mem /\ s.fresh = fresh

LEMMA TokenSet ==
    ASSUME NEW d, AreDesks(d), NEW w \in Worker, NEW t, NEW e,
           e = [d EXCEPT ![w].token = t]
    PROVE  \E s : /\ OnlyDesk(d, w, s, e)
                  /\ LET r == d[w] IN DeskIs(s, r.phase, t, r.fence, r.held, r.mem, r.fresh)
<1> DEFINE s == [d[w] EXCEPT !.token = t]
<1>1. OnlyDesk(d, w, s, e)
  BY DEF AreDesks, OnlyDesk
<1>2. IsDesk(d[w])
  BY DEF AreDesks
<1>3. ASSUME NEW r, IsDesk(r), NEW u, u = [r EXCEPT !.token = t]
      PROVE  DeskIs(u, r.phase, t, r.fence, r.held, r.mem, r.fresh)
  BY <1>3 DEF IsDesk, DeskIs
<1> QED BY <1>1, <1>2, <1>3

LEMMA MemSet ==
    ASSUME NEW d, AreDesks(d), NEW w \in Worker, NEW m, NEW e,
           e = [d EXCEPT ![w].mem = m]
    PROVE  \E s : /\ OnlyDesk(d, w, s, e)
                  /\ LET r == d[w] IN DeskIs(s, r.phase, r.token, r.fence, r.held, m, r.fresh)
<1> DEFINE s == [d[w] EXCEPT !.mem = m]
<1>1. OnlyDesk(d, w, s, e)
  BY DEF AreDesks, OnlyDesk
<1>2. IsDesk(d[w])
  BY DEF AreDesks
<1>3. ASSUME NEW r, IsDesk(r), NEW u, u = [r EXCEPT !.mem = m]
      PROVE  DeskIs(u, r.phase, r.token, r.fence, r.held, m, r.fresh)
  BY <1>3 DEF IsDesk, DeskIs
<1> QED BY <1>1, <1>2, <1>3

LEMMA TradeSet ==
    ASSUME NEW d, AreDesks(d), NEW w \in Worker, NEW m, NEW f, NEW e,
           e = [d EXCEPT ![w].mem = m, ![w].fresh = f]
    PROVE  \E s : /\ OnlyDesk(d, w, s, e)
                  /\ LET r == d[w] IN DeskIs(s, r.phase, r.token, r.fence, r.held, m, f)
<1> DEFINE s == [d[w] EXCEPT !.mem = m, !.fresh = f]
<1>1. OnlyDesk(d, w, s, e)
  BY DEF AreDesks, OnlyDesk
<1>2. IsDesk(d[w])
  BY DEF AreDesks
<1>3. ASSUME NEW r, IsDesk(r), NEW u, u = [r EXCEPT !.mem = m, !.fresh = f]
      PROVE  DeskIs(u, r.phase, r.token, r.fence, r.held, m, f)
  BY <1>3 DEF IsDesk, DeskIs
<1> QED BY <1>1, <1>2, <1>3

LEMMA EndSet ==
    ASSUME NEW d, AreDesks(d), NEW w \in Worker, NEW e,
           e = [d EXCEPT ![w].phase = "idle", ![w].fence = 0]
    PROVE  \E s : /\ OnlyDesk(d, w, s, e)
                  /\ LET r == d[w] IN DeskIs(s, "idle", r.token, 0, r.held, r.mem, r.fresh)
<1> DEFINE s == [d[w] EXCEPT !.phase = "idle", !.fence = 0]
<1>1. OnlyDesk(d, w, s, e)
  BY DEF AreDesks, OnlyDesk
<1>2. IsDesk(d[w])
  BY DEF AreDesks
<1>3. ASSUME NEW r, IsDesk(r), NEW u, u = [r EXCEPT !.phase = "idle", !.fence = 0]
      PROVE  DeskIs(u, "idle", r.token, 0, r.held, r.mem, r.fresh)
  BY <1>3 DEF IsDesk, DeskIs
<1> QED BY <1>1, <1>2, <1>3

LEMMA DropSet ==
    ASSUME NEW d, AreDesks(d), NEW w \in Worker, NEW e,
           e = [d EXCEPT ![w].phase = "idle", ![w].fence = 0, ![w].held = 0]
    PROVE  \E s : /\ OnlyDesk(d, w, s, e)
                  /\ LET r == d[w] IN DeskIs(s, "idle", r.token, 0, 0, r.mem, r.fresh)
<1> DEFINE s == [d[w] EXCEPT !.phase = "idle", !.fence = 0, !.held = 0]
<1>1. OnlyDesk(d, w, s, e)
  BY DEF AreDesks, OnlyDesk
<1>2. IsDesk(d[w])
  BY DEF AreDesks
<1>3. ASSUME NEW r, IsDesk(r), NEW u, u = [r EXCEPT !.phase = "idle", !.fence = 0, !.held = 0]
      PROVE  DeskIs(u, "idle", r.token, 0, 0, r.mem, r.fresh)
  BY <1>3 DEF IsDesk, DeskIs
<1> QED BY <1>1, <1>2, <1>3

LEMMA HeldSet ==
    ASSUME NEW d, AreDesks(d), NEW w \in Worker, NEW e,
           e = [d EXCEPT ![w].held = 0]
    PROVE  \E s : /\ OnlyDesk(d, w, s, e)
                  /\ LET r == d[w] IN DeskIs(s, r.phase, r.token, r.fence, 0, r.mem, r.fresh)
<1> DEFINE s == [d[w] EXCEPT !.held = 0]
<1>1. OnlyDesk(d, w, s, e)
  BY DEF AreDesks, OnlyDesk
<1>2. IsDesk(d[w])
  BY DEF AreDesks
<1>3. ASSUME NEW r, IsDesk(r), NEW u, u = [r EXCEPT !.held = 0]
      PROVE  DeskIs(u, r.phase, r.token, r.fence, 0, r.mem, r.fresh)
  BY <1>3 DEF IsDesk, DeskIs
<1> QED BY <1>1, <1>2, <1>3

-----------------------------------------------------------------------------
(* The invariant.  A worker whose lease still bears the token it restored    *)
(* under holds the account that was saved; in a cycle it holds that account   *)
(* and its own trades since.  No worker knows a token not yet issued, so a    *)
(* lease that was lost stays lost.                                            *)
Agrees(m, d) ==
    /\ m.history = d.history
    /\ d # Nothing => m.cash = d.cash /\ m.pos = d.pos

KnownToken(t, l) == t \in Nat /\ t <= l.token

DeskOK(w, r, l, d) ==
    /\ IsAccount(r.mem)
    /\ KnownToken(r.token, l) /\ KnownToken(r.held, l) /\ KnownToken(r.fence, l)
    /\ r.phase = "idle" /\ r.held # 0 /\ LeaseValid(l, w, r.held) => Agrees(r.mem, d)
    /\ r.phase = "cycle" /\ LeaseValid(l, w, r.fence) =>
          /\ r.held = r.fence
          /\ IsPrefix(d.history, r.mem.history)
          /\ r.fresh => Agrees(r.mem, d)

SavedOK(d) == d = Nothing \/ IsAccount(d)

PaperInv ==
    /\ holder \in Lease /\ SavedOK(durable) /\ reserved \in Nat /\ AreDesks(desk)
    /\ \A w \in Worker : DeskOK(w, desk[w], holder, durable)

LEMMA PrefixFacts ==
    ASSUME NEW s \in Seq(Nat), NEW t \in Seq(Nat), NEW x \in Nat
    PROVE  /\ IsPrefix(s, s)
           /\ IsPrefix(s, t) => IsPrefix(s, Append(t, x))
<1>1. /\ Len(s) \in Nat /\ Len(t) \in Nat /\ Append(t, x) \in Seq(Nat)
      /\ Len(Append(t, x)) = Len(t) + 1
      /\ \A i \in 1..Len(t) : Append(t, x)[i] = t[i]
  OBVIOUS
<1>2. ASSUME IsPrefix(s, t) PROVE IsPrefix(s, Append(t, x))
  <2>1. Len(s) <= Len(t) /\ SubSeq(s, 1, Len(s)) = SubSeq(t, 1, Len(s))
    BY <1>2 DEF IsPrefix
  <2>2. SubSeq(t, 1, Len(s)) = SubSeq(Append(t, x), 1, Len(s))
    BY <1>1, <2>1
  <2> QED BY <1>1, <2>1, <2>2 DEF IsPrefix
<1> QED BY <1>1, <1>2 DEF IsPrefix

LEMMA SavedHistory ==
    ASSUME NEW d, SavedOK(d)
    PROVE  d.history \in Seq(Nat)
<1>1. << >> \in Seq(Nat)
  OBVIOUS
<1>2. CASE d = Nothing
  <2> DEFINE h == << >>
  <2>1. d = [history |-> h]
    BY <1>2 DEF Nothing
  <2>2. h \in Seq(Nat)
    BY <1>1
  <2> HIDE DEF h
  <2> QED BY <2>1, <2>2
<1>3. CASE IsAccount(d)
  BY <1>3 DEF IsAccount
<1> QED BY <1>2, <1>3 DEF SavedOK

(* Agreement makes the saved trades a prefix, and survives what changes only  *)
(* the risk day and the peak.                                                 *)
LEMMA AgreesPrefix ==
    ASSUME NEW d, SavedOK(d), NEW m, Agrees(m, d)
    PROVE  IsPrefix(d.history, m.history)
BY SavedHistory, PrefixFacts, 0 \in Nat DEF Agrees

LEMMA AgreesSame ==
    ASSUME NEW d, NEW m, Agrees(m, d), NEW n, SameAccount(n, m)
    PROVE  Agrees(n, d)
BY DEF Agrees, SameAccount

-----------------------------------------------------------------------------
(* Steps *)

(* What is known of a worker is kept while no lost lease becomes valid again. *)
LEMMA LeaseMoves ==
    ASSUME NEW w, NEW r, NEW l, NEW d, DeskOK(w, r, l, d), l \in Lease,
           NEW k, k \in Lease, l.token <= k.token,
           \A t : KnownToken(t, l) /\ LeaseValid(k, w, t) => LeaseValid(l, w, t)
    PROVE  DeskOK(w, r, k, d)
<1>1. l.token \in Nat /\ k.token \in Nat
  BY DEF Lease
<1>2. \A t : KnownToken(t, l) => KnownToken(t, k)
  BY <1>1 DEF KnownToken
<1> QED BY <1>2 DEF DeskOK

(* Nor by the save of another worker, who holds the lease. *)
LEMMA OtherSaves ==
    ASSUME NEW w, NEW r, NEW l, NEW d, DeskOK(w, r, l, d), NEW e,
           NEW x, x # w, NEW t, LeaseValid(l, x, t)
    PROVE  DeskOK(w, r, l, e)
BY DEF DeskOK, LeaseValid

LEMMA OneMoves ==
    ASSUME PaperInv, NEW w \in Worker, NEW s, IsDesk(s), OnlyDesk(desk, w, s, desk'),
           holder' = holder, reserved' \in Nat, SavedOK(durable'),
           durable' = durable \/ \E t : LeaseValid(holder, w, t),
           DeskOK(w, s, holder, durable')
    PROVE  PaperInv'
<1>1. AreDesks(desk') /\ desk'[w] = s /\ \A x \in Worker \ {w} : desk'[x] = desk[x]
  <2>1. AreDesks(desk)
    BY DEF PaperInv
  <2> QED BY <2>1, OneDesk
<1>2. ASSUME NEW x \in Worker, x # w PROVE DeskOK(x, desk[x], holder, durable')
  <2>1. DeskOK(x, desk[x], holder, durable)
    BY DEF PaperInv
  <2>2. CASE \E t : LeaseValid(holder, w, t)
    BY <1>2, <2>1, <2>2, OtherSaves
  <2> QED BY <2>1, <2>2
<1>3. \A x \in Worker : DeskOK(x, desk'[x], holder', durable')
  <2>1. ASSUME NEW x \in Worker PROVE DeskOK(x, desk'[x], holder', durable')
    <3>1. CASE x = w
      BY <1>1, <3>1
    <3>2. CASE x # w
      <4>1. desk'[x] = desk[x]
        BY <1>1, <3>2
      <4> QED BY <1>2, <3>2, <4>1
    <3> QED BY <3>1, <3>2
  <2> QED BY <2>1
<1> QED BY <1>1, <1>3 DEF PaperInv

LEMMA ClaimKept ==
    ASSUME Renewal = FALSE, PaperInv, NEW w \in Worker, DeskClaims(w)
    PROVE  PaperInv'
<1>1. holder \in Lease /\ AreDesks(desk) /\ IsDesk(desk[w]) /\ DeskOK(w, desk[w], holder, durable)
  BY DEF PaperInv, AreDesks
<1> DEFINE n == Claimed(holder, w)
<1>2. /\ n \in Lease /\ n.owner = w /\ n.live = TRUE
      /\ n.token = IF holder.owner = w THEN holder.token ELSE holder.token + 1
  BY <1>1 DEF Lease, Claimed
<1>3. holder' = n /\ durable' = durable /\ reserved' = reserved
  BY DEF DeskClaims
<1>4. holder.owner = w => holder.live = TRUE
  BY <1>1 DEF DeskClaims, Lease
<1> HIDE DEF n
<1>5. holder.token \in Nat /\ holder.token <= n.token /\ n.token \in Nat
  BY <1>1, <1>2 DEF Lease
<1>6. ASSUME NEW x \in Worker, NEW t, KnownToken(t, holder), LeaseValid(n, x, t)
      PROVE  LeaseValid(holder, x, t)
  BY <1>2, <1>4, <1>5, <1>6 DEF KnownToken, LeaseValid
<1>7. ASSUME NEW x \in Worker PROVE DeskOK(x, desk[x], n, durable)
  <2>1. DeskOK(x, desk[x], holder, durable)
    BY DEF PaperInv
  <2> QED BY <1>1, <1>2, <1>5, <1>6, <2>1, LeaseMoves
<1>8. PICK s : /\ OnlyDesk(desk, w, s, desk')
               /\ LET r == desk[w]
                  IN  DeskIs(s, r.phase, n.token, r.fence, r.held, r.mem, r.fresh)
  <2>1. desk' = [desk EXCEPT ![w].token = n.token]
    BY DEF DeskClaims, n
  <2> QED BY <1>1, <2>1, TokenSet
<1>9. DeskOK(w, s, n, durable)
  <2>1. DeskOK(w, desk[w], n, durable)
    BY <1>7
  <2> QED BY <1>5, <1>8, <2>1 DEF DeskOK, DeskIs, KnownToken
<1>10. AreDesks(desk') /\ desk'[w] = s /\ \A x \in Worker \ {w} : desk'[x] = desk[x]
  <2>1. AreDesks(desk) /\ IsDesk(s) /\ OnlyDesk(desk, w, s, desk')
    BY <1>1, <1>8 DEF DeskIs
  <2> QED BY <2>1, OneDesk
<1>11. \A x \in Worker : DeskOK(x, desk'[x], n, durable)
  BY <1>7, <1>9, <1>10
<1> QED BY <1>1, <1>2, <1>3, <1>10, <1>11 DEF PaperInv

(* A worker that only loses its token, or its account, knows less. *)
LEMMA ForgetKept ==
    ASSUME PaperInv, NEW w \in Worker,
           \/ DeskLosesLease(w) \/ HeartbeatFails(w) \/ LeavePaper(w)
    PROVE  PaperInv'
<1> DEFINE r == desk[w]
<1>1. AreDesks(desk) /\ DeskOK(w, desk[w], holder, durable) /\ holder.token \in Nat
  BY DEF PaperInv, Lease
<1>2. holder' = holder /\ durable' = durable /\ reserved' = reserved
  BY DEF DeskLosesLease, HeartbeatFails, LeavePaper
<1>3. ASSUME NEW s, OnlyDesk(desk, w, s, desk'),
             \/ DeskIs(s, r.phase, 0, r.fence, r.held, r.mem, r.fresh)
             \/ r.phase = "idle" /\ DeskIs(s, r.phase, r.token, r.fence, 0, r.mem, r.fresh)
      PROVE  PaperInv'
  <2>1. DeskOK(w, s, holder, durable)
    BY <1>1, <1>3 DEF DeskOK, DeskIs, KnownToken
  <2>2. IsDesk(s) /\ reserved \in Nat /\ SavedOK(durable)
    BY <1>3 DEF DeskIs, PaperInv
  <2> QED BY <1>2, <1>3, <2>1, <2>2, OneMoves
<1>4. CASE DeskLosesLease(w) \/ HeartbeatFails(w)
  <2>1. desk' = [desk EXCEPT ![w].token = 0]
    BY <1>4 DEF DeskLosesLease, HeartbeatFails
  <2>2. PICK s : /\ OnlyDesk(desk, w, s, desk')
                 /\ DeskIs(s, r.phase, 0, r.fence, r.held, r.mem, r.fresh)
    BY <1>1, <2>1, TokenSet
  <2> HIDE DEF r
  <2> QED BY <1>3, <2>2
<1>5. CASE LeavePaper(w)
  <2>1. desk' = [desk EXCEPT ![w].held = 0] /\ desk[w].phase = "idle"
    BY <1>5 DEF LeavePaper
  <2> QED BY <1>1, <1>3, <2>1, HeldSet
<1> QED BY <1>4, <1>5

LEMMA StartedIs ==
    DeskIs(Started, "idle", 0, 0, 0, Fresh, TRUE)
<1>1. ASSUME NEW m, NEW r, r = [up |-> TRUE, phase |-> "idle", token |-> 0, fence |-> 0,
                                held |-> 0, mem |-> m, fresh |-> TRUE]
      PROVE  DeskIs(r, "idle", 0, 0, 0, m, TRUE)
  BY <1>1 DEF DeskIs, IsDesk
<1> DEFINE m == Fresh
<1>2. Started = [up |-> TRUE, phase |-> "idle", token |-> 0, fence |-> 0, held |-> 0,
                 mem |-> m, fresh |-> TRUE]
  BY DEF Started
<1> HIDE DEF m
<1> QED BY <1>1, <1>2 DEF m

LEMMA CrashKept ==
    ASSUME PaperInv, NEW w \in Worker, DeskCrashes(w)
    PROVE  PaperInv'
<1>1. holder.token \in Nat
  BY DEF PaperInv, Lease
<1>2. /\ holder' = holder /\ durable' = durable /\ reserved' = reserved
      /\ OnlyDesk(desk, w, [Started EXCEPT !.up = FALSE], desk')
  BY DEF DeskCrashes, OnlyDesk
<1>3. PICK s : OnlyDesk(desk, w, s, desk') /\ DeskIs(s, "idle", 0, 0, 0, Fresh, TRUE)
  <2> DEFINE s == [Started EXCEPT !.up = FALSE]
  <2>1. DeskIs(s, "idle", 0, 0, 0, Fresh, TRUE)
    <3>1. ASSUME NEW r, IsDesk(r), NEW u, u = [r EXCEPT !.up = FALSE]
          PROVE  DeskIs(u, r.phase, r.token, r.fence, r.held, r.mem, r.fresh)
      BY <3>1 DEF DeskIs, IsDesk
    <3>2. DeskIs(s, Started.phase, Started.token, Started.fence, Started.held, Started.mem,
                 Started.fresh)
      BY <3>1, StartedIs DEF DeskIs
    <3> HIDE DEF s
    <3> QED BY <3>2, StartedIs DEF DeskIs
  <2>2. OnlyDesk(desk, w, s, desk')
    BY <1>2
  <2> HIDE DEF s
  <2> QED BY <2>1, <2>2
<1>4. DeskOK(w, s, holder, durable)
  BY <1>1, <1>3, FreshIs DEF DeskOK, DeskIs, KnownToken
<1>5. IsDesk(s) /\ reserved \in Nat /\ SavedOK(durable)
  BY <1>3 DEF DeskIs, PaperInv
<1> QED BY <1>2, <1>3, <1>4, <1>5, OneMoves

(* A cycle reloads what was saved, or goes on with an account that agrees     *)
(* with it.                                                                   *)
LEMMA StartKept ==
    ASSUME PaperInv, NEW w \in Worker, DeskStartsCycle(w)
    PROVE  PaperInv'
<1> DEFINE r == Restore(w)
           m == Portfolio(r.mem)
           t == desk[w].token
<1>1. /\ AreDesks(desk) /\ IsDesk(desk[w]) /\ DeskOK(w, desk[w], holder, durable)
      /\ holder.token \in Nat /\ SavedOK(durable) /\ reserved \in Nat
  BY DEF PaperInv, Lease, AreDesks
<1>2. /\ holder' = holder /\ durable' = durable /\ reserved' = reserved
      /\ desk[w].phase = "idle" /\ t # 0
      /\ OnlyDesk(desk, w, [r EXCEPT !.phase = "cycle", !.fence = t, !.mem = m, !.fresh = TRUE],
                  desk')
  BY DEF DeskStartsCycle, OnlyDesk
<1>3. /\ IsDesk(r) /\ r.token = t /\ r.held = t
      /\ IsAccount(r.mem)
      /\ LeaseValid(holder, w, t) => Agrees(r.mem, durable)
  <2>1. CASE desk[w].held = t
    <3>1. r = desk[w]
      BY <2>1 DEF Restore
    <3> HIDE DEF r
    <3> QED BY <1>1, <1>2, <2>1, <3>1 DEF DeskOK
  <2>2. CASE desk[w].held # t
    <3> DEFINE x == IF Load(w) = Nothing THEN Fresh ELSE Restored(Load(w))
    <3>1. r = [desk[w] EXCEPT !.mem = x, !.held = t]
      BY <2>2 DEF Restore
    <3>2. IsAccount(x) /\ (LeaseValid(holder, w, t) => Agrees(x, durable))
      <4>1. CASE Load(w) = Nothing
        <5>1. x = Fresh
          BY <4>1
        <5>2. LeaseValid(holder, w, t) => durable = Nothing
          BY <4>1 DEF Load
        <5>3. durable = Nothing => durable.history = << >>
          BY DEF Nothing
        <5> HIDE DEF x, t
        <5> QED BY <5>1, <5>2, <5>3, FreshIs DEF Agrees
      <4>2. CASE Load(w) # Nothing
        <5>1. Load(w) = durable /\ IsAccount(durable) /\ x = Restored(durable)
          BY <1>1, <4>2 DEF Load, SavedOK
        <5> HIDE DEF x, t
        <5> QED BY <5>1, SavedSame DEF Agrees, SameAccount
      <4> QED BY <4>1, <4>2
    <3> HIDE DEF x, r
    <3>3. ASSUME NEW a, IsDesk(a), NEW b, b = [a EXCEPT !.mem = x, !.held = t]
          PROVE  IsDesk(b) /\ b.token = a.token /\ b.mem = x /\ b.held = t
      BY <3>3 DEF IsDesk
    <3>4. IsDesk(r) /\ r.token = t /\ r.mem = x /\ r.held = t
      BY <1>1, <3>1, <3>3
    <3> QED BY <3>2, <3>4
  <2> QED BY <2>1, <2>2
<1> HIDE DEF r
<1>4. IsAccount(m) /\ SameAccount(m, r.mem)
  BY <1>3, PortfolioSame
<1> HIDE DEF m, t
<1>5. PICK s : OnlyDesk(desk, w, s, desk') /\ DeskIs(s, "cycle", t, t, t, m, TRUE)
  <2>1. ASSUME NEW b, b = [r EXCEPT !.phase = "cycle", !.fence = t, !.mem = m, !.fresh = TRUE]
        PROVE  DeskIs(b, "cycle", r.token, t, r.held, m, TRUE)
    BY <1>3, <2>1 DEF IsDesk, DeskIs
  <2> DEFINE b == [r EXCEPT !.phase = "cycle", !.fence = t, !.mem = m, !.fresh = TRUE]
  <2>2. OnlyDesk(desk, w, b, desk')
    BY <1>2
  <2>3. DeskIs(b, "cycle", r.token, t, r.held, m, TRUE)
    BY <2>1
  <2> HIDE DEF b
  <2> QED BY <1>3, <2>2, <2>3
<1>6. LeaseValid(holder, w, t) => Agrees(m, durable) /\ IsPrefix(durable.history, m.history)
  BY <1>1, <1>3, <1>4, AgreesSame, AgreesPrefix
<1>7. KnownToken(t, holder)
  BY <1>1 DEF DeskOK, t
<1>8. DeskOK(w, s, holder, durable)
  BY <1>4, <1>5, <1>6, <1>7 DEF DeskOK, DeskIs
<1>9. IsDesk(s)
  BY <1>5 DEF DeskIs
<1> QED BY <1>1, <1>2, <1>5, <1>8, <1>9, OneMoves

(* In a cycle the account gathers trades, or only moves its risk day and peak. *)
LEMMA TradeKept ==
    ASSUME PaperInv, NEW w \in Worker, NEW t \in Tokens, NEW n \in 0..MaxShares,
           Trade(w, t, n)
    PROVE  PaperInv'
<1>1. /\ AreDesks(desk) /\ DeskOK(w, desk[w], holder, durable)
      /\ SavedOK(durable) /\ reserved \in Nat /\ reserved + 1 \in Nat
  BY DEF PaperInv
<1>2. /\ holder' = holder /\ durable' = durable /\ reserved' = reserved + 1
      /\ desk[w].phase = "cycle"
  BY DEF Trade
<1> DEFINE r == desk[w]
           a == Portfolio(r.mem)
           id == reserved + 1
<1>3. IsAccount(a) /\ a.history = r.mem.history /\ r.mem.history \in Seq(Nat)
  <2>1. IsAccount(r.mem)
    BY <1>1 DEF DeskOK
  <2> HIDE DEF r
  <2> QED BY <2>1, PortfolioSame DEF SameAccount, IsAccount
<1>4. \/ \E c \in BuyPrices :
            desk' = [desk EXCEPT ![w].mem = Bought(a, id, t, n, c), ![w].fresh = FALSE]
      \/ \E c \in SellPrices, size \in n..MaxShares :
            desk' = [desk EXCEPT ![w].mem = Sold(a, id, t, size, n, c), ![w].fresh = FALSE]
  BY DEF Trade
<1>5. id \in Nat
  BY <1>1
<1> HIDE DEF a, id
<1>6. PICK m : /\ IsAccount(m) /\ m.history = Append(r.mem.history, id)
               /\ desk' = [desk EXCEPT ![w].mem = m, ![w].fresh = FALSE]
  <2>1. ASSUME NEW c \in BuyPrices,
               desk' = [desk EXCEPT ![w].mem = Bought(a, id, t, n, c), ![w].fresh = FALSE]
        PROVE  \E m : /\ IsAccount(m) /\ m.history = Append(r.mem.history, id)
                      /\ desk' = [desk EXCEPT ![w].mem = m, ![w].fresh = FALSE]
    <3> DEFINE m == Bought(a, id, t, n, c)
    <3>1. IsAccount(m) /\ m.history = Append(a.history, id)
      <4>1. IsAccount(a)
        BY <1>3
      <4> HIDE DEF r
      <4> QED BY <1>5, <4>1, BoughtRecorded
    <3> HIDE DEF r
    <3> QED BY <1>3, <2>1, <3>1
  <2>2. ASSUME NEW c \in SellPrices, NEW size \in n..MaxShares,
               desk' = [desk EXCEPT ![w].mem = Sold(a, id, t, size, n, c), ![w].fresh = FALSE]
        PROVE  \E m : /\ IsAccount(m) /\ m.history = Append(r.mem.history, id)
                      /\ desk' = [desk EXCEPT ![w].mem = m, ![w].fresh = FALSE]
    <3> DEFINE m == Sold(a, id, t, size, n, c)
    <3>1. IsAccount(m) /\ m.history = Append(a.history, id)
      <4>1. IsAccount(a)
        BY <1>3
      <4> HIDE DEF r
      <4> QED BY <1>5, <4>1, SoldRecorded
    <3> HIDE DEF r
    <3> QED BY <1>3, <2>2, <3>1
  <2> QED BY <1>4, <2>1, <2>2
<1>7. PICK s : /\ OnlyDesk(desk, w, s, desk')
               /\ DeskIs(s, r.phase, r.token, r.fence, r.held, m, FALSE)
  BY <1>1, <1>6, TradeSet
<1> HIDE DEF r
<1>8. DeskOK(w, s, holder, durable)
  <2>1. DeskOK(w, r, holder, durable) /\ r.phase = "cycle"
    BY <1>1, <1>2 DEF r
  <2>2. durable.history \in Seq(Nat) /\ id \in Nat
    BY <1>1, SavedHistory DEF id
  <2>3. IsPrefix(durable.history, r.mem.history) => IsPrefix(durable.history, m.history)
    BY <1>3, <1>6, <2>2, PrefixFacts
  <2> QED BY <1>6, <1>7, <2>1, <2>3 DEF DeskOK, DeskIs
<1>9. IsDesk(s)
  BY <1>7 DEF DeskIs
<1> QED BY <1>1, <1>2, <1>7, <1>8, <1>9, OneMoves

LEMMA VisitKept ==
    ASSUME PaperInv, NEW w \in Worker, Visit(w)
    PROVE  PaperInv'
<1>1. /\ AreDesks(desk) /\ DeskOK(w, desk[w], holder, durable)
      /\ SavedOK(durable) /\ reserved \in Nat
  BY DEF PaperInv
<1> DEFINE r == desk[w]
           m == Portfolio(r.mem)
<1>2. /\ holder' = holder /\ durable' = durable /\ reserved' = reserved
      /\ r.phase = "cycle" /\ desk' = [desk EXCEPT ![w].mem = m]
  BY DEF Visit
<1>3. PICK s : /\ OnlyDesk(desk, w, s, desk')
               /\ DeskIs(s, r.phase, r.token, r.fence, r.held, m, r.fresh)
  BY <1>1, <1>2, MemSet
<1>4. DeskOK(w, r, holder, durable) /\ r.phase = "cycle"
  BY <1>1, <1>2
<1> HIDE DEF r
<1>5. IsAccount(m) /\ SameAccount(m, r.mem)
  BY <1>4, PortfolioSame DEF DeskOK
<1> HIDE DEF m
<1>6. DeskOK(w, s, holder, durable)
  BY <1>3, <1>4, <1>5, AgreesSame DEF DeskOK, DeskIs, SameAccount
<1>7. IsDesk(s)
  BY <1>3 DEF DeskIs
<1> QED BY <1>1, <1>2, <1>3, <1>6, <1>7, OneMoves

(* A save is the holder's, and saves the account it agrees with from then on. *)
LEMMA SaveKept ==
    ASSUME PaperInv, NEW w \in Worker, DeskEndsCycle(w) \/ CycleFails(w)
    PROVE  PaperInv'
<1> DEFINE r == desk[w]
           d == Exported(r.mem)
<1>1. /\ AreDesks(desk) /\ DeskOK(w, r, holder, durable)
      /\ SavedOK(durable) /\ reserved \in Nat /\ holder.token \in Nat
  BY DEF PaperInv, Lease
<1>2. holder' = holder /\ reserved' = reserved
  BY DEF DeskEndsCycle, CycleFails
<1>3. \/ /\ LeaseValid(holder, w, r.fence) /\ durable' = d
         /\ desk' = [desk EXCEPT ![w].phase = "idle", ![w].fence = 0]
      \/ /\ durable' = durable \/ (LeaseValid(holder, w, r.fence) /\ durable' = d)
         /\ desk' = [desk EXCEPT ![w].phase = "idle", ![w].fence = 0, ![w].held = 0]
  BY DEF DeskEndsCycle, CycleFails
<1>4. r.phase = "cycle"
  BY DEF DeskEndsCycle, CycleFails
<1>5. PICK s : /\ OnlyDesk(desk, w, s, desk')
               /\ \/ /\ LeaseValid(holder, w, r.fence) /\ durable' = d
                     /\ DeskIs(s, "idle", r.token, 0, r.held, r.mem, r.fresh)
                  \/ /\ durable' = durable \/ (LeaseValid(holder, w, r.fence) /\ durable' = d)
                     /\ DeskIs(s, "idle", r.token, 0, 0, r.mem, r.fresh)
  <2> HIDE DEF d
  <2>1. CASE desk' = [desk EXCEPT ![w].phase = "idle", ![w].fence = 0]
             /\ LeaseValid(holder, w, r.fence) /\ durable' = d
    BY <1>1, <2>1, EndSet
  <2>2. CASE /\ desk' = [desk EXCEPT ![w].phase = "idle", ![w].fence = 0, ![w].held = 0]
             /\ durable' = durable \/ (LeaseValid(holder, w, r.fence) /\ durable' = d)
    BY <1>1, <2>2, DropSet
  <2> QED BY <1>3, <2>1, <2>2
<1> HIDE DEF r
<1>6. IsAccount(r.mem) /\ IsAccount(d) /\ SameAccount(d, r.mem)
  BY <1>1, SavedSame DEF DeskOK
<1> HIDE DEF d
<1>7. SavedOK(durable') /\ IsDesk(s) /\ IsAccount(s.mem)
  BY <1>1, <1>5, <1>6 DEF SavedOK, DeskIs
<1>8. durable' = durable \/ \E t : LeaseValid(holder, w, t)
  BY <1>5
<1>9. DeskOK(w, s, holder, durable')
  BY <1>1, <1>5, <1>6 DEF DeskOK, DeskIs, KnownToken, Agrees, SameAccount
<1> QED BY <1>1, <1>2, <1>5, <1>7, <1>8, <1>9, OneMoves

LEMMA PaperInitial ==
    ASSUME PInit
    PROVE  PaperInv
<1>1. /\ holder \in Lease /\ holder.token = 0 /\ holder.live = FALSE
  BY DEF PInit, InitialLease, Lease
<1>2. desk = [w \in Worker |-> Started] /\ reserved = 0 /\ durable = Nothing
  BY DEF PInit
<1>3. ASSUME NEW w \in Worker PROVE DeskOK(w, desk[w], holder, durable)
  <2>1. DeskOK(w, Started, holder, durable)
    BY <1>1, StartedIs, FreshIs DEF DeskOK, DeskIs, KnownToken
  <2>2. desk[w] = Started
    BY <1>2
  <2> QED BY <2>1, <2>2
<1>4. AreDesks(desk)
  BY <1>2, StartedIs DEF AreDesks, DeskIs
<1> QED BY <1>1, <1>2, <1>3, <1>4 DEF PaperInv, SavedOK

LEMMA HolderKept ==
    ASSUME PaperInv, HolderLapses \/ NewDay
    PROVE  PaperInv'
<1>1. holder \in Lease
  BY DEF PaperInv
<1>2. /\ desk' = desk /\ durable' = durable /\ reserved' = reserved
      /\ holder' \in Lease /\ holder'.token = holder.token
      /\ \A w, t : LeaseValid(holder', w, t) => LeaseValid(holder, w, t)
  <2>1. CASE HolderLapses
    <3>1. holder' \in Lease /\ holder'.token = holder.token /\ holder'.live = FALSE
      BY <1>1, <2>1 DEF HolderLapses, Lease
    <3>2. \A w, t : ~LeaseValid(holder', w, t)
      BY <3>1 DEF LeaseValid
    <3> QED BY <2>1, <3>1, <3>2 DEF HolderLapses
  <2>2. CASE NewDay
    BY <1>1, <2>2 DEF NewDay
  <2> QED BY <2>1, <2>2
<1>3. holder.token <= holder'.token
  BY <1>1, <1>2 DEF Lease
<1>4. ASSUME NEW w \in Worker PROVE DeskOK(w, desk[w], holder', durable)
  <2>1. DeskOK(w, desk[w], holder, durable)
    BY DEF PaperInv
  <2> QED BY <1>1, <1>2, <1>3, <2>1, LeaseMoves
<1> QED BY <1>2, <1>4 DEF PaperInv

(* The trades saved only grow: the only save is of the account a cycle holds  *)
(* under a lease that is valid still.                                         *)
LEMMA SavesGrow ==
    ASSUME PaperInv, NEW w \in Worker, DeskEndsCycle(w) \/ CycleFails(w)
    PROVE  IsPrefix(durable.history, durable'.history)
<1> DEFINE r == desk[w]
<1>1. /\ DeskOK(w, r, holder, durable) /\ SavedOK(durable)
      /\ r.phase = "cycle"
  BY DEF PaperInv, DeskEndsCycle, CycleFails
<1>2. \/ durable' = durable
      \/ LeaseValid(holder, w, r.fence) /\ durable' = Exported(r.mem)
  BY DEF DeskEndsCycle, CycleFails
<1> HIDE DEF r
<1>3. CASE durable' = durable
  BY <1>1, <1>3, SavedHistory, PrefixFacts, 0 \in Nat
<1>4. CASE LeaseValid(holder, w, r.fence) /\ durable' = Exported(r.mem)
  <2>1. IsPrefix(durable.history, r.mem.history) /\ IsAccount(r.mem)
    BY <1>1, <1>4 DEF DeskOK
  <2> QED BY <1>4, <2>1, SavedSame DEF SameAccount
<1> QED BY <1>2, <1>3, <1>4

LEMMA PaperStep ==
    ASSUME Renewal = FALSE, PaperInv, [PNext]_pvars
    PROVE  PaperInv' /\ IsPrefix(durable.history, durable'.history)
<1>1. durable' = durable => IsPrefix(durable.history, durable'.history)
  BY SavedHistory, PrefixFacts, 0 \in Nat DEF PaperInv
<1>2. CASE HolderLapses \/ NewDay
  BY <1>1, <1>2, HolderKept DEF HolderLapses, NewDay
<1>3. ASSUME NEW w \in Worker, DeskClaims(w) PROVE PaperInv' /\ durable' = durable
  BY <1>3, ClaimKept DEF DeskClaims
<1>4. ASSUME NEW w \in Worker, DeskLosesLease(w) \/ HeartbeatFails(w) \/ LeavePaper(w)
      PROVE  PaperInv' /\ durable' = durable
  BY <1>4, ForgetKept DEF DeskLosesLease, HeartbeatFails, LeavePaper
<1>5. ASSUME NEW w \in Worker, DeskStartsCycle(w) PROVE PaperInv' /\ durable' = durable
  BY <1>5, StartKept DEF DeskStartsCycle
<1>6. ASSUME NEW w \in Worker, Visit(w) PROVE PaperInv' /\ durable' = durable
  BY <1>6, VisitKept DEF Visit
<1>7. ASSUME NEW w \in Worker, DeskEndsCycle(w) \/ CycleFails(w)
      PROVE  PaperInv' /\ IsPrefix(durable.history, durable'.history)
  BY <1>7, SaveKept, SavesGrow
<1>8. ASSUME NEW w \in Worker, DeskCrashes(w) PROVE PaperInv' /\ durable' = durable
  BY <1>8, CrashKept DEF DeskCrashes
<1>9. ASSUME NEW w \in Worker, NEW t \in Tokens, NEW n \in 0..MaxShares, Trade(w, t, n)
      PROVE  PaperInv' /\ durable' = durable
  BY <1>9, TradeKept DEF Trade
<1>10. CASE UNCHANGED pvars
  BY <1>1, <1>10 DEF pvars, PaperInv, DeskOK
<1> QED BY <1>1, <1>2, <1>3, <1>4, <1>5, <1>6, <1>7, <1>8, <1>9, <1>10 DEF PNext

(* A cycle begins from the account last saved.                                *)
THEOREM PaperCyclesStartSaved ==
    ASSUME Renewal = FALSE
    PROVE  PSpec => []CycleStartsFromDurable
<1>1. PInit => PaperInv
  BY PaperInitial
<1>2. PaperInv /\ [PNext]_pvars => PaperInv'
  BY PaperStep
<1>3. PaperInv => CycleStartsFromDurable
  BY DEF PaperInv, DeskOK, Agrees, CycleStartsFromDurable
<1> QED BY <1>1, <1>2, <1>3, PTL DEF PSpec

(* The saved account only moves forward.                                      *)
THEOREM PaperHistoryGrows ==
    ASSUME Renewal = FALSE
    PROVE  PSpec => HistoryOnlyGrows
<1>1. PInit => PaperInv
  BY PaperInitial
<1>2. PaperInv /\ [PNext]_pvars => PaperInv'
  BY PaperStep
<1>3. PaperInv /\ [PNext]_pvars => [IsPrefix(durable.history, durable'.history)]_pvars
  BY PaperStep
<1> QED BY <1>1, <1>2, <1>3, PTL DEF PSpec, HistoryOnlyGrows

-----------------------------------------------------------------------------
(* The switch between simulated and real-money trading                        *)
-----------------------------------------------------------------------------
(* The shape of a worker process, of a cleanup, of the rows.                 *)
IsProc(r) ==
    r = [up |-> r.up, tok |-> r.tok, mode |-> r.mode, cfg |-> r.cfg, ready |-> r.ready,
         limit |-> r.limit, policy |-> r.policy, scope |-> r.scope, pc |-> r.pc,
         target |-> r.target, next |-> r.next, lock |-> r.lock, cl |-> r.cl,
         fence |-> r.fence, sent |-> r.sent, ver |-> r.ver, was |-> r.was, pend |-> r.pend]

AreProcs(k) == k = [w \in Worker |-> k[w]] /\ \A w \in Worker : IsProc(k[w])

IsCleanup(k) ==
    k = [pc |-> k.pc, c |-> k.c, open |-> k.open, ver |-> k.ver, tok |-> k.tok,
         target |-> k.target]

IsControl(c) == c = [mode |-> c.mode, armed |-> c.armed, pend |-> c.pend, ver |-> c.ver]

IsOrder(x) == x = [row |-> x.row, on |-> x.on, by |-> x.by, size |-> x.size]

AreOrders(os) == os = [o \in Orders |-> os[o]] /\ \A o \in Orders : IsOrder(os[o])

(* What the main loop and the watcher may be at together: the lock of the    *)
(* cleanup is the main loop's exactly while it aligns, the watcher cleans up *)
(* in a simulated mode only and enforces in a real one only.                 *)
Flow(r) ==
    /\ r.lock = "align" <=> r.pc = "cleanup"
    /\ r.lock = "align" => Real(r.mode)
    /\ r.lock = "watch" => ~Real(r.mode)
    /\ r.lock \in {"enforce", "ack"} => Real(r.mode)
    /\ r.cl.pc = "none" <=> r.lock \notin {"align", "watch"}
    /\ r.cl.pc # "none" => ~Real(r.cl.target)
    /\ r.pc \in {"prepare", "post"} => Real(r.mode)
    /\ ~r.up => r.lock = "free" /\ r.pc \in {"top", "gone"}
    /\ IsCleanup(r.cl)

Quiet(os) == ~Resting(os) /\ ~Pending(os)

(* How far a cleanup has come: past the cancellation nothing rests, past the *)
(* check nothing is unresolved, past the acknowledgement nothing is armed.   *)
Stage(k, c, os) ==
    /\ k.pc = "judge" /\ ~HistoricalLive(k) => Quiet(os) /\ ~c.armed
    /\ k.pc \in {"check", "ack", "recheck", "final", "confirm"} => ~Resting(os)
    /\ k.pc \in {"ack", "recheck", "final", "confirm"} => ~Pending(os)
    /\ k.pc \in {"recheck", "final", "confirm"} => ~c.armed

(* An order placed by a living process is within the limit the process       *)
(* applies now, and that process is in a real mode.                          *)
Sized(w, r, os) ==
    /\ r.limit \in Nat
    /\ r.next \in Policies \cup {NoPolicy}
    /\ r.policy # "unread" => r.limit = Limit(r.policy, r.mode)
    /\ r.cfg => r.policy # "unread"
    /\ \A o \in Orders :
         os[o].by = w =>
           /\ r.up \/ r.pc = "gone"
           /\ r.up /\ os[o].row = "submitting" => r.pc = "post"
           /\ r.up /\ (os[o].on \/ os[o].row = "submitting") =>
                 Real(r.mode) /\ r.policy # "unread" /\ os[o].size <= r.limit
    /\ \A o, q \in Orders :
         /\ r.up /\ os[o].by = w /\ os[q].by = w
         /\ os[o].row = "submitting" /\ os[q].row = "submitting"
         => o = q

(* A process that is ready in a simulated mode has nothing behind it.        *)
Cleared(r, os) == r.up /\ ~Real(r.mode) /\ r.ready => Quiet(os)

ProcOK(w, r, c, os) == Flow(r) /\ Stage(r.cl, c, os) /\ Sized(w, r, os) /\ Cleared(r, os)

(* Exposure is behind a control row of a real mode.                          *)
Exposed(c, os) == ~Quiet(os) => Real(c.mode)

ModeInv ==
    /\ AreProcs(wk) /\ AreOrders(orders) /\ IsControl(control)
    /\ profile.policy \in Policies \cup {NoPolicy}
    /\ Exposed(control, orders)
    /\ \A w, v \in Worker : wk[w].up /\ wk[v].up => w = v
    /\ \A w \in Worker : ProcOK(w, wk[w], control, orders)

-----------------------------------------------------------------------------
(* The fields of a process the invariant speaks of, and the changes a step    *)
(* makes to them.                                                             *)
View(s, up, mode, cfg, ready, limit, policy, pc, target, next, lock, cl) ==
    /\ s.up = up /\ s.mode = mode /\ s.cfg = cfg /\ s.ready = ready
    /\ s.limit = limit /\ s.policy = policy /\ s.pc = pc /\ s.target = target
    /\ s.next = next /\ s.lock = lock /\ s.cl = cl

LEMMA TokMoves ==
    ASSUME NEW r, IsProc(r), NEW t, NEW s,
           s = [r EXCEPT !.tok = t]
    PROVE  IsProc(s) /\ View(s, r.up, r.mode, r.cfg, r.ready, r.limit, r.policy, r.pc, r.target,
                                r.next, r.lock, r.cl)
BY DEF IsProc, View

LEMMA PcMoves ==
    ASSUME NEW r, IsProc(r), NEW p, NEW s,
           s = [r EXCEPT !.pc = p]
    PROVE  IsProc(s) /\ View(s, r.up, r.mode, r.cfg, r.ready, r.limit, r.policy, p, r.target,
                                r.next, r.lock, r.cl)
BY DEF IsProc, View

LEMMA SentMoves ==
    ASSUME NEW r, IsProc(r), NEW p, NEW n, NEW s,
           s = [r EXCEPT !.pc = p, !.sent = n]
    PROVE  IsProc(s) /\ View(s, r.up, r.mode, r.cfg, r.ready, r.limit, r.policy, p, r.target,
                                r.next, r.lock, r.cl)
BY DEF IsProc, View

LEMMA FenceMoves ==
    ASSUME NEW r, IsProc(r), NEW p, NEW n, NEW s,
           s = [r EXCEPT !.pc = p, !.fence = n]
    PROVE  IsProc(s) /\ View(s, r.up, r.mode, r.cfg, r.ready, r.limit, r.policy, p, r.target,
                                r.next, r.lock, r.cl)
BY DEF IsProc, View

LEMMA CycleMoves ==
    ASSUME NEW r, IsProc(r), NEW p, NEW n, NEW s,
           s = [r EXCEPT !.fence = n, !.pc = p]
    PROVE  IsProc(s) /\ View(s, r.up, r.mode, r.cfg, r.ready, r.limit, r.policy, p, r.target,
                                r.next, r.lock, r.cl)
BY DEF IsProc, View

LEMMA ReadMoves ==
    ASSUME NEW r, IsProc(r), NEW t, NEW n, NEW s,
           s = [r EXCEPT !.pc = "apply", !.target = t, !.next = n]
    PROVE  IsProc(s) /\ View(s, r.up, r.mode, r.cfg, r.ready, r.limit, r.policy, "apply", t, n,
                                r.lock, r.cl)
BY DEF IsProc, View

LEMMA SkipMoves ==
    ASSUME NEW r, IsProc(r), NEW s,
           s = [r EXCEPT !.cfg = FALSE, !.pc = "gates"]
    PROVE  IsProc(s) /\ View(s, r.up, r.mode, FALSE, r.ready, r.limit, r.policy, "gates",
                                r.target, r.next, r.lock, r.cl)
BY DEF IsProc, View

LEMMA FailMoves ==
    ASSUME NEW r, IsProc(r), NEW k, NEW s,
           s = [r EXCEPT !.cfg = FALSE, !.pc = "gates", !.lock = "free", !.cl = k]
    PROVE  IsProc(s) /\ View(s, r.up, r.mode, FALSE, r.ready, r.limit, r.policy, "gates",
                                r.target, r.next, "free", k)
BY DEF IsProc, View

LEMMA BlockMoves ==
    ASSUME NEW r, IsProc(r), NEW s,
           s = [r EXCEPT !.cfg = FALSE, !.ready = FALSE]
    PROVE  IsProc(s) /\ View(s, r.up, r.mode, FALSE, FALSE, r.limit, r.policy, r.pc, r.target,
                                r.next, r.lock, r.cl)
BY DEF IsProc, View

LEMMA PublishMoves ==
    ASSUME NEW r, IsProc(r), NEW l, NEW k, NEW x, NEW s,
           s = [r EXCEPT !.policy = r.next, !.limit = l, !.mode = r.target, !.cfg = TRUE,
                        !.pc = "gates", !.lock = "free", !.cl = k,
                        !.scope = x]
    PROVE  IsProc(s) /\ View(s, r.up, r.target, TRUE, r.ready, l, r.next, "gates", r.target,
                                r.next, "free", k)
BY DEF IsProc, View

LEMMA AlignMoves ==
    ASSUME NEW r, IsProc(r), NEW k, NEW s,
           s = [r EXCEPT !.lock = "align", !.pc = "cleanup", !.cl = k]
    PROVE  IsProc(s) /\ View(s, r.up, r.mode, r.cfg, r.ready, r.limit, r.policy, "cleanup",
                                r.target, r.next, "align", k)
BY DEF IsProc, View

LEMMA CleanMoves ==
    ASSUME NEW r, IsProc(r), NEW k, NEW s,
           s = [r EXCEPT !.cl = k]
    PROVE  IsProc(s) /\ View(s, r.up, r.mode, r.cfg, r.ready, r.limit, r.policy, r.pc, r.target,
                                r.next, r.lock, k)
BY DEF IsProc, View

LEMMA WatchEnds ==
    ASSUME NEW r, IsProc(r), NEW b, NEW k, NEW s,
           s = [r EXCEPT !.ready = b, !.lock = "free", !.cl = k]
    PROVE  IsProc(s) /\ View(s, r.up, r.mode, r.cfg, b, r.limit, r.policy, r.pc, r.target,
                                r.next, "free", k)
BY DEF IsProc, View

LEMMA ReadyMoves ==
    ASSUME NEW r, IsProc(r), NEW b, NEW s,
           s = [r EXCEPT !.ready = b]
    PROVE  IsProc(s) /\ View(s, r.up, r.mode, r.cfg, b, r.limit, r.policy, r.pc, r.target,
                                r.next, r.lock, r.cl)
BY DEF IsProc, View

LEMMA WatchStarts ==
    ASSUME NEW r, IsProc(r), NEW k, NEW s,
           s = [r EXCEPT !.lock = "watch", !.cl = k]
    PROVE  IsProc(s) /\ View(s, r.up, r.mode, r.cfg, r.ready, r.limit, r.policy, r.pc, r.target,
                                r.next, "watch", k)
BY DEF IsProc, View

LEMMA RealMoves ==
    ASSUME NEW r, IsProc(r), NEW v, NEW a, NEW p, NEW l, NEW b, NEW s,
           s = [r EXCEPT !.ver = v, !.was = a, !.pend = p, !.lock = l, !.ready = b]
    PROVE  IsProc(s) /\ View(s, r.up, r.mode, r.cfg, b, r.limit, r.policy, r.pc, r.target,
                                r.next, l, r.cl)
BY DEF IsProc, View

LEMMA LockMoves ==
    ASSUME NEW r, IsProc(r), NEW l, NEW s,
           s = [r EXCEPT !.lock = l]
    PROVE  IsProc(s) /\ View(s, r.up, r.mode, r.cfg, r.ready, r.limit, r.policy, r.pc, r.target,
                                r.next, l, r.cl)
BY DEF IsProc, View

LEMMA LockReadyMoves ==
    ASSUME NEW r, IsProc(r), NEW l, NEW b, NEW s,
           s = [r EXCEPT !.lock = l, !.ready = b]
    PROVE  IsProc(s) /\ View(s, r.up, r.mode, r.cfg, b, r.limit, r.policy, r.pc, r.target,
                                r.next, l, r.cl)
BY DEF IsProc, View

LEMMA AckMoves ==
    ASSUME NEW r, IsProc(r), NEW v, NEW s,
           s = [r EXCEPT !.lock = "free", !.ver = v, !.pend = FALSE, !.ready = TRUE]
    PROVE  IsProc(s) /\ View(s, r.up, r.mode, r.cfg, TRUE, r.limit, r.policy, r.pc, r.target,
                                r.next, "free", r.cl)
BY DEF IsProc, View

LEMMA FallMoves ==
    ASSUME NEW r, IsProc(r), NEW p, NEW s,
           s = [r EXCEPT !.lock = "free", !.ready = FALSE, !.pend = p]
    PROVE  IsProc(s) /\ View(s, r.up, r.mode, r.cfg, FALSE, r.limit, r.policy, r.pc, r.target,
                                r.next, "free", r.cl)
BY DEF IsProc, View

LEMMA StartMoves ==
    ASSUME NEW r, IsProc(r), NEW m, NEW x, NEW s,
           s = [r EXCEPT !.up = TRUE, !.mode = m, !.scope = x]
    PROVE  IsProc(s) /\ View(s, TRUE, m, r.cfg, r.ready, r.limit, r.policy, r.pc, r.target,
                                r.next, r.lock, r.cl)
BY DEF IsProc, View

LEMMA GoneMoves ==
    ASSUME NEW r, IsProc(r), NEW s,
           s = [r EXCEPT !.pc = "gone"]
    PROVE  IsProc(s) /\ View(s, r.up, r.mode, r.cfg, r.ready, r.limit, r.policy, "gone",
                                r.target, r.next, r.lock, r.cl)
BY DEF IsProc, View

OnlyProc(k, w, r, e) == e = [k EXCEPT ![w] = r]

LEMMA OneProc ==
    ASSUME NEW k, AreProcs(k), NEW w \in Worker, NEW r, IsProc(r), NEW e, OnlyProc(k, w, r, e)
    PROVE  /\ AreProcs(e) /\ e[w] = r
           /\ \A x \in Worker \ {w} : e[x] = k[x]
<1>1. e = [x \in Worker |-> IF x = w THEN r ELSE k[x]]
  BY DEF AreProcs, OnlyProc
<1>2. e[w] = r /\ \A x \in Worker \ {w} : e[x] = k[x]
  BY <1>1
<1>3. e = [x \in Worker |-> e[x]]
  BY <1>1
<1> QED BY <1>2, <1>3 DEF AreProcs

-----------------------------------------------------------------------------
(* A step is calm that puts no order at the venue, marks none, and arms       *)
(* nothing.                                                                   *)
CalmOrder(x, y) ==
    /\ y.by = x.by /\ y.size = x.size
    /\ y.on => x.on
    /\ y.row = "submitting" => x.row = "submitting"
    /\ y.row = "unknown" => x.row \in {"submitting", "unknown"}

CalmOrders(os, ps) == \A o \in Orders : CalmOrder(os[o], ps[o])

CalmControl(c, d) == d.armed => c.armed

LEMMA CalmQuiet ==
    ASSUME NEW os, NEW ps, CalmOrders(os, ps)
    PROVE  /\ ~Resting(os) => ~Resting(ps)
           /\ ~Pending(os) => ~Pending(ps)
           /\ Quiet(os) => Quiet(ps)
BY DEF CalmOrders, CalmOrder, Resting, Pending, Quiet

LEMMA CalmProc ==
    ASSUME NEW w, NEW r, NEW c, NEW os, ProcOK(w, r, c, os),
           NEW d, CalmControl(c, d), NEW ps, CalmOrders(os, ps)
    PROVE  ProcOK(w, r, d, ps)
<1>1. Stage(r.cl, d, ps)
  BY CalmQuiet DEF ProcOK, Stage, CalmControl
<1>2. Sized(w, r, ps)
  BY DEF ProcOK, Sized, CalmOrders, CalmOrder
<1>3. Cleared(r, ps)
  BY CalmQuiet DEF ProcOK, Cleared
<1> QED BY <1>1, <1>2, <1>3 DEF ProcOK

LEMMA SameCalm ==
    /\ \A os : CalmOrders(os, os)
    /\ \A c : CalmControl(c, c)
    /\ \A m : CalmControl(control, DisarmedIn(control, m))
    /\ CalmControl(control, PausedIn(control))
<1>1. \A os : CalmOrders(os, os)
  BY DEF CalmOrders, CalmOrder
<1>2. \A c, m : ~DisarmedIn(c, m).armed
  BY DEF DisarmedIn
<1> QED BY <1>1, <1>2 DEF CalmControl, PausedIn

(* What cancelling every order leaves. *)
LEMMA CancelledCalm ==
    ASSUME AreOrders(orders)
    PROVE  /\ AreOrders(AllCancelled) /\ CalmOrders(orders, AllCancelled)
           /\ ~Resting(AllCancelled)
<1>1. ASSUME NEW x, IsOrder(x), NEW y, y = [x EXCEPT !.on = FALSE]
      PROVE  IsOrder(y) /\ CalmOrder(x, y) /\ ~y.on
  BY <1>1 DEF IsOrder, CalmOrder
<1>2. AllCancelled = [o \in Orders |-> [orders[o] EXCEPT !.on = FALSE]]
  BY DEF AllCancelled
<1>3. ASSUME NEW o \in Orders
      PROVE  IsOrder(AllCancelled[o]) /\ CalmOrder(orders[o], AllCancelled[o]) /\ ~AllCancelled[o].on
  BY <1>1, <1>2 DEF AreOrders
<1>4. AllCancelled = [o \in Orders |-> AllCancelled[o]]
  BY <1>2
<1> QED BY <1>3, <1>4 DEF AreOrders, CalmOrders, Resting

-----------------------------------------------------------------------------
(* Steps *)

(* A process leaves a real mode only with nothing behind it. *)
LeftClean ==
    \A w \in Worker :
        (wk[w].up /\ wk'[w].up /\ Real(wk[w].mode) /\ ~ Real(wk'[w].mode)) =>
            ~ Resting(orders') /\ ~ Pending(orders') /\ ~ control'.armed

ModeStep == ModeInv' /\ LeftClean

(* A process that is down has no part in what the others do. *)
LEMMA DownProc ==
    ASSUME NEW w, NEW r, NEW c, NEW os, ProcOK(w, r, c, os), ~r.up, NEW d, NEW ps,
           \A o \in Orders : ps[o].by = w => os[o].by = w
    PROVE  ProcOK(w, r, d, ps)
<1>1. Flow(r) /\ r.cl.pc = "none"
  BY DEF ProcOK, Flow
<1>2. Stage(r.cl, d, ps)
  BY <1>1 DEF Stage
<1>3. Sized(w, r, ps)
  BY DEF ProcOK, Sized
<1>4. Cleared(r, ps)
  BY DEF Cleared
<1> QED BY <1>1, <1>2, <1>3, <1>4 DEF ProcOK

(* A step of one process while the others are down. *)
LEMMA Acts ==
    ASSUME ModeInv, NEW w \in Worker, \A x \in Worker \ {w} : ~wk[x].up,
           NEW s, IsProc(s), OnlyProc(wk, w, s, wk'),
           AreOrders(orders'), IsControl(control'), profile' = profile,
           \A o \in Orders : orders'[o].by = orders[o].by \/ orders'[o].by = w,
           Exposed(control', orders'), ProcOK(w, s, control', orders'),
           s.up /\ wk[w].up /\ Real(wk[w].mode) /\ ~Real(s.mode)
               => Quiet(orders') /\ ~control'.armed
    PROVE  ModeStep
<1>1. AreProcs(wk') /\ wk'[w] = s /\ \A x \in Worker \ {w} : wk'[x] = wk[x]
  <2>1. AreProcs(wk)
    BY DEF ModeInv
  <2> QED BY <2>1, OneProc
<1>2. ASSUME NEW x \in Worker, x # w PROVE ProcOK(x, wk[x], control', orders')
  <2>1. ProcOK(x, wk[x], control, orders) /\ ~wk[x].up
    BY <1>2 DEF ModeInv
  <2>2. \A o \in Orders : orders'[o].by = x => orders[o].by = x
    BY <1>2
  <2> QED BY <2>1, <2>2, DownProc
<1>3. ASSUME NEW x \in Worker PROVE ProcOK(x, wk'[x], control', orders')
  <2>1. CASE x = w
    BY <1>1, <2>1
  <2>2. CASE x # w
    <3>1. wk'[x] = wk[x]
      BY <1>1, <2>2
    <3> QED BY <1>2, <2>2, <3>1
  <2> QED BY <2>1, <2>2
<1>4. \A x, y \in Worker : wk'[x].up /\ wk'[y].up => x = y
  BY <1>1
<1>5. LeftClean
  BY <1>1 DEF LeftClean, Quiet
<1>6. ModeInv'
  <2>1. profile'.policy \in Policies \cup {NoPolicy}
    BY DEF ModeInv
  <2> QED BY <1>1, <1>3, <1>4, <2>1 DEF ModeInv
<1> QED BY <1>5, <1>6 DEF ModeStep

LEMMA Alone ==
    ASSUME ModeInv, NEW w \in Worker, wk[w].up
    PROVE  /\ \A x \in Worker \ {w} : ~wk[x].up
           /\ AreProcs(wk) /\ IsProc(wk[w]) /\ ProcOK(w, wk[w], control, orders)
           /\ AreOrders(orders) /\ IsControl(control) /\ Exposed(control, orders)
BY DEF ModeInv, AreProcs

(* The row of a real mode stays one, or there is nothing behind it.          *)
KeepsMode(c, d, ps) == Quiet(ps) \/ (Real(c.mode) => Real(d.mode))

(* A calm step of the process that runs. *)
LEMMA CalmActs ==
    ASSUME ModeInv, NEW w \in Worker, wk[w].up, NEW s, IsProc(s), OnlyProc(wk, w, s, wk'),
           AreOrders(orders'), CalmOrders(orders, orders'), IsControl(control'),
           CalmControl(control, control'), KeepsMode(control, control', orders'),
           profile' = profile, s.mode = wk[w].mode,
           ProcOK(w, wk[w], control', orders') => ProcOK(w, s, control', orders')
    PROVE  ModeStep
<1>1. /\ \A x \in Worker \ {w} : ~wk[x].up
      /\ ProcOK(w, wk[w], control, orders) /\ Exposed(control, orders)
  BY Alone
<1>2. ProcOK(w, wk[w], control', orders')
  BY <1>1, CalmProc
<1>3. Exposed(control', orders')
  BY <1>1, CalmQuiet DEF Exposed, KeepsMode
<1>4. \A o \in Orders : orders'[o].by = orders[o].by
  BY DEF CalmOrders, CalmOrder
<1> QED BY <1>1, <1>2, <1>3, <1>4, Acts

(* The same with the rows untouched. *)
LEMMA LocalActs ==
    ASSUME ModeInv, NEW w \in Worker, wk[w].up, NEW s, IsProc(s), OnlyProc(wk, w, s, wk'),
           orders' = orders, control' = control, profile' = profile, s.mode = wk[w].mode,
           ProcOK(w, s, control, orders)
    PROVE  ModeStep
<1>1. AreOrders(orders') /\ IsControl(control')
  BY Alone
<1>2. CalmOrders(orders, orders') /\ CalmControl(control, control')
  BY SameCalm
<1>3. KeepsMode(control, control', orders')
  BY DEF KeepsMode
<1> QED BY <1>1, <1>2, <1>3, CalmActs

-----------------------------------------------------------------------------
(* Changes of one process that keep what holds of it. *)

LEMMA NoCleanupIs ==
    IsCleanup(NoCleanup) /\ NoCleanup.pc = "none"
BY DEF NoCleanup, IsCleanup

LEMMA SameView ==
    ASSUME NEW w, NEW r, NEW c, NEW os, ProcOK(w, r, c, os), NEW s,
           View(s, r.up, r.mode, r.cfg, r.ready, r.limit, r.policy, r.pc, r.target, r.next,
                r.lock, r.cl)
    PROVE  ProcOK(w, s, c, os)
BY DEF ProcOK, View, Flow, Sized, Cleared

(* The main loop moves on, outside the cleanup and the post. *)
LEMMA LoopView ==
    ASSUME NEW w, NEW r, NEW c, NEW os, ProcOK(w, r, c, os), r.up,
           r.pc \in {"top", "gates", "prepare", "cycle"},
           NEW p, p \in {"top", "apply", "gates", "prepare", "cycle"},
           p = "prepare" => Real(r.mode),
           NEW cfg, cfg = r.cfg \/ cfg = FALSE,
           NEW t, NEW n, n \in Policies \cup {NoPolicy}, NEW s,
           View(s, r.up, r.mode, cfg, r.ready, r.limit, r.policy, p, t, n, r.lock, r.cl)
    PROVE  ProcOK(w, s, c, os)
<1>1. Flow(s)
  BY DEF ProcOK, View, Flow
<1>2. Sized(w, s, os)
  BY DEF ProcOK, View, Sized
<1>3. Stage(s.cl, c, os) /\ Cleared(s, os)
  BY DEF ProcOK, View, Cleared
<1> QED BY <1>1, <1>2, <1>3 DEF ProcOK

(* The alignment fails: no new execution. *)
LEMMA FailView ==
    ASSUME NEW w, NEW r, NEW c, NEW os, ProcOK(w, r, c, os), r.up,
           r.pc \in {"apply", "cleanup"},
           NEW b, b => r.ready, NEW s,
           View(s, r.up, r.mode, FALSE, b, r.limit, r.policy, "gates", r.target, r.next,
                "free", NoCleanup)
    PROVE  ProcOK(w, s, c, os)
<1>1. Flow(s)
  BY NoCleanupIs DEF ProcOK, View, Flow
<1>2. Sized(w, s, os)
  BY DEF ProcOK, View, Sized
<1>3. Stage(s.cl, c, os)
  BY NoCleanupIs DEF View, Stage
<1>4. Cleared(s, os)
  BY DEF ProcOK, View, Cleared
<1> QED BY <1>1, <1>2, <1>3, <1>4 DEF ProcOK

LEMMA LimitIs ==
    ASSUME ModeAssumption, NEW p \in Policies \cup {NoPolicy}, NEW m
    PROVE  Limit(p, m) \in Nat
<1>1. Ceiling \in Nat /\ CanaryCap \in Nat /\ Requested \in [Policies -> Nat]
  BY DEF ModeAssumption
<1>2. \A a, b \in Nat : Smaller(a, b) \in Nat
  BY DEF Smaller
<1> DEFINE asked == IF p = NoPolicy THEN Ceiling ELSE Smaller(Ceiling, Requested[p])
<1>3. asked \in Nat
  BY <1>1, <1>2
<1>4. Limit(p, m) = IF m = "canary" THEN Smaller(asked, CanaryCap) ELSE asked
  BY DEF Limit
<1> HIDE DEF asked
<1> QED BY <1>1, <1>2, <1>3, <1>4

(* Mode, policy and limit are published together: over a venue that holds     *)
(* nothing of this process, or without a change.                              *)
LEMMA PublishView ==
    ASSUME ModeAssumption, NEW w, NEW r, NEW c, NEW os, ProcOK(w, r, c, os), r.up,
           r.pc \in {"apply", "cleanup"},
           \/ \A o \in Orders : os[o].by = w => ~os[o].on
           \/ r.target = r.mode /\ ~PolicyChanged(r),
           NEW b, b /\ ~Real(r.target) => Quiet(os), NEW s,
           View(s, r.up, r.target, TRUE, b, Limit(r.next, r.target), r.next, "gates", r.target,
                r.next, "free", NoCleanup)
    PROVE  ProcOK(w, s, c, os)
<1>1. Flow(s)
  BY NoCleanupIs DEF ProcOK, View, Flow
<1>2. s.next \in Policies \cup {NoPolicy} /\ s.next # "unread" /\ s.limit \in Nat
  BY LimitIs DEF ProcOK, Sized, View, ModeAssumption
<1>3. ASSUME NEW o \in Orders, os[o].by = w PROVE os[o].row # "submitting"
  BY <1>3 DEF ProcOK, Sized
<1>4. ASSUME NEW o \in Orders, os[o].by = w, os[o].on
      PROVE  Real(s.mode) /\ os[o].size <= s.limit
  <2>1. /\ r.target = r.mode /\ ~PolicyChanged(r)
        /\ Real(r.mode) /\ r.policy # "unread" /\ os[o].size <= r.limit
        /\ r.limit = Limit(r.policy, r.mode)
    BY <1>4 DEF ProcOK, Sized
  <2> QED BY <2>1 DEF View, PolicyChanged
<1>5. Sized(w, s, os)
  BY <1>2, <1>3, <1>4 DEF Sized, View
<1>6. Stage(s.cl, c, os)
  BY NoCleanupIs DEF View, Stage
<1>7. Cleared(s, os)
  BY DEF View, Cleared
<1> QED BY <1>1, <1>5, <1>6, <1>7 DEF ProcOK

(* A cleanup starts, of the main loop or of the watcher. *)
LEMMA StartView ==
    ASSUME NEW w, NEW r, NEW c, NEW os, ProcOK(w, r, c, os), r.up, r.lock = "free",
           NEW k, IsCleanup(k), k.pc = "read", ~Real(k.target),
           NEW cfg, cfg = r.cfg \/ cfg = FALSE, NEW b, b => r.ready,
           NEW p, NEW l, NEW s,
           \/ l = "align" /\ p = "cleanup" /\ Real(r.mode) /\ r.pc = "apply"
           \/ l = "watch" /\ p = r.pc /\ ~Real(r.mode),
           View(s, r.up, r.mode, cfg, b, r.limit, r.policy, p, r.target, r.next, l, k)
    PROVE  ProcOK(w, s, c, os)
<1>1. Flow(s)
  BY DEF ProcOK, View, Flow
<1>2. Sized(w, s, os)
  BY DEF ProcOK, View, Sized
<1>3. Stage(s.cl, c, os)
  BY DEF View, Stage
<1>4. Cleared(s, os)
  BY DEF ProcOK, View, Cleared
<1> QED BY <1>1, <1>2, <1>3, <1>4 DEF ProcOK

(* A cleanup moves on. *)
LEMMA CleanView ==
    ASSUME NEW w, NEW r, NEW c, NEW os, ProcOK(w, r, c, os), r.cl.pc # "none",
           NEW k, IsCleanup(k), k.pc # "none", k.target = r.cl.target, Stage(k, c, os), NEW s,
           View(s, r.up, r.mode, r.cfg, r.ready, r.limit, r.policy, r.pc, r.target, r.next,
                r.lock, k)
    PROVE  ProcOK(w, s, c, os)
<1>1. Flow(s)
  BY DEF ProcOK, View, Flow
<1>2. Sized(w, s, os) /\ Cleared(s, os)
  BY DEF ProcOK, View, Sized, Cleared
<1>3. Stage(s.cl, c, os)
  BY DEF View
<1> QED BY <1>1, <1>2, <1>3 DEF ProcOK

(* The watcher takes, moves or frees its lock. *)
LEMMA WatchView ==
    ASSUME NEW w, NEW r, NEW c, NEW os, ProcOK(w, r, c, os), r.up,
           r.lock \notin {"align", "watch"}, NEW l, l \in {"free", "enforce", "ack"},
           l # "free" => Real(r.mode), NEW b, b => r.ready \/ Real(r.mode), NEW s,
           View(s, r.up, r.mode, r.cfg, b, r.limit, r.policy, r.pc, r.target, r.next, l, r.cl)
    PROVE  ProcOK(w, s, c, os)
<1>1. Flow(s)
  BY DEF ProcOK, View, Flow
<1>2. Sized(w, s, os)
  BY DEF ProcOK, View, Sized
<1>3. Stage(s.cl, c, os) /\ Cleared(s, os)
  BY DEF ProcOK, View, Cleared
<1> QED BY <1>1, <1>2, <1>3 DEF ProcOK

(* The watcher's cleanup ends. *)
LEMMA WatchEndView ==
    ASSUME NEW w, NEW r, NEW c, NEW os, ProcOK(w, r, c, os), r.up, r.lock = "watch",
           NEW b, b => Quiet(os), NEW s,
           View(s, r.up, r.mode, r.cfg, b, r.limit, r.policy, r.pc, r.target, r.next, "free",
                NoCleanup)
    PROVE  ProcOK(w, s, c, os)
<1>1. Flow(s)
  BY NoCleanupIs DEF ProcOK, View, Flow
<1>2. Sized(w, s, os)
  BY DEF ProcOK, View, Sized
<1>3. Stage(s.cl, c, os)
  BY NoCleanupIs DEF View, Stage
<1>4. Cleared(s, os)
  BY DEF View, Cleared
<1> QED BY <1>1, <1>2, <1>3, <1>4 DEF ProcOK

-----------------------------------------------------------------------------
(* One lemma per action *)

LEMMA SetIs ==
    ASSUME NEW w, NEW r, Set(w, r)
    PROVE  OnlyProc(wk, w, r, wk')
BY DEF Set, OnlyProc

(* A calm step of the database, the venue or the operator. *)
LEMMA Still ==
    ASSUME ModeInv, wk' = wk, AreOrders(orders'), CalmOrders(orders, orders'),
           IsControl(control'), CalmControl(control, control'),
           KeepsMode(control, control', orders'),
           profile'.policy \in Policies \cup {NoPolicy}
    PROVE  ModeStep
<1>1. ASSUME NEW x \in Worker PROVE ProcOK(x, wk[x], control', orders')
  <2>1. ProcOK(x, wk[x], control, orders)
    BY DEF ModeInv
  <2> QED BY <2>1, CalmProc
<1>2. Exposed(control', orders')
  BY CalmQuiet DEF ModeInv, Exposed, KeepsMode
<1>3. LeftClean
  BY DEF LeftClean
<1>4. ModeInv'
  BY <1>1, <1>2 DEF ModeInv
<1> QED BY <1>3, <1>4 DEF ModeStep

LEMMA SameRows ==
    ASSUME orders' = orders
    PROVE  CalmOrders(orders, orders')
BY SameCalm

LEMMA SameControl ==
    ASSUME control' = control
    PROVE  CalmControl(control, control') /\ \A ps : KeepsMode(control, control', ps)
BY SameCalm DEF KeepsMode

LEMMA DisarmedIs ==
    ASSUME NEW c, NEW m
    PROVE  /\ IsControl(DisarmedIn(c, m)) /\ DisarmedIn(c, m).mode = m
           /\ ~DisarmedIn(c, m).armed
BY DEF DisarmedIn, IsControl

LEMMA PausedIs ==
    ASSUME NEW c, IsControl(c)
    PROVE  IsControl(PausedIn(c)) /\ PausedIn(c).mode = c.mode /\ CalmControl(c, PausedIn(c))
BY DisarmedIs DEF PausedIn, CalmControl

LEMMA AckIs ==
    ASSUME NEW c, IsControl(c), NEW d, d = [c EXCEPT !.pend = FALSE, !.ver = @ + 1]
    PROVE  IsControl(d) /\ d.mode = c.mode /\ d.armed = c.armed
BY DEF IsControl

OnlyOrder(os, o, x, ps) == ps = [os EXCEPT ![o] = x]

LEMMA OneOrder ==
    ASSUME NEW os, AreOrders(os), NEW o \in Orders, NEW x, IsOrder(x), NEW ps,
           OnlyOrder(os, o, x, ps)
    PROVE  AreOrders(ps) /\ ps[o] = x /\ \A q \in Orders \ {o} : ps[q] = os[q]
<1>1. ps = [q \in Orders |-> IF q = o THEN x ELSE os[q]]
  BY DEF AreOrders, OnlyOrder
<1>2. ps[o] = x /\ \A q \in Orders \ {o} : ps[q] = os[q]
  BY <1>1
<1>3. ps = [q \in Orders |-> ps[q]]
  BY <1>1
<1> QED BY <1>2, <1>3 DEF AreOrders

(* A changed row of an order, calm or not. *)
LEMMA RowIs ==
    ASSUME NEW x, IsOrder(x)
    PROVE  /\ \A b : /\ IsOrder([x EXCEPT !.on = b]) /\ [x EXCEPT !.on = b].on = b
                     /\ [x EXCEPT !.on = b].row = x.row /\ [x EXCEPT !.on = b].by = x.by
                     /\ [x EXCEPT !.on = b].size = x.size
           /\ \A t : /\ IsOrder([x EXCEPT !.row = t]) /\ [x EXCEPT !.row = t].row = t
                     /\ [x EXCEPT !.row = t].on = x.on /\ [x EXCEPT !.row = t].by = x.by
                     /\ [x EXCEPT !.row = t].size = x.size
BY DEF IsOrder

LEMMA OneCalm ==
    ASSUME NEW os, AreOrders(os), NEW o \in Orders, NEW x, IsOrder(x), CalmOrder(os[o], x),
           NEW ps, OnlyOrder(os, o, x, ps)
    PROVE  AreOrders(ps) /\ CalmOrders(os, ps)
<1>1. AreOrders(ps) /\ ps[o] = x /\ \A q \in Orders \ {o} : ps[q] = os[q]
  BY OneOrder
<1>2. \A q \in Orders : CalmOrder(os[q], os[q])
  BY DEF CalmOrder
<1>3. ASSUME NEW q \in Orders PROVE CalmOrder(os[q], ps[q])
  <2>1. CASE q = o
    BY <1>1, <2>1
  <2>2. CASE q # o
    <3>1. ps[q] = os[q]
      BY <1>1, <2>2
    <3> QED BY <1>2, <3>1
  <2> QED BY <2>1, <2>2
<1> QED BY <1>1, <1>3 DEF CalmOrders

LEMMA ClaimLapsesStep ==
    ASSUME ModeInv, ClaimLapses PROVE ModeStep
<1>1. wk' = wk /\ orders' = orders /\ control' = control /\ profile' = profile
  BY DEF ClaimLapses
<1>2. AreOrders(orders') /\ IsControl(control') /\ profile'.policy \in Policies \cup {NoPolicy}
  BY <1>1 DEF ModeInv
<1> QED BY <1>1, <1>2, SameRows, SameControl, Still

LEMMA SwitchStep ==
    ASSUME ModeInv, NEW m \in Selectable, NEW p \in Policies \cup {NoPolicy}, Switch(m, p)
    PROVE  ModeStep
<1>1. wk' = wk /\ orders' = orders /\ control' = control
  BY DEF Switch
<1>2. AreOrders(orders') /\ IsControl(control')
  BY <1>1 DEF ModeInv
<1>3. profile' = [mode |-> m, policy |-> p]
  BY DEF Switch
<1>4. profile'.policy \in Policies \cup {NoPolicy}
  BY <1>3
<1> QED BY <1>1, <1>2, <1>4, SameRows, SameControl, Still

LEMMA PauseStep ==
    ASSUME ModeInv, Pause PROVE ModeStep
<1>1. wk' = wk /\ orders' = orders /\ control' = PausedIn(control) /\ profile' = profile
  BY DEF Pause
<1>2. AreOrders(orders') /\ IsControl(control) /\ profile'.policy \in Policies \cup {NoPolicy}
  BY <1>1 DEF ModeInv
<1>3. IsControl(control') /\ control'.mode = control.mode /\ CalmControl(control, control')
  BY <1>1, <1>2, PausedIs
<1>4. KeepsMode(control, control', orders')
  BY <1>3 DEF KeepsMode
<1> QED BY <1>1, <1>2, <1>3, <1>4, SameRows, Still

LEMMA ResolveStep ==
    ASSUME ModeInv, NEW o \in Orders, Resolve(o) \/ Leaves(o)
    PROVE  ModeStep
<1>1. wk' = wk /\ control' = control /\ profile' = profile
  BY DEF Resolve, Leaves
<1>2. AreOrders(orders) /\ IsOrder(orders[o])
  BY DEF ModeInv, AreOrders
<1> DEFINE x == [orders[o] EXCEPT !.row = "known"]
           y == [orders[o] EXCEPT !.on = FALSE]
<1>3. OnlyOrder(orders, o, x, orders') \/ OnlyOrder(orders, o, y, orders')
  BY DEF Resolve, Leaves, OnlyOrder
<1>4. IsOrder(x) /\ CalmOrder(orders[o], x) /\ IsOrder(y) /\ CalmOrder(orders[o], y)
  <2>1. IsOrder(x) /\ CalmOrder(orders[o], x)
    BY <1>2, RowIs DEF CalmOrder
  <2>2. IsOrder(y) /\ CalmOrder(orders[o], y)
    BY <1>2, RowIs DEF CalmOrder
  <2> QED BY <2>1, <2>2
<1> HIDE DEF x, y
<1>5. AreOrders(orders') /\ CalmOrders(orders, orders')
  BY <1>2, <1>3, <1>4, OneCalm
<1>6. IsControl(control') /\ profile'.policy \in Policies \cup {NoPolicy}
  BY <1>1 DEF ModeInv
<1> QED BY <1>1, <1>5, <1>6, SameControl, Still

LEMMA DownIs ==
    /\ IsProc(Down) /\ IsCleanup(Down.cl) /\ Down.cl.pc = "none"
    /\ View(Down, FALSE, "paper", FALSE, FALSE, Ceiling, "unread", "top", "paper", NoPolicy,
            "free", NoCleanup)
BY NoCleanupIs DEF Down, IsProc, View

LEMMA StartStep ==
    ASSUME ModeAssumption, Overlap = FALSE, ModeInv, NEW w \in Worker, Start(w)
    PROVE  ModeStep
<1>1. PICK m : Set(w, [Down EXCEPT !.up = TRUE, !.mode = m,
                             !.scope = IF Real(m) THEN m ELSE "paper"])
  BY DEF Start
<1>2. wk[w] = Down /\ (\A v \in Worker : ~ wk[v].up) /\ UNCHANGED <<control, profile, orders>>
  BY DEF Start
<1> DEFINE x == IF Real(m) THEN m ELSE "paper"
           s == [Down EXCEPT !.up = TRUE, !.mode = m, !.scope = x]
<1>3. OnlyProc(wk, w, s, wk')
  BY <1>1, SetIs
<1>4. /\ IsProc(s)
      /\ View(s, TRUE, m, FALSE, FALSE, Ceiling, "unread", "top", "paper", NoPolicy, "free",
              NoCleanup)
  <2>1. /\ IsProc(s)
        /\ View(s, TRUE, m, Down.cfg, Down.ready, Down.limit, Down.policy, Down.pc, Down.target,
              Down.next, Down.lock, Down.cl)
    BY DownIs, StartMoves
  <2> QED BY <2>1, DownIs DEF View
<1> HIDE DEF s, x
<1>5. \A o \in Orders : orders[o].by # w
  BY <1>2, DownIs DEF ModeInv, ProcOK, Sized, View
<1>6. ProcOK(w, s, control, orders)
  <2>1. Flow(s)
    BY <1>4, NoCleanupIs DEF View, Flow
  <2>2. Stage(s.cl, control, orders)
    BY <1>4, NoCleanupIs DEF View, Stage
  <2>3. Sized(w, s, orders)
    BY <1>4, <1>5 DEF View, Sized, ModeAssumption
  <2>4. Cleared(s, orders)
    BY <1>4 DEF View, Cleared
  <2> QED BY <2>1, <2>2, <2>3, <2>4 DEF ProcOK
<1>7. AreOrders(orders') /\ IsControl(control') /\ Exposed(control', orders')
  BY <1>2 DEF ModeInv
<1>8. ~wk[w].up
  BY <1>2
<1> QED BY <1>2, <1>3, <1>4, <1>6, <1>7, <1>8, Acts

LEMMA CrashStep ==
    ASSUME ModeAssumption, ModeInv, NEW w \in Worker, Crash(w)
    PROVE  ModeStep
<1> DEFINE s == [Down EXCEPT !.pc = "gone"]
<1>1. /\ wk[w].up /\ OnlyProc(wk, w, s, wk') /\ control' = control /\ profile' = profile
      /\ \/ orders' = orders
         \/ \E o \in Orders : orders[o].row = "submitting"
                              /\ orders' = [orders EXCEPT ![o].on = TRUE]
  BY SetIs DEF Crash
<1>2. /\ IsProc(s)
      /\ View(s, FALSE, "paper", FALSE, FALSE, Down.limit, Down.policy, "gone", Down.target,
              Down.next, Down.lock, Down.cl)
  <2>1. IsProc(s) /\ View(s, Down.up, Down.mode, Down.cfg, Down.ready, Down.limit, Down.policy,
                          "gone", Down.target, Down.next, Down.lock, Down.cl)
    BY DownIs, GoneMoves
  <2> QED BY <2>1, DownIs DEF View
<1> HIDE DEF s
<1>3. /\ \A x \in Worker \ {w} : ~wk[x].up
      /\ ProcOK(w, wk[w], control, orders)
      /\ AreOrders(orders) /\ IsControl(control) /\ Exposed(control, orders)
  BY <1>1, Alone
<1>4. /\ AreOrders(orders') /\ Exposed(control', orders')
      /\ \A o \in Orders : orders'[o].by = orders[o].by
  <2>1. CASE orders' = orders
    BY <1>1, <1>3, <2>1
  <2>2. ASSUME NEW o \in Orders, orders[o].row = "submitting",
               orders' = [orders EXCEPT ![o].on = TRUE]
        PROVE  /\ AreOrders(orders') /\ Exposed(control', orders')
               /\ \A q \in Orders : orders'[q].by = orders[q].by
    <3> DEFINE x == [orders[o] EXCEPT !.on = TRUE]
    <3>1. IsOrder(x) /\ x.by = orders[o].by
      BY <1>3, RowIs DEF AreOrders
    <3>2. OnlyOrder(orders, o, x, orders')
      BY <2>2 DEF OnlyOrder
    <3> HIDE DEF x
    <3>3. AreOrders(orders') /\ orders'[o] = x /\ \A q \in Orders \ {o} : orders'[q] = orders[q]
      BY <1>3, <3>1, <3>2, OneOrder
    <3>4. Real(control.mode)
      BY <1>3, <2>2 DEF Exposed, Quiet, Pending
    <3> QED BY <1>1, <3>1, <3>3, <3>4 DEF Exposed
  <2> QED BY <1>1, <2>1, <2>2
<1>5. ProcOK(w, s, control', orders')
  <2>1. Flow(s)
    BY <1>2, DownIs DEF View, Flow
  <2>2. Stage(s.cl, control', orders')
    BY <1>2, DownIs DEF View, Stage
  <2>3. Sized(w, s, orders')
    <3>1. Down.limit = Ceiling /\ Down.next = NoPolicy /\ Down.policy = "unread"
      BY DownIs DEF View
    <3>2. Ceiling \in Nat
      BY DEF ModeAssumption
    <3> QED BY <1>2, <3>1, <3>2 DEF View, Sized
  <2>4. Cleared(s, orders')
    BY <1>2 DEF View, Cleared
  <2> QED BY <2>1, <2>2, <2>3, <2>4 DEF ProcOK
<1>6. IsControl(control') /\ ~s.up
  BY <1>1, <1>2, <1>3 DEF View
<1> QED BY <1>1, <1>2, <1>3, <1>4, <1>5, <1>6, Acts

LEMMA MayCancel ==
    ASSUME ModeInv, orders' = AllCancelled \/ orders' = orders
    PROVE  AreOrders(orders') /\ CalmOrders(orders, orders')
<1>1. AreOrders(orders)
  BY DEF ModeInv
<1> QED BY <1>1, CancelledCalm, SameCalm

LEMMA ClaimLeaseStep ==
    ASSUME ModeInv, NEW w \in Worker, ClaimLease(w)
    PROVE  ModeStep
<1> DEFINE n == Claimed(claim, w).token
           s == [wk[w] EXCEPT !.tok = n]
<1>1. /\ wk[w].up /\ OnlyProc(wk, w, s, wk')
      /\ orders' = orders /\ control' = control /\ profile' = profile
  BY SetIs DEF ClaimLease
<1>2. IsProc(wk[w]) /\ ProcOK(w, wk[w], control, orders)
  BY <1>1, Alone
<1> HIDE DEF n
<1>3. IsProc(s) /\ View(s, wk[w].up, wk[w].mode, wk[w].cfg, wk[w].ready, wk[w].limit,
        wk[w].policy, wk[w].pc, wk[w].target, wk[w].next, wk[w].lock, wk[w].cl)
  BY <1>2, TokMoves
<1> HIDE DEF s
<1>4. ProcOK(w, s, control, orders)
  BY <1>2, <1>3, SameView
<1>5. s.mode = wk[w].mode
  BY <1>3 DEF View
<1> QED BY <1>1, <1>3, <1>4, <1>5, LocalActs

LEMMA LoseLeaseStep ==
    ASSUME ModeInv, NEW w \in Worker, LoseLease(w)
    PROVE  ModeStep
<1> DEFINE s == [wk[w] EXCEPT !.tok = 0]
<1>1. /\ wk[w].up /\ OnlyProc(wk, w, s, wk')
      /\ control' = control /\ profile' = profile
      /\ orders' = AllCancelled \/ orders' = orders
  BY SetIs DEF LoseLease
<1>2. IsProc(wk[w]) /\ IsControl(control)
  BY <1>1, Alone
<1>3. IsProc(s) /\ View(s, wk[w].up, wk[w].mode, wk[w].cfg, wk[w].ready, wk[w].limit,
        wk[w].policy, wk[w].pc, wk[w].target, wk[w].next, wk[w].lock, wk[w].cl)
  BY <1>2, TokMoves
<1> HIDE DEF s
<1>4. ProcOK(w, wk[w], control', orders') => ProcOK(w, s, control', orders')
  BY <1>3, SameView
<1>5. s.mode = wk[w].mode
  BY <1>3 DEF View
<1>6. /\ AreOrders(orders') /\ CalmOrders(orders, orders')
      /\ IsControl(control') /\ CalmControl(control, control')
      /\ KeepsMode(control, control', orders')
  BY <1>1, <1>2, MayCancel, SameControl
<1> QED BY <1>1, <1>3, <1>4, <1>5, <1>6, CalmActs

LEMMA ReadConfigurationStep ==
    ASSUME ModeInv, NEW w \in Worker, ReadConfiguration(w)
    PROVE  ModeStep
<1> DEFINE t == Effective(profile.mode)
           n == profile.policy
           s == [wk[w] EXCEPT !.pc = "apply", !.target = t, !.next = n]
<1>1. /\ wk[w].up /\ wk[w].pc = "top" /\ OnlyProc(wk, w, s, wk')
      /\ orders' = orders /\ control' = control /\ profile' = profile
  BY SetIs DEF ReadConfiguration
<1>2. IsProc(wk[w]) /\ ProcOK(w, wk[w], control, orders) /\ n \in Policies \cup {NoPolicy}
  BY <1>1, Alone DEF ModeInv
<1> HIDE DEF n, t
<1>3. IsProc(s) /\ View(s, wk[w].up, wk[w].mode, wk[w].cfg, wk[w].ready, wk[w].limit,
        wk[w].policy, "apply", t, n, wk[w].lock, wk[w].cl)
  BY <1>2, ReadMoves
<1> HIDE DEF s
<1>4. ProcOK(w, s, control, orders)
  BY <1>1, <1>2, <1>3, LoopView
<1>5. s.mode = wk[w].mode
  BY <1>3 DEF View
<1> QED BY <1>1, <1>3, <1>4, <1>5, LocalActs

LEMMA ReadFailsStep ==
    ASSUME ModeInv, NEW w \in Worker, ReadFails(w)
    PROVE  ModeStep
<1> DEFINE s == [wk[w] EXCEPT !.cfg = FALSE, !.pc = "gates"]
<1>1. /\ wk[w].up /\ wk[w].pc = "top" /\ OnlyProc(wk, w, s, wk')
      /\ control' = control /\ profile' = profile
      /\ orders' = AllCancelled \/ orders' = orders
  BY SetIs DEF ReadFails
<1>2. IsProc(wk[w]) /\ IsControl(control) /\ ProcOK(w, wk[w], control, orders)
  BY <1>1, Alone
<1>3. IsProc(s) /\ View(s, wk[w].up, wk[w].mode, FALSE, wk[w].ready, wk[w].limit,
        wk[w].policy, "gates", wk[w].target, wk[w].next, wk[w].lock, wk[w].cl)
  BY <1>2, SkipMoves
<1> HIDE DEF s
<1>4. wk[w].next \in Policies \cup {NoPolicy}
  BY <1>2 DEF ProcOK, Sized
<1>5. ProcOK(w, wk[w], control', orders') => ProcOK(w, s, control', orders')
  BY <1>1, <1>3, <1>4, LoopView
<1>6. s.mode = wk[w].mode
  BY <1>3 DEF View
<1>7. /\ AreOrders(orders') /\ CalmOrders(orders, orders')
      /\ IsControl(control') /\ CalmControl(control, control')
      /\ KeepsMode(control, control', orders')
  BY <1>1, <1>2, MayCancel, SameControl
<1> QED BY <1>1, <1>3, <1>5, <1>6, <1>7, CalmActs

FreshOf(k, t, n, s) == s = [k EXCEPT !.pc = "read", !.target = t, !.tok = n]

LEMMA FreshCleanup ==
    ASSUME NEW k, IsCleanup(k), NEW t, NEW n, NEW s, FreshOf(k, t, n, s)
    PROVE  IsCleanup(s) /\ s.pc = "read" /\ s.target = t
BY DEF IsCleanup, FreshOf

LEMMA CleanupOfIs ==
    ASSUME NEW r, NEW t
    PROVE  IsCleanup(CleanupOf(r, t)) /\ CleanupOf(r, t).pc = "read" /\ CleanupOf(r, t).target = t
<1> DEFINE n == r.tok
           s == [NoCleanup EXCEPT !.pc = "read", !.target = t, !.tok = n]
<1>1. CleanupOf(r, t) = s
  BY DEF CleanupOf
<1> HIDE DEF n
<1>2. FreshOf(NoCleanup, t, n, s)
  BY DEF FreshOf
<1> HIDE DEF s
<1>3. IsCleanup(NoCleanup)
  BY NoCleanupIs
<1>4. IsCleanup(s) /\ s.pc = "read" /\ s.target = t
  BY <1>2, <1>3, FreshCleanup
<1> QED BY <1>1, <1>4

(* The alignment fails, with or without a cleanup behind it; r is the process *)
(* as it was, or with its gates closed.                                       *)
LEMMA FailsActs ==
    ASSUME ModeInv, NEW w \in Worker, wk[w].up, wk[w].pc \in {"apply", "cleanup"},
           NEW r, IsProc(r), NEW cfg, NEW b, b = wk[w].ready \/ b = FALSE,
           View(r, wk[w].up, wk[w].mode, cfg, b, wk[w].limit, wk[w].policy,
                wk[w].pc, wk[w].target, wk[w].next, wk[w].lock, wk[w].cl),
           ConfigurationFailed(w, r), control' = control, profile' = profile
    PROVE  ModeStep
<1> DEFINE s == [r EXCEPT !.cfg = FALSE, !.pc = "gates", !.lock = "free", !.cl = NoCleanup]
<1>1. OnlyProc(wk, w, s, wk') /\ (orders' = AllCancelled \/ orders' = orders)
  BY SetIs DEF ConfigurationFailed
<1>2. IsProc(s) /\ View(s, r.up, r.mode, FALSE, r.ready, r.limit, r.policy, "gates", r.target,
                        r.next, "free", NoCleanup)
  BY FailMoves
<1> HIDE DEF s
<1>3. View(s, wk[w].up, wk[w].mode, FALSE, b, wk[w].limit, wk[w].policy, "gates",
           wk[w].target, wk[w].next, "free", NoCleanup)
  BY <1>2 DEF View
<1>4. ProcOK(w, wk[w], control', orders') => ProcOK(w, s, control', orders')
  BY <1>3, FailView
<1>5. s.mode = wk[w].mode
  BY <1>3 DEF View
<1>6. IsControl(control)
  BY DEF ModeInv
<1>7. /\ AreOrders(orders') /\ CalmOrders(orders, orders')
      /\ IsControl(control') /\ CalmControl(control, control')
      /\ KeepsMode(control, control', orders')
  BY <1>1, <1>6, MayCancel, SameControl
<1> QED BY <1>1, <1>2, <1>4, <1>5, <1>7, CalmActs

(* Policy, limit and mode are published; r is as before.                      *)
LEMMA PublishActs ==
    ASSUME ModeAssumption, ModeInv, NEW w \in Worker, wk[w].up,
           wk[w].pc \in {"apply", "cleanup"},
           NEW r, IsProc(r), NEW cfg, NEW b,
           View(r, wk[w].up, wk[w].mode, cfg, b, wk[w].limit, wk[w].policy,
                wk[w].pc, wk[w].target, wk[w].next, wk[w].lock, wk[w].cl),
           Set(w, Published(r)), control' = control, profile' = profile,
           orders' = AllCancelled \/ orders' = orders,
           \/ \A o \in Orders : orders'[o].by = w => ~orders'[o].on
           \/ wk[w].target = wk[w].mode /\ ~PolicyChanged(wk[w]),
           b /\ ~Real(wk[w].target) => Quiet(orders'),
           Real(wk[w].mode) /\ ~Real(wk[w].target) => Quiet(orders') /\ ~control.armed
    PROVE  ModeStep
<1> DEFINE x == IF Real(r.target) /\ r.tok # 0 THEN r.target ELSE r.scope
           l == Limit(r.next, r.target)
           s == [r EXCEPT !.policy = r.next, !.limit = l, !.mode = r.target, !.cfg = TRUE,
                          !.pc = "gates", !.lock = "free", !.cl = NoCleanup, !.scope = x]
<1>1. OnlyProc(wk, w, s, wk')
  <2>1. Published(r) = s
    BY DEF Published
  <2> QED BY <2>1, SetIs
<1>2. l = Limit(wk[w].next, wk[w].target)
  BY DEF View
<1> HIDE DEF x, l
<1>3. IsProc(s) /\ View(s, r.up, r.target, TRUE, r.ready, l, r.next, "gates", r.target, r.next,
                        "free", NoCleanup)
  BY PublishMoves
<1> HIDE DEF s
<1>4. View(s, wk[w].up, wk[w].target, TRUE, b, Limit(wk[w].next, wk[w].target), wk[w].next,
           "gates", wk[w].target, wk[w].next, "free", NoCleanup)
  BY <1>2, <1>3 DEF View
<1>5. /\ \A y \in Worker \ {w} : ~wk[y].up
      /\ ProcOK(w, wk[w], control, orders)
      /\ IsControl(control) /\ Exposed(control, orders)
  BY Alone
<1>6. /\ AreOrders(orders') /\ CalmOrders(orders, orders')
      /\ IsControl(control') /\ CalmControl(control, control')
  BY <1>5, MayCancel, SameControl
<1>7. ProcOK(w, wk[w], control', orders')
  BY <1>5, <1>6, CalmProc
<1>8. ProcOK(w, s, control', orders')
  BY <1>4, <1>7, PublishView
<1>9. Exposed(control', orders')
  BY <1>5, <1>6, CalmQuiet DEF Exposed
<1>10. \A o \in Orders : orders'[o].by = orders[o].by
  BY <1>6 DEF CalmOrders, CalmOrder
<1>11. s.mode = wk[w].target
  BY <1>4 DEF View
<1> QED BY <1>1, <1>3, <1>5, <1>6, <1>8, <1>9, <1>10, <1>11, Acts

LEMMA BlockedIs ==
    ASSUME NEW r, IsProc(r)
    PROVE  IsProc(Blocked(r)) /\ View(Blocked(r), r.up, r.mode, FALSE, FALSE, r.limit, r.policy,
                                      r.pc, r.target, r.next, r.lock, r.cl)
<1> DEFINE s == [r EXCEPT !.cfg = FALSE, !.ready = FALSE]
<1>1. Blocked(r) = s
  BY DEF Blocked
<1>2. IsProc(s) /\ View(s, r.up, r.mode, FALSE, FALSE, r.limit, r.policy, r.pc, r.target,
                        r.next, r.lock, r.cl)
  BY BlockMoves
<1> QED BY <1>1, <1>2

LEMMA ApplyStep ==
    ASSUME ModeAssumption, ModeInv, NEW w \in Worker, Apply(w)
    PROVE  ModeStep
<1> DEFINE r == wk[w]
           d == Blocked(r)
<1>1. r.pc = "apply" /\ r.lock = "free" /\ control' = control /\ profile' = profile
  BY DEF Apply
<1>2. r.up
  BY <1>1 DEF ModeInv, ProcOK, Flow
<1>3. IsProc(r) /\ ProcOK(w, r, control, orders) /\ AreOrders(orders) /\ r.cl.pc = "none"
  BY <1>1, <1>2, Alone DEF ProcOK, Flow
<1>4. IsProc(d) /\ View(d, r.up, r.mode, FALSE, FALSE, r.limit, r.policy,
                        r.pc, r.target, r.next, r.lock, r.cl)
  BY <1>3, BlockedIs
<1>5. ASSUME ConfigurationFailed(w, d)
      PROVE  ModeStep
  <2> HIDE DEF d
  <2> QED BY <1>1, <1>2, <1>4, <1>5, FailsActs
<1>6. ASSUME r.target # r.mode, Real(r.mode), orders' = orders,
             Set(w, [d EXCEPT !.lock = "align", !.pc = "cleanup", !.cl = CleanupOf(r, "paper")])
      PROVE  ModeStep
  <2> DEFINE k == CleanupOf(r, "paper")
             s == [d EXCEPT !.lock = "align", !.pc = "cleanup", !.cl = k]
  <2>1. OnlyProc(wk, w, s, wk')
    BY <1>6, SetIs
  <2>2. IsCleanup(k) /\ k.pc = "read" /\ ~Real(k.target)
    BY CleanupOfIs DEF Real
  <2> HIDE DEF k, d
  <2>3. IsProc(s) /\ View(s, d.up, d.mode, d.cfg, d.ready, d.limit, d.policy, "cleanup",
                          d.target, d.next, "align", k)
    BY <1>4, AlignMoves
  <2> HIDE DEF s
  <2>4. View(s, r.up, r.mode, FALSE, FALSE, r.limit, r.policy, "cleanup", r.target, r.next,
             "align", k)
    BY <1>4, <2>3 DEF View
  <2>5. ProcOK(w, s, control, orders)
    BY <1>1, <1>2, <1>3, <1>6, <2>2, <2>4, StartView
  <2>6. s.mode = wk[w].mode
    BY <2>4 DEF View
  <2> QED BY <1>1, <1>2, <1>6, <2>1, <2>3, <2>5, <2>6, LocalActs
<1>7. ASSUME r.target = r.mode, Real(r.mode), orders' = AllCancelled, Set(w, Published(d))
      PROVE  ModeStep
  <2>1. \A o \in Orders : ~orders'[o].on
    BY <1>3, <1>7, CancelledCalm DEF Resting
  <2> HIDE DEF d
  <2> QED BY <1>1, <1>2, <1>4, <1>7, <2>1, PublishActs
<1>8. ASSUME ~ Real(r.mode) \/ (r.target = r.mode /\ ~ PolicyChanged(r)), orders' = orders,
             Set(w, Published(IF r.target # r.mode \/ PolicyChanged(r) THEN d ELSE r))
      PROVE  ModeStep
  <2>1. ~Real(r.mode) => \A o \in Orders : orders'[o].by = w => ~orders'[o].on
    BY <1>2, <1>3, <1>8 DEF ProcOK, Sized
  <2>2. Real(r.mode) => Real(r.target)
    BY <1>8
  <2>3. CASE r.target # r.mode \/ PolicyChanged(r)
    <3>1. Set(w, Published(d))
      BY <1>8, <2>3
    <3>2. ~Real(r.mode)
      BY <1>8, <2>3
    <3> HIDE DEF d
    <3> QED BY <1>1, <1>2, <1>4, <1>8, <2>1, <3>1, <3>2, PublishActs
  <2>4. CASE ~(r.target # r.mode \/ PolicyChanged(r))
    <3>1. Set(w, Published(r))
      BY <1>8, <2>4
    <3>2. r.ready /\ ~Real(r.target) => Quiet(orders')
      BY <1>2, <1>3, <1>8, <2>4 DEF ProcOK, Cleared
    <3>3. View(r, r.up, r.mode, r.cfg, r.ready, r.limit, r.policy,
               r.pc, r.target, r.next, r.lock, r.cl)
      BY DEF View
    <3> QED BY <1>1, <1>2, <1>3, <1>8, <2>2, <2>4, <3>1, <3>2, <3>3, PublishActs
  <2> QED BY <2>3, <2>4
<1> QED
  <2>1. \/ ConfigurationFailed(w, d)
        \/ /\ r.target # r.mode /\ Real(r.mode) /\ orders' = orders
           /\ Set(w, [d EXCEPT !.lock = "align", !.pc = "cleanup", !.cl = CleanupOf(r, "paper")])
        \/ /\ r.target = r.mode /\ Real(r.mode) /\ orders' = AllCancelled
           /\ Set(w, Published(d))
        \/ /\ ~ Real(r.mode) \/ (r.target = r.mode /\ ~ PolicyChanged(r))
           /\ orders' = orders
           /\ Set(w, Published(IF r.target # r.mode \/ PolicyChanged(r) THEN d ELSE r))
    BY DEF Apply
  <2> QED BY <2>1, <1>5, <1>6, <1>7, <1>8

LEMMA EndCycleStep ==
    ASSUME ModeInv, NEW w \in Worker, EndCycle(w)
    PROVE  ModeStep
<1> DEFINE s == [wk[w] EXCEPT !.pc = "top", !.fence = 0]
<1>1. /\ wk[w].up /\ wk[w].pc = "cycle" /\ OnlyProc(wk, w, s, wk')
      /\ orders' = orders /\ control' = control /\ profile' = profile
  BY SetIs DEF EndCycle
<1>2. IsProc(wk[w]) /\ ProcOK(w, wk[w], control, orders)
  BY <1>1, Alone
<1>3. IsProc(s) /\ View(s, wk[w].up, wk[w].mode, wk[w].cfg, wk[w].ready, wk[w].limit,
        wk[w].policy, "top", wk[w].target, wk[w].next, wk[w].lock, wk[w].cl)
  BY <1>2, FenceMoves
<1> HIDE DEF s
<1>4. wk[w].next \in Policies \cup {NoPolicy}
  BY <1>2 DEF ProcOK, Sized
<1>5. ProcOK(w, s, control, orders)
  BY <1>1, <1>2, <1>3, <1>4, LoopView
<1>6. s.mode = wk[w].mode
  BY <1>3 DEF View
<1> QED BY <1>1, <1>3, <1>5, <1>6, LocalActs

LEMMA StartCycleStep ==
    ASSUME ModeInv, NEW w \in Worker, StartCycle(w)
    PROVE  ModeStep
<1> DEFINE r == wk[w]
           open == r.tok # 0 /\ r.cfg /\ r.ready
<1>1. r.up /\ r.pc = "gates" /\ profile' = profile
  BY DEF StartCycle
<1>2. IsProc(r) /\ ProcOK(w, r, control, orders) /\ IsControl(control)
  BY <1>1, Alone
<1>3. r.next \in Policies \cup {NoPolicy}
  BY <1>2 DEF ProcOK, Sized
<1>4. CASE open /\ Pending(orders)
  <2> DEFINE s == [r EXCEPT !.pc = "top"]
  <2>1. /\ OnlyProc(wk, w, s, wk')
        /\ orders' = AllCancelled \/ orders' = orders
        /\ control' = IF Real(r.mode) THEN PausedIn(control) ELSE control
    BY <1>4, SetIs DEF StartCycle
  <2>2. IsProc(s) /\ View(s, r.up, r.mode, r.cfg, r.ready, r.limit, r.policy, "top", r.target,
                          r.next, r.lock, r.cl)
    BY <1>2, PcMoves
  <2> HIDE DEF s
  <2>3. ProcOK(w, r, control', orders') => ProcOK(w, s, control', orders')
    BY <1>1, <1>3, <2>2, LoopView
  <2>4. s.mode = wk[w].mode
    BY <2>2 DEF View
  <2>5. AreOrders(orders') /\ CalmOrders(orders, orders')
    BY <2>1, MayCancel
  <2>6. IsControl(control') /\ control'.mode = control.mode /\ CalmControl(control, control')
    BY <1>2, <2>1, PausedIs, SameControl
  <2>7. KeepsMode(control, control', orders')
    BY <2>6 DEF KeepsMode
  <2> QED BY <1>1, <2>1, <2>2, <2>3, <2>4, <2>5, <2>6, <2>7, CalmActs
<1>5. CASE ~(open /\ Pending(orders))
  <2> DEFINE n == IF open THEN r.tok ELSE 0
             p == CASE ~ open       -> "top"
                    [] Real(r.mode) -> "prepare"
                    [] OTHER        -> "cycle"
             s == [r EXCEPT !.fence = n, !.pc = p]
  <2>1. OnlyProc(wk, w, s, wk') /\ orders' = orders /\ control' = control
    BY <1>5, SetIs DEF StartCycle
  <2>2. p \in {"top", "apply", "gates", "prepare", "cycle"} /\ (p = "prepare" => Real(r.mode))
    OBVIOUS
  <2> HIDE DEF n, p
  <2>3. IsProc(s) /\ View(s, r.up, r.mode, r.cfg, r.ready, r.limit, r.policy, p, r.target,
                          r.next, r.lock, r.cl)
    BY <1>2, CycleMoves
  <2> HIDE DEF s
  <2>4. ProcOK(w, s, control, orders)
    BY <1>1, <1>2, <1>3, <2>2, <2>3, LoopView
  <2>5. s.mode = wk[w].mode
    BY <2>3 DEF View
  <2> QED BY <1>1, <2>1, <2>3, <2>4, <2>5, LocalActs
<1> QED BY <1>4, <1>5

(* A real process outside its alignment is in no cleanup. *)
LEMMA RealIsFree ==
    ASSUME NEW w, NEW r, NEW c, NEW os, ProcOK(w, r, c, os), Real(r.mode), r.pc # "cleanup"
    PROVE  r.cl.pc = "none"
BY DEF ProcOK, Flow

LEMMA PrepareStep ==
    ASSUME ModeInv, NEW w \in Worker, Prepare(w)
    PROVE  ModeStep
<1> DEFINE r == wk[w]
<1>1. r.up /\ r.pc = "prepare" /\ profile' = profile /\ orders' = orders
  BY DEF Prepare
<1>2. /\ IsProc(r) /\ ProcOK(w, r, control, orders) /\ IsControl(control)
      /\ \A x \in Worker \ {w} : ~wk[x].up
      /\ AreOrders(orders) /\ Exposed(control, orders)
  BY <1>1, Alone
<1>3. r.next \in Policies \cup {NoPolicy} /\ Real(r.mode)
  BY <1>1, <1>2 DEF ProcOK, Sized, Flow
<1>4. ASSUME Set(w, [r EXCEPT !.pc = "cycle"]),
             \/ control' = control
             \/ control' = [mode |-> r.mode, armed |-> TRUE, pend |-> FALSE,
                            ver |-> control.ver + 1]
      PROVE  ModeStep
  <2> DEFINE s == [r EXCEPT !.pc = "cycle"]
  <2>1. OnlyProc(wk, w, s, wk')
    BY <1>4, SetIs
  <2>2. IsProc(s) /\ View(s, r.up, r.mode, r.cfg, r.ready, r.limit, r.policy, "cycle", r.target,
                          r.next, r.lock, r.cl)
    BY <1>2, PcMoves
  <2> HIDE DEF s
  <2>3. ProcOK(w, s, control, orders)
    BY <1>1, <1>2, <1>3, <2>2, LoopView
  <2>4. s.cl.pc = "none" /\ s.mode = r.mode /\ s.up
    BY <1>1, <1>2, <1>3, <2>2, RealIsFree DEF View
  <2>5. Stage(s.cl, control', orders')
    BY <2>4 DEF Stage
  <2>6. ProcOK(w, s, control', orders')
    BY <1>1, <2>3, <2>5 DEF ProcOK
  <2>7. IsControl(control')
    BY <1>2, <1>4 DEF IsControl
  <2>8. Exposed(control', orders')
    BY <1>1, <1>2, <1>3, <1>4 DEF Exposed
  <2>9. AreOrders(orders') /\ \A o \in Orders : orders'[o].by = orders[o].by
    BY <1>1, <1>2
  <2> QED BY <1>1, <1>2, <1>3, <2>1, <2>2, <2>4, <2>6, <2>7, <2>8, <2>9, Acts
<1>5. ASSUME Set(w, [r EXCEPT !.pc = "top", !.fence = 0]), control' = control
      PROVE  ModeStep
  <2> DEFINE s == [r EXCEPT !.pc = "top", !.fence = 0]
  <2>1. OnlyProc(wk, w, s, wk')
    BY <1>5, SetIs
  <2>2. IsProc(s) /\ View(s, r.up, r.mode, r.cfg, r.ready, r.limit, r.policy, "top", r.target,
                          r.next, r.lock, r.cl)
    BY <1>2, FenceMoves
  <2> HIDE DEF s
  <2>3. ProcOK(w, s, control, orders)
    BY <1>1, <1>2, <1>3, <2>2, LoopView
  <2>4. s.mode = wk[w].mode
    BY <2>2 DEF View
  <2> QED BY <1>1, <1>5, <2>1, <2>2, <2>3, <2>4, LocalActs
<1> QED BY <1>4, <1>5 DEF Prepare

LEMMA MarkSubmittingStep ==
    ASSUME ModeInv, NEW w \in Worker, NEW o \in Orders, MarkSubmitting(w, o)
    PROVE  ModeStep
<1> DEFINE r == wk[w]
           n == control.ver
           s == [r EXCEPT !.pc = "post", !.sent = n]
           x == [row |-> "submitting", on |-> FALSE, by |-> w, size |-> r.limit]
<1>1. /\ r.up /\ r.pc = "cycle" /\ Real(r.mode) /\ profile' = profile /\ control' = control
      /\ r.cfg /\ control.mode = r.mode
      /\ OnlyProc(wk, w, s, wk') /\ OnlyOrder(orders, o, x, orders')
  BY SetIs DEF MarkSubmitting, Authorized, Guard, OnlyOrder
<1>2. /\ IsProc(r) /\ ProcOK(w, r, control, orders) /\ IsControl(control)
      /\ \A y \in Worker \ {w} : ~wk[y].up
      /\ AreOrders(orders)
  BY <1>1, Alone
<1>3. IsOrder(x) /\ x.row = "submitting" /\ x.by = w /\ x.size = r.limit /\ ~x.on
  BY DEF IsOrder
<1> HIDE DEF n, x
<1>4. IsProc(s) /\ View(s, r.up, r.mode, r.cfg, r.ready, r.limit, r.policy, "post", r.target,
                        r.next, r.lock, r.cl)
  BY <1>2, SentMoves
<1> HIDE DEF s
<1>5. AreOrders(orders') /\ orders'[o] = x /\ \A q \in Orders \ {o} : orders'[q] = orders[q]
  BY <1>1, <1>2, <1>3, OneOrder
<1>6. \A q \in Orders : orders'[q].by = orders[q].by \/ orders'[q].by = w
  BY <1>3, <1>5
<1>7. s.cl.pc = "none" /\ s.mode = r.mode /\ s.up
  BY <1>1, <1>2, <1>4, RealIsFree DEF View
<1>8. ProcOK(w, s, control', orders')
  <2>1. Flow(s)
    BY <1>1, <1>2, <1>4 DEF View, Flow, ProcOK
  <2>2. Stage(s.cl, control', orders') /\ Cleared(s, orders')
    BY <1>1, <1>7 DEF Stage, Cleared
  <2>3. /\ r.limit \in Nat /\ r.policy # "unread" /\ r.next \in Policies \cup {NoPolicy}
        /\ r.limit = Limit(r.policy, r.mode)
        /\ \A q \in Orders : orders[q].by = w =>
             /\ orders[q].row # "submitting"
             /\ orders[q].on => orders[q].size <= r.limit
    BY <1>1, <1>2 DEF ProcOK, Sized
  <2>4. ASSUME NEW q \in Orders, orders'[q].by = w
        PROVE  /\ orders'[q].on \/ orders'[q].row = "submitting" => orders'[q].size <= r.limit
               /\ orders'[q].row = "submitting" => q = o
    <3>1. CASE q = o
      <4>1. orders'[q].size = r.limit
        BY <1>3, <1>5, <3>1
      <4> QED BY <2>3, <3>1, <4>1
    <3>2. CASE q # o
      <4>1. orders'[q] = orders[q]
        BY <1>5, <3>2
      <4> QED BY <2>3, <2>4, <4>1
    <3> QED BY <3>1, <3>2
  <2>5. Sized(w, s, orders')
    BY <1>1, <1>4, <2>3, <2>4 DEF View, Sized
  <2> QED BY <2>1, <2>2, <2>5 DEF ProcOK
<1>9. IsControl(control') /\ Exposed(control', orders')
  BY <1>1, <1>2 DEF Exposed
<1> QED BY <1>1, <1>2, <1>4, <1>5, <1>6, <1>7, <1>8, <1>9, Acts

(* The answer of the venue settles one row and leaves the others calm. *)
Answered(os, ps, o) ==
    /\ AreOrders(ps)
    /\ \A q \in Orders \ {o} : CalmOrder(os[q], ps[q])
    /\ ps[o].by = os[o].by /\ ps[o].size = os[o].size /\ ps[o].row \in {"known", "unknown"}

Marked(ps, o, t, b, e) ==
    e = [ps EXCEPT ![o].row = t] \/ e = [ps EXCEPT ![o].row = t, ![o].on = b]

LEMMA MarkedIs ==
    ASSUME NEW ps, AreOrders(ps), NEW o \in Orders, NEW t, NEW b, NEW e, Marked(ps, o, t, b, e)
    PROVE  /\ AreOrders(e) /\ \A q \in Orders \ {o} : e[q] = ps[q]
           /\ e[o].row = t /\ e[o].by = ps[o].by /\ e[o].size = ps[o].size
<1> DEFINE x == [ps[o] EXCEPT !.row = t]
           y == [x EXCEPT !.on = b]
<1>1. IsOrder(ps[o])
  BY DEF AreOrders
<1>2. IsOrder(x) /\ x.row = t /\ x.by = ps[o].by /\ x.size = ps[o].size
  BY <1>1, RowIs
<1>3. OnlyOrder(ps, o, x, e) \/ OnlyOrder(ps, o, y, e)
  <2>1. CASE e = [ps EXCEPT ![o].row = t]
    BY <2>1 DEF OnlyOrder
  <2>2. CASE e = [ps EXCEPT ![o].row = t, ![o].on = b]
    <3>1. ps = [q \in Orders |-> ps[q]]
      BY DEF AreOrders
    <3> QED BY <2>2, <3>1 DEF OnlyOrder
  <2> QED BY <2>1, <2>2 DEF Marked
<1> HIDE DEF x
<1>4. IsOrder(y) /\ y.row = t /\ y.by = ps[o].by /\ y.size = ps[o].size
  BY <1>2, RowIs
<1> HIDE DEF y
<1>5. CASE OnlyOrder(ps, o, x, e)
  BY <1>2, <1>5, OneOrder
<1>6. CASE OnlyOrder(ps, o, y, e)
  BY <1>4, <1>6, OneOrder
<1> QED BY <1>3, <1>5, <1>6

LEMMA AnsweredIs ==
    ASSUME NEW os, NEW ps, AreOrders(ps), CalmOrders(os, ps), NEW o \in Orders,
           NEW t, t \in {"known", "unknown"}, NEW b, NEW e, Marked(ps, o, t, b, e)
    PROVE  Answered(os, e, o)
<1>1. /\ AreOrders(e) /\ \A q \in Orders \ {o} : e[q] = ps[q]
      /\ e[o].row = t /\ e[o].by = ps[o].by /\ e[o].size = ps[o].size
  BY MarkedIs
<1>2. \A q \in Orders \ {o} : CalmOrder(os[q], e[q])
  BY <1>1 DEF CalmOrders
<1>3. e[o].by = os[o].by /\ e[o].size = os[o].size
  BY <1>1 DEF CalmOrders, CalmOrder
<1> QED BY <1>1, <1>2, <1>3 DEF Answered

LEMMA VenueAnswersStep ==
    ASSUME ModeInv, NEW w \in Worker, NEW o \in Orders, VenueAnswers(w, o)
    PROVE  ModeStep
<1> DEFINE r == wk[w]
           s == [r EXCEPT !.pc = "cycle", !.sent = 0]
<1>1. /\ r.up /\ r.pc = "post" /\ profile' = profile /\ control' = control
      /\ orders[o].row = "submitting" /\ orders[o].by = w
      /\ OnlyProc(wk, w, s, wk')
  BY SetIs DEF VenueAnswers
<1>2. /\ IsProc(r) /\ ProcOK(w, r, control, orders) /\ IsControl(control)
      /\ \A y \in Worker \ {w} : ~wk[y].up
      /\ AreOrders(orders) /\ Exposed(control, orders)
  BY <1>1, Alone
<1>3. IsProc(s) /\ View(s, r.up, r.mode, r.cfg, r.ready, r.limit, r.policy, "cycle", r.target,
                        r.next, r.lock, r.cl)
  BY <1>2, SentMoves
<1> HIDE DEF s
<1>4. Answered(orders, orders', o)
  <2>1. /\ AreOrders(AllCancelled) /\ CalmOrders(orders, AllCancelled)
        /\ CalmOrders(orders, orders)
    BY <1>2, CancelledCalm, SameCalm
  <2>2. \A t, b : t \in {"known", "unknown"} /\ Marked(orders, o, t, b, orders')
                   => Answered(orders, orders', o)
    BY <1>2, <2>1, AnsweredIs
  <2>3. \A t, b : t \in {"known", "unknown"} /\ Marked(AllCancelled, o, t, b, orders')
                   => Answered(orders, orders', o)
    BY <2>1, AnsweredIs
  <2>4. \/ orders' = [orders EXCEPT ![o].row = "known", ![o].on = TRUE]
        \/ orders' = [AllCancelled EXCEPT ![o].row = "unknown"]
        \/ \E b : \/ orders' = [orders EXCEPT ![o].row = "unknown", ![o].on = b]
                  \/ orders' = [AllCancelled EXCEPT ![o].row = "unknown", ![o].on = b]
    BY DEF VenueAnswers
  <2>5. CASE orders' = [orders EXCEPT ![o].row = "known", ![o].on = TRUE]
    <3>1. Marked(orders, o, "known", TRUE, orders')
      BY <2>5 DEF Marked
    <3> QED BY <2>2, <3>1
  <2>6. CASE orders' = [AllCancelled EXCEPT ![o].row = "unknown"]
    <3>1. Marked(AllCancelled, o, "unknown", TRUE, orders')
      BY <2>6 DEF Marked
    <3> QED BY <2>3, <3>1
  <2>7. ASSUME NEW b, \/ orders' = [orders EXCEPT ![o].row = "unknown", ![o].on = b]
                      \/ orders' = [AllCancelled EXCEPT ![o].row = "unknown", ![o].on = b]
        PROVE  Answered(orders, orders', o)
    <3>1. \/ Marked(orders, o, "unknown", b, orders')
          \/ Marked(AllCancelled, o, "unknown", b, orders')
      BY <2>7 DEF Marked
    <3> QED BY <2>2, <2>3, <3>1
  <2> QED BY <2>4, <2>5, <2>6, <2>7
<1>5. AreOrders(orders') /\ \A q \in Orders : orders'[q].by = orders[q].by
  BY <1>4 DEF Answered, CalmOrder
<1>6. Real(r.mode) /\ s.cl.pc = "none" /\ s.mode = r.mode /\ s.up
  BY <1>1, <1>2, <1>3, RealIsFree DEF View, ProcOK, Flow
<1>7. ProcOK(w, s, control', orders')
  <2>1. Flow(s)
    BY <1>1, <1>2, <1>3 DEF View, Flow, ProcOK
  <2>2. Stage(s.cl, control', orders') /\ Cleared(s, orders')
    BY <1>6 DEF Stage, Cleared
  <2>3. /\ r.limit \in Nat /\ r.policy # "unread" /\ r.next \in Policies \cup {NoPolicy}
        /\ r.limit = Limit(r.policy, r.mode)
        /\ \A q \in Orders : orders[q].by = w =>
             /\ orders[q].row = "submitting" => q = o
             /\ orders[q].on \/ orders[q].row = "submitting" => orders[q].size <= r.limit
    BY <1>1, <1>2 DEF ProcOK, Sized
  <2>4. ASSUME NEW q \in Orders, orders'[q].by = w
        PROVE  /\ orders'[q].row # "submitting"
               /\ orders'[q].on => orders'[q].size <= r.limit
    <3>1. CASE q = o
      BY <1>1, <1>4, <2>3, <3>1 DEF Answered
    <3>2. CASE q # o
      <4>1. CalmOrder(orders[q], orders'[q])
        BY <1>4, <3>2 DEF Answered
      <4> QED BY <2>3, <2>4, <3>2, <4>1 DEF CalmOrder
    <3> QED BY <3>1, <3>2
  <2>5. Sized(w, s, orders')
    BY <1>3, <1>6, <2>3, <2>4 DEF View, Sized
  <2> QED BY <2>1, <2>2, <2>5 DEF ProcOK
<1>8. IsControl(control') /\ Exposed(control', orders')
  <2>1. Real(control.mode)
    BY <1>1, <1>2 DEF Exposed, Quiet, Pending
  <2> QED BY <1>1, <1>2, <2>1 DEF Exposed
<1>9. \A q \in Orders : orders'[q].by = orders[q].by \/ orders'[q].by = w
  BY <1>5
<1> QED BY <1>1, <1>2, <1>3, <1>5, <1>6, <1>7, <1>8, <1>9, Acts

-----------------------------------------------------------------------------
(* The cleanup *)

LEMMA CleanFailActs ==
    ASSUME ModeInv, NEW w \in Worker, wk[w].up, wk[w].cl.pc # "none", CleanupFailed(w),
           control' = control, profile' = profile
    PROVE  ModeStep
<1> DEFINE r == wk[w]
<1>1. IsProc(r) /\ ProcOK(w, r, control, orders)
  BY Alone
<1>2. CASE r.lock = "align"
  <2>1. r.pc \in {"apply", "cleanup"} /\ ConfigurationFailed(w, r)
    BY <1>1, <1>2 DEF ProcOK, Flow, CleanupFailed
  <2>2. View(r, r.up, r.mode, r.cfg, r.ready, r.limit, r.policy, r.pc, r.target, r.next, r.lock,
             r.cl)
    BY DEF View
  <2>3. ASSUME NEW cfg, NEW b, b = r.ready \/ b = FALSE,
               View(r, r.up, r.mode, cfg, b, r.limit, r.policy, r.pc, r.target, r.next, r.lock,
                    r.cl)
        PROVE  ModeStep
    BY <1>1, <2>1, <2>3, FailsActs
  <2> QED BY <2>2, <2>3
<1>3. CASE r.lock # "align"
  <2> DEFINE s == [r EXCEPT !.ready = FALSE, !.lock = "free", !.cl = NoCleanup]
  <2>1. OnlyProc(wk, w, s, wk') /\ orders' = orders
    BY <1>3, SetIs DEF CleanupFailed
  <2>2. r.lock = "watch"
    BY <1>1, <1>3 DEF ProcOK, Flow
  <2>3. IsProc(s) /\ View(s, r.up, r.mode, r.cfg, FALSE, r.limit, r.policy, r.pc, r.target,
                          r.next, "free", NoCleanup)
    BY <1>1, WatchEnds
  <2> HIDE DEF s
  <2>4. ProcOK(w, s, control, orders)
    BY <1>1, <2>2, <2>3, WatchEndView
  <2>5. s.mode = wk[w].mode
    BY <2>3 DEF View
  <2> QED BY <2>1, <2>3, <2>4, <2>5, LocalActs
<1> QED BY <1>2, <1>3

LEMMA CleanDoneActs ==
    ASSUME ModeAssumption, ModeInv, NEW w \in Worker, wk[w].up, wk[w].cl.pc # "none",
           CleanupDone(w), control' = control, profile' = profile, Quiet(orders), ~control.armed
    PROVE  ModeStep
<1> DEFINE r == wk[w]
<1>1. IsProc(r) /\ ProcOK(w, r, control, orders) /\ orders' = orders
  BY Alone DEF CleanupDone
<1>2. CASE r.lock = "align"
  <2>1. r.pc = "cleanup" /\ Set(w, Published(r))
    BY <1>1, <1>2 DEF ProcOK, Flow, CleanupDone
  <2>2. View(r, r.up, r.mode, r.cfg, r.ready, r.limit, r.policy, r.pc, r.target, r.next, r.lock,
             r.cl)
    BY DEF View
  <2>3. \A o \in Orders : ~orders'[o].on
    BY <1>1 DEF Quiet, Resting
  <2>4. Quiet(orders')
    BY <1>1
  <2> QED BY <1>1, <2>1, <2>2, <2>3, <2>4, PublishActs
<1>3. CASE r.lock # "align"
  <2> DEFINE s == [r EXCEPT !.ready = TRUE, !.lock = "free", !.cl = NoCleanup]
  <2>1. OnlyProc(wk, w, s, wk')
    BY <1>3, SetIs DEF CleanupDone
  <2>2. r.lock = "watch"
    BY <1>1, <1>3 DEF ProcOK, Flow
  <2>3. IsProc(s) /\ View(s, r.up, r.mode, r.cfg, TRUE, r.limit, r.policy, r.pc, r.target,
                          r.next, "free", NoCleanup)
    BY <1>1, WatchEnds
  <2> HIDE DEF s
  <2>4. ProcOK(w, s, control, orders)
    BY <1>1, <2>2, <2>3, WatchEndView
  <2>5. s.mode = wk[w].mode
    BY <2>3 DEF View
  <2> QED BY <1>1, <2>1, <2>3, <2>4, <2>5, LocalActs
<1> QED BY <1>2, <1>3

(* A cleanup moves on to k. *)
LEMMA CleanMovesActs ==
    ASSUME ModeInv, NEW w \in Worker, wk[w].up, wk[w].cl.pc # "none", NEW k,
           OnlyProc(wk, w, [wk[w] EXCEPT !.cl = k], wk'),
           IsCleanup(k), k.pc # "none", k.target = wk[w].cl.target,
           CalmOrders(orders, orders'), AreOrders(orders'), IsControl(control'),
           CalmControl(control, control'), KeepsMode(control, control', orders'),
           profile' = profile,
           Stage(wk[w].cl, control', orders') => Stage(k, control', orders')
    PROVE  ModeStep
<1> DEFINE r == wk[w]
           s == [r EXCEPT !.cl = k]
<1>1. IsProc(r) /\ OnlyProc(wk, w, s, wk')
  BY Alone
<1>2. IsProc(s) /\ View(s, r.up, r.mode, r.cfg, r.ready, r.limit, r.policy, r.pc, r.target,
                        r.next, r.lock, k)
  BY <1>1, CleanMoves
<1> HIDE DEF s
<1>3. ASSUME ProcOK(w, r, control', orders') PROVE ProcOK(w, s, control', orders')
  <2>1. Stage(k, control', orders')
    BY <1>3 DEF ProcOK
  <2> QED BY <1>2, <1>3, <2>1, CleanView
<1>4. s.mode = wk[w].mode
  BY <1>2 DEF View
<1> QED BY <1>1, <1>2, <1>3, <1>4, CalmActs

LEMMA CleanupPcIs ==
    ASSUME NEW k, IsCleanup(k), NEW p, NEW e, e = [k EXCEPT !.pc = p]
    PROVE  /\ IsCleanup(e) /\ e.pc = p /\ e.c = k.c /\ e.open = k.open /\ e.ver = k.ver
           /\ e.tok = k.tok /\ e.target = k.target
BY DEF IsCleanup

VerOf(k, p, v, e) == e = [k EXCEPT !.pc = p, !.ver = v]

LEMMA CleanupVerIs ==
    ASSUME NEW k, IsCleanup(k), NEW p, NEW v, NEW e, VerOf(k, p, v, e)
    PROVE  /\ IsCleanup(e) /\ e.pc = p /\ e.c = k.c /\ e.open = k.open /\ e.ver = v
           /\ e.tok = k.tok /\ e.target = k.target
BY DEF IsCleanup, VerOf

SeenOf(k, p, c, b, e) == e = [k EXCEPT !.pc = p, !.c = c, !.open = b]

LEMMA CleanupSeenIs ==
    ASSUME NEW k, IsCleanup(k), NEW p, NEW c, NEW b, NEW e, SeenOf(k, p, c, b, e)
    PROVE  /\ IsCleanup(e) /\ e.pc = p /\ e.c = c /\ e.open = b /\ e.ver = k.ver
           /\ e.tok = k.tok /\ e.target = k.target
BY DEF IsCleanup, SeenOf

LEMMA NestedPc ==
    ASSUME NEW r, IsProc(r), NEW p, NEW k, k = [r.cl EXCEPT !.pc = p]
    PROVE  [r EXCEPT !.cl.pc = p] = [r EXCEPT !.cl = k]
BY DEF IsProc

LEMMA NestedVer ==
    ASSUME NEW r, IsProc(r), NEW p, NEW v, NEW k, k = [r.cl EXCEPT !.pc = p, !.ver = v]
    PROVE  [r EXCEPT !.cl.pc = p, !.cl.ver = v] = [r EXCEPT !.cl = k]
BY DEF IsProc

LEMMA NestedSeen ==
    ASSUME NEW r, IsProc(r), NEW p, NEW c, NEW b, NEW k,
           k = [r.cl EXCEPT !.pc = p, !.c = c, !.open = b]
    PROVE  [r EXCEPT !.cl.pc = p, !.cl.c = c, !.cl.open = b] = [r EXCEPT !.cl = k]
BY DEF IsProc

LEMMA CleaningIs ==
    ASSUME ModeInv, NEW w \in Worker, wk[w].up
    PROVE  /\ IsProc(wk[w]) /\ IsCleanup(wk[w].cl) /\ Stage(wk[w].cl, control, orders)
           /\ wk[w].cl.pc # "none" => ~Real(wk[w].cl.target)
           /\ IsControl(control) /\ AreOrders(orders) /\ Exposed(control, orders)
BY Alone DEF ProcOK, Flow

(* The cleanup moves to the point p; c and os are what the step leaves. *)
LEMMA PointActs ==
    ASSUME ModeInv, NEW w \in Worker, wk[w].up, wk[w].cl.pc # "none", NEW p, p # "none",
           Set(w, [wk[w] EXCEPT !.cl.pc = p]),
           CalmOrders(orders, orders'), AreOrders(orders'), IsControl(control'),
           CalmControl(control, control'), KeepsMode(control, control', orders'),
           profile' = profile, p # "judge",
           p \in {"check", "ack", "recheck", "final", "confirm"} => ~Resting(orders'),
           p \in {"ack", "recheck", "final", "confirm"} => ~Pending(orders'),
           p \in {"recheck", "final", "confirm"} => ~control'.armed
    PROVE  ModeStep
<1> DEFINE r == wk[w]
           k == [r.cl EXCEPT !.pc = p]
<1>1. IsProc(r) /\ IsCleanup(r.cl)
  BY CleaningIs
<1>2. [r EXCEPT !.cl.pc = p] = [r EXCEPT !.cl = k]
  BY <1>1, NestedPc
<1>3. OnlyProc(wk, w, [r EXCEPT !.cl = k], wk')
  BY <1>2, SetIs
<1>k. k = [r.cl EXCEPT !.pc = p]
  OBVIOUS
<1> HIDE DEF k
<1>4. /\ IsCleanup(k) /\ k.pc = p /\ k.c = r.cl.c /\ k.open = r.cl.open /\ k.ver = r.cl.ver
      /\ k.tok = r.cl.tok /\ k.target = r.cl.target
  BY <1>1, <1>k, CleanupPcIs
<1>5. Stage(k, control', orders')
  BY <1>4 DEF Stage
<1> QED BY <1>3, <1>4, <1>5, CleanMovesActs

LEMMA CleanupReadStep ==
    ASSUME ModeInv, NEW w \in Worker, CleanupRead(w)
    PROVE  ModeStep
<1> DEFINE r == wk[w]
           b == Pending(orders)
           p == "judge"
           k == [r.cl EXCEPT !.pc = p, !.c = control, !.open = b]
<1>1. /\ r.up /\ r.cl.pc = "read" /\ orders' = orders /\ control' = control /\ profile' = profile
      /\ Set(w, [r EXCEPT !.cl.pc = p, !.cl.c = control, !.cl.open = b])
  BY DEF CleanupRead, CleanupAt
<1>2. /\ IsProc(r) /\ IsCleanup(r.cl) /\ IsControl(control) /\ AreOrders(orders)
      /\ Exposed(control, orders)
  BY <1>1, CleaningIs
<1> HIDE DEF b, p
<1>3. [r EXCEPT !.cl.pc = p, !.cl.c = control, !.cl.open = b] = [r EXCEPT !.cl = k]
  BY <1>2, NestedSeen
<1>4. OnlyProc(wk, w, [r EXCEPT !.cl = k], wk')
  BY <1>1, <1>3, SetIs
<1>k. SeenOf(r.cl, p, control, b, k)
  BY DEF SeenOf
<1> HIDE DEF k
<1>5. /\ IsCleanup(k) /\ k.pc = p /\ k.c = control /\ k.open = b /\ k.ver = r.cl.ver
      /\ k.tok = r.cl.tok /\ k.target = r.cl.target
  BY <1>2, <1>k, CleanupSeenIs
<1>6. p = "judge"
  BY DEF p
<1>7. Stage(k, control, orders)
  BY <1>2, <1>5, <1>6 DEF Stage, HistoricalLive, Exposed
<1> QED BY <1>1, <1>2, <1>4, <1>5, <1>6, <1>7, SameRows, SameControl, CleanMovesActs

LEMMA CleanupJudgeStep ==
    ASSUME ModeAssumption, ModeInv, NEW w \in Worker, CleanupJudge(w)
    PROVE  ModeStep
<1> DEFINE r == wk[w]
<1>1. r.up /\ r.cl.pc = "judge" /\ control' = control /\ profile' = profile
  BY DEF CleanupJudge, CleanupAt
<1>2. /\ IsControl(control) /\ AreOrders(orders) /\ Stage(r.cl, control, orders)
  BY <1>1, CleaningIs
<1>3. CASE CleanupFailed(w)
  BY <1>1, <1>3, CleanFailActs
<1>4. CASE CleanupMoves(w, "latch")
  <2>1. Set(w, [wk[w] EXCEPT !.cl.pc = "latch"]) /\ orders' = orders
    BY <1>4 DEF CleanupMoves
  <2> QED BY <1>1, <1>2, <2>1, SameRows, SameControl, PointActs
<1>5. ASSUME ~HistoricalLive(r.cl) PROVE Quiet(orders) /\ ~control.armed
  BY <1>1, <1>2, <1>5 DEF Stage
<1>6. CASE ~HistoricalLive(r.cl) /\ CleanupDone(w)
  BY <1>1, <1>5, <1>6, CleanDoneActs
<1>7. CASE ~HistoricalLive(r.cl) /\ CleanupMoves(w, "final")
  <2>1. Set(w, [wk[w] EXCEPT !.cl.pc = "final"]) /\ orders' = orders
    BY <1>7 DEF CleanupMoves
  <2>2. ~Resting(orders') /\ ~Pending(orders') /\ ~control'.armed
    BY <1>1, <1>5, <1>7, <2>1 DEF Quiet
  <2> QED BY <1>1, <1>2, <2>1, <2>2, SameRows, SameControl, PointActs
<1> QED BY <1>3, <1>4, <1>6, <1>7 DEF CleanupJudge

LEMMA CleanupLatchStep ==
    ASSUME ModeInv, NEW w \in Worker, CleanupLatch(w)
    PROVE  ModeStep
<1> DEFINE r == wk[w]
           h == HistoricalMode(r.cl)
           p == "cancel"
<1>1. /\ r.up /\ r.cl.pc = "latch" /\ profile' = profile /\ orders' = orders
      /\ control' = control \/ control' = DisarmedIn(control, h)
  BY DEF CleanupLatch, CleanupAt
<1>2. PICK v : Set(w, [r EXCEPT !.cl.pc = "cancel", !.cl.ver = v])
  BY DEF CleanupLatch
<1>3. IsProc(r) /\ IsCleanup(r.cl) /\ IsControl(control) /\ AreOrders(orders)
  BY <1>1, CleaningIs
<1>4. Real(h)
  BY DEF HistoricalMode, Real
<1> HIDE DEF h, p
<1>5. /\ IsControl(control') /\ CalmControl(control, control')
      /\ KeepsMode(control, control', orders')
  <2>1. CASE control' = control
    BY <1>3, <2>1, SameControl
  <2>2. CASE control' = DisarmedIn(control, h)
    <3>1. IsControl(control') /\ control'.mode = h /\ ~control'.armed
      BY <2>2, DisarmedIs
    <3> QED BY <1>4, <3>1 DEF CalmControl, KeepsMode
  <2> QED BY <1>1, <2>1, <2>2
<1> DEFINE k == [r.cl EXCEPT !.pc = p, !.ver = v]
<1>6. p = "cancel"
  BY DEF p
<1>7. [r EXCEPT !.cl.pc = p, !.cl.ver = v] = [r EXCEPT !.cl = k]
  BY <1>3, NestedVer
<1>8. OnlyProc(wk, w, [r EXCEPT !.cl = k], wk')
  BY <1>2, <1>6, <1>7, SetIs
<1>k. VerOf(r.cl, p, v, k)
  BY DEF VerOf
<1> HIDE DEF k
<1>9. /\ IsCleanup(k) /\ k.pc = p /\ k.c = r.cl.c /\ k.open = r.cl.open /\ k.ver = v
      /\ k.tok = r.cl.tok /\ k.target = r.cl.target
  BY <1>3, <1>k, CleanupVerIs
<1>10. Stage(k, control', orders')
  BY <1>6, <1>9 DEF Stage
<1> QED BY <1>1, <1>3, <1>5, <1>6, <1>8, <1>9, <1>10, SameRows, CleanMovesActs

LEMMA CleanupCancelStep ==
    ASSUME ModeInv, NEW w \in Worker, CleanupCancel(w)
    PROVE  ModeStep
<1>1. wk[w].up /\ wk[w].cl.pc = "cancel" /\ control' = control /\ profile' = profile
  BY DEF CleanupCancel, CleanupAt
<1>2. IsControl(control) /\ AreOrders(orders)
  BY <1>1, CleaningIs
<1>3. CASE CleanupFailed(w)
  BY <1>1, <1>3, CleanFailActs
<1>4. CASE orders' = AllCancelled /\ Set(w, [wk[w] EXCEPT !.cl.pc = "check"])
  <2>1. AreOrders(orders') /\ CalmOrders(orders, orders') /\ ~Resting(orders')
    BY <1>2, <1>4, CancelledCalm
  <2> QED BY <1>1, <1>2, <1>4, <2>1, SameControl, PointActs
<1> QED BY <1>3, <1>4 DEF CleanupCancel

LEMMA CleanupCheckStep ==
    ASSUME ModeInv, NEW w \in Worker, CleanupCheck(w)
    PROVE  ModeStep
<1>1. wk[w].up /\ wk[w].cl.pc = "check" /\ control' = control /\ profile' = profile
  BY DEF CleanupCheck, CleanupAt
<1>2. IsControl(control) /\ AreOrders(orders) /\ Stage(wk[w].cl, control, orders)
  BY <1>1, CleaningIs
<1>3. CASE CleanupFailed(w)
  BY <1>1, <1>3, CleanFailActs
<1>4. CASE ~Pending(orders) /\ CleanupMoves(w, "ack")
  <2>1. Set(w, [wk[w] EXCEPT !.cl.pc = "ack"]) /\ orders' = orders
    BY <1>4 DEF CleanupMoves
  <2>2. ~Resting(orders') /\ ~Pending(orders')
    BY <1>1, <1>2, <1>4, <2>1 DEF Stage
  <2> QED BY <1>1, <1>2, <2>1, <2>2, SameRows, SameControl, PointActs
<1> QED BY <1>3, <1>4 DEF CleanupCheck

LEMMA CleanupAckStep ==
    ASSUME ModeInv, NEW w \in Worker, CleanupAck(w)
    PROVE  ModeStep
<1>1. wk[w].up /\ wk[w].cl.pc = "ack" /\ profile' = profile
  BY DEF CleanupAck, CleanupAt
<1>2. IsControl(control) /\ AreOrders(orders) /\ Stage(wk[w].cl, control, orders)
  BY <1>1, CleaningIs
<1>3. CASE CleanupFailed(w) /\ control' = control
  BY <1>1, <1>3, CleanFailActs
<1>4. CASE /\ AckTaken(wk[w].cl.ver)
           /\ control' = [control EXCEPT !.pend = FALSE, !.ver = @ + 1]
           /\ CleanupMoves(w, "recheck")
  <2>1. Set(w, [wk[w] EXCEPT !.cl.pc = "recheck"]) /\ orders' = orders
    BY <1>4 DEF CleanupMoves
  <2>2. IsControl(control') /\ control'.mode = control.mode /\ control'.armed = control.armed
    BY <1>2, <1>4, AckIs
  <2>3. ~Resting(orders') /\ ~Pending(orders') /\ ~control'.armed
    BY <1>1, <1>2, <1>4, <2>1, <2>2 DEF Stage, AckTaken
  <2>4. CalmControl(control, control') /\ KeepsMode(control, control', orders')
    BY <2>2 DEF CalmControl, KeepsMode
  <2> QED BY <1>1, <1>2, <2>1, <2>2, <2>3, <2>4, SameRows, PointActs
<1> QED BY <1>3, <1>4 DEF CleanupAck

LEMMA CleanupRecheckStep ==
    ASSUME ModeInv, NEW w \in Worker, CleanupRecheck(w)
    PROVE  ModeStep
<1>1. wk[w].up /\ wk[w].cl.pc = "recheck" /\ control' = control /\ profile' = profile
  BY DEF CleanupRecheck, CleanupAt
<1>2. IsControl(control) /\ AreOrders(orders) /\ Stage(wk[w].cl, control, orders)
  BY <1>1, CleaningIs
<1>3. CASE CleanupFailed(w)
  BY <1>1, <1>3, CleanFailActs
<1>4. CASE CleanupMoves(w, "final")
  <2>1. Set(w, [wk[w] EXCEPT !.cl.pc = "final"]) /\ orders' = orders
    BY <1>4 DEF CleanupMoves
  <2>2. ~Resting(orders') /\ ~Pending(orders') /\ ~control'.armed
    BY <1>1, <1>2, <2>1 DEF Stage
  <2> QED BY <1>1, <1>2, <2>1, <2>2, SameRows, SameControl, PointActs
<1> QED BY <1>3, <1>4 DEF CleanupRecheck

LEMMA CleanupFinalStep ==
    ASSUME ModeInv, NEW w \in Worker, CleanupFinal(w)
    PROVE  ModeStep
<1> DEFINE t == wk[w].cl.target
<1>1. /\ wk[w].up /\ wk[w].cl.pc = "final" /\ profile' = profile
      /\ control' = DisarmedIn(control, t)
      /\ Set(w, [wk[w] EXCEPT !.cl.pc = "confirm"]) /\ orders' = orders
  BY DEF CleanupFinal, CleanupAt, CleanupMoves
<1>2. AreOrders(orders) /\ Stage(wk[w].cl, control, orders)
  BY <1>1, CleaningIs
<1> HIDE DEF t
<1>3. IsControl(control') /\ ~control'.armed
  BY <1>1, DisarmedIs
<1>4. ~Resting(orders') /\ ~Pending(orders')
  BY <1>1, <1>2 DEF Stage
<1>5. CalmControl(control, control') /\ KeepsMode(control, control', orders')
  BY <1>3, <1>4 DEF CalmControl, KeepsMode, Quiet
<1> QED BY <1>1, <1>2, <1>3, <1>4, <1>5, SameRows, PointActs

LEMMA CleanupConfirmStep ==
    ASSUME ModeAssumption, ModeInv, NEW w \in Worker, CleanupConfirm(w)
    PROVE  ModeStep
<1>1. wk[w].up /\ wk[w].cl.pc = "confirm" /\ control' = control /\ profile' = profile
  BY DEF CleanupConfirm, CleanupAt
<1>2. Quiet(orders) /\ ~control.armed
  BY <1>1, CleaningIs DEF Stage, Quiet
<1>3. CASE CleanupFailed(w)
  BY <1>1, <1>3, CleanFailActs
<1>4. CASE CleanupDone(w)
  BY <1>1, <1>2, <1>4, CleanDoneActs
<1> QED BY <1>3, <1>4 DEF CleanupConfirm

LEMMA CleanupRaisesStep ==
    ASSUME ModeInv, NEW w \in Worker, CleanupRaises(w)
    PROVE  ModeStep
<1>1. wk[w].up /\ wk[w].cl.pc # "none" /\ CleanupFailed(w) /\ control' = control
      /\ profile' = profile
  BY DEF CleanupRaises
<1> QED BY <1>1, CleanFailActs

-----------------------------------------------------------------------------
(* The watcher *)

LEMMA WatchSimulatedStep ==
    ASSUME ModeInv, NEW w \in Worker, WatchSimulated(w)
    PROVE  ModeStep
<1> DEFINE r == wk[w]
<1>1. /\ r.up /\ r.lock = "free" /\ ~Real(r.mode)
      /\ control' = control /\ profile' = profile /\ orders' = orders
  BY DEF WatchSimulated
<1>2. IsProc(r) /\ ProcOK(w, r, control, orders)
  BY <1>1, Alone
<1>3. CASE r.tok = 0
  <2> DEFINE s == [r EXCEPT !.ready = FALSE]
  <2>1. OnlyProc(wk, w, s, wk')
    BY <1>3, SetIs DEF WatchSimulated
  <2>2. IsProc(s) /\ View(s, r.up, r.mode, r.cfg, FALSE, r.limit, r.policy, r.pc, r.target,
                          r.next, r.lock, r.cl)
    BY <1>2, ReadyMoves
  <2> HIDE DEF s
  <2>3. ProcOK(w, s, control, orders)
    BY <1>1, <1>2, <2>2, WatchView
  <2>4. s.mode = wk[w].mode
    BY <2>2 DEF View
  <2> QED BY <1>1, <2>1, <2>2, <2>3, <2>4, LocalActs
<1>4. CASE r.tok # 0
  <2> DEFINE k == CleanupOf(r, r.mode)
             s == [r EXCEPT !.lock = "watch", !.cl = k]
  <2>1. OnlyProc(wk, w, s, wk')
    BY <1>4, SetIs DEF WatchSimulated
  <2>2. IsCleanup(k) /\ k.pc = "read" /\ ~Real(k.target)
    BY <1>1, CleanupOfIs
  <2> HIDE DEF k
  <2>3. IsProc(s) /\ View(s, r.up, r.mode, r.cfg, r.ready, r.limit, r.policy, r.pc, r.target,
                          r.next, "watch", k)
    BY <1>2, WatchStarts
  <2> HIDE DEF s
  <2>4. ProcOK(w, s, control, orders)
    BY <1>1, <1>2, <2>2, <2>3, StartView
  <2>5. s.mode = wk[w].mode
    BY <2>3 DEF View
  <2> QED BY <1>1, <2>1, <2>3, <2>4, <2>5, LocalActs
<1> QED BY <1>3, <1>4

(* The watcher of a real mode: it may disarm and latch, never arm. *)
LEMMA RealActs ==
    ASSUME ModeInv, NEW w \in Worker, wk[w].up, wk[w].lock \notin {"align", "watch"},
           NEW l, l \in {"free", "enforce", "ack"}, Real(wk[w].mode), NEW b, NEW s,
           OnlyProc(wk, w, s, wk'), IsProc(s),
           View(s, wk[w].up, wk[w].mode, wk[w].cfg, b, wk[w].limit, wk[w].policy, wk[w].pc,
                wk[w].target, wk[w].next, l, wk[w].cl),
           orders' = AllCancelled \/ orders' = orders, profile' = profile,
           IsControl(control'), CalmControl(control, control'),
           control'.mode = control.mode \/ control'.mode = wk[w].mode
    PROVE  ModeStep
<1>1. AreOrders(orders') /\ CalmOrders(orders, orders')
  BY MayCancel
<1>2. KeepsMode(control, control', orders')
  BY DEF KeepsMode
<1>3. ProcOK(w, wk[w], control', orders') => ProcOK(w, s, control', orders')
  BY WatchView
<1>4. s.mode = wk[w].mode
  BY DEF View
<1> QED BY <1>1, <1>2, <1>3, <1>4, CalmActs

LEMMA WatchRealStep ==
    ASSUME ModeInv, NEW w \in Worker, WatchReal(w)
    PROVE  ModeStep
<1> DEFINE r        == wk[w]
           armed    == control.armed /\ control.mode = r.mode
           mismatch == control.armed /\ control.mode # r.mode
           seen     == IF mismatch THEN DisarmedIn(control, r.mode) ELSE control
           left     == ~ armed /\ (r.ver = 0 \/ r.was \/ mismatch)
           retry    == r.pend /\ (r.ver = 0 \/ seen.ver = r.ver \/ seen.pend)
           needed   == retry \/ seen.pend \/ left
           latched  == IF needed /\ ~ seen.pend THEN DisarmedIn(seen, r.mode) ELSE seen
           v == latched.ver
           a == armed /\ ~ needed
           l == IF needed THEN "enforce" ELSE "free"
           b == IF needed THEN r.ready ELSE TRUE
           s == [r EXCEPT !.ver = v, !.was = a, !.pend = needed, !.lock = l, !.ready = b]
<1>1. r.up /\ r.lock = "free" /\ Real(r.mode) /\ profile' = profile /\ orders' = orders
  BY DEF WatchReal
<1>2. control' = latched /\ Set(w, s)
  BY DEF WatchReal
<1>3. OnlyProc(wk, w, s, wk')
  BY <1>2, SetIs
<1>4. l \in {"free", "enforce", "ack"}
  OBVIOUS
<1>5. IsProc(r) /\ IsControl(control)
  BY <1>1, Alone
<1> HIDE DEF needed
<1>6. /\ IsControl(control') /\ CalmControl(control, control')
      /\ control'.mode = control.mode \/ control'.mode = r.mode
  <2>1. /\ IsControl(seen) /\ CalmControl(control, seen)
        /\ seen.mode = control.mode \/ seen.mode = r.mode
    <3>1. CASE mismatch
      BY <3>1, DisarmedIs DEF CalmControl
    <3>2. CASE ~mismatch
      BY <1>5, <3>2, SameCalm
    <3> QED BY <3>1, <3>2
  <2> HIDE DEF seen
  <2>2. CASE needed /\ ~ seen.pend
    <3>1. control' = DisarmedIn(seen, r.mode)
      BY <1>2, <2>2
    <3> DEFINE d == DisarmedIn(seen, r.mode)
    <3>2. IsControl(d) /\ d.mode = r.mode /\ ~d.armed
      BY DisarmedIs
    <3>3. control' = d
      BY <3>1
    <3> HIDE DEF d
    <3> QED BY <3>2, <3>3 DEF CalmControl
  <2>3. CASE ~(needed /\ ~ seen.pend)
    BY <1>2, <2>1, <2>3
  <2> QED BY <2>2, <2>3
<1> HIDE DEF v, a, l, b, latched
<1>7. IsProc(s) /\ View(s, r.up, r.mode, r.cfg, b, r.limit, r.policy, r.pc, r.target, r.next, l,
                        r.cl)
  BY <1>5, RealMoves
<1> HIDE DEF s
<1> QED BY <1>1, <1>3, <1>4, <1>6, <1>7, RealActs

LEMMA RealWatcher ==
    ASSUME ModeInv, NEW w \in Worker, wk[w].up, wk[w].lock \in {"enforce", "ack"}
    PROVE  Real(wk[w].mode)
BY Alone DEF ProcOK, Flow

LEMMA WatchCancelStep ==
    ASSUME ModeInv, NEW w \in Worker, WatchCancel(w)
    PROVE  ModeStep
<1> DEFINE r == wk[w]
<1>1. r.up /\ r.lock = "enforce" /\ control' = control /\ profile' = profile
  BY DEF WatchCancel
<1>2. IsProc(r) /\ IsControl(control) /\ Real(r.mode)
  BY <1>1, Alone, RealWatcher
<1>3. IsControl(control') /\ CalmControl(control, control') /\ control'.mode = control.mode
  BY <1>1, <1>2, SameControl
<1>4. CASE orders' = AllCancelled /\ Set(w, [r EXCEPT !.lock = "ack"])
  <2> DEFINE s == [r EXCEPT !.lock = "ack"]
  <2>1. OnlyProc(wk, w, s, wk')
    BY <1>4, SetIs
  <2>2. IsProc(s) /\ View(s, r.up, r.mode, r.cfg, r.ready, r.limit, r.policy, r.pc, r.target,
                          r.next, "ack", r.cl)
    BY <1>2, LockMoves
  <2> HIDE DEF s
  <2> QED BY <1>1, <1>2, <1>3, <1>4, <2>1, <2>2, RealActs
<1>5. CASE orders' = orders /\ Set(w, [r EXCEPT !.lock = "free", !.ready = FALSE])
  <2> DEFINE s == [r EXCEPT !.lock = "free", !.ready = FALSE]
  <2>1. OnlyProc(wk, w, s, wk')
    BY <1>5, SetIs
  <2>2. IsProc(s) /\ View(s, r.up, r.mode, r.cfg, FALSE, r.limit, r.policy, r.pc, r.target,
                          r.next, "free", r.cl)
    BY <1>2, LockReadyMoves
  <2> HIDE DEF s
  <2> QED BY <1>1, <1>2, <1>3, <1>5, <2>1, <2>2, RealActs
<1> QED BY <1>4, <1>5 DEF WatchCancel

LEMMA WatchAckStep ==
    ASSUME ModeInv, NEW w \in Worker, WatchAck(w)
    PROVE  ModeStep
<1> DEFINE r == wk[w]
<1>1. r.up /\ r.lock = "ack" /\ profile' = profile /\ orders' = orders
  BY DEF WatchAck
<1>2. IsProc(r) /\ IsControl(control) /\ Real(r.mode)
  BY <1>1, Alone, RealWatcher
<1>3. CASE AckTaken(r.ver)
  <2> DEFINE v == control'.ver
             s == [r EXCEPT !.lock = "free", !.ver = v, !.pend = FALSE, !.ready = TRUE]
  <2>1. Set(w, s) /\ control' = [control EXCEPT !.pend = FALSE, !.ver = @ + 1]
    BY <1>3 DEF WatchAck
  <2>2. OnlyProc(wk, w, s, wk')
    BY <2>1, SetIs
  <2> HIDE DEF v
  <2>3. IsProc(s) /\ View(s, r.up, r.mode, r.cfg, TRUE, r.limit, r.policy, r.pc, r.target,
                          r.next, "free", r.cl)
    BY <1>2, AckMoves
  <2> HIDE DEF s
  <2>4. IsControl(control') /\ control'.mode = control.mode /\ control'.armed = control.armed
    BY <1>2, <2>1, AckIs
  <2>5. CalmControl(control, control')
    BY <2>4 DEF CalmControl
  <2> QED BY <1>1, <1>2, <2>2, <2>3, <2>4, <2>5, RealActs
<1>4. CASE ~AckTaken(r.ver)
  <2> DEFINE s == [r EXCEPT !.lock = "free", !.ready = FALSE]
  <2>1. control' = control /\ OnlyProc(wk, w, s, wk')
    BY <1>4, SetIs DEF WatchAck
  <2>2. IsProc(s) /\ View(s, r.up, r.mode, r.cfg, FALSE, r.limit, r.policy, r.pc, r.target,
                          r.next, "free", r.cl)
    BY <1>2, LockReadyMoves
  <2> HIDE DEF s
  <2>3. IsControl(control') /\ CalmControl(control, control') /\ control'.mode = control.mode
    BY <1>2, <2>1, SameControl
  <2> QED BY <1>1, <1>2, <2>1, <2>2, <2>3, RealActs
<1> QED BY <1>3, <1>4

LEMMA WatchFailsStep ==
    ASSUME ModeInv, NEW w \in Worker, WatchFails(w)
    PROVE  ModeStep
<1> DEFINE r == wk[w]
<1>1. /\ r.up /\ Real(r.mode) /\ r.lock \in {"free", "enforce", "ack"}
      /\ control' = control /\ profile' = profile
  BY DEF WatchFails
<1>2. PICK verified \in BOOLEAN :
         /\ Set(w, [wk[w] EXCEPT !.lock = "free", !.ready = FALSE, !.pend = ~ verified])
         /\ orders' = IF verified THEN AllCancelled ELSE orders
  BY DEF WatchFails
<1> DEFINE p == ~ verified
           s == [r EXCEPT !.lock = "free", !.ready = FALSE, !.pend = p]
<1>3. OnlyProc(wk, w, s, wk') /\ (orders' = AllCancelled \/ orders' = orders)
  BY <1>2, SetIs
<1>4. IsProc(r) /\ IsControl(control)
  BY <1>1, Alone
<1> HIDE DEF p
<1>5. IsProc(s) /\ View(s, r.up, r.mode, r.cfg, FALSE, r.limit, r.policy, r.pc, r.target,
                        r.next, "free", r.cl)
  BY <1>4, FallMoves
<1> HIDE DEF s
<1>6. IsControl(control') /\ CalmControl(control, control') /\ control'.mode = control.mode
  BY <1>1, <1>4, SameControl
<1> QED BY <1>1, <1>3, <1>5, <1>6, RealActs

-----------------------------------------------------------------------------
(* The invariant of the specification *)

LEMMA ModeInitial ==
    ASSUME ModeAssumption, Init
    PROVE  ModeInv
<1> DEFINE x == [row |-> "none", on |-> FALSE, by |-> NoWorker, size |-> 0]
<1>1. \A w \in Worker : wk[w] = Down
  BY DEF Init
<1>2. AreProcs(wk)
  <2>1. wk = [w \in Worker |-> wk[w]]
    BY DEF Init
  <2> QED BY <1>1, <2>1, DownIs DEF AreProcs
<1>3. IsOrder(x) /\ x.row = "none" /\ x.on = FALSE /\ x.by = NoWorker
  BY DEF IsOrder
<1>4. orders = [o \in Orders |-> x]
  BY DEF Init
<1> HIDE DEF x
<1>5. \A o \in Orders : orders[o] = x
  BY <1>4
<1>6. AreOrders(orders)
  BY <1>3, <1>4, <1>5 DEF AreOrders
<1>7. Quiet(orders)
  BY <1>3, <1>5 DEF Quiet, Resting, Pending
<1>8. IsControl(control)
  BY DEF Init, IsControl
<1>9. profile.policy \in Policies \cup {NoPolicy}
  BY DEF Init
<1>10. ASSUME NEW w \in Worker PROVE ProcOK(w, wk[w], control, orders)
  <2>1. Flow(Down) /\ Cleared(Down, orders) /\ Stage(Down.cl, control, orders)
    BY <1>7, DownIs DEF View, Flow, Cleared, Stage
  <2>2. \A o \in Orders : orders[o].by # w
    BY <1>3, <1>5, NoWorkerAssumption
  <2>3. Sized(w, Down, orders)
    BY <2>2, DownIs DEF Sized, View, ModeAssumption
  <2> QED BY <1>1, <2>1, <2>3 DEF ProcOK
<1>11. \A w \in Worker : ~wk[w].up
  BY <1>1, DownIs DEF View
<1> QED BY <1>2, <1>6, <1>7, <1>8, <1>9, <1>10, <1>11 DEF ModeInv, Exposed

LEMMA ModeStepAll ==
    ASSUME ModeAssumption, Overlap = FALSE, ModeInv, [Next]_vars
    PROVE  ModeStep
<1>1. CASE ClaimLapses
  BY <1>1, ClaimLapsesStep
<1>2. CASE Pause
  BY <1>2, PauseStep
<1>3. ASSUME NEW m \in Selectable, NEW p \in Policies \union {NoPolicy}, Switch(m, p)
      PROVE  ModeStep
  BY <1>3, SwitchStep
<1>4. ASSUME NEW o \in Orders, Resolve(o) \/ Leaves(o) PROVE ModeStep
  BY <1>4, ResolveStep
<1>5. ASSUME NEW w \in Worker,
             Start(w) \/ Crash(w) \/ ClaimLease(w) \/ LoseLease(w)
      PROVE  ModeStep
  BY <1>5, StartStep, CrashStep, ClaimLeaseStep, LoseLeaseStep
<1>6. ASSUME NEW w \in Worker, MainStep(w) PROVE ModeStep
  <2>1. ASSUME NEW o \in Orders, VenueAnswers(w, o) PROVE ModeStep
    BY <2>1, VenueAnswersStep
  <2> QED BY <1>6, <2>1, ReadConfigurationStep, ApplyStep, StartCycleStep, PrepareStep,
             EndCycleStep DEF MainStep
<1>7. ASSUME NEW w \in Worker, CleanupStep(w) PROVE ModeStep
  BY <1>7, CleanupReadStep, CleanupJudgeStep, CleanupLatchStep, CleanupCancelStep,
     CleanupCheckStep, CleanupAckStep, CleanupRecheckStep, CleanupFinalStep, CleanupConfirmStep
     DEF CleanupStep
<1>8. ASSUME NEW w \in Worker, WatchStep(w) PROVE ModeStep
  BY <1>8, WatchSimulatedStep, WatchRealStep, WatchCancelStep, WatchAckStep DEF WatchStep
<1>9. ASSUME NEW w \in Worker, ReadFails(w) \/ CleanupRaises(w) \/ WatchFails(w)
      PROVE  ModeStep
  BY <1>9, ReadFailsStep, CleanupRaisesStep, WatchFailsStep
<1>10. ASSUME NEW w \in Worker, NEW o \in Orders, MarkSubmitting(w, o) PROVE ModeStep
  BY <1>10, MarkSubmittingStep
<1>11. CASE UNCHANGED vars
  <2>1. wk' = wk /\ orders' = orders /\ control' = control /\ profile' = profile
    BY <1>11 DEF vars
  <2>2. AreOrders(orders') /\ IsControl(control') /\ profile'.policy \in Policies \cup {NoPolicy}
    BY <2>1 DEF ModeInv
  <2> QED BY <2>1, <2>2, SameRows, SameControl, Still
<1> QED BY <1>1, <1>2, <1>3, <1>4, <1>5, <1>6, <1>7, <1>8, <1>9, <1>10, <1>11 DEF Next

(* The invariant of a deployment whose processes do not overlap.              *)
THEOREM ModeInvariant ==
    ASSUME ModeAssumption, Overlap = FALSE
    PROVE  Spec => []ModeInv
<1>1. Init => ModeInv
  BY ModeInitial
<1>2. ModeInv /\ [Next]_vars => ModeInv'
  BY ModeStepAll DEF ModeStep
<1> QED BY <1>1, <1>2, PTL DEF Spec

(* A simulated cycle that may trade has no live exposure behind it.           *)
THEOREM SimulatedCyclesAreClean ==
    ASSUME ModeAssumption, Overlap = FALSE
    PROVE  Spec => []SimulationIsClean
<1>1. ModeInv => SimulationIsClean
  <2> SUFFICES ASSUME ModeInv, NEW w \in Worker,
                      wk[w].pc = "cycle", ~Real(wk[w].mode), Guard(w)
               PROVE  ~ Resting(orders) /\ ~ Pending(orders)
    BY DEF SimulationIsClean
  <2>1. ProcOK(w, wk[w], control, orders)
    BY DEF ModeInv
  <2>2. wk[w].up /\ wk[w].ready
    BY <2>1 DEF ProcOK, Flow, Guard
  <2> QED BY <2>1, <2>2 DEF ProcOK, Cleared, Quiet
<1> QED BY <1>1, ModeInvariant, PTL

(* Lowering the risk limits reaches what already rests at the venue.          *)
THEOREM LimitsReachRestingOrders ==
    ASSUME ModeAssumption, Overlap = FALSE
    PROVE  Spec => []RestingWithinLimits
<1>1. ModeInv => RestingWithinLimits
  BY DEF ModeInv, ProcOK, Sized, RestingWithinLimits
<1> QED BY <1>1, ModeInvariant, PTL

(* A process gives up a real mode only when nothing is left behind it.        *)
THEOREM RealModesAreLeftClean ==
    ASSUME ModeAssumption, Overlap = FALSE
    PROVE  Spec => RealModeLeftClean
<1>1. ModeInv /\ [Next]_vars =>
         [\A w \in Worker :
            (wk[w].up /\ wk'[w].up /\ Real(wk[w].mode) /\ ~ Real(wk'[w].mode)) =>
               ~ Resting(orders') /\ ~ Pending(orders') /\ ~ control'.armed]_vars
  BY ModeStepAll DEF ModeStep, LeftClean
<1> QED BY <1>1, ModeInvariant, PTL DEF Spec, RealModeLeftClean
=============================================================================
