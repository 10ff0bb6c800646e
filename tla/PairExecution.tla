---------------------------- MODULE PairExecution ----------------------------
(***************************************************************************)
(* The life of one pair order group under PairExecutionCoordinator:        *)
(*   - submit_plan persists the plan, posts both legs, stores the result;  *)
(*   - the reconciler delivers exchange trades to on_fill, one at a time;  *)
(*   - calls of process_deadline cancel, hedge and freeze.                 *)
(* They share the group only through compare-and-set on its version.  The  *)
(* exchange executes trades whenever an order is open, and knows orders    *)
(* that the group has no id for.                                           *)
(*                                                                         *)
(* A call of process_deadline before the deadline returns without effect;  *)
(* it is a stuttering step, and a call here is one past the deadline.      *)
(* PAPER_FILLED and SHADOWED results are left out: an entry leg is         *)
(* post-only, _validate_intent wants its price below the best ask, and     *)
(* PaperBroker fills at asks up to the price, so paper and shadow reject   *)
(* every entry leg and the group ends "failed".                            *)
(***************************************************************************)
EXTENDS PairGroup

CONSTANTS
    Runner,         \* concurrent calls of process_deadline
    Faults,         \* bound: "abort" an exception out of one call,
                    \* "restart" the process
    DeliverEarly    \* may a trade be delivered while the task that posted its
                    \* order has not stored the order id yet?

ASSUME ExecutionAssumption ==
    Faults \subseteq {"abort", "restart"} /\ DeliverEarly \in BOOLEAN

MaxCasRetries == 3      \* PairCoordinatorConfig.maximum_cas_retries

VARIABLES
    db,         \* order_groups and order_legs: the group state
    seen,       \* pair_inventory_events: fills that were applied
    stock,      \* pair_inventory: YES and NO shares
    book,       \* exchange: the order of each leg
    traded,     \* exchange: shares of each leg that were executed
    notified,   \* _notified_clob_trade_ids of the reconciler process
    sub,        \* the call of submit_plan
    fl,         \* the fill callback; a lock admits one at a time
    run,        \* the calls of process_deadline
    calm        \* environment: no more faults (only FairSpec uses it)

vars == <<db, seen, stock, book, traded, notified, sub, fl, run, calm>>

dbVars == <<db, seen, stock>>
exVars == <<book, traded>>

(* The k-th trade of leg l has id <<l, k>> and is of one share. *)
Fill == Leg \X (1 .. Target)

Executed == {f \in Fill : f[2] <= traded[f[1]]}

NoGroup == [st |-> "none", ver |-> 0, inv |-> [paired |-> 0, yes |-> 0, no |-> 0],
            leg |-> [l \in Leg |-> NoLeg]]

GroupState == [st : GroupStatus, ver : Nat, inv : Inventory, leg : [Leg -> LegRecord]]

LegResult == {"none", "accepted", "rejected", "error", "errorId"}

SubmitTask == [pc : {"new", "batch", "cancel", "cancelAll", "result", "freeze", "done"},
               res : [Entry -> LegResult]]

NoFill == <<0, 0>>

FillTask == [pc : {"idle", "group", "legs", "commit"}, f : Fill \cup {NoFill},
             try : 0 .. MaxCasRetries, snap : GroupState]

RunTask == [pc : {"idle", "legs", "terminal", "mark", "cancel", "fail", "barrier",
                  "relegs", "confirm", "post", "hedged"},
            snap : GroupState, ids : SUBSET Leg, h : Hedge \cup {0}, res : LegResult]

IdleFill == [pc |-> "idle", f |-> NoFill, try |-> 0, snap |-> NoGroup]

IdleRun == [pc |-> "idle", snap |-> NoGroup, ids |-> {}, h |-> 0, res |-> "none"]

TypeOK ==
    /\ db \in GroupState
    /\ seen \subseteq Fill
    /\ stock \in [Entry -> Nat]
    /\ book \in [Leg -> {"none", "open", "closed"}]
    /\ traded \in [Leg -> 0 .. Target]
    /\ notified \subseteq Fill
    /\ sub \in SubmitTask
    /\ fl \in FillTask
    /\ run \in [Runner -> RunTask]
    /\ calm \in BOOLEAN

Init ==
    /\ db = NoGroup
    /\ seen = {}
    /\ stock = [o \in Entry |-> 0]
    /\ book = [l \in Leg |-> "none"]
    /\ traded = [l \in Leg |-> 0]
    /\ notified = {}
    /\ sub = [pc |-> "new", res |-> [l \in Entry |-> "none"]]
    /\ fl = IdleFill
    /\ run = [r \in Runner |-> IdleRun]
    /\ calm = FALSE

-----------------------------------------------------------------------------
(* The exchange *)

Trade(l) ==
    /\ book[l] = "open"
    /\ traded' = [traded EXCEPT ![l] = @ + 1]
    /\ book' = [book EXCEPT ![l] = IF traded'[l] = db.leg[l].size THEN "closed" ELSE "open"]
    /\ UNCHANGED <<dbVars, notified, sub, fl, run>>

CancelledBook(legs) == [l \in Leg |-> IF l \in legs /\ book[l] = "open" THEN "closed" ELSE book[l]]

(* A cancellation whose outcome nobody looks at may reach any of the orders. *)
BestEffortCancel(legs) == \E c \in SUBSET legs : book' = CancelledBook(c)

(* An order request whose answer is an error may have been taken. *)
BookAfter(res) == IF res = "accepted" THEN {"open"}
                  ELSE IF res = "rejected" THEN {"none"} ELSE {"none", "open"}

-----------------------------------------------------------------------------
(* commit_transition_atomic: compare-and-set on the version.  A payload that *)
(* the function refuses raises, which ends the call with nothing changed.    *)

Committed(expected, s) == db.ver = expected /\ TransitionAccepts(db, s)

Store(expected, s) ==
    /\ db' = [s EXCEPT !.ver = expected + 1]
    /\ UNCHANGED <<seen, stock>>

-----------------------------------------------------------------------------
(* submit_plan *)

SetSub(pc) == sub' = [sub EXCEPT !.pc = pc]

(* The plan as submit_plan holds it: version 1, both entry legs planned. *)
PlanState == [NoGroup EXCEPT !.st = "planned", !.ver = 1, !.leg = PlannedLegs]

PersistPlan ==
    /\ sub.pc = "new"
    /\ db' = PlanState
    /\ SetSub("batch")
    /\ UNCHANGED <<seen, stock, exVars, notified, fl, run>>

BuildIntentsFails ==
    /\ sub.pc = "batch"
    /\ SetSub("freeze")
    /\ UNCHANGED <<dbVars, exVars, notified, fl, run>>

Accepted(res) == {l \in Entry : res[l] = "accepted"}

WithId(res) == {l \in Entry : res[l] \in {"accepted", "errorId"}}

PartlyAccepted(res) == Accepted(res) \notin {{}, Entry}

SubmitBatch ==
    /\ sub.pc = "batch"
    /\ \E res \in [Entry -> LegResult \ {"none"}] :
          /\ \E b \in [Entry -> {"none", "open"}] :
                /\ \A l \in Entry : b[l] \in BookAfter(res[l])
                /\ book' = [l \in Leg |-> IF l \in Entry THEN b[l] ELSE book[l]]
          /\ sub' = [pc  |-> IF PartlyAccepted(res) \/ \E l \in Entry : res[l] = "errorId"
                             THEN "cancel" ELSE "result",
                     res |-> res]
    /\ UNCHANGED <<dbVars, traded, notified, fl, run>>

(* submit_batch raises, or answers for the wrong number of legs. *)
BatchRaises ==
    /\ sub.pc = "batch"
    /\ \E b \in [Entry -> {"none", "open"}] :
          book' = [l \in Leg |-> IF l \in Entry THEN b[l] ELSE book[l]]
    /\ SetSub("cancelAll")
    /\ UNCHANGED <<dbVars, traded, notified, fl, run>>

CancelAfterRaise ==
    /\ sub.pc = "cancelAll"
    /\ BestEffortCancel(Leg)
    /\ SetSub("freeze")
    /\ UNCHANGED <<dbVars, traded, notified, fl, run>>

CancelPartial ==
    /\ sub.pc = "cancel"
    /\ BestEffortCancel(WithId(sub.res))
    /\ SetSub("result")
    /\ UNCHANGED <<dbVars, traded, notified, fl, run>>

SubmittedState(res) ==
    LET s == RecordSubmission(PlanState, Accepted(res)) IN
    IF PartlyAccepted(res) \/ \E l \in Entry : res[l] \in {"error", "errorId"}
    THEN Freeze(s) ELSE s

RecordResult ==
    /\ sub.pc = "result"
    /\ IF Committed(1, SubmittedState(sub.res))
       THEN Store(1, SubmittedState(sub.res)) /\ UNCHANGED book
       ELSE BestEffortCancel(Accepted(sub.res)) /\ UNCHANGED dbVars
    /\ SetSub("done")
    /\ UNCHANGED <<traded, notified, fl, run>>

FreezePlan ==
    /\ sub.pc = "freeze"
    /\ IF Committed(1, Freeze(PlanState)) THEN Store(1, Freeze(PlanState)) ELSE UNCHANGED dbVars
    /\ SetSub("done")
    /\ UNCHANGED <<exVars, notified, fl, run>>

-----------------------------------------------------------------------------
(* The reconciler's callback and on_fill *)

(* A task that posted leg l's order and has yet to store its id. *)
Storing(l) ==
    \/ l \in Entry /\ sub.pc \in {"batch", "cancel", "result"}
    \/ \E r \in Runner : run[r].pc = "hedged" /\ run[r].h = l

(* coordinator_fill_for_trade: a trade whose order id no leg carries is not  *)
(* the pair coordinator's, and counts as delivered.                          *)
Deliver(f) ==
    /\ fl.pc = "idle"
    /\ f \in Executed \ notified
    /\ ~DeliverEarly => ~Storing(f[1])
    /\ IF db.leg[f[1]].id
       THEN fl' = [IdleFill EXCEPT !.pc = "group", !.f = f] /\ UNCHANGED notified
       ELSE notified' = notified \cup {f} /\ UNCHANGED fl
    /\ UNCHANGED <<dbVars, exVars, sub, run>>

(* load_group_state reads the group row first, the legs and the applied      *)
(* fills later: what it returns may be torn, under the older version.        *)
LoadGroup == [NoGroup EXCEPT !.st = db.st, !.ver = db.ver, !.inv = db.inv]

(* Seeded fault: the version is read with the legs. *)
LoadLegsAndVersion(snap) == [snap EXCEPT !.leg = db.leg, !.ver = db.ver]

LoadLegs(snap) == [snap EXCEPT !.leg = db.leg]

FillLoadsGroup ==
    /\ fl.pc = "group"
    /\ fl' = [fl EXCEPT !.pc = "legs", !.snap = LoadGroup]
    /\ UNCHANGED <<dbVars, exVars, notified, sub, run>>

FillDone == fl' = IdleFill /\ notified' = notified \cup {fl.f}

FillFails == fl' = IdleFill /\ UNCHANGED notified

FillLoadsLegs ==
    /\ fl.pc = "legs"
    /\ IF fl.f \in seen THEN FillDone
       ELSE IF db.leg[fl.f[1]].filled >= db.leg[fl.f[1]].size THEN FillFails
       ELSE /\ fl' = [fl EXCEPT !.pc = "commit", !.snap = LoadLegs(@)]
            /\ UNCHANGED notified
    /\ UNCHANGED <<dbVars, exVars, sub, run>>

(* Seeded fault: the two columns of pair_inventory swapped. *)
CreditedSwapped(leg) == [stock EXCEPT ![IF leg.out = Yes THEN No ELSE Yes] = @ + 1]

(* pair_inventory after a fill of one share *)
Credited(leg) == [stock EXCEPT ![leg.out] = @ + 1]

(* The compare-and-set was lost: load again, or give up. *)
RetryFill ==
    IF fl.try + 1 < MaxCasRetries
    THEN fl' = [fl EXCEPT !.pc = "group", !.try = @ + 1] /\ UNCHANGED notified
    ELSE FillFails

(* commit_fill_atomic: a duplicate, a lost compare-and-set, a payload that   *)
(* is refused with an exception, or an applied fill.                         *)
CommitFill ==
    LET l == fl.f[1] IN
    /\ fl.pc = "commit"
    /\ \E s \in {RecordFill(fl.snap, l)} :
          IF fl.f \in seen THEN FillDone /\ UNCHANGED dbVars
          ELSE IF db.ver # fl.snap.ver THEN RetryFill /\ UNCHANGED dbVars
          ELSE IF ~FillAccepts(db, l, s) THEN FillFails /\ UNCHANGED dbVars
          ELSE /\ db' = [s EXCEPT !.ver = fl.snap.ver + 1]
               /\ seen' = seen \cup {fl.f}
               /\ stock' = Credited(s.leg[l])
               /\ FillDone
    /\ UNCHANGED <<exVars, sub, run>>

-----------------------------------------------------------------------------
(* process_deadline *)

SetRun(r, t) == run' = [run EXCEPT ![r] = t]

RunLoadsGroup(r) ==
    /\ run[r].pc = "idle"
    /\ db.st # "none"
    /\ SetRun(r, [IdleRun EXCEPT !.pc = "legs", !.snap = LoadGroup])
    /\ UNCHANGED <<dbVars, exVars, notified, sub, fl>>

(* on_leg_deadline: nothing to do, cancel what is working, or freeze what is *)
(* left.  A group found balanced is not written, the call is a no-op.        *)
RunLoadsLegs(r) ==
    /\ run[r].pc = "legs"
    /\ \E s \in {LoadLegs(run[r].snap)} :
          SetRun(r, IF s.st \in Settled THEN IdleRun
                    ELSE IF Cancellable(s) # {}
                    THEN [run[r] EXCEPT !.pc = "mark", !.snap = s, !.ids = Cancellable(s)]
                    ELSE IF TerminalState(s).st = "frozen"
                    THEN [run[r] EXCEPT !.pc = "terminal", !.snap = s]
                    ELSE IdleRun)
    /\ UNCHANGED <<dbVars, exVars, notified, sub, fl>>

CommitOr(r, payload, next) ==
    \E s \in {payload} :
        IF Committed(run[r].snap.ver, s)
        THEN Store(run[r].snap.ver, s) /\ SetRun(r, next)
        ELSE UNCHANGED dbVars /\ SetRun(r, IdleRun)

Stepped(s, ver) == [s EXCEPT !.ver = ver + 1]

CommitTerminal(r) ==
    /\ run[r].pc = "terminal"
    /\ CommitOr(r, TerminalState(run[r].snap), IdleRun)
    /\ UNCHANGED <<exVars, notified, sub, fl>>

CommitCancelPending(r) ==
    /\ run[r].pc = "mark"
    /\ \E s \in {CancelPending(run[r].snap)} :
          CommitOr(r, s, [run[r] EXCEPT !.pc = "cancel", !.snap = Stepped(s, @.ver)])
    /\ UNCHANGED <<exVars, notified, sub, fl>>

(* cancel_orders: verified absent, or not verifiable. *)
CancelOrders(r) ==
    /\ run[r].pc = "cancel"
    /\ \/ book' = CancelledBook(run[r].ids) /\ SetRun(r, [run[r] EXCEPT !.pc = "barrier"])
       \/ BestEffortCancel(run[r].ids) /\ SetRun(r, [run[r] EXCEPT !.pc = "fail"])
    /\ UNCHANGED <<dbVars, traded, notified, sub, fl>>

CommitFreeze(r) ==
    /\ run[r].pc = "fail"
    /\ CommitOr(r, Freeze(run[r].snap), IdleRun)
    /\ UNCHANGED <<exVars, notified, sub, fl>>

(* Seeded fault: no barrier. *)
ReconciledAlways(ids) == TRUE

(* The cancel reconciliation barrier: every trade of the cancelled orders    *)
(* has been delivered.  Then the group is loaded again.                      *)
Reconciled(ids) == \A f \in Executed : f[1] \in ids => f \in notified

PassBarrier(r) ==
    /\ run[r].pc = "barrier"
    /\ Reconciled(run[r].ids)
    /\ SetRun(r, [run[r] EXCEPT !.pc = "relegs", !.snap = LoadGroup])
    /\ UNCHANGED <<dbVars, exVars, notified, sub, fl>>

BarrierRaises(r) ==
    /\ run[r].pc = "barrier"
    /\ SetRun(r, [run[r] EXCEPT !.pc = "fail"])
    /\ UNCHANGED <<dbVars, exVars, notified, sub, fl>>

RunReloadsLegs(r) ==
    /\ run[r].pc = "relegs"
    /\ SetRun(r, [run[r] EXCEPT !.pc = "confirm", !.snap = LoadLegs(@)])
    /\ UNCHANGED <<dbVars, exVars, notified, sub, fl>>

(* quote, confirm_cancellations and the commit; a quote that is missing, too *)
(* small or too expensive is the case without a hedge.                       *)
ConfirmCancellations(r) ==
    /\ run[r].pc = "confirm"
    /\ \E s \in {CancelsConfirmed(run[r].snap, run[r].ids)} :
          \/ CommitOr(r, WithoutHedge(s), IdleRun)
          \/ /\ WantsHedge(s) /\ NextHedge(s) # {}
             /\ LET h == Min(NextHedge(s))
                    n == WithHedge(s, h)
                IN  CommitOr(r, n, [run[r] EXCEPT !.pc = "post", !.h = h,
                                                  !.snap = Stepped(n, @.ver)])
    /\ UNCHANGED <<exVars, notified, sub, fl>>

(* broker.submit of the hedge; an ambiguous result with an id is cancelled,  *)
(* best effort.  "error" also stands for an exception.                       *)
PostHedge(r) ==
    /\ run[r].pc = "post"
    /\ \E res \in LegResult \ {"none"} :
          /\ \E b \in BookAfter(res) \cup IF res = "errorId" THEN {"closed"} ELSE {} :
                book' = [book EXCEPT ![run[r].h] = b]
          /\ SetRun(r, [run[r] EXCEPT !.pc = "hedged", !.res = res])
    /\ UNCHANGED <<dbVars, traded, notified, sub, fl>>

CommitHedge(r) ==
    /\ run[r].pc = "hedged"
    /\ \E s \in {RecordHedge(run[r].snap, run[r].h, run[r].res = "accepted")} :
          IF Committed(run[r].snap.ver, s)
          THEN Store(run[r].snap.ver, s) /\ UNCHANGED book
          ELSE /\ UNCHANGED dbVars
               /\ BestEffortCancel(IF run[r].res = "accepted" THEN {run[r].h} ELSE {})
    /\ SetRun(r, IdleRun)
    /\ UNCHANGED <<traded, notified, sub, fl>>

-----------------------------------------------------------------------------
(* Faults *)

(* An exception out of a store call ends the call; the statement may have    *)
(* been committed before.                                                    *)
AbortSubmit ==
    /\ "abort" \in Faults
    /\ sub.pc \notin {"new", "done"}
    /\ SetSub("done")
    /\ UNCHANGED <<dbVars, exVars, notified, fl, run>>

AbortFill ==
    /\ "abort" \in Faults
    /\ fl.pc # "idle"
    /\ FillFails
    /\ UNCHANGED <<dbVars, exVars, sub, run>>

AbortRun(r) ==
    /\ "abort" \in Faults
    /\ run[r].pc # "idle"
    /\ SetRun(r, IdleRun)
    /\ UNCHANGED <<dbVars, exVars, notified, sub, fl>>

(* The process ends and starts again: every call is gone, and so is the      *)
(* record of the trades that were delivered.                                 *)
Restart ==
    /\ "restart" \in Faults
    /\ sub.pc # "new"
    /\ SetSub("done")
    /\ fl' = IdleFill
    /\ run' = [r \in Runner |-> IdleRun]
    /\ notified' = {}
    /\ UNCHANGED <<dbVars, exVars>>

-----------------------------------------------------------------------------
Submission == \/ PersistPlan \/ BuildIntentsFails \/ SubmitBatch \/ BatchRaises
              \/ CancelAfterRaise \/ CancelPartial \/ RecordResult \/ FreezePlan

Delivery == (\E f \in Fill : Deliver(f)) /\ UNCHANGED calm

OnFill == (FillLoadsGroup \/ FillLoadsLegs \/ CommitFill) /\ UNCHANGED calm

ProcessDeadline(r) ==
    /\ \/ RunLoadsGroup(r) \/ RunLoadsLegs(r) \/ CommitTerminal(r) \/ CommitCancelPending(r)
       \/ CancelOrders(r) \/ CommitFreeze(r) \/ PassBarrier(r) \/ BarrierRaises(r)
       \/ RunReloadsLegs(r) \/ ConfirmCancellations(r) \/ PostHedge(r) \/ CommitHedge(r)
    /\ UNCHANGED calm

Fault ==
    /\ ~calm
    /\ AbortSubmit \/ AbortFill \/ Restart \/ \E r \in Runner : AbortRun(r)
    /\ UNCHANGED calm

Next ==
    \/ (\E l \in Leg : Trade(l)) /\ UNCHANGED calm
    \/ Submission /\ UNCHANGED calm
    \/ Delivery
    \/ OnFill
    \/ \E r \in Runner : ProcessDeadline(r)
    \/ Fault

Spec == Init /\ [][Next]_vars

(* Faults come to an end.  An aborted call can look like one that found      *)
(* nothing to do, so that this cannot be said of the steps themselves.       *)
Calm == ~calm /\ calm' = TRUE /\ UNCHANGED <<dbVars, exVars, notified, sub, fl, run>>

(* Fairness.  A caller keeps calling process_deadline and its awaits return; *)
(* the reconciler replays what it has not delivered; faults may strike any   *)
(* number of times but not for ever.  Nothing is assumed of the submitter or *)
(* of the traders at the exchange.                                           *)
Fairness ==
    /\ WF_vars(Calm)
    /\ \A r \in Runner : WF_vars(ProcessDeadline(r))
    /\ WF_vars(Delivery)
    /\ WF_vars(OnFill)

FairSpec == Init /\ [][Next \/ Calm]_vars /\ Fairness

-----------------------------------------------------------------------------
(* Properties *)

ExecutedOf(o) == Cardinality({f \in Executed : db.leg[f[1]].out = o})

(* The two implementations of record_fill agree: whenever the version still  *)
(* matches, commit_pair_fill takes the state that PairOrderManager computed. *)
(* If it refused one, the fill would be retried and refused for ever.        *)
FillTaken ==
    fl.pc = "commit" /\ fl.f \notin seen /\ db.ver = fl.snap.ver =>
        FillAccepts(db, fl.f[1], RecordFill(fl.snap, fl.f[1]))

(* A transition that wins the compare-and-set is never refused by the checks *)
(* of commit_pair_group_transition: no torn read, stale inventory or lost    *)
(* leg reaches it under a current version.                                   *)
TransitionTaken ==
    \A r \in Runner : LET s == run[r].snap IN
        db.ver = s.ver =>
          /\ run[r].pc = "terminal" => TransitionAccepts(db, TerminalState(s))
          /\ run[r].pc = "mark" => TransitionAccepts(db, CancelPending(s))
          /\ run[r].pc = "fail" => TransitionAccepts(db, Freeze(s))
          /\ run[r].pc = "confirm" =>
                TransitionAccepts(db, WithoutHedge(CancelsConfirmed(s, run[r].ids)))
          /\ run[r].pc = "hedged" =>
                TransitionAccepts(db, RecordHedge(s, run[r].h, run[r].res = "accepted"))

(* A state that was read in several statements and computed elsewhere is     *)
(* either out of date or accepted: a fill and a transition that win their    *)
(* compare-and-set pass every check of the database functions (FillTaken,    *)
(* TransitionTaken).                                                         *)
CurrentIsAccepted == FillTaken /\ TransitionTaken

(* Every applied fill is counted once in its leg and once in pair_inventory, *)
(* whatever was delivered twice, retried or cut off by a restart, and only   *)
(* executed shares are counted.                                              *)
InventoryExact ==
    /\ seen \subseteq Executed
    /\ \A l \in Leg : db.leg[l].filled = Cardinality({f \in seen : f[1] = l})
    /\ \A o \in Entry : stock[o] = Bought(db.leg, o)

(* A group that says "paired" or "cancelled" has no exposure at the          *)
(* exchange, counting the trades that nobody has told the group of: the      *)
(* cancellation and the barrier came before the verdict.                     *)
NoSilentImbalance ==
    db.st \in {"paired", "cancelled"} => ExecutedOf(Yes) = ExecutedOf(No)

(* A hedge is posted when no order of the group can trade any more, for      *)
(* exactly the shares that are missing at the exchange.                      *)
HedgeMatchesExposure ==
    \A r \in Runner : run[r].pc = "post" =>
        LET h == db.leg[run[r].h] IN
        /\ \A l \in Leg : book[l] # "open"
        /\ ExecutedOf(h.out) + h.size = ExecutedOf(IF h.out = Yes THEN No ELSE Yes)

(* docs/STRATEGY_VALIDATION.md: every orphan leg reaches a definite paired,  *)
(* hedged or frozen state.  A group that knows of directional inventory ends *)
(* frozen or balanced, also when calls are cut off between two steps.        *)
OrphanSettles == ~Even(db.inv) ~> (db.st = "frozen" \/ Even(db.inv))

(* PairOrderManager's docstring calls it a "cancel -> hedge -> freeze state  *)
(* machine": freezing is the last phase, no step leads out of it.            *)
FrozenStays == [][db.st = "frozen" => db'.st = "frozen"]_vars
=============================================================================
