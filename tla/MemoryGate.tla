----------------------------- MODULE MemoryGate -----------------------------
(***************************************************************************)
(* MemoryStore's version of the account gate: worker lease, runtime        *)
(* control and order records in one process, used for paper runs without   *)
(* a database and under the repository's own safety tests.  The actors are *)
(* those of LiveExecution: workers that claim, sign, mark, post and record *)
(* orders, and an operator who arms and disarms.                           *)
(*                                                                         *)
(* Each method runs under the store's asyncio.Lock or without an await, so *)
(* each is one step.  Lease and control rows have AccountGate's shape.     *)
(***************************************************************************)
EXTENDS AccountGate

CONSTANTS
    Intent,
    MaxGrants,      \* bound: times the lease changes hands
    MaxVersion,     \* bound: version of the control row
    Allow           \* \subseteq {"release", "errorWithId"}

ASSUME MemoryGateAssumption == MaxGrants \in Nat /\ MaxVersion \in Nat \ {0}

VARIABLES
    lease,      \* leases[account]; InitialLease where there is none
    ctl,        \* controls[account]
    order,      \* signed_orders, unresolved_live_orders and durable_orders
    view,       \* what each worker holds: token, control version, grant
    grants      \* history: how often the lease was granted to a new holder

mvars == <<lease, ctl, order, view, grants>>

Status == {"none", "submitted", "rejected", "unknown", "live", "matched", "cancelled"}

(* tok: token in the signed record, 0 if there is none; grant: history,    *)
(* the grant it was signed under; posted, answered: history.               *)
Order == [tok : Nat, grant : Nat, unresolved : BOOLEAN, st : Status,
          posted : BOOLEAN, answered : BOOLEAN]

NoOrder == [tok |-> 0, grant |-> 0, unresolved |-> FALSE, st |-> "none",
            posted |-> FALSE, answered |-> FALSE]

MInit ==
    /\ lease = InitialLease /\ ctl = InitialControl /\ grants = 0
    /\ order = [i \in Intent |-> NoOrder]
    /\ view = [w \in Worker |-> [token |-> 0, ver |-> 0, grant |-> 0]]

-----------------------------------------------------------------------------
(* claim_worker_lease: the token of a lease that is gone starts again.     *)
Claim(w) ==
    /\ ClaimGranted(lease, w)
    /\ lease' = Claimed(lease, w)
    /\ grants' = IF lease.owner = w THEN grants ELSE grants + 1
    /\ grants' <= MaxGrants
    /\ view' = [view EXCEPT ![w] = [token |-> lease'.token, ver |-> ctl.ver, grant |-> grants']]
    /\ UNCHANGED <<ctl, order>>

LeaseLapses ==
    /\ lease.live
    /\ lease' = [lease EXCEPT !.live = FALSE]
    /\ UNCHANGED <<ctl, order, view, grants>>

(* release_worker_lease removes the entry, token and all.                  *)
Release(w) ==
    /\ "release" \in Allow
    /\ LeaseValid(lease, w, view[w].token)
    /\ lease' = InitialLease
    /\ UNCHANGED <<ctl, order, view, grants>>

(* get_runtime_control: the worker takes note of the version it acts on.   *)
ReadControl(w) ==
    /\ view[w].token # 0 /\ view[w].ver # ctl.ver
    /\ view' = [view EXCEPT ![w].ver = ctl.ver]
    /\ UNCHANGED <<lease, ctl, order, grants>>

-----------------------------------------------------------------------------
(* prepare_signed_order *)
PrepareSigned(w, i) ==
    /\ view[w].token # 0 /\ order[i].tok = 0
    /\ order' = [order EXCEPT ![i].tok = view[w].token, ![i].grant = view[w].grant,
                              ![i].unresolved = TRUE]
    /\ UNCHANGED <<lease, ctl, view, grants>>

(* mark_order_submitting: neither the owner nor the arm is looked at.      *)
MarkGranted(i, t, v) ==
    /\ order[i].tok = t
    /\ lease.token = t /\ lease.live
    /\ ctl.ver = v

Mark(w, i) ==
    /\ view[w].token # 0 /\ ~order[i].posted
    /\ MarkGranted(i, view[w].token, view[w].ver)
    /\ order' = [order EXCEPT ![i].unresolved = TRUE, ![i].posted = TRUE]
    /\ UNCHANGED <<lease, ctl, view, grants>>

Final == {"matched", "cancelled"}

(* Seeded fault: an answer without an order id resolves the intent too.    *)
ResolvedByAny(o, st, id) ==
    [o EXCEPT !.st = IF id /\ o.st \notin Final THEN st ELSE @,
              !.unresolved = FALSE, !.answered = id \/ st = "rejected"]

(* save_execution: a status for an order that has an id, and an intent     *)
(* resolved by an id or by a refusal.                                      *)
Saved(o, st, id) ==
    LET resolved == id \/ st = "rejected" IN
    [o EXCEPT !.st = IF id /\ o.st \notin Final THEN st ELSE @,
              !.unresolved = IF resolved THEN FALSE ELSE @,
              !.answered = resolved]

Answer(i) ==
    /\ order[i].posted /\ ~order[i].answered
    /\ \E id \in BOOLEAN, st \in {"submitted", "rejected", "unknown"} :
          /\ st = "submitted" => id
          /\ st = "unknown" /\ id => "errorWithId" \in Allow
          /\ order' = [order EXCEPT ![i] = Saved(order[i], st, id)]
    /\ UNCHANGED <<lease, ctl, view, grants>>

(* reconcile_order: an exchange status for an order the store knows.       *)
ReconcileOrder(i, st) ==
    /\ order[i].st \notin {"none", "cancelled"}
    /\ order' = [order EXCEPT ![i].st = st]
    /\ UNCHANGED <<lease, ctl, view, grants>>

HasUnresolved ==
    \E i \in Intent : order[i].unresolved \/ order[i].st = "unknown"

-----------------------------------------------------------------------------
Versioned == ctl.ver < MaxVersion

(* arm_runtime_control, with the version the caller has just read: a row   *)
(* at rest, or the renewal of an arm that has not run out.                 *)
Arm ==
    /\ Versioned /\ ~ctl.pend
    /\ ctl.armed => ctl.fresh
    /\ ctl' = Armed(ctl)
    /\ UNCHANGED <<lease, order, view, grants>>

ArmLapses ==
    /\ ctl.fresh
    /\ ctl' = [ctl EXCEPT !.fresh = FALSE]
    /\ UNCHANGED <<lease, order, view, grants>>

Expire ==
    /\ Versioned /\ ExpireAllowed(ctl)
    /\ ctl' = Expired(ctl)
    /\ UNCHANGED <<lease, order, view, grants>>

Disarm ==
    /\ Versioned
    /\ ctl' = Disarmed(ctl)
    /\ UNCHANGED <<lease, order, view, grants>>

(* acknowledge_runtime_cancellation looks at unresolved_live_orders only.  *)
AckGranted(v) ==
    /\ ctl.ver = v /\ ctl.pend /\ ~ctl.armed
    /\ \A i \in Intent : ~order[i].unresolved

Acknowledge(w) ==
    /\ Versioned /\ view[w].token # 0
    /\ AckGranted(view[w].ver)
    /\ ctl' = Acknowledged(ctl)
    /\ UNCHANGED <<lease, order, view, grants>>

MNext ==
    \/ \E w \in Worker : Claim(w) \/ Release(w) \/ ReadControl(w) \/ Acknowledge(w)
    \/ \E w \in Worker, i \in Intent : PrepareSigned(w, i) \/ Mark(w, i)
    \/ \E i \in Intent : Answer(i)
    \/ \E i \in Intent, st \in {"live", "matched", "cancelled"} : ReconcileOrder(i, st)
    \/ LeaseLapses \/ Arm \/ ArmLapses \/ Expire \/ Disarm

MSpec == MInit /\ [][MNext]_mvars

-----------------------------------------------------------------------------
(* Rows of the gate's shape, and no more tokens than grants.               *)
MTypeOK ==
    /\ lease \in Lease /\ ctl \in Control /\ grants \in 0..MaxGrants
    /\ order \in [Intent -> Order]
    /\ view \in [Worker -> [token : 0..MaxGrants, ver : 0..MaxVersion, grant : 0..MaxGrants]]

(* "A stale fencing token cannot transition a signed order": an order is   *)
(* marked for submission only while the lease is the very grant it was     *)
(* signed under, however often the lease has lapsed or changed hands.      *)
FencedMark ==
    [][\A i \in Intent : ~order[i].posted /\ order'[i].posted =>
          order[i].grant = grants /\ lease.live]_mvars

(* An order that was posted and has no conclusive answer keeps the store   *)
(* saying so, and with it the worker from trading.                         *)
InFlightIsUnresolved ==
    \A i \in Intent : order[i].posted /\ ~order[i].answered => HasUnresolved

(* "Cancellation acknowledgement waits for in-flight orders": the store    *)
(* never acknowledges while it still reports an unresolved order.          *)
AckMeansQuiet ==
    [][ctl.pend /\ ~ctl'.pend => ~HasUnresolved]_mvars
=============================================================================
