----------------------------- MODULE AccountGate -----------------------------
(***************************************************************************)
(* The database side of real-money execution: the worker lease, the        *)
(* runtime control row, the personal pause latch and the order row, as the *)
(* Supabase functions of migrations 0001, 0005 and 0016 change them.  Each *)
(* function runs in one database statement, so each is one operator from   *)
(* the old row to the new one, with its WHERE clause as a predicate.       *)
(*                                                                         *)
(* Clock readings are abstracted to what the functions ask of them:        *)
(* lease.live is expires_at > now(), ctl.fresh is armed_until > now().     *)
(***************************************************************************)
EXTENDS Naturals

CONSTANTS
    Worker,     \* worker processes; owner_id carries a fresh uuid, so a
                \* restarted process is another element of Worker
    NoWorker    \* owner of a lease row nobody has claimed yet

ASSUME NoWorkerAssumption == NoWorker \notin Worker

Lease == [owner : Worker \cup {NoWorker}, token : Nat, live : BOOLEAN]

(* kill_switch and accept_new_intents always equal ~armed and armed: every *)
(* function that writes one of the three writes all of them.               *)
Control == [armed : BOOLEAN, fresh : BOOLEAN, pend : BOOLEAN,
            real : BOOLEAN, ver : Nat]

RowStatus == {"none", "signed", "submitting", "submitted", "unknown",
              "rejected", "working", "closed"}

OrderRow == [st : RowStatus, tok : Nat, id : BOOLEAN]

InitialLease == [owner |-> NoWorker, token |-> 0, live |-> FALSE]

InitialControl == [armed |-> FALSE, fresh |-> FALSE, pend |-> FALSE,
                   real |-> FALSE, ver |-> 1]

NoRow == [st |-> "none", tok |-> 0, id |-> FALSE]

-----------------------------------------------------------------------------
(* worker_leases *)

ClaimGranted(lease, w) == lease.owner = w \/ ~lease.live

(* claim_worker_lease: the owner keeps its token, a new owner gets the next. *)
Claimed(lease, w) ==
    [owner |-> w,
     token |-> IF lease.owner = w THEN lease.token ELSE lease.token + 1,
     live  |-> TRUE]

(* validate_worker_lease *)
LeaseValid(lease, w, t) == lease.owner = w /\ lease.token = t /\ lease.live

(* release_worker_lease: the row and its token stay, only the expiry moves. *)
Released(lease, w, t) ==
    IF lease.owner = w /\ lease.token = t
    THEN [lease EXCEPT !.live = FALSE] ELSE lease

-----------------------------------------------------------------------------
(* runtime_controls *)

LiveArmed(ctl) == ctl.armed /\ ctl.fresh

(* Seeded fault: re-arming over an arm that expired. *)
ArmOverLapsed(ctl, lease, paused, w, t) ==
    ~paused /\ LeaseValid(lease, w, t) /\ ~ctl.pend

(* arm_personal_runtime_control: not over a pending cancellation, not over  *)
(* an arm that has expired, only for the lease holder, never while paused.  *)
ArmAllowed(ctl, lease, paused, w, t) ==
    /\ ~paused
    /\ LeaseValid(lease, w, t)
    /\ ~ctl.pend
    /\ ctl.armed => ctl.fresh

Armed(ctl) == [armed |-> TRUE, fresh |-> TRUE, pend |-> ctl.pend,
               real |-> TRUE, ver |-> ctl.ver + 1]

(* disarm_runtime_control in canary or live mode *)
Disarmed(ctl) == [armed |-> FALSE, fresh |-> FALSE, pend |-> TRUE,
                  real |-> TRUE, ver |-> ctl.ver + 1]

(* expire_runtime_control *)
ExpireAllowed(ctl) == ctl.armed /\ ~ctl.fresh

Expired(ctl) == [armed |-> FALSE, fresh |-> FALSE, pend |-> TRUE,
                 real |-> ctl.real, ver |-> ctl.ver + 1]

(* The rows that has_unresolved_live_orders and the acknowledgement count.  *)
Unresolved(rows) ==
    \E i \in DOMAIN rows : rows[i].st \in {"signed", "submitting", "unknown"}

(* Seeded faults: an acknowledgement that does not look at the orders, and  *)
(* one without the version compare-and-set.                                 *)
AckIgnoresOrders(ctl, rows, v) == ctl.ver = v /\ ctl.pend /\ ~ctl.armed

AckAnyVersion(ctl, rows, v) == ctl.pend /\ ~ctl.armed /\ ~Unresolved(rows)

(* acknowledge_runtime_cancellation *)
AckAllowed(ctl, rows, v) ==
    /\ ctl.ver = v
    /\ ctl.pend
    /\ ~ctl.armed
    /\ ~Unresolved(rows)

Acknowledged(ctl) == [armed |-> ctl.armed, fresh |-> ctl.fresh, pend |-> FALSE,
                      real |-> ctl.real, ver |-> ctl.ver + 1]

(* set_personal_runtime_paused: idempotent, a row already stopped and in    *)
(* the right cancellation state is left alone.                              *)
PausedControl(ctl) ==
    IF ctl.armed \/ ctl.pend # ctl.real
    THEN [armed |-> FALSE, fresh |-> FALSE, pend |-> ctl.real,
          real |-> ctl.real, ver |-> ctl.ver + 1]
    ELSE ctl

-----------------------------------------------------------------------------
(* orders *)

(* mark_personal_order_submitting *)
MarkAllowed(row, ctl, lease, paused, w, t, v) ==
    /\ row.st = "signed"
    /\ row.tok = t
    /\ LeaseValid(lease, w, t)
    /\ ctl.ver = v
    /\ LiveArmed(ctl)
    /\ ~ctl.pend
    /\ ~paused

Early == {"none", "signed", "submitting", "submitted", "unknown"}

(* _merge_execution_order_payload: may this result replace the stored status? *)
TransitionAllowed(current, incoming) ==
    CASE incoming = "unknown" -> current \in Early \ {"submitted"}
      [] OTHER                -> current \in Early

(* save_execution: the row it writes over `row', having read status `old'. *)
SavedRow(row, old, incoming, id) ==
    [row EXCEPT !.st = IF TransitionAllowed(old, incoming) THEN incoming ELSE old,
                !.id = row.id \/ id]
=============================================================================
