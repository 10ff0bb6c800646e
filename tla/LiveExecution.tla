---------------------------- MODULE LiveExecution ----------------------------
(***************************************************************************)
(* Real-money execution of one account by one or more worker processes     *)
(* (worker.py, engine.py, brokers/polymarket.py, personal_cycle.py) over   *)
(* the durable gate of AccountGate and an exchange that accepts, closes    *)
(* and cancels orders.  Every worker runs four concurrent tasks:           *)
(*   - the lease heartbeat (maintain_lease),                               *)
(*   - the runtime-control watcher (watch_runtime_control),                *)
(*   - the main loop: prepare a cycle, submit orders, stop, shut down,     *)
(*   - the order reconciler.                                               *)
(* A task is a program counter; an action is what the task does up to its  *)
(* next await on shared state.  Reads that a later read in the same task   *)
(* repeats and re-validates are one step with it.                          *)
(***************************************************************************)
EXTENDS AccountGate

CONSTANTS
    Intent,         \* order intents, one per intent hash
    NoIntent,
    MaxVersion,     \* bound: beyond this control version nothing is armed, a
                    \* stopped account is not paused again, and a failed
                    \* watcher tick asks for no new cancellation
    MaxToken,       \* bound: no change of lease owner beyond this token
    Trader,         \* bound: the workers whose main loop trades; the others
                    \* are standbys that claim, watch, reconcile and stop
    Disturbance,    \* bound: the kinds of disturbance that are explored
    SubmitterCancelMayFail
                    \* may the cancel-all of a submitter that lost its
                    \* authority during the POST fail or stay unverified?

ASSUME LiveAssumption ==
    /\ NoIntent \notin Intent
    /\ MaxVersion \in Nat
    /\ MaxToken \in Nat
    /\ Trader \subseteq Worker
    /\ Disturbance \subseteq {"leaseLapse", "armLapse", "pause", "halt",
                             "engineStop", "watchFail", "stop", "crash"}
    /\ SubmitterCancelMayFail \in BOOLEAN

VARIABLES
    lease, ctl, paused, rows, reserved,     \* database
    exch, posts,                            \* exchange: orders, POSTs received
    proc, tok, ready, main, watch           \* worker processes

vars == <<lease, ctl, paused, rows, reserved, exch, posts,
          proc, tok, ready, main, watch>>

dbVars   == <<lease, ctl, paused, rows, reserved>>
exVars   == <<exch, posts>>
taskVars == <<tok, ready, watch>>

SubmitPc == {"check", "gate", "sign", "mark", "final", "post", "await",
             "save", "esave", "ewrite"}

MainPc == {"idle", "prep", "cycle", "pausing", "halting", "stopCancel",
           "stopAck", "sdCancel", "sdValidate", "sdAck", "sdRelease"}
              \cup SubmitPc

Outcome == {"none", "accepted", "rejected", "error", "lost", "changed"}

(* The main loop: its step, the intent in hand, the fencing token and the  *)
(* control version it acts under, the result so far, and the order status   *)
(* that a save has read.                                                    *)
MainState == [pc : MainPc, i : Intent \cup {NoIntent}, tok : Nat, ver : Nat,
              out : Outcome, old : RowStatus]

(* RuntimeControlWatchState: cancellation_pending, last_version (0 for     *)
(* None) and was_live_armed.                                                *)
WatchState == [pc : {"idle", "latch", "cancel", "ack"}, pend : BOOLEAN,
               seen : Nat, was : BOOLEAN]

IdleMain  == [pc |-> "idle", i |-> NoIntent, tok |-> 0, ver |-> 0,
              out |-> "none", old |-> "none"]
PausingMain == [IdleMain EXCEPT !.pc = "pausing"]
CycleMain == [IdleMain EXCEPT !.pc = "cycle"]
FreshWatch == [pc |-> "idle", pend |-> FALSE, seen |-> 0, was |-> FALSE]

ExchStatus == {"none", "transit", "open", "closed", "refused"}

TypeOK ==
    /\ lease \in Lease
    /\ ctl \in Control
    /\ paused \in BOOLEAN
    /\ rows \in [Intent -> OrderRow]
    /\ reserved \in SUBSET Intent
    /\ exch \in [Intent -> ExchStatus]
    /\ posts \in [Intent -> Nat]
    /\ proc \in [Worker -> {"run", "stop", "gone"}]
    /\ tok \in [Worker -> Nat]
    /\ ready \in [Worker -> BOOLEAN]
    /\ main \in [Worker -> MainState]
    /\ watch \in [Worker -> WatchState]

Init ==
    /\ lease = InitialLease
    /\ ctl = InitialControl
    /\ paused = FALSE
    /\ rows = [i \in Intent |-> NoRow]
    /\ reserved = {}
    /\ exch = [i \in Intent |-> "none"]
    /\ posts = [i \in Intent |-> 0]
    /\ proc = [w \in Worker |-> "run"]
    /\ tok = [w \in Worker |-> 0]
    /\ ready = [w \in Worker |-> FALSE]
    /\ main = [w \in Worker |-> IdleMain]
    /\ watch = [w \in Worker |-> FreshWatch]

SetMain(w, r) == main' = [main EXCEPT ![w] = r]

SetWatch(w, r) == watch' = [watch EXCEPT ![w] = r]

Advance(w, pc) == SetMain(w, [main[w] EXCEPT !.pc = pc])

Result(w, pc, out) == SetMain(w, [main[w] EXCEPT !.pc = pc, !.out = out])

-----------------------------------------------------------------------------
(* The exchange, and the clocks of the database. *)

(* An order request that is under way arrives: it rests, or is refused.     *)
Land(i) ==
    /\ exch[i] = "transit"
    /\ \E s \in {"open", "refused"} : exch' = [exch EXCEPT ![i] = s]
    /\ UNCHANGED <<dbVars, posts, proc, taskVars, main>>

(* A resting order is filled, or reaches its GTD expiry. *)
Close(i) ==
    /\ exch[i] = "open"
    /\ exch' = [exch EXCEPT ![i] = "closed"]
    /\ UNCHANGED <<dbVars, posts, proc, taskVars, main>>

(* cancel_all that verified an empty list of open orders; a request still   *)
(* under way is not in that list.                                           *)
CancelVerified ==
    exch' = [i \in Intent |-> IF exch[i] = "open" THEN "closed" ELSE exch[i]]

(* cancel_all that raised: nothing is known about the orders. *)
CancelFailed == UNCHANGED exch

LeaseLapses ==
    /\ "leaseLapse" \in Disturbance
    /\ lease.live
    /\ lease' = [lease EXCEPT !.live = FALSE]
    /\ UNCHANGED <<ctl, paused, rows, reserved, exVars, proc, taskVars, main>>

ArmLapses ==
    /\ "armLapse" \in Disturbance
    /\ ctl.armed /\ ctl.fresh
    /\ ctl' = [ctl EXCEPT !.fresh = FALSE]
    /\ UNCHANGED <<lease, paused, rows, reserved, exVars, proc, taskVars, main>>

-----------------------------------------------------------------------------
(* The operator's console: pause and resume. *)

Pause ==
    /\ "pause" \in Disturbance
    /\ ctl.armed \/ ctl.ver < MaxVersion
    /\ paused' = TRUE
    /\ ctl' = PausedControl(ctl)
    /\ UNCHANGED <<lease, rows, reserved, exVars, proc, taskVars, main>>

Resume ==
    /\ paused
    /\ paused' = FALSE
    /\ UNCHANGED <<lease, ctl, rows, reserved, exVars, proc, taskVars, main>>

-----------------------------------------------------------------------------
(* maintain_lease *)

ClaimLease(w) ==
    /\ proc[w] = "run"
    /\ ClaimGranted(lease, w)
    /\ lease.owner = w \/ lease.token < MaxToken
    /\ lease' = Claimed(lease, w)
    /\ tok' = [tok EXCEPT ![w] = lease'.token]
    /\ UNCHANGED <<ctl, paused, rows, reserved, exVars, proc, ready, main, watch>>

(* The claim was refused or the heartbeat raised: forget the token and      *)
(* cancel everything, whoever owns it.                                      *)
LoseLease(w) ==
    /\ "leaseLapse" \in Disturbance
    /\ proc[w] = "run"
    /\ tok' = [tok EXCEPT ![w] = 0]
    /\ CancelVerified \/ CancelFailed
    /\ UNCHANGED <<dbVars, posts, proc, ready, main, watch>>

(* lease_guard *)
Guard(w) ==
    /\ proc[w] = "run"
    /\ ready[w]
    /\ tok[w] # 0
    /\ LeaseValid(lease, w, tok[w])

-----------------------------------------------------------------------------
(* The main loop up to the engine cycle. *)

(* The loop's gates passed; the cycle's fence is the token held now. *)
StartCycle(w) ==
    /\ w \in Trader
    /\ proc[w] = "run" /\ main[w].pc = "idle"
    /\ tok[w] # 0 /\ ready[w]
    /\ ~Unresolved(rows)
    /\ SetMain(w, [IdleMain EXCEPT !.pc = "prep", !.tok = tok[w]])
    /\ UNCHANGED <<dbVars, exVars, proc, taskVars>>

(* _prepare_personal_live_cycle found, renewed or obtained the arm. *)
PrepareCycle(w) ==
    /\ main[w].pc = "prep"
    /\ ArmAllowed(ctl, lease, paused, w, main[w].tok)
    /\ \/ ctl.ver < MaxVersion /\ ctl' = Armed(ctl)
       \/ LiveArmed(ctl) /\ UNCHANGED ctl
    /\ SetMain(w, CycleMain)
    /\ UNCHANGED <<lease, paused, rows, reserved, exVars, proc, taskVars>>

(* The cycle is over, or was not ready to begin. *)
EndCycle(w) ==
    /\ main[w].pc \in {"prep", "cycle"}
    /\ SetMain(w, IdleMain)
    /\ UNCHANGED <<dbVars, exVars, proc, taskVars>>

(* A loop branch that gives up on this cycle (unhealthy reconciler or       *)
(* store, ambiguous orders, an exception): cancel everything, and pause     *)
(* where the branch asks for it or the cancellation was not verified.       *)
HaltCycle(w) ==
    /\ "halt" \in Disturbance /\ w \in Trader
    /\ ctl.armed \/ ctl.ver < MaxVersion
    /\ \/ proc[w] = "run" /\ main[w].pc = "idle" /\ tok[w] # 0 /\ ready[w]
       \/ main[w].pc = "cycle"
    /\ \/ /\ CancelVerified
          /\ \E m \in {IdleMain, PausingMain} : SetMain(w, m)
       \/ /\ CancelFailed
          /\ SetMain(w, PausingMain)
    /\ UNCHANGED <<dbVars, posts, proc, taskVars>>

(* pause_personal_live; when the write fails the worker stops itself.  A    *)
(* broken safety latch (out = "error") also stops it, after another cancel. *)
PauseLive(w) ==
    /\ main[w].pc = "pausing"
    /\ SetMain(w, IF main[w].out = "error" THEN [IdleMain EXCEPT !.pc = "halting"]
                                           ELSE IdleMain)
    /\ \/ /\ paused' = TRUE
          /\ ctl' = PausedControl(ctl)
          /\ UNCHANGED proc
       \/ /\ proc' = [proc EXCEPT ![w] = "stop"]
          /\ UNCHANGED <<paused, ctl>>
    /\ UNCHANGED <<lease, rows, reserved, exVars, taskVars>>

HaltWorker(w) ==
    /\ main[w].pc = "halting"
    /\ CancelVerified \/ CancelFailed
    /\ proc' = [proc EXCEPT ![w] = "stop"]
    /\ SetMain(w, IdleMain)
    /\ UNCHANGED <<dbVars, posts, taskVars>>

-----------------------------------------------------------------------------
(* Submitting one order: engine._execute_candidate, PolymarketBroker.submit *)

(* Seeded fault: an intent hash that may be reserved again. *)
ReserveAgain(w, i) ==
    /\ main[w].pc = "cycle"
    /\ Guard(w)
    /\ ~Unresolved(rows)
    /\ reserved' = reserved \cup {i}
    /\ SetMain(w, [IdleMain EXCEPT !.pc = "check", !.i = i])
    /\ UNCHANGED <<lease, ctl, paused, rows, exVars, proc, taskVars>>

(* The engine's execution guard and the unique reservation of the intent    *)
(* hash.                                                                    *)
Reserve(w, i) ==
    /\ main[w].pc = "cycle"
    /\ Guard(w)
    /\ ~Unresolved(rows)
    /\ i \notin reserved
    /\ reserved' = reserved \cup {i}
    /\ SetMain(w, [IdleMain EXCEPT !.pc = "check", !.i = i])
    /\ UNCHANGED <<lease, ctl, paused, rows, exVars, proc, taskVars>>

(* submit: no other order of the account is unresolved. *)
CheckUnresolved(w) ==
    /\ main[w].pc = "check"
    /\ ~Unresolved(rows)
    /\ Advance(w, "gate")
    /\ UNCHANGED <<dbVars, exVars, proc, taskVars>>

(* submit: remember the control version and the fencing token it acts under. *)
Gate(w) ==
    /\ main[w].pc = "gate"
    /\ LiveArmed(ctl)
    /\ Guard(w)
    /\ SetMain(w, [main[w] EXCEPT !.pc = "sign", !.tok = tok[w],
                                  !.ver = ctl.ver])
    /\ UNCHANGED <<dbVars, exVars, proc, taskVars>>

(* prepare_signed_order *)
SignedRow(t) == [NoRow EXCEPT !.st = "signed", !.tok = t]

Sign(w) ==
    /\ main[w].pc = "sign"
    /\ rows' = [rows EXCEPT ![main[w].i] = SignedRow(main[w].tok)]
    /\ Advance(w, "mark")
    /\ UNCHANGED <<lease, ctl, paused, reserved, exVars, proc, taskVars>>

(* Signing failed, or the signed row may not have been stored. *)
SignFails(w) ==
    /\ main[w].pc = "sign"
    /\ \/ UNCHANGED rows
       \/ rows' = [rows EXCEPT ![main[w].i] = SignedRow(main[w].tok)]
    /\ Result(w, "esave", "error")
    /\ UNCHANGED <<lease, ctl, paused, reserved, exVars, proc, taskVars>>

(* The authority this submission started with is still the current one. *)
AuthorityCurrent(w) ==
    /\ Guard(w)
    /\ tok[w] = main[w].tok
    /\ LiveArmed(ctl)
    /\ ctl.ver = main[w].ver

(* The re-check after signing and mark_order_submitting, which repeats it   *)
(* in the database: the last durable gate before the POST.  When its reply  *)
(* is lost the row has changed and the order is rejected all the same.      *)
Mark(w) ==
    /\ main[w].pc = "mark"
    /\ AuthorityCurrent(w)
    /\ MarkAllowed(rows[main[w].i], ctl, lease, paused, w,
                   main[w].tok, main[w].ver)
    /\ rows' = [rows EXCEPT ![main[w].i].st = "submitting"]
    /\ \/ Advance(w, "final")
       \/ Result(w, "esave", "rejected")
    /\ UNCHANGED <<lease, ctl, paused, reserved, exVars, proc, taskVars>>

FinalCheck(w) ==
    /\ main[w].pc = "final"
    /\ AuthorityCurrent(w)
    /\ Advance(w, "post")
    /\ UNCHANGED <<dbVars, exVars, proc, taskVars>>

(* Any refusal before the POST: a gate is closed, a stale book, a failed    *)
(* eligibility, balance or price check, a database error.                   *)
Reject(w) ==
    /\ main[w].pc \in {"check", "gate", "sign", "mark", "final"}
    /\ Result(w, "esave", "rejected")
    /\ UNCHANGED <<dbVars, exVars, proc, taskVars>>

Post(w) ==
    /\ main[w].pc = "post"
    /\ posts' = [posts EXCEPT ![main[w].i] = posts[main[w].i] + 1]
    /\ exch' = [exch EXCEPT ![main[w].i] = "transit"]
    /\ Advance(w, "await")
    /\ UNCHANGED <<dbVars, proc, taskVars>>

(* The exchange refused the order. *)
Refused(w) ==
    /\ main[w].pc = "await"
    /\ exch[main[w].i] = "refused"
    /\ Result(w, "save", "rejected")
    /\ UNCHANGED <<dbVars, exVars, proc, taskVars>>

(* The exchange took the order, and lease and control are still the ones    *)
(* the order was signed under.                                              *)
Accepted(w) ==
    /\ main[w].pc = "await"
    /\ exch[main[w].i] \in {"open", "closed"}
    /\ AuthorityCurrent(w)
    /\ Result(w, "save", "accepted")
    /\ UNCHANGED <<dbVars, exVars, proc, taskVars>>

(* The exchange took the order, but lease, control or reconciler changed    *)
(* during the broadcast or could not be read: cancel everything and report  *)
(* an error that only reconciliation may resolve.                           *)
Revoked(w) ==
    /\ main[w].pc = "await"
    /\ exch[main[w].i] \in {"open", "closed"}
    /\ CancelVerified \/ (SubmitterCancelMayFail /\ CancelFailed)
    /\ Result(w, "save", "changed")
    /\ UNCHANGED <<dbVars, posts, proc, taskVars>>

(* The POST raised: the order may be there, may never arrive, may arrive    *)
(* later.  Cancel everything, report an error without an order id, and do   *)
(* not send it again.                                                       *)
AmbiguousPost(w) ==
    /\ main[w].pc = "await"
    /\ CancelVerified \/ CancelFailed
    /\ Result(w, "esave", "error")
    /\ UNCHANGED <<dbVars, posts, proc, taskVars>>

(* What save_execution stores for a result. *)
IncomingStatus(out) ==
    CASE out = "accepted" -> "submitted"
      [] out = "rejected" -> "rejected"
      [] OTHER            -> "unknown"

Saved(w, old) ==
    LET m == main[w] IN
    [rows EXCEPT ![m.i] = SavedRow(rows[m.i], old, IncomingStatus(m.out),
                                   m.out \in {"accepted", "lost", "changed"})]

(* The broker's own save of the result.  The exchange id is not in the row  *)
(* before it, so nobody else writes the row meanwhile.  When it raises,     *)
(* stored or not, the result becomes an error that keeps the order id.      *)
BrokerSave(w) ==
    /\ main[w].pc = "save"
    /\ \/ /\ rows' = Saved(w, rows[main[w].i].st)
          /\ Advance(w, "esave")
       \/ /\ rows' = Saved(w, rows[main[w].i].st) \/ UNCHANGED rows
          /\ Result(w, "esave", CASE main[w].out = "accepted" -> "lost"
                                  [] main[w].out = "rejected" -> "error"
                                  [] OTHER                    -> main[w].out)
    /\ UNCHANGED <<lease, ctl, paused, reserved, exVars, proc, taskVars>>

(* The engine saves the returned result again: it reads the row ...         *)
EngineSave(w) ==
    /\ main[w].pc = "esave"
    /\ SetMain(w, [main[w] EXCEPT !.pc = "ewrite", !.old = rows[main[w].i].st])
    /\ UNCHANGED <<dbVars, exVars, proc, taskVars>>

(* ... and writes it back; a failure is skipped over. *)
EngineWrite(w) ==
    /\ main[w].pc = "ewrite"
    /\ rows' = Saved(w, main[w].old) \/ UNCHANGED rows
    /\ SetMain(w, CycleMain)
    /\ UNCHANGED <<lease, ctl, paused, reserved, exVars, proc, taskVars>>

-----------------------------------------------------------------------------
(* Engine stop: _persist_stop_and_verify_cancellation *)

(* The stop is already durable, or is written, or could not be written. *)
EngineStop(w) ==
    /\ "engineStop" \in Disturbance
    /\ main[w].pc = "cycle"
    /\ \/ /\ ~ctl.armed /\ ctl.real
          /\ UNCHANGED ctl
          /\ SetMain(w, [main[w] EXCEPT !.pc = "stopCancel", !.ver = ctl.ver])
       \/ /\ ctl' = Disarmed(ctl)
          /\ SetMain(w, [main[w] EXCEPT !.pc = "stopCancel", !.ver = ctl'.ver])
       \/ /\ UNCHANGED ctl
          /\ Advance(w, "stopCancel")
    /\ UNCHANGED <<lease, paused, rows, reserved, exVars, proc, taskVars>>

(* An unverified cancellation, or a stop that is not durable, raises        *)
(* LiveSafetyLatchError.                                                    *)
StopCancel(w) ==
    /\ main[w].pc = "stopCancel"
    /\ \/ /\ CancelVerified
          /\ main[w].ver # 0
          /\ Advance(w, "stopAck")
       \/ /\ CancelFailed \/ (main[w].ver = 0 /\ CancelVerified)
          /\ SetMain(w, [PausingMain EXCEPT !.out = "error"])
    /\ UNCHANGED <<dbVars, posts, proc, taskVars>>

StopAck(w) ==
    /\ main[w].pc = "stopAck"
    /\ ctl' = IF AckAllowed(ctl, rows, main[w].ver) THEN Acknowledged(ctl)
                                                    ELSE ctl
    /\ SetMain(w, PausingMain)
    /\ UNCHANGED <<lease, paused, rows, reserved, exVars, proc, taskVars>>

-----------------------------------------------------------------------------
(* The watcher: _enforce_runtime_control_once and the loop around it. *)

(* Seeded fault: the watcher acknowledges the version before the latch. *)
CancellingBefore(v, armedFor) ==
    [pc |-> "cancel", pend |-> TRUE, seen |-> v - 1, was |-> armedFor]

(* A cancellation latched at control version v is to be carried out. *)
Cancelling(v, armedFor) ==
    [pc |-> "cancel", pend |-> TRUE, seen |-> v, was |-> armedFor]

(* Read the control, expire an arm that has lapsed, decide whether a        *)
(* cancellation is required.                                                *)
WatchObserve(w) ==
    LET s        == watch[w]
        c        == IF ExpireAllowed(ctl) THEN Expired(ctl) ELSE ctl
        armedFor == LiveArmed(ctl)
        need     == ~armedFor /\ (s.seen = 0 \/ s.was \/ ExpireAllowed(ctl))
        pend     == s.pend /\ ~(s.seen # 0 /\ c.ver # s.seen /\ ~c.pend)
    IN
    /\ proc[w] = "run" /\ s.pc = "idle"
    /\ ctl' = c
    /\ \/ /\ (pend \/ need) /\ ~c.pend
          /\ SetWatch(w, [s EXCEPT !.pc = "latch", !.pend = pend])
          /\ UNCHANGED ready
       \/ /\ c.pend
          /\ SetWatch(w, Cancelling(c.ver, armedFor))
          /\ UNCHANGED ready
       \/ /\ ~pend /\ ~need /\ ~c.pend
          /\ SetWatch(w, [pc |-> "idle", pend |-> FALSE, seen |-> c.ver,
                          was |-> armedFor])
          /\ ready' = [ready EXCEPT ![w] = TRUE]
    /\ UNCHANGED <<lease, paused, rows, reserved, exVars, proc, tok, main>>

(* The durable latch comes before the exchange is touched. *)
WatchLatch(w) ==
    /\ proc[w] # "gone" /\ watch[w].pc = "latch"
    /\ ctl' = Disarmed(ctl)
    /\ SetWatch(w, Cancelling(ctl'.ver, FALSE))
    /\ UNCHANGED <<lease, paused, rows, reserved, exVars, proc, tok, ready, main>>

WatchCancel(w) ==
    /\ proc[w] # "gone" /\ watch[w].pc = "cancel"
    /\ CancelVerified
    /\ SetWatch(w, [watch[w] EXCEPT !.pc = "ack"])
    /\ UNCHANGED <<dbVars, posts, proc, tok, ready, main>>

(* acknowledge_runtime_cancellation with the version that was cancelled. *)
WatchAck(w) ==
    /\ proc[w] # "gone" /\ watch[w].pc = "ack"
    /\ IF AckAllowed(ctl, rows, watch[w].seen)
       THEN /\ ctl' = Acknowledged(ctl)
            /\ SetWatch(w, [watch[w] EXCEPT !.pc = "idle", !.pend = FALSE,
                                            !.seen = ctl'.ver])
            /\ ready' = [ready EXCEPT ![w] = TRUE]
       ELSE /\ SetWatch(w, [watch[w] EXCEPT !.pc = "idle"])
            /\ ready' = [ready EXCEPT ![w] = FALSE]
            /\ UNCHANGED ctl
    /\ UNCHANGED <<lease, paused, rows, reserved, exVars, proc, tok, main>>

(* A tick that raised: close the gate, cancel, remember an unverified one.  *)
WatchFails(w) ==
    /\ "watchFail" \in Disturbance
    /\ proc[w] = "run" \/ (proc[w] = "stop" /\ watch[w].pc # "idle")
    /\ \/ /\ CancelVerified
          /\ SetWatch(w, [watch[w] EXCEPT !.pc = "idle", !.pend = FALSE])
       \/ /\ CancelFailed
          /\ ctl.pend \/ ctl.ver < MaxVersion
          /\ SetWatch(w, [watch[w] EXCEPT !.pc = "idle", !.pend = TRUE])
    /\ ready' = [ready EXCEPT ![w] = FALSE]
    /\ UNCHANGED <<dbVars, posts, proc, tok, main>>

-----------------------------------------------------------------------------
(* Reconciliation of an order the store knows by its exchange id. *)

ReconcileOrder(w, i) ==
    /\ proc[w] # "gone"
    /\ rows[i].id
    /\ \/ /\ exch[i] = "open" /\ rows[i].st \in {"submitted", "unknown"}
          /\ rows' = [rows EXCEPT ![i].st = "working"]
       \/ /\ exch[i] = "closed"
          /\ rows[i].st \in {"submitted", "unknown", "working"}
          /\ rows' = [rows EXCEPT ![i].st = "closed"]
    /\ UNCHANGED <<lease, ctl, paused, reserved, exVars, proc, taskVars, main>>

-----------------------------------------------------------------------------
(* Shutdown: _shutdown_live_safely; and crashes. *)

StopRequested(w) ==
    /\ "stop" \in Disturbance
    /\ proc[w] = "run"
    /\ proc' = [proc EXCEPT ![w] = "stop"]
    /\ UNCHANGED <<dbVars, exVars, taskVars, main>>

(* The background tasks are cancelled; the disarm is written, or failed in  *)
(* every attempt.                                                           *)
Shutdown(w) ==
    /\ proc[w] = "stop" /\ main[w].pc = "idle"
    /\ watch' = [watch EXCEPT ![w] = FreshWatch]
    /\ \/ /\ ctl' = Disarmed(ctl)
          /\ SetMain(w, [main[w] EXCEPT !.pc = "sdCancel", !.ver = ctl'.ver])
       \/ /\ UNCHANGED ctl
          /\ Advance(w, "sdCancel")
    /\ UNCHANGED <<lease, paused, rows, reserved, exVars, proc, tok, ready>>

(* The process ends: everything it held in memory is gone. *)
Exit(w) ==
    /\ proc' = [proc EXCEPT ![w] = "gone"]
    /\ tok' = [tok EXCEPT ![w] = 0]
    /\ ready' = [ready EXCEPT ![w] = FALSE]
    /\ SetMain(w, IdleMain)
    /\ watch' = [watch EXCEPT ![w] = FreshWatch]

ShutdownCancel(w) ==
    /\ main[w].pc = "sdCancel"
    /\ \/ /\ CancelVerified
          /\ Advance(w, "sdValidate")
          /\ UNCHANGED <<proc, taskVars>>
       \/ CancelFailed /\ Exit(w)
    /\ UNCHANGED <<dbVars, posts>>

(* Final lease validation; without a persisted disarm nothing is confirmed. *)
ShutdownValidate(w) ==
    /\ main[w].pc = "sdValidate"
    /\ IF main[w].ver # 0 /\ tok[w] # 0 /\ LeaseValid(lease, w, tok[w])
       THEN Advance(w, "sdAck") /\ UNCHANGED <<proc, taskVars>>
       ELSE Exit(w)
    /\ UNCHANGED <<dbVars, exVars>>

(* Seeded fault: the lease is released although nothing was acknowledged. *)
ShutdownReleasesAnyway(w) ==
    /\ main[w].pc = "sdAck"
    /\ ctl' = IF AckAllowed(ctl, rows, main[w].ver) THEN Acknowledged(ctl)
                                                    ELSE ctl
    /\ Advance(w, "sdRelease")
    /\ UNCHANGED <<lease, paused, rows, reserved, exVars, proc, taskVars>>

ShutdownAck(w) ==
    /\ main[w].pc = "sdAck"
    /\ IF AckAllowed(ctl, rows, main[w].ver)
       THEN /\ ctl' = Acknowledged(ctl)
            /\ Advance(w, "sdRelease")
            /\ UNCHANGED <<proc, taskVars>>
       ELSE UNCHANGED ctl /\ Exit(w)
    /\ UNCHANGED <<lease, paused, rows, reserved, exVars>>

ShutdownRelease(w) ==
    /\ main[w].pc = "sdRelease"
    /\ lease' = Released(lease, w, tok[w])
    /\ Exit(w)
    /\ UNCHANGED <<ctl, paused, rows, reserved, exVars>>

Crash(w) ==
    /\ "crash" \in Disturbance
    /\ proc[w] # "gone"
    /\ Exit(w)
    /\ UNCHANGED <<dbVars, exVars>>

-----------------------------------------------------------------------------
SubmitStep(w) ==
    \/ \E i \in Intent : Reserve(w, i)
    \/ CheckUnresolved(w) \/ Gate(w) \/ Sign(w) \/ SignFails(w) \/ Mark(w)
    \/ FinalCheck(w) \/ Reject(w) \/ Post(w) \/ Refused(w) \/ Accepted(w) \/ Revoked(w)
    \/ AmbiguousPost(w) \/ BrokerSave(w) \/ EngineSave(w) \/ EngineWrite(w)

LoopStep(w) ==
    \/ StartCycle(w) \/ PrepareCycle(w) \/ EndCycle(w)
    \/ HaltCycle(w) \/ PauseLive(w) \/ HaltWorker(w)
    \/ EngineStop(w) \/ StopCancel(w) \/ StopAck(w)

WatchStep(w) ==
    \/ WatchObserve(w) \/ WatchLatch(w) \/ WatchCancel(w) \/ WatchAck(w)
    \/ WatchFails(w)

ShutdownStep(w) ==
    \/ StopRequested(w) \/ Shutdown(w) \/ ShutdownCancel(w)
    \/ ShutdownValidate(w) \/ ShutdownAck(w) \/ ShutdownRelease(w) \/ Crash(w)

Environment ==
    \/ \E i \in Intent : Land(i) \/ Close(i)
    \/ LeaseLapses \/ ArmLapses \/ Pause \/ Resume

Next ==
    \/ Environment
    \/ \E w \in Worker :
          \/ ClaimLease(w) \/ LoseLease(w)
          \/ SubmitStep(w) \/ LoopStep(w) \/ WatchStep(w) \/ ShutdownStep(w)
          \/ \E i \in Intent : ReconcileOrder(w, i)

Spec == Init /\ [][Next]_vars
-----------------------------------------------------------------------------
(* Correctness. *)

InFlight(i) == exch[i] \in {"transit", "open"}

(* When the control row says "stopped and nothing left to cancel", the       *)
(* exchange holds no order of the account, none is on its way there, and no  *)
(* order is past its last durable gate (acknowledge_runtime_cancellation     *)
(* against every submission that was under way).                             *)
Quiet ==
    ~ctl.armed /\ ~ctl.pend =>
        \A i \in Intent : ~InFlight(i) /\ rows[i].st # "submitting"

(* One fencing token never has two orders past mark_order_submitting and     *)
(* before their result: the unresolved-order check, the single engine task   *)
(* and the uniqueness of tokens together serialise submissions.              *)
OneFlightPerFence ==
    \A i, j \in Intent :
        /\ rows[i].st = "submitting" /\ rows[j].st = "submitting"
        /\ rows[i].tok = rows[j].tok
        => i = j

(* An intent reaches the exchange at most once, whatever crashes, lost       *)
(* answers and takeovers happen (reserve_intent, prepare_signed_order).      *)
AtMostOncePost == \A i \in Intent : posts[i] <= 1

(* An arm that is not a renewal finds nothing of an earlier arm at the       *)
(* exchange: an arm that lapsed is expired and cancelled first               *)
(* (arm_personal_runtime_control, expire_runtime_control).                   *)
ArmOverQuietBook ==
    [][LiveArmed(ctl)' /\ ~LiveArmed(ctl) => \A i \in Intent : ~InFlight(i)]_vars

(* A worker hands its lease back only in a stopped account with nothing at   *)
(* the exchange, or after someone else armed it again                        *)
(* (_shutdown_live_safely releases after the acknowledged cancellation).     *)
ReleaseIsQuiet ==
    [][\A w \in Worker : ShutdownRelease(w) /\ LeaseValid(lease, w, tok[w]) =>
          \A i \in Intent : ~InFlight(i)]_vars

(* Clearing the cancellation latch means that zero open orders were          *)
(* verified: no order of the account rests at the exchange.                  *)
AckVerifiedZeroOpen ==
    [][ctl.pend /\ ~ctl'.pend => \A i \in Intent : exch[i] # "open"]_vars

(* The watchers keep ticking, and the exchange and the database answer them  *)
(* again and again; nothing is assumed of the main loops, of the operator or *)
(* of the reconciler.                                                        *)
WatchFairness ==
    \A w \in Worker :
        /\ WF_vars(WatchObserve(w)) /\ WF_vars(WatchLatch(w))
        /\ SF_vars(WatchCancel(w)) /\ SF_vars(WatchAck(w))

FairSpec == Spec /\ WatchFairness

NobodyRuns == \A w \in Worker : proc[w] # "run"

(* An order that rests at the exchange when the authority to trade is gone   *)
(* (disarmed, paused, lapsed) does not rest there for ever as long as one    *)
(* worker, whichever it is, keeps running.                                   *)
StopReachesExchange ==
    \A i \in Intent :
        exch[i] = "open" /\ ~LiveArmed(ctl)
            ~> exch[i] # "open" \/ LiveArmed(ctl) \/ NobodyRuns

(* A requested cancellation is acknowledged, unless an order whose outcome   *)
(* is unknown holds it open.                                                 *)
StopCompletes == ctl.pend ~> ~ctl.pend \/ Unresolved(rows) \/ NobodyRuns
=============================================================================
