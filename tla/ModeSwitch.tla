----------------------------- MODULE ModeSwitch -----------------------------
(* Switching a personal deployment between simulated and real-money trading:  *)
(* the main loop adopts the dashboard's mode and risk policy at a cycle       *)
(* boundary, the watcher enforces the runtime control of the mode in force,   *)
(* and both run the same cleanup of former live exposure under one lock.      *)
(* A worker is one process; a restart is another worker.  The submission of   *)
(* an order is reduced to its durable mark and the answer of the venue, the   *)
(* rest of it is LiveExecution.                                               *)
EXTENDS AccountGate, FiniteSets

CONSTANTS
    Orders,
    Policies,       \* risk policies
    NoPolicy,       \* a profile without one
    Requested,      \* the order limit each policy asks for
    Ceiling,        \* the deployment's own order limit
    CanaryCap,      \* the fixed limit of canary mode
    LiveEnabled,    \* may this deployment trade real money
    StartModes,     \* the modes a process may be deployed in
    Former,         \* the mode in which an earlier deployment left the control row
    FirstMode,      \* the mode the dashboard asks for at first
    Selectable,     \* bound: the modes it may ask for later
    Overlap,        \* may a process lose its lease, or another start, while it runs
    MaxSwitch,      \* bound on dashboard changes
    MaxToken,       \* bound on fencing tokens
    MaxFaults       \* bound on failed reads and cancellations, lost answers, crashes

Modes == {"paper", "canary", "live"}

ModeAssumption ==
    /\ NoPolicy \notin Policies /\ "unread" \notin Policies \union {NoPolicy}
    /\ Requested \in [Policies -> Nat]
    /\ {Ceiling, CanaryCap, MaxSwitch, MaxToken, MaxFaults} \subseteq Nat
    /\ LiveEnabled \in BOOLEAN /\ Overlap \in BOOLEAN
    /\ (StartModes \union Selectable \union {Former, FirstMode}) \subseteq Modes

VARIABLES
    claim,     \* worker_leases row
    control,   \* runtime_controls row
    profile,   \* desired_mode and risk_policy_id of the profile row
    orders,    \* order rows, and whether each order rests at the venue
    wk,        \* the worker processes
    switches, faults

vars == <<claim, control, profile, orders, wk, switches, faults>>

Real(m) == m \in {"canary", "live"}

(* resolve_effective_mode *)
Effective(m) == IF Real(m) /\ ~ LiveEnabled THEN "paper" ELSE m

Smaller(a, b) == IF a < b THEN a ELSE b

(* PersonalConfiguration.policy_values *)
Limit(p, m) ==
    LET asked == IF p = NoPolicy THEN Ceiling ELSE Smaller(Ceiling, Requested[p])
    IN  IF m = "canary" THEN Smaller(asked, CanaryCap) ELSE asked

-----------------------------------------------------------------------------
(* The database and the venue *)

(* disarm_runtime_control *)
DisarmedIn(c, m) == [mode |-> m, armed |-> FALSE, pend |-> Real(m), ver |-> c.ver + 1]

Pending(os) == \E o \in Orders : os[o].row \in {"submitting", "unknown"}

Resting(os) == \E o \in Orders : os[o].on

AllCancelled == [o \in Orders |-> [orders[o] EXCEPT !.on = FALSE]]

(* the latch is cleared by version, never over an unresolved order *)
AckTaken(v) == control.ver = v /\ control.pend /\ ~ control.armed /\ ~ Pending(orders)

Fault == faults < MaxFaults /\ faults' = faults + 1

-----------------------------------------------------------------------------
(* Workers *)

NoCleanup == [pc |-> "none", c |-> [mode |-> "paper", armed |-> FALSE, pend |-> FALSE, ver |-> 0],
              open |-> FALSE, ver |-> 0, tok |-> 0, target |-> "paper"]

Down ==
    [up |-> FALSE, tok |-> 0, mode |-> "paper", cfg |-> FALSE, ready |-> FALSE, limit |-> Ceiling,
     policy |-> "unread", scope |-> "paper", pc |-> "top", target |-> "paper", next |-> NoPolicy,
     lock |-> "free", cl |-> NoCleanup, fence |-> 0, sent |-> 0, ver |-> 0, was |-> FALSE,
     pend |-> FALSE]

Init ==
    /\ claim = InitialLease
    /\ control = [mode |-> Former, armed |-> FALSE, pend |-> FALSE, ver |-> 1]
    /\ profile = [mode |-> FirstMode, policy |-> NoPolicy]
    /\ orders = [o \in Orders |-> [row |-> "none", on |-> FALSE, by |-> NoWorker, size |-> 0]]
    /\ wk = [w \in Worker |-> Down]
    /\ switches = 0
    /\ faults = 0

Set(w, r) == wk' = [wk EXCEPT ![w] = r]

(* a process starts once; its broker is bound to the deployed mode *)
Start(w) ==
    /\ wk[w] = Down
    /\ Overlap \/ \A v \in Worker : ~ wk[v].up
    /\ \E m \in StartModes :
         Set(w, [Down EXCEPT !.up = TRUE, !.mode = m,
                             !.scope = IF Real(m) THEN m ELSE "paper"])
    /\ UNCHANGED <<claim, control, profile, orders, switches, faults>>

(* a process that is killed while it awaits the venue may have been heard *)
Crash(w) ==
    /\ wk[w].up
    /\ Fault
    /\ Set(w, [Down EXCEPT !.pc = "gone"])
    /\ \/ UNCHANGED orders
       \/ \E o \in Orders :
            /\ orders[o].row = "submitting" /\ orders[o].by = w
            /\ orders' = [orders EXCEPT ![o].on = TRUE]
    /\ UNCHANGED <<claim, control, profile, switches>>

Switch(m, p) ==
    /\ switches < MaxSwitch
    /\ profile # [mode |-> m, policy |-> p]
    /\ profile' = [mode |-> m, policy |-> p]
    /\ switches' = switches + 1
    /\ UNCHANGED <<claim, control, orders, wk, faults>>

ClaimLapses ==
    /\ claim.live
    /\ Overlap \/ ~ wk[claim.owner].up
    /\ claim' = [claim EXCEPT !.live = FALSE]
    /\ UNCHANGED <<control, profile, orders, wk, switches, faults>>

(* maintain_lease *)
ClaimLease(w) ==
    /\ wk[w].up
    /\ ClaimGranted(claim, w) /\ ~ LeaseValid(claim, w, wk[w].tok)
    /\ Claimed(claim, w).token <= MaxToken
    /\ claim' = Claimed(claim, w)
    /\ Set(w, [wk[w] EXCEPT !.tok = Claimed(claim, w).token])
    /\ UNCHANGED <<control, profile, orders, switches, faults>>

(* the claim is refused, or the heartbeat gets no answer *)
LoseLease(w) ==
    /\ wk[w].up /\ wk[w].tok # 0
    /\ (~ ClaimGranted(claim, w) /\ UNCHANGED faults) \/ Fault
    /\ Set(w, [wk[w] EXCEPT !.tok = 0])
    /\ (Real(wk[w].mode) /\ orders' = AllCancelled) \/ UNCHANGED orders
    /\ UNCHANGED <<claim, control, profile, switches>>

(* lease_guard *)
Guard(w) ==
    /\ wk[w].tok # 0 /\ wk[w].cfg /\ wk[w].ready
    /\ LeaseValid(claim, w, wk[w].tok)

-----------------------------------------------------------------------------
(* align_effective_mode *)

(* get_configuration *)
ReadConfiguration(w) ==
    /\ wk[w].up /\ wk[w].pc = "top"
    /\ Set(w, [wk[w] EXCEPT !.pc = "apply", !.target = Effective(profile.mode),
                            !.next = profile.policy])
    /\ UNCHANGED <<claim, control, profile, orders, switches, faults>>

(* any exception: no new execution, and in a real mode a cancel-all; a read  *)
(* that fails does so before the lock is taken                               *)
ConfigurationFailed(w, r) ==
    /\ Set(w, [r EXCEPT !.cfg = FALSE, !.pc = "gates", !.lock = "free", !.cl = NoCleanup])
    /\ \/ Real(wk[w].mode) /\ orders' = AllCancelled
       \/ UNCHANGED orders

ReadFails(w) ==
    /\ wk[w].up /\ wk[w].pc = "top"
    /\ Fault
    /\ Set(w, [wk[w] EXCEPT !.cfg = FALSE, !.pc = "gates"])
    /\ \/ Real(wk[w].mode) /\ orders' = AllCancelled
       \/ UNCHANGED orders
    /\ UNCHANGED <<claim, control, profile, switches>>

(* policy, limits and mode are published together; the live gate is bound     *)
(* again when a lease is held                                                 *)
Published(r) ==
    [r EXCEPT !.policy = r.next, !.limit = Limit(r.next, r.target), !.mode = r.target,
              !.cfg = TRUE, !.pc = "gates", !.lock = "free", !.cl = NoCleanup,
              !.scope = IF Real(r.target) /\ r.tok # 0 THEN r.target ELSE @]

PolicyChanged(r) == r.policy # "unread" /\ r.policy # r.next

Blocked(r) == [r EXCEPT !.cfg = FALSE, !.ready = FALSE]

CleanupOf(r, target) == [NoCleanup EXCEPT !.pc = "read", !.target = target, !.tok = r.tok]

ApplyWithoutCleanup(w) ==
    /\ wk[w].pc = "apply" /\ wk[w].lock = "free"
    /\ Set(w, Published(wk[w]))
    /\ UNCHANGED <<claim, control, profile, orders, switches, faults>>

ApplyKeepingOrders(w) ==
    /\ wk[w].pc = "apply" /\ wk[w].lock = "free"
    /\ ~ (Real(wk[w].mode) /\ wk[w].target # wk[w].mode)
    /\ Set(w, Published(wk[w]))
    /\ UNCHANGED <<claim, control, profile, orders, switches, faults>>

(* leaving a real mode needs the lease and a full cleanup, a new policy in    *)
(* the same real mode needs a verified cancel-all                             *)
Apply(w) ==
    /\ wk[w].pc = "apply" /\ wk[w].lock = "free"
    /\ LET r == wk[w] IN
       \/ /\ r.target # r.mode /\ Real(r.mode)
          /\ IF r.tok = 0 THEN ConfigurationFailed(w, Blocked(r))
             ELSE /\ Set(w, [Blocked(r) EXCEPT !.lock = "align", !.pc = "cleanup",
                                               !.cl = CleanupOf(r, "paper")])
                  /\ UNCHANGED orders
          /\ UNCHANGED faults
       \/ /\ r.target = r.mode /\ Real(r.mode) /\ PolicyChanged(r)
          /\ \/ orders' = AllCancelled /\ Set(w, Published(Blocked(r))) /\ UNCHANGED faults
             \/ Fault /\ ConfigurationFailed(w, Blocked(r))
       \/ /\ ~ Real(r.mode) \/ (r.target = r.mode /\ ~ PolicyChanged(r))
          /\ Set(w, Published(IF r.target # r.mode \/ PolicyChanged(r) THEN Blocked(r) ELSE r))
          /\ UNCHANGED <<orders, faults>>
    /\ UNCHANGED <<claim, control, profile, switches>>

-----------------------------------------------------------------------------
(* _clear_personal_live_downgrade, run by the main loop or by the watcher     *)

CleanupFailed(w) ==
    IF wk[w].lock = "align" THEN ConfigurationFailed(w, wk[w])
    ELSE /\ Set(w, [wk[w] EXCEPT !.ready = FALSE, !.lock = "free", !.cl = NoCleanup])
         /\ UNCHANGED orders

CleanupDone(w) ==
    /\ Set(w, IF wk[w].lock = "align" THEN Published(wk[w])
              ELSE [wk[w] EXCEPT !.ready = TRUE, !.lock = "free", !.cl = NoCleanup])
    /\ UNCHANGED orders

CleanupAt(w, pc) == wk[w].up /\ wk[w].cl.pc = pc

CleanupMoves(w, pc) == Set(w, [wk[w] EXCEPT !.cl.pc = pc]) /\ UNCHANGED orders

LeaseHeld(w) == LeaseValid(claim, w, wk[w].cl.tok)

CleanupRead(w) ==
    /\ CleanupAt(w, "read")
    /\ Set(w, [wk[w] EXCEPT !.cl.pc = "judge", !.cl.c = control, !.cl.open = Pending(orders)])
    /\ UNCHANGED <<claim, control, profile, orders, switches, faults>>

HistoricalLive(cl) == Real(cl.c.mode) \/ cl.c.armed \/ cl.c.pend \/ cl.open

HistoricalMode(cl) == IF Real(cl.c.mode) THEN cl.c.mode ELSE "live"

CleanupJudge(w) ==
    /\ CleanupAt(w, "judge")
    /\ IF ~ LeaseHeld(w) THEN CleanupFailed(w)
       ELSE IF HistoricalLive(wk[w].cl) THEN CleanupMoves(w, "latch")
       ELSE IF wk[w].cl.c.mode = wk[w].cl.target THEN CleanupDone(w)
       ELSE CleanupMoves(w, "final")
    /\ UNCHANGED <<claim, control, profile, switches, faults>>

(* the cancellation latch is set before the venue is asked *)
CleanupLatch(w) ==
    /\ CleanupAt(w, "latch")
    /\ LET cl == wk[w].cl
           h  == HistoricalMode(cl)
       IN  IF cl.c.pend /\ ~ cl.c.armed /\ cl.c.mode = h
           THEN /\ Set(w, [wk[w] EXCEPT !.cl.pc = "cancel", !.cl.ver = cl.c.ver])
                /\ UNCHANGED control
           ELSE /\ control' = DisarmedIn(control, h)
                /\ Set(w, [wk[w] EXCEPT !.cl.pc = "cancel", !.cl.ver = control'.ver])
    /\ UNCHANGED <<claim, profile, orders, switches, faults>>

CleanupCancelAssumed(w) ==
    /\ CleanupAt(w, "cancel")
    /\ (orders' = AllCancelled /\ UNCHANGED faults) \/ (UNCHANGED orders /\ Fault)
    /\ Set(w, [wk[w] EXCEPT !.cl.pc = "check"])
    /\ UNCHANGED <<claim, control, profile, switches>>

(* cancel_all and up to three readings of the open orders *)
CleanupCancel(w) ==
    /\ CleanupAt(w, "cancel")
    /\ \/ /\ orders' = AllCancelled
          /\ Set(w, [wk[w] EXCEPT !.cl.pc = "check"])
          /\ UNCHANGED faults
       \/ Fault /\ CleanupFailed(w)
    /\ UNCHANGED <<claim, control, profile, switches>>

CleanupCheck(w) ==
    /\ CleanupAt(w, "check")
    /\ IF LeaseHeld(w) /\ ~ Pending(orders) THEN CleanupMoves(w, "ack") ELSE CleanupFailed(w)
    /\ UNCHANGED <<claim, control, profile, switches, faults>>

CleanupAck(w) ==
    /\ CleanupAt(w, "ack")
    /\ IF AckTaken(wk[w].cl.ver)
       THEN /\ control' = [control EXCEPT !.pend = FALSE, !.ver = @ + 1]
            /\ CleanupMoves(w, "recheck")
       ELSE CleanupFailed(w) /\ UNCHANGED control
    /\ UNCHANGED <<claim, profile, switches, faults>>

CleanupRecheck(w) ==
    /\ CleanupAt(w, "recheck")
    /\ IF LeaseHeld(w) THEN CleanupMoves(w, "final") ELSE CleanupFailed(w)
    /\ UNCHANGED <<claim, control, profile, switches, faults>>

(* the control row follows the simulated mode, whatever it says by now *)
CleanupFinal(w) ==
    /\ CleanupAt(w, "final")
    /\ control' = DisarmedIn(control, wk[w].cl.target)
    /\ CleanupMoves(w, "confirm")
    /\ UNCHANGED <<claim, profile, switches, faults>>

CleanupConfirm(w) ==
    /\ CleanupAt(w, "confirm")
    /\ IF LeaseHeld(w) THEN CleanupDone(w) ELSE CleanupFailed(w)
    /\ UNCHANGED <<claim, control, profile, switches, faults>>

(* a call of the cleanup raises *)
CleanupRaises(w) ==
    /\ wk[w].up /\ wk[w].cl.pc # "none"
    /\ Fault
    /\ CleanupFailed(w)
    /\ UNCHANGED <<claim, control, profile, switches>>

CleanupStep(w) ==
    \/ CleanupRead(w) \/ CleanupJudge(w) \/ CleanupLatch(w) \/ CleanupCancel(w)
    \/ CleanupCheck(w) \/ CleanupAck(w) \/ CleanupRecheck(w) \/ CleanupFinal(w)
    \/ CleanupConfirm(w)

-----------------------------------------------------------------------------
(* watch_runtime_control *)

(* a simulated mode: the cleanup, every tick *)
WatchSimulated(w) ==
    /\ wk[w].up /\ wk[w].lock = "free" /\ ~ Real(wk[w].mode)
    /\ Set(w, IF wk[w].tok = 0 THEN [wk[w] EXCEPT !.ready = FALSE]
              ELSE [wk[w] EXCEPT !.lock = "watch", !.cl = CleanupOf(wk[w], wk[w].mode)])
    /\ UNCHANGED <<claim, control, profile, orders, switches, faults>>

(* a real mode: _enforce_runtime_control_once up to its cancel-all *)
WatchReal(w) ==
    /\ wk[w].up /\ wk[w].lock = "free" /\ Real(wk[w].mode)
    /\ LET r        == wk[w]
           armed    == control.armed /\ control.mode = r.mode
           mismatch == control.armed /\ control.mode # r.mode
           seen     == IF mismatch THEN DisarmedIn(control, r.mode) ELSE control
           left     == ~ armed /\ (r.ver = 0 \/ r.was \/ mismatch)
           retry    == r.pend /\ (r.ver = 0 \/ seen.ver = r.ver \/ seen.pend)
           needed   == retry \/ seen.pend \/ left
           latched  == IF needed /\ ~ seen.pend THEN DisarmedIn(seen, r.mode) ELSE seen
       IN  /\ control' = latched
           /\ Set(w, [r EXCEPT !.ver = latched.ver, !.was = armed /\ ~ needed, !.pend = needed,
                               !.lock = IF needed THEN "enforce" ELSE "free",
                               !.ready = IF needed THEN @ ELSE TRUE])
    /\ UNCHANGED <<claim, profile, orders, switches, faults>>

(* cancel-all, then the acknowledgement of the latched version *)
WatchCancel(w) ==
    /\ wk[w].up /\ wk[w].lock = "enforce"
    /\ \/ /\ orders' = AllCancelled
          /\ Set(w, [wk[w] EXCEPT !.lock = "ack"])
          /\ UNCHANGED faults
       \/ /\ Fault
          /\ UNCHANGED orders
          /\ Set(w, [wk[w] EXCEPT !.lock = "free", !.ready = FALSE])
    /\ UNCHANGED <<claim, control, profile, switches>>

WatchAck(w) ==
    /\ wk[w].up /\ wk[w].lock = "ack"
    /\ IF AckTaken(wk[w].ver)
       THEN /\ control' = [control EXCEPT !.pend = FALSE, !.ver = @ + 1]
            /\ Set(w, [wk[w] EXCEPT !.lock = "free", !.ver = control'.ver, !.pend = FALSE,
                                    !.ready = TRUE])
       ELSE /\ UNCHANGED control
            /\ Set(w, [wk[w] EXCEPT !.lock = "free", !.ready = FALSE])
    /\ UNCHANGED <<claim, profile, orders, switches, faults>>

(* a call of the tick raises: cancel everything and try again *)
WatchFails(w) ==
    /\ wk[w].up /\ Real(wk[w].mode) /\ wk[w].lock \in {"free", "enforce", "ack"}
    /\ Fault
    /\ \E verified \in BOOLEAN :
         /\ Set(w, [wk[w] EXCEPT !.lock = "free", !.ready = FALSE, !.pend = ~ verified])
         /\ orders' = IF verified THEN AllCancelled ELSE orders
    /\ UNCHANGED <<claim, control, profile, switches>>

-----------------------------------------------------------------------------
(* The main loop after the alignment *)

(* set_personal_runtime_paused, as far as it changes the control row; while   *)
(* the pause lasts nothing is armed                                           *)
PausedIn(c) ==
    IF c.armed \/ c.pend # Real(c.mode) THEN DisarmedIn(c, c.mode) ELSE c

(* the gates of the loop; an unresolved order cancels everything and pauses   *)
StartCycle(w) ==
    /\ wk[w].up /\ wk[w].pc = "gates"
    /\ LET open == wk[w].tok # 0 /\ wk[w].cfg /\ wk[w].ready IN
       IF open /\ Pending(orders)
       THEN /\ orders' = AllCancelled \/ UNCHANGED orders
            /\ control' = IF Real(wk[w].mode) THEN PausedIn(control) ELSE control
            /\ Set(w, [wk[w] EXCEPT !.pc = "top"])
       ELSE /\ Set(w, [wk[w] EXCEPT !.fence = IF open THEN wk[w].tok ELSE 0,
                          !.pc = CASE ~ open            -> "top"
                                   [] Real(wk[w].mode) -> "prepare"
                                   [] OTHER            -> "cycle"])
            /\ UNCHANGED <<control, orders>>
    /\ UNCHANGED <<claim, profile, switches, faults>>

(* _prepare_personal_live_cycle arms, or finds the account paused or not ready *)
Prepare(w) ==
    /\ wk[w].up /\ wk[w].pc = "prepare"
    /\ \/ /\ LeaseValid(claim, w, wk[w].fence)
          /\ ~ control.pend /\ (control.armed => control.mode = wk[w].mode)
          /\ control' = IF control.armed THEN control
                        ELSE [mode |-> wk[w].mode, armed |-> TRUE, pend |-> FALSE,
                              ver |-> control.ver + 1]
          /\ Set(w, [wk[w] EXCEPT !.pc = "cycle"])
       \/ /\ UNCHANGED control
          /\ Set(w, [wk[w] EXCEPT !.pc = "top", !.fence = 0])
    /\ UNCHANGED <<claim, profile, orders, switches, faults>>

(* the operator's pause *)
Pause ==
    /\ PausedIn(control) # control
    /\ Fault
    /\ control' = PausedIn(control)
    /\ UNCHANGED <<claim, profile, orders, wk, switches>>

(* the authority under which a real order may leave *)
Authorized(w) ==
    /\ Guard(w)
    /\ control.armed /\ control.mode = wk[w].mode /\ wk[w].scope = wk[w].mode

(* mark_personal_order_submitting *)
MarkSubmitting(w, o) ==
    /\ wk[w].up /\ wk[w].pc = "cycle" /\ Real(wk[w].mode)
    /\ orders[o].row = "none" /\ ~ Pending(orders)
    /\ Authorized(w)
    /\ orders' = [orders EXCEPT ![o] = [row |-> "submitting", on |-> FALSE, by |-> w,
                                        size |-> wk[w].limit]]
    /\ Set(w, [wk[w] EXCEPT !.pc = "post", !.sent = control.ver])
    /\ UNCHANGED <<claim, control, profile, switches, faults>>

(* the venue's answer: taken under the same authority, taken after it was     *)
(* lost (cancel-all, the row left to reconciliation), or no answer            *)
VenueAnswers(w, o) ==
    /\ wk[w].up /\ wk[w].pc = "post"
    /\ orders[o].row = "submitting" /\ orders[o].by = w
    /\ Set(w, [wk[w] EXCEPT !.pc = "cycle", !.sent = 0])
    /\ \/ /\ Authorized(w) /\ control.ver = wk[w].sent
          /\ orders' = [orders EXCEPT ![o].row = "known", ![o].on = TRUE]
          /\ UNCHANGED faults
       \/ /\ ~ (Authorized(w) /\ control.ver = wk[w].sent)
          /\ orders' = [AllCancelled EXCEPT ![o].row = "unknown"]
          /\ UNCHANGED faults
       \/ /\ Fault
          /\ \E b \in BOOLEAN :
               \/ orders' = [orders EXCEPT ![o].row = "unknown", ![o].on = b]
               \/ orders' = [AllCancelled EXCEPT ![o].row = "unknown", ![o].on = b]
    /\ UNCHANGED <<claim, control, profile, switches>>

EndCycle(w) ==
    /\ wk[w].up /\ wk[w].pc = "cycle"
    /\ Set(w, [wk[w] EXCEPT !.pc = "top", !.fence = 0])
    /\ UNCHANGED <<claim, control, profile, orders, switches, faults>>

(* reconciliation, or the operator, finds out what became of an order *)
Resolve(o) ==
    /\ \/ orders[o].row = "unknown"
       \/ orders[o].row = "submitting" /\ ~ wk[orders[o].by].up
    /\ orders' = [orders EXCEPT ![o].row = "known"]
    /\ UNCHANGED <<claim, control, profile, wk, switches, faults>>

(* an order fills or reaches its expiry *)
Leaves(o) ==
    /\ orders[o].on
    /\ orders' = [orders EXCEPT ![o].on = FALSE]
    /\ UNCHANGED <<claim, control, profile, wk, switches, faults>>

-----------------------------------------------------------------------------
MainStep(w) ==
    \/ ReadConfiguration(w) \/ Apply(w) \/ StartCycle(w) \/ Prepare(w) \/ EndCycle(w)
    \/ \E o \in Orders : VenueAnswers(w, o)

WatchStep(w) == WatchSimulated(w) \/ WatchReal(w) \/ WatchCancel(w) \/ WatchAck(w)

Next ==
    \/ ClaimLapses
    \/ Pause
    \/ \E m \in Selectable, p \in Policies \union {NoPolicy} : Switch(m, p)
    \/ \E o \in Orders : Resolve(o) \/ Leaves(o)
    \/ \E w \in Worker :
        \/ Start(w) \/ Crash(w) \/ ClaimLease(w) \/ LoseLease(w)
        \/ MainStep(w) \/ CleanupStep(w) \/ WatchStep(w)
        \/ ReadFails(w) \/ CleanupRaises(w) \/ WatchFails(w)
        \/ \E o \in Orders : MarkSubmitting(w, o)

Spec == Init /\ [][Next]_vars

-----------------------------------------------------------------------------
(* Properties *)

Controls == [mode : Modes, armed : BOOLEAN, pend : BOOLEAN, ver : Nat]

TypeOK ==
    /\ claim \in Lease
    /\ control \in Controls
    /\ profile \in [mode : Modes, policy : Policies \union {NoPolicy}]
    /\ orders \in [Orders -> [row : {"none", "submitting", "unknown", "known"}, on : BOOLEAN,
                              by : Worker \union {NoWorker}, size : 0..Ceiling]]
    /\ \A w \in Worker :
        /\ wk[w].mode \in Modes /\ wk[w].limit \in 0..Ceiling /\ wk[w].tok \in 0..MaxToken
        /\ wk[w].pc \in {"top", "apply", "cleanup", "gates", "prepare", "cycle", "post", "gone"}
        /\ wk[w].lock \in {"free", "align", "watch", "enforce", "ack"}

(* A simulated cycle that may trade has no live exposure behind it: nothing   *)
(* rests at the venue and no order is unresolved, whichever mode, process or  *)
(* crash came before (_clear_personal_live_downgrade: "Fail closed before a   *)
(* former live deployment may run paper/shadow cycles").                      *)
SimulationIsClean ==
    \A w \in Worker :
        (wk[w].pc = "cycle" /\ ~ Real(wk[w].mode) /\ Guard(w)) =>
            ~ Resting(orders) /\ ~ Pending(orders)

(* A process gives up a real mode only when the venue holds nothing, every    *)
(* order is accounted for and the control is disarmed: an interrupted or      *)
(* failed cleanup leaves it in the real mode, where shutdown still cancels.   *)
RealModeLeftClean ==
    [][\A w \in Worker :
         (wk[w].up /\ wk'[w].up /\ Real(wk[w].mode) /\ ~ Real(wk'[w].mode)) =>
            ~ Resting(orders') /\ ~ Pending(orders') /\ ~ control'.armed]_vars

(* Lowering the risk limits reaches what already rests: while a process's     *)
(* configuration is in force, no order it placed is larger than the limit it  *)
(* would size an order with now (policy changes, canary, ceilings).           *)
RestingWithinLimits ==
    \A w \in Worker, o \in Orders :
        (wk[w].up /\ wk[w].cfg /\ orders[o].on /\ orders[o].by = w) =>
            orders[o].size <= wk[w].limit

=============================================================================
