------------------------- MODULE LiveExecutionProofs -------------------------
(***************************************************************************)
(* Type correctness of LiveExecution, and the ownership of intents that    *)
(* the types of a submission rest on: a main loop indexes the order rows   *)
(* with the intent in its hand, which is an intent in every step of a      *)
(* submission and in no other step.                                        *)
(*                                                                         *)
(* On these rest the safety properties, for any number of workers,         *)
(* intents, crashes and takeovers; that a stopped account is quiet is the  *)
(* second half of the module.                                              *)
(*                                                                         *)
(* PostedOnce: an intent is posted at most once.  The argument follows an  *)
(* intent from hand to exchange: nobody has posted it before it is         *)
(* reserved, only the worker that reserved it can, and that worker leaves  *)
(* the steps before the POST with the POST and never comes back to them    *)
(* with the same intent.                                                   *)
(*                                                                         *)
(* FencedFlights: one fencing token never has two orders under way.  The   *)
(* argument is about the current owner of the lease: between its check for *)
(* unresolved orders and its mark no order under its token is under way,   *)
(* because only its own mark could have put one there, and after a change  *)
(* of owner the token is one that no row carries yet.                      *)
(***************************************************************************)
EXTENDS LiveExecution, TLAPS

USE NoWorkerAssumption, LiveAssumption

(* A worker has an intent in hand exactly while it submits; the intent is   *)
(* reserved and in nobody else's hand.                                      *)
Held ==
    /\ \A w \in Worker : main[w].pc \in SubmitPc <=> main[w].i # NoIntent
    /\ \A w \in Worker : main[w].i # NoIntent => main[w].i \in reserved
    /\ \A w, x \in Worker :
          main[w].i = main[x].i /\ main[w].i # NoIntent => w = x

-----------------------------------------------------------------------------
(* The operators of AccountGate keep their types. *)

(* The fields of a runtime control row. *)
LEMMA ControlFields ==
    ASSUME NEW c \in Control
    PROVE  /\ c.ver \in Nat /\ c.armed \in BOOLEAN /\ c.fresh \in BOOLEAN
           /\ c.pend \in BOOLEAN /\ c.real \in BOOLEAN
  BY DEF Control

(* Arming, disarming, expiring, acknowledging, pausing and the passing of   *)
(* armed_until turn a control row into a control row.                       *)
LEMMA ArmedType == ASSUME NEW c \in Control PROVE Armed(c) \in Control
  BY DEF Control, Armed

(* disarm_runtime_control writes a control row. *)
LEMMA DisarmedType == ASSUME NEW c \in Control PROVE Disarmed(c) \in Control
  BY DEF Control, Disarmed

(* expire_runtime_control writes a control row. *)
LEMMA ExpiredType == ASSUME NEW c \in Control PROVE Expired(c) \in Control
  BY DEF Control, Expired

(* acknowledge_runtime_cancellation writes a control row. *)
LEMMA AcknowledgedType ==
    ASSUME NEW c \in Control PROVE Acknowledged(c) \in Control
  BY DEF Control, Acknowledged

(* set_personal_runtime_paused writes a control row. *)
LEMMA PausedType == ASSUME NEW c \in Control PROVE PausedControl(c) \in Control
  BY DEF Control, PausedControl

(* An arm that lapses is still a control row. *)
LEMMA LapsedArmType ==
    ASSUME NEW c \in Control PROVE [c EXCEPT !.fresh = FALSE] \in Control
  BY DEF Control

(* The fields of a lease row. *)
LEMMA LeaseFields ==
    ASSUME NEW l \in Lease
    PROVE  l.token \in Nat /\ l.owner \in Worker \cup {NoWorker} /\ l.live \in BOOLEAN
  BY DEF Lease

(* claim_worker_lease writes a lease row. *)
LEMMA ClaimedType ==
    ASSUME NEW l \in Lease, NEW w \in Worker
    PROVE  Claimed(l, w) \in Lease /\ Claimed(l, w).token \in Nat
  BY DEF Lease, Claimed

(* release_worker_lease writes a lease row. *)
LEMMA ReleasedType ==
    ASSUME NEW l \in Lease, NEW w \in Worker, NEW t \in Nat
    PROVE  Released(l, w, t) \in Lease
  BY DEF Lease, Released

(* A lease that expires is still a lease row. *)
LEMMA LapsedLeaseType ==
    ASSUME NEW l \in Lease PROVE [l EXCEPT !.live = FALSE] \in Lease
  BY DEF Lease

(* The fields of an order row. *)
LEMMA RowFields ==
    ASSUME NEW r \in OrderRow
    PROVE  r.st \in RowStatus /\ r.tok \in Nat /\ r.id \in BOOLEAN
  BY DEF OrderRow

(* A new status keeps the token and the exchange id of an order row. *)
LEMMA RestatedRow ==
    ASSUME NEW r \in OrderRow, NEW st \in RowStatus
    PROVE  /\ [r EXCEPT !.st = st] \in OrderRow
           /\ [r EXCEPT !.st = st].st = st
           /\ [r EXCEPT !.st = st].tok = r.tok
           /\ [r EXCEPT !.st = st].id = r.id
  BY DEF OrderRow

(* prepare_signed_order inserts a signed row with its fencing token. *)
LEMMA SignedRowFields ==
    ASSUME NEW t \in Nat
    PROVE  /\ SignedRow(t) \in OrderRow
           /\ SignedRow(t).st = "signed"
           /\ SignedRow(t).tok = t
           /\ SignedRow(t).id = FALSE
  BY DEF OrderRow, SignedRow, NoRow, RowStatus

(* save_execution keeps the token, adds the exchange id, and stores either  *)
(* the incoming status or the one it had read.                              *)
LEMMA SavedRowFields ==
    ASSUME NEW r \in OrderRow, NEW old \in RowStatus, NEW st \in RowStatus,
           NEW id \in BOOLEAN
    PROVE  /\ SavedRow(r, old, st, id) \in OrderRow
           /\ SavedRow(r, old, st, id).st
                 = IF TransitionAllowed(old, st) THEN st ELSE old
           /\ SavedRow(r, old, st, id).tok = r.tok
           /\ SavedRow(r, old, st, id).id = (r.id \/ id)
  BY DEF OrderRow, SavedRow

(* Every result has an order status. *)
LEMMA IncomingType ==
    ASSUME NEW out \in Outcome PROVE IncomingStatus(out) \in RowStatus
  BY DEF IncomingStatus, RowStatus, Outcome

-----------------------------------------------------------------------------
(* What the updates of a main loop and of a watcher do. *)

(* The fields of a main loop's state. *)
LEMMA MainFields ==
    ASSUME NEW m \in MainState
    PROVE  /\ m.pc \in MainPc /\ m.i \in Intent \cup {NoIntent}
           /\ m.tok \in Nat /\ m.ver \in Nat
           /\ m.out \in Outcome /\ m.old \in RowStatus
  BY DEF MainState

(* The states a main loop returns to. *)
LEMMA RestStates ==
    /\ IdleMain \in MainState /\ IdleMain.pc = "idle" /\ IdleMain.i = NoIntent
    /\ IdleMain.tok = 0 /\ IdleMain.ver = 0 /\ IdleMain.out = "none"
    /\ CycleMain \in MainState /\ CycleMain.pc = "cycle" /\ CycleMain.i = NoIntent
    /\ CycleMain.tok = 0 /\ CycleMain.ver = 0 /\ CycleMain.out = "none"
    /\ PausingMain \in MainState /\ PausingMain.pc = "pausing"
    /\ PausingMain.i = NoIntent /\ PausingMain.tok = 0 /\ PausingMain.ver = 0
  BY DEF MainState, IdleMain, CycleMain, PausingMain, MainPc, SubmitPc, Outcome,
         RowStatus

(* SetMain changes one main loop. *)
LEMMA MainSet ==
    ASSUME main \in [Worker -> MainState], NEW w \in Worker, NEW r \in MainState,
           SetMain(w, r)
    PROVE  /\ main' \in [Worker -> MainState]
           /\ main'[w] = r
           /\ \A x \in Worker : x # w => main'[x] = main[x]
  BY DEF SetMain

(* Advance changes the step of one main loop and nothing else of it. *)
LEMMA AdvanceSet ==
    ASSUME main \in [Worker -> MainState], NEW w \in Worker, NEW pc \in MainPc,
           Advance(w, pc)
    PROVE  /\ main' \in [Worker -> MainState]
           /\ main'[w].pc = pc /\ main'[w].i = main[w].i
           /\ main'[w].tok = main[w].tok /\ main'[w].ver = main[w].ver
           /\ main'[w].out = main[w].out /\ main'[w].old = main[w].old
           /\ \A x \in Worker : x # w => main'[x] = main[x]
  <1>1. LET r == [main[w] EXCEPT !.pc = pc] IN
        /\ r \in MainState /\ r.pc = pc /\ r.i = main[w].i /\ r.tok = main[w].tok
        /\ r.ver = main[w].ver /\ r.out = main[w].out /\ r.old = main[w].old
    BY DEF MainState
  <1> QED BY <1>1, MainSet DEF Advance

(* Result also changes the result of a submission. *)
LEMMA ResultSet ==
    ASSUME main \in [Worker -> MainState], NEW w \in Worker, NEW pc \in MainPc,
           NEW out \in Outcome, Result(w, pc, out)
    PROVE  /\ main' \in [Worker -> MainState]
           /\ main'[w].pc = pc /\ main'[w].i = main[w].i
           /\ main'[w].tok = main[w].tok /\ main'[w].ver = main[w].ver
           /\ main'[w].out = out /\ main'[w].old = main[w].old
           /\ \A x \in Worker : x # w => main'[x] = main[x]
  <1>1. LET r == [main[w] EXCEPT !.pc = pc, !.out = out] IN
        /\ r \in MainState /\ r.pc = pc /\ r.i = main[w].i /\ r.tok = main[w].tok
        /\ r.ver = main[w].ver /\ r.out = out /\ r.old = main[w].old
    BY DEF MainState
  <1> QED BY <1>1, MainSet DEF Result

(* A stop remembers the control version it wrote. *)
LEMMA VersionSet ==
    ASSUME main \in [Worker -> MainState], NEW w \in Worker, NEW pc \in MainPc, NEW n \in Nat,
          
           SetMain(w, [main[w] EXCEPT !.pc = pc, !.ver = n])
    PROVE  /\ main' \in [Worker -> MainState]
           /\ main'[w].pc = pc
           /\ main'[w].ver = n
           /\ main'[w].i = main[w].i
           /\ main'[w].tok = main[w].tok
           /\ main'[w].out = main[w].out
           /\ \A x \in Worker : x # w => main'[x] = main[x]
  <1>1. LET r == [main[w] EXCEPT !.pc = pc, !.ver = n] IN
        r \in MainState /\ r.pc = pc /\ r.ver = n /\ r.i = main[w].i /\ r.tok = main[w].tok /\ r.out = main[w].out
    BY DEF MainState
  <1> QED BY <1>1, MainSet

(* The first gate of a submission remembers token and version. *)
LEMMA GateSet ==
    ASSUME main \in [Worker -> MainState], NEW w \in Worker, NEW t \in Nat, NEW n \in Nat,
          
           SetMain(w, [main[w] EXCEPT !.pc = "sign", !.tok = t, !.ver = n])
    PROVE  /\ main' \in [Worker -> MainState]
           /\ main'[w].pc = "sign"
           /\ main'[w].tok = t
           /\ main'[w].ver = n
           /\ main'[w].i = main[w].i
           /\ main'[w].out = main[w].out
           /\ \A x \in Worker : x # w => main'[x] = main[x]
  <1>1. LET r == [main[w] EXCEPT !.pc = "sign", !.tok = t, !.ver = n] IN
        r \in MainState /\ r.pc = "sign" /\ r.tok = t /\ r.ver = n /\ r.i = main[w].i /\ r.out = main[w].out
    <2>1. "sign" \in MainPc
      BY DEF MainPc, SubmitPc
    <2> QED BY <2>1 DEF MainState
  <1> QED BY <1>1, MainSet

(* The engine remembers the order status it has read. *)
LEMMA ReadSet ==
    ASSUME main \in [Worker -> MainState], NEW w \in Worker, NEW st \in RowStatus,
          
           SetMain(w, [main[w] EXCEPT !.pc = "ewrite", !.old = st])
    PROVE  /\ main' \in [Worker -> MainState]
           /\ main'[w].pc = "ewrite"
           /\ main'[w].old = st
           /\ main'[w].i = main[w].i
           /\ main'[w].tok = main[w].tok
           /\ main'[w].ver = main[w].ver
           /\ main'[w].out = main[w].out
           /\ \A x \in Worker : x # w => main'[x] = main[x]
  <1>1. LET r == [main[w] EXCEPT !.pc = "ewrite", !.old = st] IN
        r \in MainState /\ r.pc = "ewrite" /\ r.old = st /\ r.i = main[w].i /\ r.tok = main[w].tok /\ r.ver = main[w].ver /\ r.out = main[w].out
    BY DEF MainState, MainPc, SubmitPc
  <1> QED BY <1>1, MainSet

(* A cycle starts with the token of the worker. *)
LEMMA PrepSet ==
    ASSUME main \in [Worker -> MainState], NEW w \in Worker, NEW t \in Nat,
          
           SetMain(w, [IdleMain EXCEPT !.pc = "prep", !.tok = t])
    PROVE  /\ main' \in [Worker -> MainState]
           /\ main'[w].pc = "prep"
           /\ main'[w].i = NoIntent
           /\ main'[w].tok = t
           /\ main'[w].ver = 0
           /\ \A x \in Worker : x # w => main'[x] = main[x]
  <1>1. LET r == [IdleMain EXCEPT !.pc = "prep", !.tok = t] IN
        r \in MainState /\ r.pc = "prep" /\ r.i = NoIntent /\ r.tok = t /\ r.ver = 0
    BY DEF MainState, IdleMain, PausingMain, MainPc, SubmitPc, Outcome, RowStatus
  <1> QED BY <1>1, MainSet

(* A submission starts with its intent. *)
LEMMA CheckSet ==
    ASSUME main \in [Worker -> MainState], NEW w \in Worker, NEW i \in Intent,
           SetMain(w, [IdleMain EXCEPT !.pc = "check", !.i = i])
    PROVE  /\ main' \in [Worker -> MainState]
           /\ main'[w].pc = "check"
           /\ main'[w].i = i
           /\ main'[w].tok = 0
           /\ main'[w].ver = 0
           /\ main'[w].out = "none"
           /\ \A x \in Worker : x # w => main'[x] = main[x]
  <1>1. PICK r \in MainState :
           /\ SetMain(w, r) /\ r.pc = "check" /\ r.i = i /\ r.tok = 0 /\ r.ver = 0
           /\ r.out = "none"
    <2>1. /\ IdleMain.pc = "idle" /\ IdleMain.tok = 0 /\ IdleMain.ver = 0
          /\ IdleMain.out = "none" /\ IdleMain \in MainState
      BY RestStates DEF IdleMain
    <2>2. "check" \in MainPc
      BY DEF MainPc, SubmitPc
    <2> HIDE DEF IdleMain
    <2> DEFINE s == [IdleMain EXCEPT !.pc = "check", !.i = i]
    <2>3. s \in MainState
      BY <2>1, <2>2 DEF MainState
    <2>4. s.pc = "check" /\ s.i = i /\ s.tok = 0 /\ s.ver = 0 /\ s.out = "none"
      BY <2>1 DEF MainState
    <2>5. SetMain(w, s)
      OBVIOUS
    <2> HIDE DEF s
    <2> QED BY <2>3, <2>4, <2>5
  <1> QED BY <1>1, MainSet

(* A worker that is to stop has no intent. *)
LEMMA HaltingSet ==
    ASSUME main \in [Worker -> MainState], NEW w \in Worker,
           SetMain(w, [IdleMain EXCEPT !.pc = "halting"])
    PROVE  /\ main' \in [Worker -> MainState]
           /\ main'[w].pc = "halting"
           /\ main'[w].i = NoIntent
           /\ main'[w].tok = 0
           /\ main'[w].ver = 0
           /\ \A x \in Worker : x # w => main'[x] = main[x]
  <1>1. LET r == [IdleMain EXCEPT !.pc = "halting"] IN
        r \in MainState /\ r.pc = "halting" /\ r.i = NoIntent /\ r.tok = 0 /\ r.ver = 0
    BY DEF MainState, IdleMain, PausingMain, MainPc, SubmitPc, Outcome, RowStatus
  <1> QED BY <1>1, MainSet

(* A broken safety latch is to be paused. *)
LEMMA LatchErrorSet ==
    ASSUME main \in [Worker -> MainState], NEW w \in Worker,
           SetMain(w, [PausingMain EXCEPT !.out = "error"])
    PROVE  /\ main' \in [Worker -> MainState]
           /\ main'[w].pc = "pausing"
           /\ main'[w].i = NoIntent
           /\ main'[w].tok = 0
           /\ main'[w].ver = 0
           /\ \A x \in Worker : x # w => main'[x] = main[x]
  <1>1. LET r == [PausingMain EXCEPT !.out = "error"] IN
        r \in MainState /\ r.pc = "pausing" /\ r.i = NoIntent /\ r.tok = 0 /\ r.ver = 0
    BY DEF MainState, IdleMain, PausingMain, MainPc, SubmitPc, Outcome, RowStatus
  <1> QED BY <1>1, MainSet

(* The fields of a watcher's state. *)
LEMMA WatchFields ==
    ASSUME NEW s \in WatchState
    PROVE  /\ s.pc \in {"idle", "latch", "cancel", "ack"} /\ s.pend \in BOOLEAN
           /\ s.seen \in Nat /\ s.was \in BOOLEAN
  BY DEF WatchState

(* SetWatch changes one watcher. *)
LEMMA WatchSet ==
    ASSUME watch \in [Worker -> WatchState], NEW w \in Worker,
           NEW r \in WatchState, SetWatch(w, r)
    PROVE  /\ watch' \in [Worker -> WatchState]
           /\ watch'[w] = r
           /\ \A x \in Worker : x # w => watch'[x] = watch[x]
  BY DEF SetWatch

(* A watcher moves to its next step. *)
LEMMA WatchMoves ==
    ASSUME watch \in [Worker -> WatchState], NEW w \in Worker,
           NEW pc \in {"idle", "latch", "cancel", "ack"},
           SetWatch(w, [watch[w] EXCEPT !.pc = pc])
    PROVE  /\ watch' \in [Worker -> WatchState]
           /\ watch'[w].pc = pc /\ watch'[w].seen = watch[w].seen
           /\ \A x \in Worker : x # w => watch'[x] = watch[x]
  <1>1. LET r == [watch[w] EXCEPT !.pc = pc] IN
        r \in WatchState /\ r.pc = pc /\ r.seen = watch[w].seen
    BY DEF WatchState
  <1> QED BY <1>1, WatchSet

(* A watcher moves on and notes whether a cancellation is pending. *)
LEMMA WatchNotes ==
    ASSUME watch \in [Worker -> WatchState], NEW w \in Worker,
           NEW pc \in {"idle", "latch", "cancel", "ack"}, NEW p \in BOOLEAN,
           SetWatch(w, [watch[w] EXCEPT !.pc = pc, !.pend = p])
    PROVE  /\ watch' \in [Worker -> WatchState]
           /\ watch'[w].pc = pc /\ watch'[w].seen = watch[w].seen
           /\ \A x \in Worker : x # w => watch'[x] = watch[x]
  <1>1. LET r == [watch[w] EXCEPT !.pc = pc, !.pend = p] IN
        r \in WatchState /\ r.pc = pc /\ r.seen = watch[w].seen
    BY DEF WatchState
  <1> QED BY <1>1, WatchSet

(* A watcher whose acknowledgement was accepted. *)
LEMMA WatchSees ==
    ASSUME watch \in [Worker -> WatchState], NEW w \in Worker, NEW n \in Nat,
           SetWatch(w, [watch[w] EXCEPT !.pc = "idle", !.pend = FALSE, !.seen = n])
    PROVE  /\ watch' \in [Worker -> WatchState]
           /\ watch'[w].pc = "idle" /\ watch'[w].seen = n
           /\ \A x \in Worker : x # w => watch'[x] = watch[x]
  <1>1. LET r == [watch[w] EXCEPT !.pc = "idle", !.pend = FALSE, !.seen = n] IN
        r \in WatchState /\ r.pc = "idle" /\ r.seen = n
    BY DEF WatchState
  <1> QED BY <1>1, WatchSet

(* A watcher that has read the control row. *)
LEMMA WatchReads ==
    ASSUME watch \in [Worker -> WatchState], NEW w \in Worker,
           NEW pc \in {"idle", "latch", "cancel", "ack"},
           NEW p \in BOOLEAN, NEW n \in Nat, NEW a \in BOOLEAN,
           SetWatch(w, [pc |-> pc, pend |-> p, seen |-> n, was |-> a])
    PROVE  /\ watch' \in [Worker -> WatchState]
           /\ watch'[w].pc = pc /\ watch'[w].seen = n
           /\ \A x \in Worker : x # w => watch'[x] = watch[x]
  <1>1. LET r == [pc |-> pc, pend |-> p, seen |-> n, was |-> a] IN
        r \in WatchState /\ r.pc = pc /\ r.seen = n
    BY DEF WatchState
  <1> QED BY <1>1, WatchSet

(* The watcher of a process that ends or shuts down. *)
LEMMA FreshWatchType ==
    FreshWatch \in WatchState /\ FreshWatch.pc = "idle" /\ FreshWatch.seen = 0
  BY DEF WatchState, FreshWatch

-----------------------------------------------------------------------------
(* Steps of the exchange and of a process, as far as types are concerned. *)

(* A cancel-all, verified or not, leaves typed orders at the exchange. *)
LEMMA CancelType ==
    ASSUME exch \in [Intent -> ExchStatus], CancelVerified \/ CancelFailed
    PROVE  exch' \in [Intent -> ExchStatus]
  <1>1. CASE CancelVerified
    BY <1>1 DEF CancelVerified, ExchStatus
  <1>2. CASE CancelFailed
    BY <1>2 DEF CancelFailed
  <1> QED BY <1>1, <1>2

(* The rows that a save of a worker with an intent in hand may leave. *)
LEMMA SavedType ==
    ASSUME TypeOK, NEW w \in Worker, main[w].i \in Intent, NEW old \in RowStatus
    PROVE  /\ Saved(w, old) \in [Intent -> OrderRow]
           /\ \A i \in Intent : i # main[w].i => Saved(w, old)[i] = rows[i]
           /\ Saved(w, old)[main[w].i]
                 = SavedRow(rows[main[w].i], old, IncomingStatus(main[w].out),
                            main[w].out \in {"accepted", "lost", "changed"})
  <1> DEFINE m == main[w]
  <1> DEFINE r == SavedRow(rows[m.i], old, IncomingStatus(m.out),
                           m.out \in {"accepted", "lost", "changed"})
  <1>1. m \in MainState /\ m.i \in Intent
    BY DEF TypeOK
  <1>2. IncomingStatus(m.out) \in RowStatus
    BY <1>1, IncomingType, MainFields
  <1>3. rows[m.i] \in OrderRow /\ rows \in [Intent -> OrderRow]
    BY <1>1 DEF TypeOK
  <1>4. r \in OrderRow
    <2>1. (m.out \in {"accepted", "lost", "changed"}) \in BOOLEAN
      OBVIOUS
    <2> QED BY <1>2, <1>3, <2>1, SavedRowFields
  <1>5. Saved(w, old) = [rows EXCEPT ![m.i] = r]
    BY DEF Saved
  <1> HIDE DEF r, m
  <1>6. /\ Saved(w, old) \in [Intent -> OrderRow]
        /\ \A i \in Intent : i # m.i => Saved(w, old)[i] = rows[i]
        /\ Saved(w, old)[m.i] = r
    BY <1>1, <1>3, <1>4, <1>5
  <1> QED BY <1>6 DEF r, m

(* The main loop of w keeps the intent in its hand, or has none. *)
Keeps(w) ==
    /\ main' \in [Worker -> MainState]
    /\ main'[w].i = main[w].i
    /\ main'[w].pc \in SubmitPc <=> main[w].pc \in SubmitPc
    /\ \A x \in Worker : x # w => main'[x] = main[x]

(* The main loop of w has no intent in its hand after the step. *)
Drops(w) ==
    /\ main' \in [Worker -> MainState]
    /\ main'[w].i = NoIntent
    /\ main'[w].pc \notin SubmitPc
    /\ \A x \in Worker : x # w => main'[x] = main[x]

(* A submission that moves to another of its steps keeps its intent. *)
LEMMA AdvanceKeeps ==
    ASSUME TypeOK, NEW w \in Worker, main[w].pc \in SubmitPc,
           NEW pc \in SubmitPc, Advance(w, pc)
    PROVE  Keeps(w)
  <1>1. pc \in MainPc
    BY DEF MainPc
  <1> QED BY <1>1, AdvanceSet DEF TypeOK, Keeps

(* So does one that also notes a result. *)
LEMMA ResultKeeps ==
    ASSUME TypeOK, NEW w \in Worker, main[w].pc \in SubmitPc,
           NEW pc \in SubmitPc, NEW out \in Outcome, Result(w, pc, out)
    PROVE  Keeps(w)
  <1>1. pc \in MainPc
    BY DEF MainPc
  <1> QED BY <1>1, ResultSet DEF TypeOK, Keeps

(* A main loop outside a submission that moves to another step outside one. *)
LEMMA AdvanceDrops ==
    ASSUME TypeOK, Held, NEW w \in Worker, main[w].pc \notin SubmitPc,
           NEW pc \in MainPc \ SubmitPc, Advance(w, pc)
    PROVE  Drops(w)
  BY AdvanceSet DEF TypeOK, Held, Drops

(* The same with the control version of a stop. *)
LEMMA VersionDrops ==
    ASSUME TypeOK, Held, NEW w \in Worker, main[w].pc \notin SubmitPc,
           NEW pc \in MainPc \ SubmitPc, NEW n \in Nat,
           SetMain(w, [main[w] EXCEPT !.pc = pc, !.ver = n])
    PROVE  Drops(w)
  <1>1. main[w].i = NoIntent
    BY DEF Held
  <1>2. pc \in MainPc /\ pc \notin SubmitPc /\ main \in [Worker -> MainState]
    BY DEF TypeOK
  <1>3. /\ main' \in [Worker -> MainState]
        /\ main'[w].pc = pc /\ main'[w].i = main[w].i
        /\ \A x \in Worker : x # w => main'[x] = main[x]
    BY <1>2, VersionSet
  <1> QED BY <1>1, <1>2, <1>3 DEF Drops

(* A step that keeps the intent keeps its ownership. *)
LEMMA KeepsHeld ==
    ASSUME Held, NEW w \in Worker, Keeps(w), reserved' = reserved
    PROVE  Held'
  BY DEF Held, Keeps

(* A step that drops the intent keeps the ownership of the others. *)
LEMMA DropsHeld ==
    ASSUME Held, NEW w \in Worker, Drops(w), reserved' = reserved
    PROVE  Held'
  BY DEF Held, Drops

(* So does a step of any other task. *)
LEMMA SameHeld ==
    ASSUME Held, main' = main, reserved' = reserved
    PROVE  Held'
  BY DEF Held

(* A submission has an intent in hand. *)
LEMMA HasIntent ==
    ASSUME TypeOK, Held, NEW w \in Worker, main[w].pc \in SubmitPc
    PROVE  main[w].i \in Intent /\ main[w].i \in reserved
  BY MainFields DEF TypeOK, Held

(* The end of a process leaves typed memory and no intent in hand. *)
LEMMA ExitType ==
    ASSUME TypeOK, NEW w \in Worker, Exit(w)
    PROVE  /\ proc' \in [Worker -> {"run", "stop", "gone"}]
           /\ tok' \in [Worker -> Nat]
           /\ ready' \in [Worker -> BOOLEAN]
           /\ watch' \in [Worker -> WatchState]
           /\ Drops(w)
  <1>1. Drops(w)
    BY MainSet, RestStates DEF Exit, TypeOK, Drops, SubmitPc
  <1>2. watch' \in [Worker -> WatchState]
    BY FreshWatchType DEF Exit, TypeOK
  <1> QED BY <1>1, <1>2 DEF Exit, TypeOK

(* The exchange, the clocks and the operator change no worker. *)
LEMMA EnvironmentTypes ==
    ASSUME TypeOK, Held, Environment
    PROVE  TypeOK' /\ Held'
  <1>1. ASSUME NEW i \in Intent, Land(i) \/ Close(i) PROVE TypeOK' /\ Held'
    <2>1. TypeOK'
      BY <1>1 DEF Land, Close, TypeOK, ExchStatus, dbVars, exVars, taskVars
    <2> QED BY <1>1, <2>1, SameHeld DEF Land, Close, dbVars, exVars, taskVars
  <1>2. CASE LeaseLapses
    <2>1. TypeOK'
      BY <1>2, LapsedLeaseType DEF LeaseLapses, TypeOK, dbVars, exVars, taskVars
    <2> QED BY <1>2, <2>1, SameHeld DEF LeaseLapses, dbVars, exVars, taskVars
  <1>3. CASE ArmLapses
    <2>1. TypeOK'
      BY <1>3, LapsedArmType DEF ArmLapses, TypeOK, dbVars, exVars, taskVars
    <2> QED BY <1>3, <2>1, SameHeld DEF ArmLapses, dbVars, exVars, taskVars
  <1>4. CASE Pause
    <2>1. TypeOK'
      BY <1>4, PausedType DEF Pause, TypeOK, dbVars, exVars, taskVars
    <2> QED BY <1>4, <2>1, SameHeld DEF Pause, dbVars, exVars, taskVars
  <1>5. CASE Resume
    <2>1. TypeOK'
      BY <1>5 DEF Resume, TypeOK, dbVars, exVars, taskVars
    <2> QED BY <1>5, <2>1, SameHeld DEF Resume, dbVars, exVars, taskVars
  <1> QED BY <1>1, <1>2, <1>3, <1>4, <1>5 DEF Environment

(* Neither does the heartbeat. *)
LEMMA LeaseTypes ==
    ASSUME TypeOK, Held, NEW w \in Worker, ClaimLease(w) \/ LoseLease(w)
    PROVE  TypeOK' /\ Held'
  <1>1. CASE ClaimLease(w)
    <2>1. TypeOK'
      BY <1>1, ClaimedType DEF ClaimLease, TypeOK, dbVars, exVars, taskVars
    <2> QED BY <1>1, <2>1, SameHeld DEF ClaimLease, dbVars, exVars, taskVars
  <1>2. CASE LoseLease(w)
    <2>1. TypeOK'
      BY <1>2, CancelType DEF LoseLease, TypeOK, dbVars, exVars, taskVars
    <2> QED BY <1>2, <2>1, SameHeld DEF LoseLease, dbVars, exVars, taskVars
  <1> QED BY <1>1, <1>2

(* The steps of the main loop outside a submission end with no intent in    *)
(* hand.                                                                    *)
LEMMA LoopTypes ==
    ASSUME TypeOK, Held, NEW w \in Worker, LoopStep(w)
    PROVE  TypeOK' /\ Held' /\ Drops(w)
  <1>1. CASE StartCycle(w)
    <2>1. Drops(w)
      BY <1>1, PrepSet DEF StartCycle, TypeOK, Drops, SubmitPc
    <2>2. TypeOK'
      BY <1>1, <2>1 DEF StartCycle, TypeOK, Drops, dbVars, exVars, taskVars
    <2> QED BY <1>1, <2>1, <2>2, DropsHeld DEF StartCycle, dbVars, exVars, taskVars
  <1>2. CASE PrepareCycle(w)
    <2>1. Drops(w)
      BY <1>2, MainSet, RestStates DEF PrepareCycle, TypeOK, Drops, SubmitPc
    <2>2. TypeOK'
      BY <1>2, <2>1, ArmedType DEF PrepareCycle, TypeOK, Drops, dbVars, exVars, taskVars
    <2> QED BY <1>2, <2>1, <2>2, DropsHeld DEF PrepareCycle, dbVars, exVars, taskVars
  <1>3. CASE EndCycle(w)
    <2>1. Drops(w)
      BY <1>3, MainSet, RestStates DEF EndCycle, TypeOK, Drops, SubmitPc
    <2>2. TypeOK'
      BY <1>3, <2>1 DEF EndCycle, TypeOK, Drops, dbVars, exVars, taskVars
    <2> QED BY <1>3, <2>1, <2>2, DropsHeld DEF EndCycle, dbVars, exVars, taskVars
  <1>4. CASE HaltCycle(w)
    <2>1. Drops(w)
      BY <1>4, MainSet, RestStates DEF HaltCycle, TypeOK, Drops, SubmitPc
    <2>2. TypeOK'
      <3>1. exch' \in [Intent -> ExchStatus]
        BY <1>4, CancelType DEF HaltCycle, TypeOK
      <3> QED BY <1>4, <2>1, <3>1 DEF HaltCycle, TypeOK, Drops, dbVars, taskVars
    <2> QED BY <1>4, <2>1, <2>2, DropsHeld DEF HaltCycle, dbVars, exVars, taskVars
  <1>5. CASE PauseLive(w)
    <2>1. Drops(w)
      BY <1>5, MainSet, RestStates, HaltingSet DEF PauseLive, TypeOK, Drops, SubmitPc
    <2>2. TypeOK'
      <3>1. ctl' \in Control
        BY <1>5, PausedType DEF PauseLive, TypeOK
      <3>3. paused' \in BOOLEAN
        BY <1>5 DEF PauseLive, TypeOK
      <3>2. proc' \in [Worker -> {"run", "stop", "gone"}]
        BY <1>5 DEF PauseLive, TypeOK
      <3> QED BY <1>5, <2>1, <3>1, <3>2, <3>3 DEF PauseLive, TypeOK, Drops, exVars, taskVars
    <2> QED BY <1>5, <2>1, <2>2, DropsHeld DEF PauseLive, dbVars, exVars, taskVars
  <1>6. CASE HaltWorker(w)
    <2>1. Drops(w)
      BY <1>6, MainSet, RestStates DEF HaltWorker, TypeOK, Drops, SubmitPc
    <2>2. TypeOK'
      <3>1. exch' \in [Intent -> ExchStatus]
        BY <1>6, CancelType DEF HaltWorker, TypeOK
      <3> QED BY <1>6, <2>1, <3>1 DEF HaltWorker, TypeOK, Drops, dbVars, taskVars
    <2> QED BY <1>6, <2>1, <2>2, DropsHeld DEF HaltWorker, dbVars, exVars, taskVars
  <1>7. CASE EngineStop(w)
    <2>1. Drops(w)
      <3>1. main[w].pc \notin SubmitPc /\ "stopCancel" \in MainPc \ SubmitPc
        BY <1>7 DEF EngineStop, SubmitPc, MainPc
      <3>2. CASE ctl' = Disarmed(ctl) /\ SetMain(w, [main[w] EXCEPT !.pc = "stopCancel", !.ver = ctl'.ver])
        <4>1. ctl'.ver \in Nat
          BY <3>2, DisarmedType, ControlFields DEF TypeOK
        <4> QED BY <3>1, <3>2, <4>1, VersionDrops
      <3>3. CASE UNCHANGED ctl /\ SetMain(w, [main[w] EXCEPT !.pc = "stopCancel", !.ver = ctl.ver])
        <4>1. ctl.ver \in Nat
          BY ControlFields DEF TypeOK
        <4> QED BY <3>1, <3>3, <4>1, VersionDrops
      <3>4. CASE Advance(w, "stopCancel")
        BY <3>1, <3>4, AdvanceDrops
      <3> QED BY <1>7, <3>2, <3>3, <3>4 DEF EngineStop
    <2>2. TypeOK'
      BY <1>7, <2>1, DisarmedType DEF EngineStop, TypeOK, Drops, dbVars, exVars, taskVars
    <2> QED BY <1>7, <2>1, <2>2, DropsHeld DEF EngineStop, dbVars, exVars, taskVars
  <1>8. CASE StopCancel(w)
    <2>1. Drops(w)
      BY <1>8, AdvanceDrops, LatchErrorSet DEF StopCancel, TypeOK, Drops, SubmitPc, MainPc
    <2>2. TypeOK'
      <3>1. exch' \in [Intent -> ExchStatus]
        BY <1>8, CancelType DEF StopCancel, TypeOK
      <3> QED BY <1>8, <2>1, <3>1 DEF StopCancel, TypeOK, Drops, dbVars, taskVars
    <2> QED BY <1>8, <2>1, <2>2, DropsHeld DEF StopCancel, dbVars, exVars, taskVars
  <1>9. CASE StopAck(w)
    <2>1. Drops(w)
      BY <1>9, MainSet, RestStates DEF StopAck, TypeOK, Drops, SubmitPc
    <2>2. TypeOK'
      BY <1>9, <2>1, AcknowledgedType DEF StopAck, TypeOK, Drops, dbVars, exVars, taskVars
    <2> QED BY <1>9, <2>1, <2>2, DropsHeld DEF StopAck, dbVars, exVars, taskVars
  <1> QED BY <1>1, <1>2, <1>3, <1>4, <1>5, <1>6, <1>7, <1>8, <1>9 DEF LoopStep

(* The steps of a submission. *)
LEMMA SubmitTypes ==
    ASSUME TypeOK, Held, NEW w \in Worker, SubmitStep(w)
    PROVE  TypeOK' /\ Held'
  <1>1. ASSUME NEW i \in Intent, Reserve(w, i) PROVE TypeOK' /\ Held'
    <2>1. /\ main' \in [Worker -> MainState] /\ main'[w].pc = "check"
          /\ main'[w].i = i /\ \A x \in Worker : x # w => main'[x] = main[x]
      BY <1>1, CheckSet DEF Reserve, TypeOK
    <2>2. TypeOK'
      BY <1>1, <2>1 DEF Reserve, TypeOK, dbVars, exVars, taskVars
    <2>3. /\ i \notin reserved /\ reserved' = reserved \cup {i} /\ i # NoIntent
      BY <1>1 DEF Reserve
    <2>4. Held'
      BY <2>1, <2>3 DEF Held, SubmitPc
    <2> QED BY <2>2, <2>4
  <1>2. CASE CheckUnresolved(w)
    <2>1. Keeps(w)
      BY <1>2, AdvanceKeeps DEF CheckUnresolved, TypeOK, Keeps, SubmitPc
    <2>2. TypeOK'
      BY <1>2, <2>1 DEF CheckUnresolved, TypeOK, Keeps, dbVars, exVars, taskVars
    <2> QED BY <1>2, <2>1, <2>2, KeepsHeld DEF CheckUnresolved, dbVars, exVars, taskVars
  <1>3. CASE Gate(w)
    <2>1. Keeps(w)
      BY <1>3, GateSet, ControlFields DEF Gate, TypeOK, Keeps, SubmitPc
    <2>2. TypeOK'
      BY <1>3, <2>1 DEF Gate, TypeOK, Keeps, dbVars, exVars, taskVars
    <2> QED BY <1>3, <2>1, <2>2, KeepsHeld DEF Gate, dbVars, exVars, taskVars
  <1>4. CASE Sign(w)
    <2>1. Keeps(w)
      BY <1>4, AdvanceKeeps DEF Sign, TypeOK, Keeps, SubmitPc
    <2>2. TypeOK'
      <3>1. main[w] \in MainState /\ main[w].i \in Intent
        BY <1>4, HasIntent DEF Sign, TypeOK, SubmitPc
      <3>2. SignedRow(main[w].tok) \in OrderRow
        BY <3>1, MainFields, SignedRowFields
      <3>3. rows' \in [Intent -> OrderRow]
        BY <1>4, <3>1, <3>2 DEF Sign, TypeOK
      <3> QED BY <1>4, <2>1, <3>3 DEF Sign, TypeOK, Keeps, exVars, taskVars
    <2> QED BY <1>4, <2>1, <2>2, KeepsHeld DEF Sign, dbVars, exVars, taskVars
  <1>5. CASE SignFails(w)
    <2>1. Keeps(w)
      BY <1>5, ResultKeeps DEF SignFails, TypeOK, Keeps, SubmitPc, Outcome
    <2>2. TypeOK'
      <3>0. main[w] \in MainState /\ main[w].i \in Intent
        BY <1>5, HasIntent DEF SignFails, TypeOK, SubmitPc
      <3>1. main[w].i \in Intent /\ SignedRow(main[w].tok) \in OrderRow
        BY <3>0, MainFields, SignedRowFields
      <3>2. rows' \in [Intent -> OrderRow]
        BY <1>5, <3>1 DEF SignFails, TypeOK
      <3> QED BY <1>5, <2>1, <3>2 DEF SignFails, TypeOK, Keeps, exVars, taskVars
    <2> QED BY <1>5, <2>1, <2>2, KeepsHeld DEF SignFails, dbVars, exVars, taskVars
  <1>6. CASE Mark(w)
    <2>1. Keeps(w)
      BY <1>6, AdvanceKeeps, ResultKeeps DEF Mark, TypeOK, Keeps, SubmitPc, Outcome
    <2>2. TypeOK'
      <3>1. main[w].i \in Intent /\ rows[main[w].i] \in OrderRow
        BY <1>6, HasIntent DEF Mark, TypeOK, SubmitPc
      <3>2. rows' = [rows EXCEPT ![main[w].i] = [rows[main[w].i] EXCEPT !.st = "submitting"]]
        BY <1>6 DEF Mark
      <3>3. rows' \in [Intent -> OrderRow]
        BY <3>1, <3>2, RestatedRow DEF TypeOK, RowStatus
      <3> QED BY <1>6, <2>1, <3>3 DEF Mark, TypeOK, Keeps, exVars, taskVars
    <2> QED BY <1>6, <2>1, <2>2, KeepsHeld DEF Mark, dbVars, exVars, taskVars
  <1>7. CASE FinalCheck(w)
    <2>1. Keeps(w)
      BY <1>7, AdvanceKeeps DEF FinalCheck, TypeOK, Keeps, SubmitPc
    <2>2. TypeOK'
      BY <1>7, <2>1 DEF FinalCheck, TypeOK, Keeps, dbVars, exVars, taskVars
    <2> QED BY <1>7, <2>1, <2>2, KeepsHeld DEF FinalCheck, dbVars, exVars, taskVars
  <1>8. CASE Reject(w)
    <2>1. Keeps(w)
      BY <1>8, ResultKeeps DEF Reject, TypeOK, Keeps, SubmitPc, Outcome
    <2>2. TypeOK'
      BY <1>8, <2>1 DEF Reject, TypeOK, Keeps, dbVars, exVars, taskVars
    <2> QED BY <1>8, <2>1, <2>2, KeepsHeld DEF Reject, dbVars, exVars, taskVars
  <1>9. CASE Post(w)
    <2>1. Keeps(w)
      BY <1>9, AdvanceKeeps DEF Post, TypeOK, Keeps, SubmitPc
    <2>2. TypeOK'
      BY <1>9, <2>1, HasIntent DEF Post, TypeOK, Keeps, dbVars, exVars, taskVars, SubmitPc, ExchStatus
    <2> QED BY <1>9, <2>1, <2>2, KeepsHeld DEF Post, dbVars, exVars, taskVars
  <1>10. CASE Refused(w)
    <2>1. Keeps(w)
      BY <1>10, ResultKeeps DEF Refused, TypeOK, Keeps, SubmitPc, Outcome
    <2>2. TypeOK'
      BY <1>10, <2>1 DEF Refused, TypeOK, Keeps, dbVars, exVars, taskVars
    <2> QED BY <1>10, <2>1, <2>2, KeepsHeld DEF Refused, dbVars, exVars, taskVars
  <1>11. CASE Accepted(w)
    <2>1. Keeps(w)
      BY <1>11, ResultKeeps DEF Accepted, TypeOK, Keeps, SubmitPc, Outcome
    <2>2. TypeOK'
      BY <1>11, <2>1 DEF Accepted, TypeOK, Keeps, dbVars, exVars, taskVars
    <2> QED BY <1>11, <2>1, <2>2, KeepsHeld DEF Accepted, dbVars, exVars, taskVars
  <1>12. CASE Revoked(w)
    <2>1. Keeps(w)
      BY <1>12, ResultKeeps DEF Revoked, TypeOK, Keeps, SubmitPc, Outcome
    <2>2. TypeOK'
      <3>1. exch' \in [Intent -> ExchStatus]
        BY <1>12, CancelType DEF Revoked, TypeOK
      <3> QED BY <1>12, <2>1, <3>1 DEF Revoked, TypeOK, Keeps, dbVars, taskVars
    <2> QED BY <1>12, <2>1, <2>2, KeepsHeld DEF Revoked, dbVars, exVars, taskVars
  <1>13. CASE AmbiguousPost(w)
    <2>1. Keeps(w)
      BY <1>13, ResultKeeps DEF AmbiguousPost, TypeOK, Keeps, SubmitPc, Outcome
    <2>2. TypeOK'
      <3>1. exch' \in [Intent -> ExchStatus]
        BY <1>13, CancelType DEF AmbiguousPost, TypeOK
      <3> QED BY <1>13, <2>1, <3>1 DEF AmbiguousPost, TypeOK, Keeps, dbVars, taskVars
    <2> QED BY <1>13, <2>1, <2>2, KeepsHeld DEF AmbiguousPost, dbVars, exVars, taskVars
  <1>14. CASE BrokerSave(w)
    <2>1. Keeps(w)
      <3>1. main[w].pc \in SubmitPc /\ "esave" \in SubmitPc /\ main[w].out \in Outcome
        BY <1>14, MainFields DEF BrokerSave, TypeOK, SubmitPc
      <3>2. CASE Advance(w, "esave")
        BY <3>1, <3>2, AdvanceKeeps
      <3>3. CASE \E out \in Outcome : Result(w, "esave", out)
        BY <3>1, <3>3, ResultKeeps
      <3> QED BY <1>14, <3>1, <3>2, <3>3 DEF BrokerSave, Outcome
    <2>2. TypeOK'
      BY <1>14, <2>1, HasIntent, SavedType, RowFields DEF BrokerSave, TypeOK, Keeps, dbVars, exVars, taskVars, SubmitPc
    <2> QED BY <1>14, <2>1, <2>2, KeepsHeld DEF BrokerSave, dbVars, exVars, taskVars
  <1>15. CASE EngineSave(w)
    <2>1. Keeps(w)
      <3>1. main[w].pc = "esave" /\ main[w].i \in Intent
        BY <1>15, HasIntent DEF EngineSave, SubmitPc
      <3>2. rows[main[w].i].st \in RowStatus
        BY <3>1, RowFields DEF TypeOK
      <3> QED BY <1>15, <3>1, <3>2, ReadSet DEF EngineSave, TypeOK, Keeps, SubmitPc
    <2>2. TypeOK'
      BY <1>15, <2>1 DEF EngineSave, TypeOK, Keeps, dbVars, exVars, taskVars
    <2> QED BY <1>15, <2>1, <2>2, KeepsHeld DEF EngineSave, dbVars, exVars, taskVars
  <1>16. CASE EngineWrite(w)
    <2>1. Drops(w)
      BY <1>16, MainSet, RestStates DEF EngineWrite, TypeOK, Drops, SubmitPc
    <2>2. TypeOK'
      BY <1>16, <2>1, HasIntent, SavedType, MainFields DEF EngineWrite, TypeOK, Drops, dbVars, exVars, taskVars, SubmitPc
    <2> QED BY <1>16, <2>1, <2>2, DropsHeld DEF EngineWrite, dbVars, exVars, taskVars
  <1> QED BY <1>1, <1>2, <1>3, <1>4, <1>5, <1>6, <1>7, <1>8, <1>9, <1>10, <1>11, <1>12, <1>13, <1>14, <1>15, <1>16 DEF SubmitStep

(* The steps of the watcher. *)
LEMMA WatchTypes ==
    ASSUME TypeOK, Held, NEW w \in Worker, WatchStep(w)
    PROVE  TypeOK' /\ Held'
  <1>1. CASE WatchObserve(w)
    <2>1. TypeOK'
      <3>1. ctl' \in Control /\ ctl'.ver \in Nat /\ LiveArmed(ctl) \in BOOLEAN
        BY <1>1, ExpiredType, ControlFields DEF WatchObserve, TypeOK, LiveArmed
      <3>2. watch[w].pend \in BOOLEAN
        BY WatchFields DEF TypeOK
      <3>3. CASE \E p \in BOOLEAN : SetWatch(w, [watch[w] EXCEPT !.pc = "latch", !.pend = p])
        <4>1. watch' \in [Worker -> WatchState]
          BY <3>3, WatchNotes DEF TypeOK
        <4> QED BY <1>1, <3>1, <4>1 DEF WatchObserve, TypeOK, exVars
      <3>4. CASE SetWatch(w, Cancelling(ctl'.ver, LiveArmed(ctl)))
        <4>1. watch' \in [Worker -> WatchState]
          BY <3>1, <3>4, WatchReads DEF TypeOK, Cancelling
        <4> QED BY <1>1, <3>1, <4>1 DEF WatchObserve, TypeOK, exVars
      <3>5. CASE SetWatch(w, [pc |-> "idle", pend |-> FALSE, seen |-> ctl'.ver,
                              was |-> LiveArmed(ctl)])
        <4>1. watch' \in [Worker -> WatchState]
          BY <3>1, <3>5, WatchReads DEF TypeOK
        <4> QED BY <1>1, <3>1, <4>1 DEF WatchObserve, TypeOK, exVars
      <3> QED BY <1>1, <3>2, <3>3, <3>4, <3>5 DEF WatchObserve
    <2> QED BY <1>1, <2>1, SameHeld DEF WatchObserve, dbVars, exVars, taskVars
  <1>2. CASE WatchLatch(w)
    <2>1. TypeOK'
      BY <1>2, DisarmedType, ControlFields, WatchReads DEF WatchLatch, TypeOK, dbVars, exVars, taskVars, Cancelling
    <2> QED BY <1>2, <2>1, SameHeld DEF WatchLatch, dbVars, exVars, taskVars
  <1>3. CASE WatchCancel(w)
    <2>1. TypeOK'
      BY <1>3, CancelType, WatchMoves DEF WatchCancel, TypeOK, dbVars, exVars, taskVars
    <2> QED BY <1>3, <2>1, SameHeld DEF WatchCancel, dbVars, exVars, taskVars
  <1>4. CASE WatchAck(w)
    <2>1. TypeOK'
      <3>1. CASE AckAllowed(ctl, rows, watch[w].seen)
        <4>1. ctl' \in Control /\ ctl'.ver \in Nat
          BY <1>4, <3>1, AcknowledgedType, ControlFields DEF WatchAck, TypeOK
        <4>2. watch' \in [Worker -> WatchState]
          BY <1>4, <3>1, <4>1, WatchSees DEF WatchAck, TypeOK
        <4> QED BY <1>4, <3>1, <4>1, <4>2 DEF WatchAck, TypeOK, exVars
      <3>2. CASE ~AckAllowed(ctl, rows, watch[w].seen)
        BY <1>4, <3>2, WatchMoves DEF WatchAck, TypeOK, exVars
      <3> QED BY <3>1, <3>2
    <2> QED BY <1>4, <2>1, SameHeld DEF WatchAck, dbVars, exVars, taskVars
  <1>5. CASE WatchFails(w)
    <2>1. TypeOK'
      BY <1>5, CancelType, WatchNotes DEF WatchFails, TypeOK, dbVars, exVars, taskVars
    <2> QED BY <1>5, <2>1, SameHeld DEF WatchFails, dbVars, exVars, taskVars
  <1> QED BY <1>1, <1>2, <1>3, <1>4, <1>5 DEF WatchStep

(* The reconciler writes order rows. *)
LEMMA ReconcileTypes ==
    ASSUME TypeOK, Held, NEW w \in Worker, NEW i \in Intent, ReconcileOrder(w, i)
    PROVE  TypeOK' /\ Held'
  <1>1. TypeOK'
    <2>1. PICK st \in RowStatus : rows' = [rows EXCEPT ![i].st = st]
      BY DEF ReconcileOrder, RowStatus
    <2>2. rows' = [rows EXCEPT ![i] = [rows[i] EXCEPT !.st = st]]
      BY <2>1
    <2>3. rows' \in [Intent -> OrderRow]
      BY <2>2, RestatedRow DEF TypeOK
    <2> QED BY <2>3 DEF ReconcileOrder, TypeOK, dbVars, exVars, taskVars
  <1>2. Held'
    BY SameHeld DEF ReconcileOrder, dbVars, exVars, taskVars
  <1> QED BY <1>1, <1>2

(* Shutdown, and the crash of a process. *)
LEMMA ShutdownTypes ==
    ASSUME TypeOK, Held, NEW w \in Worker, ShutdownStep(w)
    PROVE  TypeOK' /\ Held' /\ (Drops(w) \/ main' = main)
  <1>1. CASE StopRequested(w)
    <2>1. TypeOK'
      BY <1>1 DEF StopRequested, TypeOK, dbVars, exVars, taskVars
    <2> QED BY <1>1, <2>1, SameHeld DEF StopRequested, dbVars, exVars, taskVars
  <1>2. CASE Shutdown(w)
    <2>1. Drops(w)
      <3>1. main[w].pc \notin SubmitPc /\ "sdCancel" \in MainPc \ SubmitPc
        BY <1>2 DEF Shutdown, SubmitPc, MainPc
      <3>2. CASE ctl' = Disarmed(ctl) /\ SetMain(w, [main[w] EXCEPT !.pc = "sdCancel", !.ver = ctl'.ver])
        <4>1. ctl'.ver \in Nat
          BY <3>2, DisarmedType, ControlFields DEF TypeOK
        <4> QED BY <3>1, <3>2, <4>1, VersionDrops
      <3>4. CASE Advance(w, "sdCancel")
        BY <3>1, <3>4, AdvanceDrops
      <3> QED BY <1>2, <3>2, <3>4 DEF Shutdown
    <2>2. TypeOK'
      <3>1. ctl' \in Control
        BY <1>2, DisarmedType DEF Shutdown, TypeOK
      <3>2. watch' \in [Worker -> WatchState]
        BY <1>2, FreshWatchType DEF Shutdown, TypeOK
      <3> QED BY <1>2, <2>1, <3>1, <3>2 DEF Shutdown, TypeOK, Drops, exVars
    <2> QED BY <1>2, <2>1, <2>2, DropsHeld DEF Shutdown, dbVars, exVars, taskVars
  <1>3. CASE ShutdownCancel(w)
    <2>1. Drops(w)
      BY <1>3, AdvanceDrops, ExitType DEF ShutdownCancel, TypeOK, Drops, SubmitPc, MainPc
    <2>2. TypeOK'
      BY <1>3, <2>1, CancelType, ExitType DEF ShutdownCancel, TypeOK, Drops, dbVars, exVars, taskVars
    <2> QED BY <1>3, <2>1, <2>2, DropsHeld DEF ShutdownCancel, dbVars, exVars, taskVars
  <1>4. CASE ShutdownValidate(w)
    <2>1. Drops(w)
      BY <1>4, AdvanceDrops, ExitType DEF ShutdownValidate, TypeOK, Drops, SubmitPc, MainPc
    <2>2. TypeOK'
      BY <1>4, <2>1, ExitType DEF ShutdownValidate, TypeOK, Drops, dbVars, exVars, taskVars
    <2> QED BY <1>4, <2>1, <2>2, DropsHeld DEF ShutdownValidate, dbVars, exVars, taskVars
  <1>5. CASE ShutdownAck(w)
    <2>1. Drops(w)
      BY <1>5, AdvanceDrops, ExitType DEF ShutdownAck, TypeOK, Drops, SubmitPc, MainPc
    <2>2. TypeOK'
      BY <1>5, <2>1, ExitType, AcknowledgedType DEF ShutdownAck, TypeOK, Drops, dbVars, exVars, taskVars
    <2> QED BY <1>5, <2>1, <2>2, DropsHeld DEF ShutdownAck, dbVars, exVars, taskVars
  <1>6. CASE ShutdownRelease(w)
    <2>1. Drops(w)
      BY <1>6, ExitType DEF ShutdownRelease, TypeOK, Drops, SubmitPc
    <2>2. TypeOK'
      BY <1>6, <2>1, ExitType, ReleasedType DEF ShutdownRelease, TypeOK, Drops, dbVars, exVars, taskVars
    <2> QED BY <1>6, <2>1, <2>2, DropsHeld DEF ShutdownRelease, dbVars, exVars, taskVars
  <1>7. CASE Crash(w)
    <2>1. Drops(w)
      BY <1>7, ExitType DEF Crash, TypeOK, Drops, SubmitPc
    <2>2. TypeOK'
      BY <1>7, <2>1, ExitType DEF Crash, TypeOK, Drops, dbVars, exVars, taskVars
    <2> QED BY <1>7, <2>1, <2>2, DropsHeld DEF Crash, dbVars, exVars, taskVars
  <1> QED BY <1>1, <1>2, <1>3, <1>4, <1>5, <1>6, <1>7 DEF ShutdownStep

-----------------------------------------------------------------------------
(* Type correctness together with the ownership of intents is inductive:   *)
(* neither is alone, since a save indexes the rows with the intent in hand. *)
TypeInv == TypeOK /\ Held

(* The initial state has the types and no intent in any hand. *)
LEMMA InitTypes == Init => TypeInv
  <1> SUFFICES ASSUME Init PROVE TypeInv
    OBVIOUS
  <1>1. /\ InitialLease \in Lease /\ InitialControl \in Control
        /\ NoRow \in OrderRow /\ FreshWatch \in WatchState
    BY DEF InitialLease, Lease, InitialControl, Control, NoRow, OrderRow,
           RowStatus, FreshWatch, WatchState
  <1>2. TypeOK
    BY <1>1, RestStates DEF Init, TypeOK, ExchStatus
  <1>3. Held
    BY RestStates DEF Init, Held, SubmitPc
  <1> QED BY <1>2, <1>3 DEF TypeInv

(* Every step of every task keeps both. *)
LEMMA NextTypes == TypeInv /\ [Next]_vars => TypeInv'
  <1> SUFFICES ASSUME TypeInv, [Next]_vars PROVE TypeOK' /\ Held'
    BY DEF TypeInv
  <1> USE DEF TypeInv
  <1>1. CASE UNCHANGED vars
    BY <1>1 DEF vars, TypeOK, Held
  <1>2. CASE Environment
    BY <1>2, EnvironmentTypes
  <1>3. ASSUME NEW w \in Worker,
               \/ ClaimLease(w) \/ LoseLease(w)
               \/ SubmitStep(w) \/ LoopStep(w) \/ WatchStep(w) \/ ShutdownStep(w)
               \/ \E i \in Intent : ReconcileOrder(w, i)
        PROVE  TypeOK' /\ Held'
    BY <1>3, LeaseTypes, SubmitTypes, LoopTypes, WatchTypes, ShutdownTypes,
       ReconcileTypes
  <1> QED BY <1>1, <1>2, <1>3 DEF Next

(* Every variable keeps its type, in particular every row a save writes     *)
(* belongs to an intent and every status it stores is an order status; and  *)
(* an intent in a worker's hand is reserved and in no other hand            *)
(* (reserve_intent).                                                        *)
THEOREM TypeCorrect == Spec => [](TypeOK /\ Held)
  <1>1. TypeInv <=> TypeOK /\ Held
    BY DEF TypeInv
  <1> QED BY <1>1, InitTypes, NextTypes, PTL DEF Spec

-----------------------------------------------------------------------------
(* The steps of a submission up to the POST. *)
BeforePost == {"check", "gate", "sign", "mark", "final", "post"}

(* Neither an unreserved intent nor one on its way to the POST was posted. *)
Unposted ==
    /\ \A w \in Worker : main[w].pc \in BeforePost => posts[main[w].i] = 0
    /\ \A i \in Intent : i \notin reserved => posts[i] = 0

PostInv == TypeInv /\ Unposted /\ AtMostOncePost

(* No main loop arrives at a step before the POST with another intent. *)
NoNewHand ==
    \A x \in Worker : main'[x].pc \in BeforePost =>
        main[x].pc \in BeforePost /\ main'[x].i = main[x].i

(* A step that sends nothing and reserves nothing. *)
LEMMA SendsNothing ==
    ASSUME Unposted, AtMostOncePost, posts' = posts, reserved' = reserved, NoNewHand
    PROVE  Unposted' /\ AtMostOncePost'
  BY DEF Unposted, AtMostOncePost, NoNewHand

(* A main loop with no intent in hand is at no step before the POST. *)
LEMMA DropsHand ==
    ASSUME NEW w \in Worker, Drops(w) \/ main' = main
    PROVE  NoNewHand
  BY DEF Drops, NoNewHand, BeforePost, SubmitPc

(* Nor is one that goes on to a step after the POST, or from one step       *)
(* before the POST to the next, with another intent than it had.            *)
LEMMA KeepsHand ==
    ASSUME NEW w \in Worker, Keeps(w),
           main[w].pc \in BeforePost \/ main'[w].pc \notin BeforePost
    PROVE  NoNewHand
  BY DEF Keeps, NoNewHand

(* The exchange, the clocks, the operator, the heartbeat, the watcher and   *)
(* the reconciler touch no main loop and send nothing.                      *)
LEMMA OthersSendNothing ==
    ASSUME NEW w \in Worker,
           \/ Environment \/ ClaimLease(w) \/ LoseLease(w) \/ WatchStep(w)
           \/ \E i \in Intent : ReconcileOrder(w, i)
    PROVE  posts' = posts /\ reserved' = reserved /\ main' = main
  <1>1. CASE Environment
    BY <1>1 DEF Environment, Land, Close, LeaseLapses, ArmLapses, Pause, Resume,
                dbVars, exVars
  <1>2. CASE ClaimLease(w) \/ LoseLease(w)
    BY <1>2 DEF ClaimLease, LoseLease, dbVars, exVars
  <1>3. CASE WatchStep(w)
    BY <1>3 DEF WatchStep, WatchObserve, WatchLatch, WatchCancel, WatchAck, WatchFails,
                dbVars, exVars
  <1>4. CASE \E i \in Intent : ReconcileOrder(w, i)
    BY <1>4 DEF ReconcileOrder, exVars
  <1> QED BY <1>1, <1>2, <1>3, <1>4

(* Outside a submission the main loop and a shutdown send nothing either. *)
LEMMA LoopSendsNothing ==
    ASSUME NEW w \in Worker, LoopStep(w) \/ ShutdownStep(w)
    PROVE  posts' = posts /\ reserved' = reserved
  <1>1. CASE LoopStep(w)
    BY <1>1 DEF LoopStep, StartCycle, PrepareCycle, EndCycle, HaltCycle, PauseLive,
                HaltWorker, EngineStop, StopCancel, StopAck, dbVars, exVars
  <1>2. CASE ShutdownStep(w)
    BY <1>2 DEF ShutdownStep, StopRequested, Shutdown, ShutdownCancel,
                ShutdownValidate, ShutdownAck, ShutdownRelease, Crash, dbVars, exVars
  <1> QED BY <1>1, <1>2

(* A submission before its POST: it stays there, or turns to its save. *)
LEMMA PreparationHand ==
    ASSUME TypeOK, Held, NEW w \in Worker,
           \/ CheckUnresolved(w) \/ Gate(w) \/ Sign(w) \/ SignFails(w) \/ Mark(w)
           \/ FinalCheck(w) \/ Reject(w)
    PROVE  posts' = posts /\ reserved' = reserved /\ NoNewHand
  <1>1. main[w].pc \in BeforePost /\ main[w].pc \in SubmitPc
    BY DEF CheckUnresolved, Gate, Sign, SignFails, Mark, FinalCheck, Reject,
           BeforePost, SubmitPc
  <1>2. posts' = posts /\ reserved' = reserved
    BY DEF CheckUnresolved, Gate, Sign, SignFails, Mark, FinalCheck, Reject,
           dbVars, exVars
  <1>3. Keeps(w)
    <2>1. CASE Gate(w)
      BY <2>1, GateSet, ControlFields DEF Gate, TypeOK, Keeps, SubmitPc
    <2>2. CASE \E pc \in SubmitPc : Advance(w, pc)
      BY <1>1, <2>2, AdvanceKeeps
    <2>3. CASE \E pc \in SubmitPc, out \in Outcome : Result(w, pc, out)
      BY <1>1, <2>3, ResultKeeps
    <2> QED
      BY <2>1, <2>2, <2>3 DEF CheckUnresolved, Sign, SignFails, Mark, FinalCheck,
                              Reject, SubmitPc, Outcome
  <1> QED BY <1>1, <1>2, <1>3, KeepsHand

(* A submission after its POST never returns to a step before it. *)
LEMMA AftermathHand ==
    ASSUME TypeOK, Held, NEW w \in Worker,
           \/ Refused(w) \/ Accepted(w) \/ Revoked(w) \/ AmbiguousPost(w)
           \/ BrokerSave(w) \/ EngineSave(w) \/ EngineWrite(w)
    PROVE  posts' = posts /\ reserved' = reserved /\ NoNewHand
  <1>1. main[w].pc \in SubmitPc /\ main[w].out \in Outcome
    BY MainFields DEF Refused, Accepted, Revoked, AmbiguousPost, BrokerSave, EngineSave,
                      EngineWrite, SubmitPc, TypeOK
  <1>2. posts' = posts /\ reserved' = reserved
    BY DEF Refused, Accepted, Revoked, AmbiguousPost, BrokerSave, EngineSave,
           EngineWrite, dbVars, exVars
  <1>3. CASE \E pc \in {"save", "esave"}, out \in Outcome :
                Advance(w, pc) \/ Result(w, pc, out)
    <2>1. PICK pc \in {"save", "esave"}, out \in Outcome :
                Advance(w, pc) \/ Result(w, pc, out)
      BY <1>3
    <2>2. pc \in SubmitPc /\ pc \in MainPc /\ pc \notin BeforePost
      BY DEF SubmitPc, MainPc, BeforePost
    <2>3. Keeps(w)
      BY <1>1, <2>1, <2>2, AdvanceKeeps, ResultKeeps
    <2>4. main'[w].pc = pc
      BY <2>1, <2>2, AdvanceSet, ResultSet DEF TypeOK
    <2> QED BY <1>2, <2>2, <2>3, <2>4, KeepsHand
  <1>4. CASE EngineSave(w)
    <2>1. rows[main[w].i].st \in RowStatus
      BY <1>1, HasIntent, RowFields DEF TypeOK
    <2>2. Keeps(w) /\ main'[w].pc = "ewrite"
      BY <1>4, <1>1, <2>1, ReadSet DEF EngineSave, TypeOK, Keeps, SubmitPc
    <2> QED BY <1>2, <2>2, KeepsHand DEF BeforePost
  <1>5. CASE EngineWrite(w)
    <2>1. Drops(w)
      BY <1>5, MainSet, RestStates DEF EngineWrite, TypeOK, Drops, SubmitPc
    <2> QED BY <1>2, <2>1, DropsHand
  <1> QED
    BY <1>1, <1>3, <1>4, <1>5 DEF Refused, Accepted, Revoked, AmbiguousPost, BrokerSave,
                                  Outcome

(* The two steps that matter: a reservation takes an intent that was never  *)
(* posted, and a POST is the first one of the intent in its worker's hand.  *)
LEMMA SubmitPosts ==
    ASSUME PostInv, NEW w \in Worker, SubmitStep(w)
    PROVE  Unposted' /\ AtMostOncePost'
  <1>0. TypeOK /\ Held /\ Unposted /\ AtMostOncePost
    BY DEF PostInv, TypeInv
  <1>1. ASSUME NEW i \in Intent, Reserve(w, i) PROVE Unposted' /\ AtMostOncePost'
    <2>1. /\ main'[w].i = i /\ \A x \in Worker : x # w => main'[x] = main[x]
      BY <1>0, <1>1, CheckSet DEF Reserve, TypeOK
    <2>2. /\ i \notin reserved /\ reserved' = reserved \cup {i} /\ posts' = posts
      BY <1>1 DEF Reserve, exVars
    <2> QED BY <1>0, <2>1, <2>2 DEF Unposted, AtMostOncePost
  <1>2. CASE Post(w)
    <2>1. /\ main[w].pc = "post" /\ main[w].pc \in SubmitPc
          /\ main[w].pc \in BeforePost
      BY <1>2 DEF Post, SubmitPc, BeforePost
    <2>2. main[w].i \in Intent /\ main[w].i \in reserved /\ main[w].i # NoIntent
      <3>1. main[w].i \in Intent /\ main[w].i \in reserved
        BY <1>0, <2>1, HasIntent
      <3> QED BY <3>1, LiveAssumption
    <2>3. /\ Keeps(w) /\ main'[w].pc = "await"
      BY <1>0, <1>2, <2>1, AdvanceKeeps, AdvanceSet DEF Post, TypeOK, SubmitPc, MainPc
    <2>4. /\ posts' = [posts EXCEPT ![main[w].i] = posts[main[w].i] + 1]
          /\ posts \in [Intent -> Nat] /\ reserved' = reserved
      BY <1>0, <1>2 DEF Post, TypeOK, dbVars
    <2>5. posts[main[w].i] = 0
      BY <1>0, <2>1 DEF Unposted
    <2>6. AtMostOncePost'
      BY <1>0, <2>2, <2>4, <2>5 DEF AtMostOncePost
    <2>7. \A x \in Worker : main'[x].pc \in BeforePost =>
             x # w /\ main'[x] = main[x] /\ main[x].i # main[w].i
      BY <1>0, <2>2, <2>3 DEF Keeps, BeforePost, Held
    <2>8. \A x \in Worker : main[x].pc \in BeforePost => main[x].i \in Intent
      BY <1>0, HasIntent DEF BeforePost, SubmitPc
    <2>9. Unposted'
      BY <1>0, <2>2, <2>4, <2>7, <2>8 DEF Unposted
    <2> QED BY <2>6, <2>9
  <1>3. CASE \/ CheckUnresolved(w) \/ Gate(w) \/ Sign(w) \/ SignFails(w) \/ Mark(w)
             \/ FinalCheck(w) \/ Reject(w)
    BY <1>0, <1>3, PreparationHand, SendsNothing
  <1>4. CASE \/ Refused(w) \/ Accepted(w) \/ Revoked(w) \/ AmbiguousPost(w)
             \/ BrokerSave(w) \/ EngineSave(w) \/ EngineWrite(w)
    BY <1>0, <1>4, AftermathHand, SendsNothing
  <1> QED BY <1>1, <1>2, <1>3, <1>4 DEF SubmitStep

(* Initially nothing is posted and nobody submits. *)
LEMMA InitPosts == Init => PostInv
  <1> SUFFICES ASSUME Init PROVE PostInv
    OBVIOUS
  <1>1. Unposted /\ AtMostOncePost
    BY RestStates DEF Init, Unposted, AtMostOncePost, BeforePost
  <1> QED BY <1>1, InitTypes DEF PostInv

(* Every step keeps the invariant. *)
LEMMA NextPosts == PostInv /\ [Next]_vars => PostInv'
  <1> SUFFICES ASSUME PostInv, [Next]_vars PROVE PostInv'
    OBVIOUS
  <1>0. TypeInv' /\ TypeOK /\ Held /\ Unposted /\ AtMostOncePost
    BY NextTypes DEF PostInv, TypeInv
  <1>1. CASE UNCHANGED vars
    BY <1>0, <1>1 DEF vars, PostInv, Unposted, AtMostOncePost
  <1>2. CASE Environment /\ Worker = {}
    BY <1>0, <1>2 DEF Environment, Land, Close, LeaseLapses, ArmLapses, Pause, Resume,
                      dbVars, exVars, PostInv, Unposted, AtMostOncePost
  <1>3. ASSUME NEW w \in Worker,
               \/ Environment \/ ClaimLease(w) \/ LoseLease(w) \/ WatchStep(w)
               \/ \E i \in Intent : ReconcileOrder(w, i)
        PROVE  PostInv'
    <2>1. posts' = posts /\ reserved' = reserved /\ main' = main
      BY <1>3, OthersSendNothing
    <2> QED BY <1>0, <2>1, DropsHand, SendsNothing DEF PostInv
  <1>4. ASSUME NEW w \in Worker, LoopStep(w) \/ ShutdownStep(w) PROVE PostInv'
    <2>1. Drops(w) \/ main' = main
      BY <1>0, <1>4, LoopTypes, ShutdownTypes
    <2> QED BY <1>0, <1>4, <2>1, LoopSendsNothing, DropsHand, SendsNothing DEF PostInv
  <1>5. ASSUME NEW w \in Worker, SubmitStep(w) PROVE PostInv'
    BY <1>0, <1>5, SubmitPosts DEF PostInv
  <1> QED BY <1>1, <1>2, <1>3, <1>4, <1>5 DEF Next

(* An intent reaches the exchange at most once, whatever crashes, lost       *)
(* answers and takeovers happen, for any number of workers and intents       *)
(* (reserve_intent and the single pass of PolymarketBroker.submit).          *)
THEOREM PostedOnce == Spec => []AtMostOncePost
  <1>1. PostInv => AtMostOncePost
    BY DEF PostInv
  <1> QED BY <1>1, InitPosts, NextPosts, PTL DEF Spec

-----------------------------------------------------------------------------
(* One order under way per fencing token *)

(* The steps between the check for unresolved orders and the mark. *)
Fencing == {"gate", "sign", "mark"}

(* No token is in use that the lease has not issued. *)
TokensIssued ==
    /\ \A w \in Worker : tok[w] <= lease.token
    /\ \A w \in Worker : main[w].pc = "sign" => main[w].tok <= lease.token
    /\ \A i \in Intent : rows[i].tok <= lease.token

(* While the owner of the lease prepares an order, none is under way under   *)
(* the current token.                                                        *)
FenceFree ==
    \A w \in Worker, i \in Intent :
        lease.owner = w /\ main[w].pc \in Fencing /\ rows[i].st = "submitting"
            => rows[i].tok # lease.token

FenceInv == TokensIssued /\ FenceFree /\ OneFlightPerFence

(* A step that puts no order under way and brings no worker to the gate. *)
SameLease == lease'.owner = lease.owner /\ lease'.token = lease.token

CalmTokens == \A x \in Worker : tok'[x] = tok[x] \/ tok'[x] = 0

CalmRows ==
    \A i \in Intent :
        /\ rows'[i].tok <= lease.token
        /\ rows'[i].st = "submitting" => rows'[i] = rows[i]

CalmMain ==
    \A x \in Worker :
        /\ main'[x].pc \in Fencing => main[x].pc \in Fencing
        /\ main'[x].pc = "sign" => main'[x].tok <= lease.token

(* Such a step keeps the invariant. *)
LEMMA CalmStep ==
    ASSUME TypeOK, FenceInv, SameLease, CalmTokens, CalmRows, CalmMain
    PROVE  FenceInv'
  <1>1. lease.token \in Nat
    BY LeaseFields DEF TypeOK
  <1>2. TokensIssued'
    BY <1>1 DEF FenceInv, TokensIssued, SameLease, CalmTokens, CalmRows, CalmMain
  <1>3. FenceFree'
    BY DEF FenceInv, FenceFree, SameLease, CalmRows, CalmMain
  <1>4. OneFlightPerFence'
    BY DEF FenceInv, OneFlightPerFence, CalmRows
  <1> QED BY <1>2, <1>3, <1>4 DEF FenceInv

(* A main loop that is not at the gates afterwards, or did not move. *)
LEMMA CalmHand ==
    ASSUME TokensIssued, NEW w \in Worker,
           \A x \in Worker : x # w => main'[x] = main[x],
           main'[w] = main[w] \/ main'[w].pc \notin Fencing
    PROVE  CalmMain
  BY DEF CalmMain, TokensIssued, Fencing

(* Rows that did not change. *)
LEMMA SameRows == ASSUME TokensIssued, rows' = rows PROVE CalmRows
  BY DEF TokensIssued, CalmRows

(* One row that changed, to a status other than "submitting". *)
LEMMA OneRow ==
    ASSUME TypeOK, TokensIssued, NEW i \in Intent, NEW r \in OrderRow,
           rows' = [rows EXCEPT ![i] = r], r.st # "submitting",
           r.tok <= lease.token
    PROVE  CalmRows
  <1>1. rows'[i] = r /\ \A j \in Intent : j # i => rows'[j] = rows[j]
    BY DEF TypeOK
  <1> QED BY <1>1 DEF TokensIssued, CalmRows

(* A save never puts an order under way: every result replaces "submitting", *)
(* and no result is stored as "submitting" (_merge_execution_order_payload). *)
LEMMA SaveCalm ==
    ASSUME TypeOK, TokensIssued, NEW w \in Worker, main[w].i \in Intent,
           NEW old \in RowStatus, rows' = Saved(w, old)
    PROVE  CalmRows
  <1> DEFINE m == main[w]
  <1> DEFINE st == IncomingStatus(m.out)
  <1> DEFINE id == m.out \in {"accepted", "lost", "changed"}
  <1> DEFINE r == SavedRow(rows[m.i], old, st, id)
  <1>1. m.out \in Outcome /\ rows[m.i] \in OrderRow
    BY MainFields DEF TypeOK
  <1>2. st \in {"submitted", "rejected", "unknown"}
    BY <1>1 DEF IncomingStatus, Outcome
  <1>3. TransitionAllowed("submitting", st)
    BY <1>2 DEF TransitionAllowed, Early
  <1>4. st \in RowStatus /\ id \in BOOLEAN
    BY <1>2 DEF RowStatus
  <1> HIDE DEF st, id
  <1>5. r.st = (IF TransitionAllowed(old, st) THEN st ELSE old) /\ r.tok = rows[m.i].tok
    BY <1>1, <1>4, SavedRowFields
  <1>6. r.st # "submitting"
    BY <1>2, <1>3, <1>5
  <1> HIDE DEF r
  <1>7. rows'[m.i] = r /\ \A i \in Intent : i # m.i => rows'[i] = rows[i]
    BY SavedType DEF r, st, id
  <1> QED BY <1>5, <1>6, <1>7 DEF CalmRows, TokensIssued

-----------------------------------------------------------------------------
(* The exchange, the clocks and the operator. *)
LEMMA EnvironmentFence ==
    ASSUME TypeOK, FenceInv, Environment
    PROVE  FenceInv'
  <1>1. SameLease
    <2>1. CASE LeaseLapses
      <3>1. lease \in Lease /\ lease' = [lease EXCEPT !.live = FALSE]
        BY <2>1 DEF LeaseLapses, TypeOK
      <3> QED BY <3>1 DEF SameLease, Lease
    <2>2. CASE lease' = lease
      BY <2>2 DEF SameLease
    <2> QED BY <2>1, <2>2 DEF Environment, Land, Close, ArmLapses, Pause, Resume, dbVars
  <1>2. rows' = rows /\ tok' = tok /\ main' = main
    BY DEF Environment, Land, Close, LeaseLapses, ArmLapses, Pause, Resume, dbVars,
           taskVars
  <1>3. CalmTokens /\ CalmMain
    BY <1>2 DEF CalmTokens, CalmMain, FenceInv, TokensIssued
  <1> QED BY <1>1, <1>2, <1>3, SameRows, CalmStep DEF FenceInv

(* The heartbeat: a new owner gets a token that no row carries. *)
LEMMA LeaseFence ==
    ASSUME TypeOK, FenceInv, NEW w \in Worker, ClaimLease(w) \/ LoseLease(w)
    PROVE  FenceInv'
  <1>0. lease.token \in Nat /\ tok \in [Worker -> Nat]
    BY LeaseFields DEF TypeOK
  <1>1. CASE ClaimLease(w)
    <2>1. /\ lease'.owner = w
          /\ lease'.token = IF lease.owner = w THEN lease.token ELSE lease.token + 1
      BY <1>1 DEF ClaimLease, Claimed
    <2>2. /\ rows' = rows /\ main' = main
          /\ tok' = [tok EXCEPT ![w] = lease'.token]
      BY <1>1 DEF ClaimLease
    <2>3. /\ \A x \in Worker : tok[x] \in Nat /\ main[x].tok \in Nat
          /\ \A i \in Intent : rows[i].tok \in Nat
      BY MainFields, RowFields DEF TypeOK
    <2>4. TokensIssued'
      BY <1>0, <2>1, <2>2, <2>3 DEF FenceInv, TokensIssued
    <2>5. FenceFree'
      BY <1>0, <2>1, <2>2, <2>3 DEF FenceInv, FenceFree, TokensIssued
    <2>6. OneFlightPerFence'
      BY <2>2 DEF FenceInv, OneFlightPerFence
    <2> QED BY <2>4, <2>5, <2>6 DEF FenceInv
  <1>2. CASE LoseLease(w)
    <2>1. /\ lease' = lease /\ rows' = rows /\ main' = main
          /\ tok' = [tok EXCEPT ![w] = 0]
      BY <1>2 DEF LoseLease, dbVars
    <2>2. SameLease /\ CalmTokens /\ CalmMain
      BY <1>0, <2>1 DEF SameLease, CalmTokens, CalmMain, FenceInv, TokensIssued
    <2> QED BY <2>1, <2>2, SameRows, CalmStep DEF FenceInv
  <1> QED BY <1>1, <1>2

(* The watcher changes neither leases nor orders. *)
LEMMA WatchFence ==
    ASSUME TypeOK, FenceInv, NEW w \in Worker, WatchStep(w)
    PROVE  FenceInv'
  <1>1. lease' = lease /\ rows' = rows /\ tok' = tok /\ main' = main
    BY DEF WatchStep, WatchObserve, WatchLatch, WatchCancel, WatchAck, WatchFails, dbVars
  <1> QED BY <1>1 DEF FenceInv, TokensIssued, FenceFree, OneFlightPerFence

(* The reconciler writes no order back to "submitting". *)
LEMMA ReconcileFence ==
    ASSUME TypeOK, FenceInv, NEW w \in Worker, NEW i \in Intent, ReconcileOrder(w, i)
    PROVE  FenceInv'
  <1>1. lease' = lease /\ tok' = tok /\ main' = main
    BY DEF ReconcileOrder, taskVars
  <1>2. PICK st \in {"working", "closed"} : rows' = [rows EXCEPT ![i].st = st]
    BY DEF ReconcileOrder
  <1> DEFINE r == [rows[i] EXCEPT !.st = st]
  <1>3. rows' = [rows EXCEPT ![i] = r]
    BY <1>2
  <1>4. rows[i] \in OrderRow /\ st \in RowStatus /\ st # "submitting"
    BY DEF TypeOK, RowStatus
  <1>5. r \in OrderRow /\ r.st # "submitting" /\ r.tok = rows[i].tok
    BY <1>4, RestatedRow
  <1> HIDE DEF r
  <1>6. CalmRows
    BY <1>3, <1>5, OneRow DEF FenceInv, TokensIssued
  <1>7. SameLease /\ CalmTokens /\ CalmMain
    BY <1>1 DEF SameLease, CalmTokens, CalmMain, FenceInv, TokensIssued
  <1> QED BY <1>6, <1>7, CalmStep

(* The main loop outside a submission, and the end of a process. *)
LEMMA LoopFence ==
    ASSUME TypeOK, Held, FenceInv, NEW w \in Worker, LoopStep(w) \/ ShutdownStep(w)
    PROVE  FenceInv'
  <1>1. Drops(w) \/ main' = main
    BY LoopTypes, ShutdownTypes
  <1>2. CalmMain
    BY <1>1 DEF Drops, CalmMain, FenceInv, TokensIssued, Fencing, SubmitPc
  <1>3. rows' = rows
    BY DEF LoopStep, StartCycle, PrepareCycle, EndCycle, HaltCycle, PauseLive,
           HaltWorker, EngineStop, StopCancel, StopAck, dbVars,
           ShutdownStep, StopRequested, Shutdown, ShutdownCancel,
           ShutdownValidate, ShutdownAck, ShutdownRelease, Crash
  <1>4. SameLease
    <2>1. CASE ShutdownRelease(w)
      <3>1. lease \in Lease /\ lease' = Released(lease, w, tok[w])
        BY <2>1 DEF ShutdownRelease, TypeOK
      <3> QED BY <3>1 DEF SameLease, Released, Lease
    <2>2. CASE lease' = lease
      BY <2>2 DEF SameLease
    <2> QED
      BY <2>1, <2>2 DEF LoopStep, StartCycle, PrepareCycle, EndCycle, HaltCycle,
           PauseLive, HaltWorker, EngineStop, StopCancel, StopAck, dbVars,
           ShutdownStep, StopRequested, Shutdown, ShutdownCancel, ShutdownValidate,
           ShutdownAck, Crash
  <1>5. CalmTokens
    <2>1. tok' = tok \/ tok' = [tok EXCEPT ![w] = 0]
      BY DEF LoopStep, StartCycle, PrepareCycle, EndCycle, HaltCycle, PauseLive,
           HaltWorker, EngineStop, StopCancel, StopAck, taskVars,
           ShutdownStep, StopRequested, Shutdown, ShutdownCancel,
           ShutdownValidate, ShutdownAck, ShutdownRelease, Crash, Exit
    <2> QED BY <2>1 DEF CalmTokens, TypeOK
  <1> QED BY <1>2, <1>3, <1>4, <1>5, SameRows, CalmStep DEF FenceInv

(* A submission.  The check for unresolved orders frees the fence, the mark  *)
(* uses it up; no other step puts an order under way.                        *)
LEMMA SubmitFence ==
    ASSUME TypeOK, Held, FenceInv, NEW w \in Worker, SubmitStep(w)
    PROVE  FenceInv'
  <1>0. /\ main \in [Worker -> MainState] /\ main[w] \in MainState
        /\ TokensIssued /\ "esave" \in MainPc /\ "esave" \notin Fencing
    BY DEF TypeOK, FenceInv, MainPc, SubmitPc, Fencing
  <1>1. ASSUME NEW i \in Intent, Reserve(w, i) PROVE FenceInv'
    <2>1. /\ main'[w].pc = "check" /\ \A x \in Worker : x # w => main'[x] = main[x]
      BY <1>0, <1>1, CheckSet DEF Reserve
    <2>2. CalmMain
      BY <1>0, <2>1, CalmHand DEF Fencing
    <2>3. rows' = rows /\ SameLease /\ CalmTokens
      BY <1>1 DEF Reserve, taskVars, SameLease, CalmTokens
    <2> QED BY <1>0, <2>2, <2>3, SameRows, CalmStep
  <1>2. CASE CheckUnresolved(w)
    <2>1. /\ main'[w].pc = "gate" /\ \A x \in Worker : x # w => main'[x] = main[x]
      BY <1>0, <1>2, AdvanceSet DEF CheckUnresolved, MainPc, SubmitPc
    <2>2. rows' = rows /\ lease' = lease /\ tok' = tok
      BY <1>2 DEF CheckUnresolved, dbVars, taskVars
    <2>3. \A i \in Intent : rows[i].st # "submitting"
      BY <1>2 DEF CheckUnresolved, Unresolved, TypeOK
    <2>4. TokensIssued'
      BY <2>1, <2>2 DEF FenceInv, TokensIssued
    <2>5. \A i \in Intent : rows'[i].st # "submitting"
      BY <2>2, <2>3
    <2>6. FenceFree'
      BY <2>5 DEF FenceFree
    <2>7. OneFlightPerFence'
      BY <2>5 DEF OneFlightPerFence
    <2> QED BY <2>4, <2>6, <2>7 DEF FenceInv
  <1>3. CASE Gate(w)
    <2>1. /\ main'[w].pc = "sign" /\ main'[w].tok = tok[w]
          /\ \A x \in Worker : x # w => main'[x] = main[x]
      BY <1>0, <1>3, GateSet, ControlFields DEF Gate, TypeOK
    <2>2. CalmMain
      BY <1>0, <1>3, <2>1 DEF Gate, CalmMain, TokensIssued, Fencing
    <2>3. rows' = rows /\ SameLease /\ CalmTokens
      BY <1>3 DEF Gate, dbVars, taskVars, SameLease, CalmTokens
    <2> QED BY <1>0, <2>2, <2>3, SameRows, CalmStep
  <1>4. CASE Sign(w) \/ SignFails(w)
    <2>1. main[w].pc = "sign" /\ main[w].i \in Intent
      BY <1>4, HasIntent DEF Sign, SignFails, SubmitPc
    <2>2. /\ SignedRow(main[w].tok) \in OrderRow /\ SignedRow(main[w].tok).st = "signed"
          /\ SignedRow(main[w].tok).tok <= lease.token
      <3>1. PICK t \in Nat : t = main[w].tok
        BY <1>0, MainFields
      <3>2. t <= lease.token
        BY <1>0, <2>1, <3>1 DEF TokensIssued
      <3>3. SignedRow(t) \in OrderRow /\ SignedRow(t).st = "signed" /\ SignedRow(t).tok = t
        BY SignedRowFields
      <3> QED BY <3>1, <3>2, <3>3
    <2>3. CalmRows
      <3>1. CASE rows' = rows
        BY <1>0, <3>1, SameRows
      <3>2. CASE rows' = [rows EXCEPT ![main[w].i] = SignedRow(main[w].tok)]
        BY <1>0, <2>1, <2>2, <3>2, OneRow
      <3> QED BY <1>4, <3>1, <3>2 DEF Sign, SignFails
    <2>4. CalmMain
      <3>1. CASE Advance(w, "mark")
        <4>1. /\ main'[w].pc = "mark" /\ \A x \in Worker : x # w => main'[x] = main[x]
          BY <1>0, <3>1, AdvanceSet DEF MainPc, SubmitPc
        <4> QED BY <1>0, <2>1, <4>1 DEF CalmMain, TokensIssued, Fencing
      <3>2. CASE Result(w, "esave", "error")
        <4>1. /\ main'[w].pc = "esave" /\ \A x \in Worker : x # w => main'[x] = main[x]
          BY <1>0, <3>2, ResultSet DEF Outcome
        <4> QED BY <1>0, <4>1, CalmHand
      <3> QED BY <1>4, <3>1, <3>2 DEF Sign, SignFails
    <2>5. SameLease /\ CalmTokens
      BY <1>4 DEF Sign, SignFails, taskVars, SameLease, CalmTokens
    <2> QED BY <2>3, <2>4, <2>5, CalmStep
  <1>5. CASE Mark(w)
    <2> DEFINE k == main[w].i
    <2>1. main[w].pc = "mark" /\ k \in Intent /\ rows[k] \in OrderRow
      BY <1>5, HasIntent DEF Mark, TypeOK, SubmitPc
    <2>2. rows[k].tok = lease.token /\ lease.owner = w
      BY <1>5 DEF Mark, MarkAllowed, LeaseValid
    <2>3. rows' = [rows EXCEPT ![k] = [rows[k] EXCEPT !.st = "submitting"]]
      BY <1>5 DEF Mark
    <2>4. /\ rows'[k].tok = rows[k].tok
          /\ \A i \in Intent : i # k => rows'[i] = rows[i]
      BY <2>1, <2>3, RestatedRow DEF TypeOK, RowStatus
    <2>5. lease' = lease /\ tok' = tok
      BY <1>5 DEF Mark, taskVars
    <2>6. /\ main'[w].pc \in {"final", "esave"}
          /\ \A x \in Worker : x # w => main'[x] = main[x]
      <3>1. "final" \in MainPc /\ "rejected" \in Outcome
        BY DEF MainPc, SubmitPc, Outcome
      <3>2. CASE Advance(w, "final")
        BY <1>0, <3>1, <3>2, AdvanceSet
      <3>3. CASE Result(w, "esave", "rejected")
        BY <1>0, <3>1, <3>3, ResultSet
      <3> QED BY <1>5, <3>2, <3>3 DEF Mark
    <2>7. TokensIssued'
      BY <1>0, <2>1, <2>4, <2>5, <2>6 DEF TokensIssued
    <2>8. FenceFree'
      BY <2>2, <2>5, <2>6 DEF FenceFree, Fencing
    <2>9. \A i \in Intent : rows[i].st = "submitting" => rows[i].tok # rows[k].tok
      BY <2>1, <2>2 DEF FenceInv, FenceFree, Fencing
    <2>10. OneFlightPerFence'
      BY <2>1, <2>4, <2>9 DEF FenceInv, OneFlightPerFence
    <2> QED BY <2>7, <2>8, <2>10 DEF FenceInv
  <1>6. CASE \/ FinalCheck(w) \/ Reject(w) \/ Post(w) \/ Refused(w) \/ Accepted(w)
             \/ Revoked(w) \/ AmbiguousPost(w) \/ EngineSave(w)
    <2>1. rows' = rows /\ lease' = lease /\ tok' = tok
      BY <1>6 DEF FinalCheck, Reject, Post, Refused, Accepted, Revoked, AmbiguousPost,
                  EngineSave, dbVars, taskVars
    <2>2. /\ main'[w].pc \in {"post", "await", "save", "esave", "ewrite"}
          /\ \A x \in Worker : x # w => main'[x] = main[x]
      <3>1. CASE EngineSave(w)
        <4>1. main[w].pc = "esave" /\ main[w].i \in Intent
          BY <3>1, HasIntent DEF EngineSave, SubmitPc
        <4>2. rows[main[w].i].st \in RowStatus
          BY <4>1, RowFields DEF TypeOK
        <4> QED BY <1>0, <3>1, <4>2, ReadSet DEF EngineSave
      <3>2. CASE \E pc \in {"post", "await", "save", "esave"}, out \in Outcome :
                    Advance(w, pc) \/ Result(w, pc, out)
        <4>1. {"post", "await", "save", "esave"} \subseteq MainPc
          BY DEF MainPc, SubmitPc
        <4> QED BY <1>0, <3>2, <4>1, AdvanceSet, ResultSet
      <3> QED BY <1>6, <3>1, <3>2 DEF FinalCheck, Reject, Post, Refused, Accepted,
                                      Revoked, AmbiguousPost, Outcome
    <2>3. CalmMain
      BY <1>0, <2>2, CalmHand DEF Fencing
    <2>4. SameLease /\ CalmTokens
      BY <2>1 DEF SameLease, CalmTokens
    <2> QED BY <1>0, <2>1, <2>3, <2>4, SameRows, CalmStep
  <1>7. CASE BrokerSave(w) \/ EngineWrite(w)
    <2>1. main[w].i \in Intent /\ main[w].out \in Outcome /\ main[w].old \in RowStatus
      BY <1>0, <1>7, HasIntent, MainFields DEF BrokerSave, EngineWrite, SubmitPc
    <2>2. rows[main[w].i].st \in RowStatus
      BY <2>1, RowFields DEF TypeOK
    <2>3. CalmRows
      <3>1. CASE rows' = rows
        BY <1>0, <3>1, SameRows
      <3>2. CASE \E old \in RowStatus : rows' = Saved(w, old)
        BY <1>0, <2>1, <3>2, SaveCalm
      <3> QED BY <1>7, <2>1, <2>2, <3>1, <3>2 DEF BrokerSave, EngineWrite
    <2>4. /\ main'[w].pc \notin Fencing
          /\ \A x \in Worker : x # w => main'[x] = main[x]
      <3>1. CASE EngineWrite(w)
        BY <1>0, <3>1, MainSet, RestStates DEF EngineWrite, Fencing
      <3>2. CASE \E out \in Outcome : Advance(w, "esave") \/ Result(w, "esave", out)
        BY <1>0, <3>2, AdvanceSet, ResultSet
      <3> QED BY <1>7, <2>1, <3>1, <3>2 DEF BrokerSave, Outcome
    <2>5. SameLease /\ CalmTokens
      BY <1>7 DEF BrokerSave, EngineWrite, taskVars, SameLease, CalmTokens
    <2> QED BY <1>0, <2>3, <2>4, <2>5, CalmHand, CalmStep
  <1> QED BY <1>1, <1>2, <1>3, <1>4, <1>5, <1>6, <1>7 DEF SubmitStep

(* Initially no token is issued and no order exists. *)
LEMMA InitFence == Init => FenceInv
  BY RestStates DEF Init, FenceInv, TokensIssued, FenceFree, OneFlightPerFence,
                    InitialLease, NoRow, Fencing

(* Every step keeps the invariant. *)
LEMMA NextFence == TypeInv /\ FenceInv /\ [Next]_vars => FenceInv'
  <1> SUFFICES ASSUME TypeOK, Held, FenceInv, [Next]_vars PROVE FenceInv'
    BY DEF TypeInv
  <1>1. CASE UNCHANGED vars
    BY <1>1 DEF vars, FenceInv, TokensIssued, FenceFree, OneFlightPerFence
  <1> QED BY <1>1, EnvironmentFence, LeaseFence, SubmitFence, LoopFence, WatchFence,
             ReconcileFence DEF Next

(* One fencing token never has two orders past mark_order_submitting and     *)
(* before their result, for any number of workers, intents and takeovers.    *)
THEOREM FencedFlights == Spec => []OneFlightPerFence
  <1>1. FenceInv => OneFlightPerFence
    BY DEF FenceInv
  <1> QED BY <1>1, InitTypes, NextTypes, InitFence, NextFence, PTL DEF Spec

-----------------------------------------------------------------------------
(***************************************************************************)
(* A stopped account is quiet: when the control row of LiveExecution says  *)
(* "stopped and nothing left to cancel", no order of the account is under  *)
(* way and none rests at the exchange.                                     *)
(*                                                                         *)
(* The argument follows an order from its mark to its result.  Until the   *)
(* result is stored its row counts as unresolved, which keeps the          *)
(* cancellation from being acknowledged (BookOK, HandsOK).  A result that  *)
(* resolves an order which still rests needs the arm under which it was    *)
(* sent, so once the account is disarmed and a cancel-all was verified,    *)
(* every order that rests is one whose row stays unresolved (CancelOK).    *)
(* The acknowledgement compares the control version, and every version is  *)
(* disarmed at most once, so nobody acknowledges a cancellation that was   *)
(* verified before a later arm (VersionsIssued).                           *)
(***************************************************************************)

(* The exchange took the order. *)
Sent == {"open", "closed"}

(* Results with an exchange id: a save makes the row resolvable. *)
Known == {"accepted", "lost", "changed"}

(* The rows of orders that were sent and have no stored result. *)
Limbo == {"submitting", "unknown"}

(* A main loop m with an intent in hand, its order row r, its order e at    *)
(* the exchange.                                                            *)
HandOf(m, r, e) ==
    /\ m.pc \in BeforePost => e = "none"
    /\ m.pc \in BeforePost \cup {"await"} => m.out = "none"
    /\ m.pc \in {"final", "post", "await", "save"} => r.st = "submitting" /\ r.id = FALSE
    /\ m.out \in Known => e \in Sent
    /\ m.out = "rejected" => e \in {"none", "refused"}
    /\ m.pc = "ewrite" /\ r.id = FALSE => m.old = r.st

HandsOK ==
    \A w \in Worker : main[w].i \in Intent =>
        HandOf(main[w], rows[main[w].i], exch[main[w].i])

(* An order that is still under way has an unresolved row without an        *)
(* exchange id, an id is stored only of an order that arrived.              *)
BookOf(r, e) ==
    /\ e = "transit" => r.st \in Limbo
    /\ r.id = TRUE => e \in Sent

BookOK ==
    \A i \in Intent :
        /\ BookOf(rows[i], exch[i])
        /\ i \notin reserved => exch[i] = "none"

(* No save that is under way will resolve this order. *)
Undecided(i) ==
    /\ rows[i].st \in Limbo /\ rows[i].id = FALSE
    /\ \A w \in Worker : main[w].i = i => main[w].out \notin Known

-----------------------------------------------------------------------------
(* What a step may do to the orders. *)

(* A mark needs the arm, a POST needs the mark, an order that rests came    *)
(* from a POST, and without the arm no result resolves an order that goes   *)
(* on resting.                                                              *)
Passage ==
    \A i \in Intent :
        /\ rows'[i].st = "submitting" => rows[i].st = "submitting" \/ LiveArmed(ctl)
        /\ exch'[i] = "transit" => exch[i] = "transit" \/ rows[i].st = "submitting"
        /\ exch'[i] = "open" => exch[i] \in {"open", "transit"}
        /\ /\ SubmitterCancelMayFail = FALSE /\ ~LiveArmed(ctl)
           /\ exch'[i] = "open" /\ Undecided(i)
           => Undecided(i)'

OrdersStep == HandsOK' /\ BookOK' /\ Passage

(* Orders at the exchange are at most closed. *)
OnlyCloses(i) == exch'[i] = exch[i] \/ (exch[i] = "open" /\ exch'[i] = "closed")

(* A cancel-all, verified or not, only closes orders. *)
LEMMA CancelCloses ==
    ASSUME TypeOK, CancelVerified \/ CancelFailed
    PROVE  \A i \in Intent : OnlyCloses(i)
  BY DEF CancelVerified, CancelFailed, OnlyCloses, TypeOK

(* A verified cancel-all leaves nothing resting. *)
LEMMA VerifiedCancel ==
    ASSUME CancelVerified
    PROVE  \A i \in Intent : exch'[i] # "open"
  BY DEF CancelVerified

(* Steps that leave the rows alone and give nobody a new intent. *)
LEMMA RestStep ==
    ASSUME HandsOK, BookOK, rows' = rows, reserved' = reserved,
           \A i \in Intent : OnlyCloses(i),
           \A x \in Worker : main'[x] = main[x] \/ main'[x].i = NoIntent
    PROVE  OrdersStep
  <1>0. NoIntent \notin Intent
    BY LiveAssumption
  <1>1. HandsOK'
    BY <1>0 DEF HandsOK, HandOf, OnlyCloses, Sent
  <1>2. BookOK'
    BY DEF BookOK, BookOf, OnlyCloses, Sent
  <1>3. Passage
    BY <1>0 DEF Passage, Undecided, OnlyCloses
  <1> QED BY <1>1, <1>2, <1>3 DEF OrdersStep

(* What a submission step may do with the intent in its hand: m is its main  *)
(* loop, r the row and e the order before, n, s and f are those after.      *)
HandStep(m, r, e, n, s, f) ==
    /\ n.i = m.i => HandOf(n, s, f)
    /\ BookOf(s, f)
    /\ s.st = "submitting" => r.st = "submitting" \/ LiveArmed(ctl)
    /\ f = "transit" => e = "transit" \/ r.st = "submitting"
    /\ f = "open" => e = "open"
    /\ /\ SubmitterCancelMayFail = FALSE /\ ~LiveArmed(ctl) /\ f = "open"
       /\ r.st \in Limbo /\ r.id = FALSE /\ m.out \notin Known
       => s.st \in Limbo /\ s.id = FALSE /\ (n.i = m.i => n.out \notin Known)

(* A submission step touches the order of its own intent only. *)
LEMMA SubmissionStep ==
    ASSUME Held, HandsOK, BookOK, NEW w \in Worker, main[w].i \in Intent,
           reserved' = reserved,
           \A x \in Worker : x # w => main'[x] = main[x],
           main'[w].i \in {main[w].i, NoIntent},
           \A j \in Intent : j # main[w].i => rows'[j] = rows[j] /\ OnlyCloses(j),
           main[w].i \in reserved,
           HandStep(main[w], rows[main[w].i], exch[main[w].i],
                    main'[w], rows'[main[w].i], exch'[main[w].i])
    PROVE  OrdersStep
  <1> DEFINE k == main[w].i
  <1>0. NoIntent \notin Intent /\ k \in Intent /\ k # NoIntent
    BY LiveAssumption
  <1>1. \A x \in Worker : x # w /\ main[x].i \in Intent => main[x].i # k
    BY <1>0 DEF Held
  <1>2. HandsOK'
    <2> SUFFICES ASSUME NEW x \in Worker, main'[x].i \in Intent
                 PROVE  HandOf(main'[x], rows'[main'[x].i], exch'[main'[x].i])
      BY DEF HandsOK
    <2>1. CASE x = w
      BY <1>0, <2>1 DEF HandStep
    <2>2. CASE x # w
      <3>1. /\ main'[x] = main[x] /\ main[x].i # k
            /\ rows'[main[x].i] = rows[main[x].i] /\ OnlyCloses(main[x].i)
            /\ HandOf(main[x], rows[main[x].i], exch[main[x].i])
        BY <1>1, <2>2 DEF HandsOK
      <3> QED BY <3>1 DEF HandOf, OnlyCloses, Sent
    <2> QED BY <2>1, <2>2
  <1>3. BookOK'
    BY <1>0 DEF HandStep, BookOK, BookOf, OnlyCloses, Sent
  <1>4. Passage
    <2> SUFFICES ASSUME NEW i \in Intent
                 PROVE  /\ rows'[i].st = "submitting"
                              => rows[i].st = "submitting" \/ LiveArmed(ctl)
                        /\ exch'[i] = "transit"
                              => exch[i] = "transit" \/ rows[i].st = "submitting"
                        /\ exch'[i] = "open" => exch[i] \in {"open", "transit"}
                        /\ /\ SubmitterCancelMayFail = FALSE /\ ~LiveArmed(ctl)
                           /\ exch'[i] = "open" /\ Undecided(i)
                           => Undecided(i)'
      BY DEF Passage
    <2>1. CASE i = k
      <3>1. /\ SubmitterCancelMayFail = FALSE /\ ~LiveArmed(ctl)
            /\ exch'[i] = "open" /\ Undecided(i)
            => Undecided(i)'
        BY <1>0, <1>1, <2>1 DEF HandStep, Undecided
      <3> QED BY <2>1, <3>1 DEF HandStep
    <2>2. CASE i # k
      <3>1. rows'[i] = rows[i] /\ OnlyCloses(i)
        BY <2>2
      <3>2. \A x \in Worker : main'[x].i = i => main'[x] = main[x]
        BY <1>0, <2>2
      <3> QED BY <3>1, <3>2 DEF OnlyCloses, Undecided
    <2> QED BY <2>1, <2>2
  <1> QED BY <1>2, <1>3, <1>4 DEF OrdersStep

-----------------------------------------------------------------------------
(* The steps of a submission. *)

(* A new reservation: an intent that the exchange has not seen.             *)
LEMMA ReserveStep ==
    ASSUME TypeOK, Held, HandsOK, BookOK, NEW w \in Worker, NEW i \in Intent, Reserve(w, i)
    PROVE  OrdersStep
  <1>1. /\ main'[w].pc = "check" /\ main'[w].i = i /\ main'[w].out = "none"
        /\ \A x \in Worker : x # w => main'[x] = main[x]
    BY CheckSet DEF Reserve, TypeOK
  <1>2. /\ i \notin reserved /\ reserved' = reserved \cup {i}
        /\ rows' = rows /\ exch' = exch
    BY DEF Reserve, exVars
  <1>3. exch[i] = "none" /\ rows[i].id \in BOOLEAN /\ i # NoIntent
    BY <1>2, RowFields, LiveAssumption DEF BookOK, TypeOK
  <1>4. HandsOK'
    BY <1>1, <1>2, <1>3 DEF HandsOK, HandOf, BeforePost, Known
  <1>5. BookOK'
    BY <1>2 DEF BookOK
  <1>6. Passage
    BY <1>1, <1>2 DEF Passage, Undecided, Known
  <1> QED BY <1>4, <1>5, <1>6 DEF OrdersStep

(* The intent in hand, its row and its order, and what is known of them.    *)
LEMMA InHand ==
    ASSUME TypeOK, Held, HandsOK, BookOK, NEW w \in Worker, main[w].pc \in SubmitPc
    PROVE  /\ main[w].i \in Intent /\ main[w].i \in reserved
           /\ HandOf(main[w], rows[main[w].i], exch[main[w].i])
           /\ BookOf(rows[main[w].i], exch[main[w].i])
           /\ rows[main[w].i] \in OrderRow /\ rows[main[w].i].id \in BOOLEAN
           /\ rows[main[w].i].st \in RowStatus
           /\ main \in [Worker -> MainState] /\ main[w] \in MainState
  <1>1. main[w].i \in Intent /\ main[w].i \in reserved
    BY HasIntent
  <1> QED BY <1>1, RowFields DEF HandsOK, BookOK, TypeOK

(* Steps before the POST that write no row.                                 *)
LEMMA CheckedStep ==
    ASSUME TypeOK, Held, HandsOK, BookOK, NEW w \in Worker,
           CheckUnresolved(w) \/ Gate(w) \/ FinalCheck(w)
    PROVE  OrdersStep
  <1>1. main[w].pc \in {"check", "gate", "final"} /\ main[w].pc \in SubmitPc
    BY DEF CheckUnresolved, Gate, FinalCheck, SubmitPc
  <1> DEFINE k == main[w].i
  <1>2. /\ k \in Intent /\ k \in reserved
        /\ HandOf(main[w], rows[k], exch[k]) /\ BookOf(rows[k], exch[k])
        /\ main \in [Worker -> MainState] /\ main[w] \in MainState
    BY <1>1, InHand
  <1>3. /\ main'[w].i = k /\ main'[w].out = main[w].out
        /\ main'[w].pc = CASE main[w].pc = "check" -> "gate"
                           [] main[w].pc = "gate" -> "sign"
                           [] OTHER -> "post"
        /\ \A x \in Worker : x # w => main'[x] = main[x]
    <2>1. CASE CheckUnresolved(w)
      BY <1>2, <2>1, AdvanceSet DEF CheckUnresolved, MainPc, SubmitPc
    <2>2. CASE Gate(w)
      BY <1>2, <2>2, GateSet, ControlFields DEF Gate, TypeOK
    <2>3. CASE FinalCheck(w)
      BY <1>2, <2>3, AdvanceSet DEF FinalCheck, MainPc, SubmitPc
    <2> QED BY <2>1, <2>2, <2>3
  <1>4. rows' = rows /\ exch' = exch /\ reserved' = reserved
    BY DEF CheckUnresolved, Gate, FinalCheck, dbVars, exVars
  <1>5. HandStep(main[w], rows[k], exch[k], main'[w], rows'[k], exch'[k])
    BY <1>1, <1>2, <1>3, <1>4 DEF HandStep, HandOf, BookOf, BeforePost, Known
  <1> QED BY <1>2, <1>3, <1>4, <1>5, SubmissionStep DEF OnlyCloses

(* Signing, whatever came of it: the exchange has seen nothing.             *)
LEMMA SignStep ==
    ASSUME TypeOK, Held, HandsOK, BookOK, NEW w \in Worker, Sign(w) \/ SignFails(w)
    PROVE  OrdersStep
  <1>1. main[w].pc = "sign" /\ main[w].pc \in SubmitPc
    BY DEF Sign, SignFails, SubmitPc
  <1> DEFINE k == main[w].i
  <1>2. /\ k \in Intent /\ k \in reserved
        /\ HandOf(main[w], rows[k], exch[k]) /\ BookOf(rows[k], exch[k])
        /\ main \in [Worker -> MainState] /\ main[w] \in MainState
        /\ rows[k].id \in BOOLEAN
    BY <1>1, InHand
  <1>3. /\ main'[w].i = k
        /\ \/ main'[w].pc = "mark" /\ main'[w].out = main[w].out
           \/ main'[w].pc = "esave" /\ main'[w].out = "error"
        /\ \A x \in Worker : x # w => main'[x] = main[x]
    <2>1. CASE Sign(w)
      BY <1>2, <2>1, AdvanceSet DEF Sign, MainPc, SubmitPc
    <2>2. CASE SignFails(w)
      BY <1>2, <2>2, ResultSet DEF SignFails, MainPc, SubmitPc, Outcome
    <2> QED BY <2>1, <2>2
  <1> DEFINE r == SignedRow(main[w].tok)
  <1>4. r.st = "signed" /\ r.id = FALSE
    BY <1>2, MainFields, SignedRowFields
  <1> HIDE DEF r
  <1>5. /\ rows' = rows \/ rows' = [rows EXCEPT ![k] = r]
        /\ exch' = exch /\ reserved' = reserved
    BY DEF Sign, SignFails, exVars, r
  <1>6. /\ rows'[k] = rows[k] \/ rows'[k] = r
        /\ \A j \in Intent : j # k => rows'[j] = rows[j]
    BY <1>2, <1>5 DEF TypeOK
  <1>7. HandStep(main[w], rows[k], exch[k], main'[w], rows'[k], exch'[k])
    BY <1>1, <1>2, <1>3, <1>4, <1>5, <1>6 DEF HandStep, HandOf, BookOf, BeforePost, Known
  <1> QED BY <1>2, <1>3, <1>5, <1>6, <1>7, SubmissionStep DEF OnlyCloses

(* The mark, whose reply may be lost.                                       *)
LEMMA MarkStep ==
    ASSUME TypeOK, Held, HandsOK, BookOK, NEW w \in Worker, Mark(w)
    PROVE  OrdersStep
  <1>1. main[w].pc = "mark" /\ main[w].pc \in SubmitPc
    BY DEF Mark, SubmitPc
  <1> DEFINE k == main[w].i
  <1>2. /\ k \in Intent /\ k \in reserved
        /\ HandOf(main[w], rows[k], exch[k]) /\ BookOf(rows[k], exch[k])
        /\ main \in [Worker -> MainState] /\ main[w] \in MainState
        /\ rows[k].id \in BOOLEAN /\ rows[k] \in OrderRow
    BY <1>1, InHand
  <1>3. /\ main'[w].i = k
        /\ \/ main'[w].pc = "final" /\ main'[w].out = main[w].out
           \/ main'[w].pc = "esave" /\ main'[w].out = "rejected"
        /\ \A x \in Worker : x # w => main'[x] = main[x]
    <2>1. CASE Advance(w, "final")
      BY <1>2, <2>1, AdvanceSet DEF MainPc, SubmitPc
    <2>2. CASE Result(w, "esave", "rejected")
      BY <1>2, <2>2, ResultSet DEF MainPc, SubmitPc, Outcome
    <2> QED BY <2>1, <2>2 DEF Mark
  <1>4. rows' = [rows EXCEPT ![k] = [rows[k] EXCEPT !.st = "submitting"]]
    BY DEF Mark
  <1>5. /\ rows'[k].st = "submitting" /\ rows'[k].id = rows[k].id
        /\ \A j \in Intent : j # k => rows'[j] = rows[j]
    <2>1. rows \in [Intent -> OrderRow] /\ "submitting" \in RowStatus
      BY DEF TypeOK, RowStatus
    <2> QED BY <1>2, <1>4, <2>1, RestatedRow
  <1>6. exch' = exch /\ reserved' = reserved /\ LiveArmed(ctl)
    BY DEF Mark, exVars, AuthorityCurrent
  <1>7. exch[k] = "none" /\ main[w].out = "none" /\ rows[k].id = FALSE
    BY <1>1, <1>2 DEF HandOf, BookOf, BeforePost, Sent
  <1>8. HandStep(main[w], rows[k], exch[k], main'[w], rows'[k], exch'[k])
    BY <1>3, <1>5, <1>6, <1>7 DEF HandStep, HandOf, BookOf, BeforePost, Known, Sent
  <1> QED BY <1>2, <1>3, <1>5, <1>6, <1>8, SubmissionStep DEF OnlyCloses

(* A refusal before the POST, and the POST itself.                          *)
LEMMA RejectStep ==
    ASSUME TypeOK, Held, HandsOK, BookOK, NEW w \in Worker, Reject(w)
    PROVE  OrdersStep
  <1>1. /\ main[w].pc \in {"check", "gate", "sign", "mark", "final"}
        /\ main[w].pc \in SubmitPc
    BY DEF Reject, SubmitPc
  <1> DEFINE k == main[w].i
  <1>2. /\ k \in Intent /\ k \in reserved
        /\ HandOf(main[w], rows[k], exch[k]) /\ BookOf(rows[k], exch[k])
        /\ main \in [Worker -> MainState] /\ main[w] \in MainState
    BY <1>1, InHand
  <1>3. /\ main'[w].i = k /\ main'[w].pc = "esave" /\ main'[w].out = "rejected"
        /\ \A x \in Worker : x # w => main'[x] = main[x]
    BY <1>2, ResultSet DEF Reject, MainPc, SubmitPc, Outcome
  <1>4. rows' = rows /\ exch' = exch /\ reserved' = reserved
    BY DEF Reject, dbVars, exVars
  <1>5. HandStep(main[w], rows[k], exch[k], main'[w], rows'[k], exch'[k])
    BY <1>1, <1>2, <1>3, <1>4 DEF HandStep, HandOf, BookOf, BeforePost, Known
  <1> QED BY <1>2, <1>3, <1>4, <1>5, SubmissionStep DEF OnlyCloses

(* The POST: the row of an order under way is "submitting".                 *)
LEMMA PostStep ==
    ASSUME TypeOK, Held, HandsOK, BookOK, NEW w \in Worker, Post(w)
    PROVE  OrdersStep
  <1>1. main[w].pc = "post" /\ main[w].pc \in SubmitPc
    BY DEF Post, SubmitPc
  <1> DEFINE k == main[w].i
  <1>2. /\ k \in Intent /\ k \in reserved
        /\ HandOf(main[w], rows[k], exch[k]) /\ BookOf(rows[k], exch[k])
        /\ main \in [Worker -> MainState] /\ main[w] \in MainState
    BY <1>1, InHand
  <1>3. /\ main'[w].i = k /\ main'[w].pc = "await" /\ main'[w].out = main[w].out
        /\ \A x \in Worker : x # w => main'[x] = main[x]
    BY <1>2, AdvanceSet DEF Post, MainPc, SubmitPc
  <1>4. /\ rows' = rows /\ reserved' = reserved
        /\ exch'[k] = "transit" /\ \A j \in Intent : j # k => exch'[j] = exch[j]
    BY <1>2 DEF Post, dbVars, TypeOK
  <1>5. HandStep(main[w], rows[k], exch[k], main'[w], rows'[k], exch'[k])
    BY <1>1, <1>2, <1>3, <1>4 DEF HandStep, HandOf, BookOf, BeforePost, Known, Limbo
  <1> QED BY <1>2, <1>3, <1>4, <1>5, SubmissionStep DEF OnlyCloses

(* The answer to the POST, or none.  A result that knows the order needs    *)
(* the arm, or comes with a cancel-all that leaves nothing resting.         *)
LEMMA AnswerStep ==
    ASSUME TypeOK, Held, HandsOK, BookOK, NEW w \in Worker,
           Refused(w) \/ Accepted(w) \/ Revoked(w) \/ AmbiguousPost(w)
    PROVE  OrdersStep
  <1>1. main[w].pc = "await" /\ main[w].pc \in SubmitPc
    BY DEF Refused, Accepted, Revoked, AmbiguousPost, SubmitPc
  <1> DEFINE k == main[w].i
  <1>2. /\ k \in Intent /\ k \in reserved
        /\ HandOf(main[w], rows[k], exch[k]) /\ BookOf(rows[k], exch[k])
        /\ main \in [Worker -> MainState] /\ main[w] \in MainState
    BY <1>1, InHand
  <1>3. rows' = rows /\ reserved' = reserved
    BY DEF Refused, Accepted, Revoked, AmbiguousPost, dbVars
  <1>4. \A j \in Intent : OnlyCloses(j)
    BY CancelCloses DEF Refused, Accepted, Revoked, AmbiguousPost, exVars, OnlyCloses
  <1>5. /\ main'[w].i = k /\ main'[w].pc \in {"save", "esave"}
        /\ main'[w].pc = "esave" => main'[w].out = "error"
        /\ main'[w].out \in {"rejected", "error"} \cup Known
        /\ main'[w].out = "rejected" => exch[k] = "refused"
        /\ main'[w].out \in Known => exch[k] \in Sent
        /\ main'[w].out \in Known =>
              LiveArmed(ctl) \/ SubmitterCancelMayFail \/ exch'[k] # "open"
        /\ \A x \in Worker : x # w => main'[x] = main[x]
    <2>0. /\ \A out \in Outcome, pc \in {"save", "esave"} : Result(w, pc, out) =>
                /\ main'[w].i = k /\ main'[w].pc = pc /\ main'[w].out = out
                /\ \A x \in Worker : x # w => main'[x] = main[x]
          /\ {"rejected", "accepted", "changed", "error"} \subseteq Outcome
          /\ "rejected" \notin Known /\ "error" \notin Known
          /\ "accepted" \in Known /\ "changed" \in Known
      <3>1. {"save", "esave"} \subseteq MainPc
        BY DEF MainPc, SubmitPc
      <3>2. ASSUME NEW out \in Outcome, NEW pc \in {"save", "esave"}, Result(w, pc, out)
            PROVE  /\ main'[w].i = k /\ main'[w].pc = pc /\ main'[w].out = out
                   /\ \A x \in Worker : x # w => main'[x] = main[x]
        <4>1. pc \in MainPc
          BY <3>1
        <4>2. main \in [Worker -> MainState]
          BY <1>2
        <4> HIDE DEF k
        <4> QED BY <3>2, <4>1, <4>2, ResultSet DEF k
      <3>3. /\ {"rejected", "accepted", "changed", "error"} \subseteq Outcome
            /\ "rejected" \notin Known /\ "error" \notin Known
            /\ "accepted" \in Known /\ "changed" \in Known
        BY DEF Outcome, Known
      <3> QED BY <3>2, <3>3
    <2>1. CASE Refused(w)
      <3>1. Result(w, "save", "rejected") /\ exch[k] = "refused"
        BY <2>1 DEF Refused
      <3> QED BY <2>0, <3>1
    <2>2. CASE Accepted(w)
      <3>1. Result(w, "save", "accepted") /\ exch[k] \in Sent /\ LiveArmed(ctl)
        BY <2>2 DEF Accepted, AuthorityCurrent, Sent
      <3> QED BY <2>0, <3>1
    <2>3. CASE Revoked(w)
      <3>1. Result(w, "save", "changed") /\ exch[k] \in Sent
        BY <2>3 DEF Revoked, Sent
      <3>2. SubmitterCancelMayFail \/ exch'[k] # "open"
        BY <1>2, <2>3, VerifiedCancel DEF Revoked
      <3> QED BY <2>0, <3>1, <3>2
    <2>4. CASE AmbiguousPost(w)
      <3>1. Result(w, "esave", "error")
        BY <2>4 DEF AmbiguousPost
      <3> QED BY <2>0, <3>1
    <2> QED BY <2>1, <2>2, <2>3, <2>4
  <1>6. OnlyCloses(k)
    BY <1>2, <1>4
  <1>7. HandStep(main[w], rows[k], exch[k], main'[w], rows'[k], exch'[k])
    <2>1. main'[w].i = k => HandOf(main'[w], rows'[k], exch'[k])
      BY <1>1, <1>2, <1>3, <1>5, <1>6 DEF HandOf, BeforePost, Sent, OnlyCloses, Known
    <2>2. BookOf(rows'[k], exch'[k])
      BY <1>2, <1>3, <1>6 DEF BookOf, Sent, OnlyCloses
    <2> QED BY <1>3, <1>5, <1>6, <2>1, <2>2 DEF HandStep, OnlyCloses
  <1> QED BY <1>2, <1>3, <1>4, <1>5, <1>7, SubmissionStep

(* What save_execution makes of a result: no order comes under way, an id   *)
(* needs a result that knows it, and a result without one leaves an         *)
(* unresolved order unresolved.                                             *)
LEMMA SaveOutcome ==
    ASSUME TypeOK, NEW w \in Worker, main[w].i \in Intent, NEW old \in RowStatus,
           rows' = Saved(w, old)
    PROVE  /\ \A j \in Intent : j # main[w].i => rows'[j] = rows[j]
           /\ rows'[main[w].i].st # "submitting"
           /\ rows'[main[w].i].id \in BOOLEAN
           /\ rows'[main[w].i].id = TRUE =>
                 rows[main[w].i].id = TRUE \/ main[w].out \in Known
           /\ old \in Limbo /\ main[w].out \notin Known /\ main[w].out # "rejected"
                 => rows'[main[w].i].st = "unknown"
  <1> DEFINE m == main[w]
  <1> DEFINE st == IncomingStatus(m.out)
  <1> DEFINE id == m.out \in {"accepted", "lost", "changed"}
  <1> DEFINE r == SavedRow(rows[m.i], old, st, id)
  <1>1. m.out \in Outcome /\ rows[m.i] \in OrderRow
    BY MainFields DEF TypeOK
  <1>2. /\ st \in {"submitted", "rejected", "unknown"}
        /\ m.out \notin Known /\ m.out # "rejected" => st = "unknown"
    BY <1>1 DEF IncomingStatus, Outcome, Known
  <1>3. /\ TransitionAllowed("submitting", st)
        /\ old \in Limbo => TransitionAllowed(old, st)
    <2>1. /\ "submitting" \in Early \ {"submitted"} /\ Limbo \subseteq Early \ {"submitted"}
      BY DEF Early, Limbo
    <2>2. \A c \in Early \ {"submitted"} : TransitionAllowed(c, st)
      BY DEF TransitionAllowed
    <2> QED BY <2>1, <2>2
  <1>4. st \in RowStatus /\ id \in BOOLEAN /\ (id <=> m.out \in Known)
    BY <1>2 DEF RowStatus, Known
  <1> HIDE DEF st, id
  <1>5. /\ r.st = (IF TransitionAllowed(old, st) THEN st ELSE old)
        /\ r.id = (rows[m.i].id \/ id) /\ r \in OrderRow
    <2>1. rows[m.i] \in OrderRow /\ st \in RowStatus /\ id \in BOOLEAN
      BY <1>1, <1>4
    <2> DEFINE x == rows[m.i]
    <2> HIDE DEF x, m
    <2>2. /\ SavedRow(x, old, st, id) \in OrderRow
          /\ SavedRow(x, old, st, id).st
                = IF TransitionAllowed(old, st) THEN st ELSE old
          /\ SavedRow(x, old, st, id).id = (x.id \/ id)
      BY <2>1, SavedRowFields DEF x
    <2> QED BY <2>2 DEF x
  <1>6. r.st # "submitting"
    BY <1>2, <1>3, <1>5
  <1>7. r.id \in BOOLEAN /\ (r.id = TRUE => rows[m.i].id = TRUE \/ id)
    BY <1>1, <1>4, <1>5, RowFields
  <1> HIDE DEF r
  <1>8. rows'[m.i] = r /\ \A i \in Intent : i # m.i => rows'[i] = rows[i]
    BY SavedType DEF r, st, id
  <1> QED BY <1>2, <1>3, <1>4, <1>5, <1>6, <1>7, <1>8

(* The broker's save.                                                       *)
LEMMA BrokerSaveStep ==
    ASSUME TypeOK, Held, HandsOK, BookOK, NEW w \in Worker, BrokerSave(w)
    PROVE  OrdersStep
  <1>1. main[w].pc = "save" /\ main[w].pc \in SubmitPc
    BY DEF BrokerSave, SubmitPc
  <1> DEFINE k == main[w].i
  <1>2. /\ k \in Intent /\ k \in reserved
        /\ HandOf(main[w], rows[k], exch[k]) /\ BookOf(rows[k], exch[k])
        /\ main \in [Worker -> MainState] /\ main[w] \in MainState
        /\ rows[k].id \in BOOLEAN /\ rows[k].st \in RowStatus
    BY <1>1, InHand
  <1>3. rows[k].st = "submitting" /\ rows[k].id = FALSE
    BY <1>1, <1>2 DEF HandOf
  <1>4. /\ \/ rows' = rows
           \/ rows' = Saved(w, rows[k].st)
        /\ exch' = exch /\ reserved' = reserved
    BY DEF BrokerSave, exVars
  <1>5. /\ main'[w].i = k /\ main'[w].pc = "esave"
        /\ main'[w].out \in Known => main[w].out \in Known
        /\ main'[w].out = "rejected" => main[w].out = "rejected"
        /\ \A x \in Worker : x # w => main'[x] = main[x]
    <2>1. "esave" \in MainPc /\ main[w].out \in Outcome /\ {"lost", "error"} \subseteq Outcome
      BY <1>2, MainFields DEF MainPc, SubmitPc, Outcome
    <2>2. CASE Advance(w, "esave")
      BY <1>2, <2>1, <2>2, AdvanceSet
    <2>3. CASE Result(w, "esave", CASE main[w].out = "accepted" -> "lost"
                                    [] main[w].out = "rejected" -> "error"
                                    [] OTHER                    -> main[w].out)
      <3> DEFINE out == CASE main[w].out = "accepted" -> "lost"
                          [] main[w].out = "rejected" -> "error"
                          [] OTHER                    -> main[w].out
      <3>1. /\ out \in Outcome
            /\ out \in Known => main[w].out \in Known
            /\ out = "rejected" => main[w].out = "rejected"
        BY <2>1 DEF Known
      <3> HIDE DEF out
      <3>2. Result(w, "esave", out)
        BY <2>3 DEF out
      <3> QED BY <1>2, <2>1, <3>1, <3>2, ResultSet
    <2> QED BY <2>2, <2>3 DEF BrokerSave
  <1>6. /\ \A j \in Intent : j # k => rows'[j] = rows[j]
        /\ \/ rows'[k] = rows[k]
           \/ /\ rows'[k].st # "submitting" /\ rows'[k].id \in BOOLEAN
              /\ rows'[k].id = TRUE => main[w].out \in Known
              /\ main[w].out \notin Known /\ main[w].out # "rejected"
                    => rows'[k].st = "unknown"
    <2>1. CASE rows' = rows
      BY <2>1
    <2>2. CASE rows' = Saved(w, rows[k].st)
      <3>1. rows[k].st \in Limbo
        BY <1>3 DEF Limbo
      <3> QED BY <1>2, <1>3, <2>2, <3>1, SaveOutcome
    <2> QED BY <1>4, <2>1, <2>2
  <1>7. /\ main[w].out \in Known => exch[k] \in Sent
        /\ main[w].out = "rejected" => exch[k] \in {"none", "refused"}
    BY <1>2 DEF HandOf
  <1>8. HandOf(main'[w], rows'[k], exch'[k])
    BY <1>4, <1>5, <1>7 DEF HandOf, BeforePost
  <1>9. BookOf(rows'[k], exch'[k])
    BY <1>2, <1>3, <1>4, <1>6, <1>7 DEF BookOf, Limbo, Sent
  <1>10. HandStep(main[w], rows[k], exch[k], main'[w], rows'[k], exch'[k])
    BY <1>3, <1>4, <1>5, <1>6, <1>7, <1>8, <1>9 DEF HandStep, Limbo
  <1> QED BY <1>2, <1>4, <1>5, <1>6, <1>10, SubmissionStep DEF OnlyCloses

(* The engine reads the row ...                                             *)
LEMMA EngineSaveStep ==
    ASSUME TypeOK, Held, HandsOK, BookOK, NEW w \in Worker, EngineSave(w)
    PROVE  OrdersStep
  <1>1. main[w].pc = "esave" /\ main[w].pc \in SubmitPc
    BY DEF EngineSave, SubmitPc
  <1> DEFINE k == main[w].i
  <1>2. /\ k \in Intent /\ k \in reserved
        /\ HandOf(main[w], rows[k], exch[k]) /\ BookOf(rows[k], exch[k])
        /\ main \in [Worker -> MainState] /\ main[w] \in MainState
        /\ rows[k].st \in RowStatus
    BY <1>1, InHand
  <1>3. /\ main'[w].i = k /\ main'[w].pc = "ewrite" /\ main'[w].out = main[w].out
        /\ main'[w].old = rows[k].st
        /\ \A x \in Worker : x # w => main'[x] = main[x]
    BY <1>2, ReadSet DEF EngineSave
  <1>4. rows' = rows /\ exch' = exch /\ reserved' = reserved
    BY DEF EngineSave, dbVars, exVars
  <1>5. HandStep(main[w], rows[k], exch[k], main'[w], rows'[k], exch'[k])
    BY <1>1, <1>2, <1>3, <1>4 DEF HandStep, HandOf, BookOf, BeforePost, Known
  <1> QED BY <1>2, <1>3, <1>4, <1>5, SubmissionStep DEF OnlyCloses

(* ... and writes it back.                                                  *)
LEMMA EngineWriteStep ==
    ASSUME TypeOK, Held, HandsOK, BookOK, NEW w \in Worker, EngineWrite(w)
    PROVE  OrdersStep
  <1>1. main[w].pc = "ewrite" /\ main[w].pc \in SubmitPc
    BY DEF EngineWrite, SubmitPc
  <1> DEFINE k == main[w].i
  <1>2. /\ k \in Intent /\ k \in reserved
        /\ HandOf(main[w], rows[k], exch[k]) /\ BookOf(rows[k], exch[k])
        /\ main \in [Worker -> MainState] /\ main[w] \in MainState
        /\ rows[k].id \in BOOLEAN /\ main[w].old \in RowStatus
    BY <1>1, InHand, MainFields
  <1>3. /\ main'[w].i = NoIntent /\ NoIntent # k
        /\ \A x \in Worker : x # w => main'[x] = main[x]
    BY <1>2, MainSet, RestStates, LiveAssumption DEF EngineWrite
  <1>4. /\ rows' = rows \/ rows' = Saved(w, main[w].old)
        /\ exch' = exch /\ reserved' = reserved
    BY DEF EngineWrite, exVars
  <1>5. /\ \A j \in Intent : j # k => rows'[j] = rows[j]
        /\ \/ rows'[k] = rows[k]
           \/ /\ rows'[k].st # "submitting" /\ rows'[k].id \in BOOLEAN
              /\ rows'[k].id = TRUE => rows[k].id = TRUE \/ main[w].out \in Known
              /\ /\ main[w].old \in Limbo
                 /\ main[w].out \notin Known /\ main[w].out # "rejected"
                 => rows'[k].st = "unknown"
    <2>1. CASE rows' = rows
      BY <2>1
    <2>2. CASE rows' = Saved(w, main[w].old)
      BY <1>2, <2>2, SaveOutcome
    <2> QED BY <1>4, <2>1, <2>2
  <1>6. /\ main[w].out \in Known => exch[k] \in Sent
        /\ main[w].out = "rejected" => exch[k] \in {"none", "refused"}
        /\ rows[k].id = FALSE => main[w].old = rows[k].st
    BY <1>1, <1>2 DEF HandOf
  <1>7. BookOf(rows'[k], exch'[k])
    BY <1>2, <1>4, <1>5, <1>6 DEF BookOf, Limbo, Sent
  <1>8. HandStep(main[w], rows[k], exch[k], main'[w], rows'[k], exch'[k])
    BY <1>3, <1>4, <1>5, <1>6, <1>7 DEF HandStep, Limbo
  <1> QED BY <1>2, <1>3, <1>4, <1>5, <1>8, SubmissionStep DEF OnlyCloses

(* Every step of a submission.                                              *)
LEMMA SubmitOrders ==
    ASSUME TypeOK, Held, HandsOK, BookOK, NEW w \in Worker, SubmitStep(w)
    PROVE  OrdersStep
  BY ReserveStep, CheckedStep, SignStep, MarkStep, RejectStep, PostStep, AnswerStep,
     BrokerSaveStep, EngineSaveStep, EngineWriteStep DEF SubmitStep

-----------------------------------------------------------------------------
(* The other steps, as far as orders are concerned. *)

(* The exchange takes a request: its row is unresolved and without an id,   *)
(* and nobody has a result that knows the order.                            *)
LEMMA LandStep ==
    ASSUME TypeOK, Held, HandsOK, BookOK, NEW i \in Intent, Land(i)
    PROVE  OrdersStep
  <1>1. /\ exch[i] = "transit" /\ exch'[i] \in {"open", "refused"}
        /\ \A j \in Intent : j # i => exch'[j] = exch[j]
    BY DEF Land, TypeOK
  <1>2. rows' = rows /\ main' = main /\ reserved' = reserved
    BY DEF Land, dbVars
  <1>3. rows[i].st \in Limbo /\ rows[i].id # TRUE
    BY <1>1 DEF BookOK, BookOf, Sent
  <1>4. \A x \in Worker : main[x].i = i =>
           /\ main[x].out \notin Known /\ main[x].out # "rejected"
           /\ main[x].pc \notin BeforePost
    BY <1>1 DEF HandsOK, HandOf, Sent
  <1>5. HandsOK'
    BY <1>1, <1>2, <1>4 DEF HandsOK, HandOf
  <1>6. BookOK'
    BY <1>1, <1>2, <1>3 DEF BookOK, BookOf
  <1>7. Passage
    BY <1>1, <1>2 DEF Passage, Undecided
  <1> QED BY <1>5, <1>6, <1>7 DEF OrdersStep

(* The reconciler moves only rows with an exchange id.                      *)
LEMMA ReconcileStep ==
    ASSUME TypeOK, Held, HandsOK, BookOK, NEW w \in Worker, NEW i \in Intent,
           ReconcileOrder(w, i)
    PROVE  OrdersStep
  <1>1. PICK st \in {"working", "closed"} : rows' = [rows EXCEPT ![i].st = st]
    BY DEF ReconcileOrder
  <1> DEFINE r == [rows[i] EXCEPT !.st = st]
  <1>2. rows[i] \in OrderRow /\ st \in RowStatus /\ st # "submitting"
    BY DEF TypeOK, RowStatus
  <1>3. r.st = st /\ r.id = rows[i].id
    BY <1>2, RestatedRow
  <1>4. rows' = [rows EXCEPT ![i] = r]
    BY <1>1
  <1> HIDE DEF r
  <1>5. /\ rows'[i].id = rows[i].id /\ rows'[i].st # "submitting"
        /\ \A j \in Intent : j # i => rows'[j] = rows[j]
    BY <1>2, <1>3, <1>4 DEF TypeOK
  <1>6. rows[i].id = TRUE
    BY <1>2, RowFields DEF ReconcileOrder
  <1>7. main' = main /\ exch' = exch /\ reserved' = reserved
    BY DEF ReconcileOrder, exVars
  <1>8. exch[i] \in Sent
    BY <1>6 DEF BookOK, BookOf
  <1>9. HandsOK'
    <2> SUFFICES ASSUME NEW x \in Worker, main[x].i \in Intent
                 PROVE  HandOf(main[x], rows'[main[x].i], exch[main[x].i])
      BY <1>7 DEF HandsOK
    <2>1. HandOf(main[x], rows[main[x].i], exch[main[x].i])
      BY DEF HandsOK
    <2>2. CASE main[x].i = i
      BY <1>5, <1>6, <2>1, <2>2 DEF HandOf
    <2>3. CASE main[x].i # i
      BY <1>5, <2>1, <2>3
    <2> QED BY <2>2, <2>3
  <1>10. BookOK'
    BY <1>5, <1>7, <1>8 DEF BookOK, BookOf, Sent
  <1>11. Passage
    BY <1>5, <1>6, <1>7 DEF Passage, Undecided
  <1> QED BY <1>9, <1>10, <1>11 DEF OrdersStep

(* The exchange, the clocks and the operator.                               *)
LEMMA EnvironmentOrders ==
    ASSUME TypeOK, Held, HandsOK, BookOK, Environment
    PROVE  OrdersStep
  <1>1. ASSUME NEW i \in Intent, Close(i) PROVE OrdersStep
    <2>1. /\ \A j \in Intent : OnlyCloses(j)
          /\ rows' = rows /\ reserved' = reserved /\ main' = main
      BY <1>1 DEF Close, dbVars, TypeOK, OnlyCloses
    <2> QED BY <2>1, RestStep
  <1>2. CASE LeaseLapses \/ ArmLapses \/ Pause \/ Resume
    <2>1. /\ \A j \in Intent : OnlyCloses(j)
          /\ rows' = rows /\ reserved' = reserved /\ main' = main
      BY <1>2 DEF LeaseLapses, ArmLapses, Pause, Resume, exVars, OnlyCloses
    <2> QED BY <2>1, RestStep
  <1> QED BY <1>1, <1>2, LandStep DEF Environment

(* Nobody else writes rows or takes an intent.                              *)
LEMMA OtherOrders ==
    ASSUME TypeOK, Held, HandsOK, BookOK, NEW w \in Worker,
           \/ ClaimLease(w) \/ LoseLease(w)
           \/ LoopStep(w) \/ WatchStep(w) \/ ShutdownStep(w)
    PROVE  OrdersStep
  <1>1. CASE ClaimLease(w) \/ LoseLease(w) \/ WatchStep(w)
    <2>1. rows' = rows /\ reserved' = reserved /\ main' = main
      BY <1>1 DEF ClaimLease, LoseLease, WatchStep, WatchObserve, WatchLatch, WatchCancel,
                  WatchAck, WatchFails, dbVars
    <2>2. CancelVerified \/ CancelFailed
      BY <1>1 DEF ClaimLease, LoseLease, WatchStep, WatchObserve, WatchLatch, WatchCancel,
                  WatchAck, WatchFails, exVars, CancelFailed
    <2> QED BY <2>1, <2>2, CancelCloses, RestStep
  <1>2. CASE LoopStep(w) \/ ShutdownStep(w)
    <2>1. Drops(w) \/ main' = main
      BY <1>2, LoopTypes, ShutdownTypes
    <2>2. \A x \in Worker : main'[x] = main[x] \/ main'[x].i = NoIntent
      BY <2>1 DEF Drops
    <2>3. rows' = rows /\ reserved' = reserved
      BY <1>2 DEF LoopStep, StartCycle, PrepareCycle, EndCycle, HaltCycle, PauseLive,
           HaltWorker, EngineStop, StopCancel, StopAck, dbVars,
           ShutdownStep, StopRequested, Shutdown, ShutdownCancel,
           ShutdownValidate, ShutdownAck, ShutdownRelease, Crash
    <2>4. CancelVerified \/ CancelFailed
      BY <1>2 DEF LoopStep, StartCycle, PrepareCycle, EndCycle, HaltCycle, PauseLive,
           HaltWorker, EngineStop, StopCancel, StopAck, exVars, CancelFailed,
           ShutdownStep, StopRequested, Shutdown, ShutdownCancel,
           ShutdownValidate, ShutdownAck, ShutdownRelease, Crash
    <2> QED BY <2>2, <2>3, <2>4, CancelCloses, RestStep
  <1> QED BY <1>1, <1>2

-----------------------------------------------------------------------------
(* The control row. *)

(* An account that was armed once, or has a cancellation pending, is a      *)
(* real-money account for good.                                             *)
ControlOK == ctl.armed = TRUE \/ ctl.pend = TRUE => ctl.real = TRUE

(* The watcher's acknowledgement, and the steps of the main loop between a  *)
(* verified cancel-all and its acknowledgement.                             *)
AfterCancel == {"stopAck", "sdValidate", "sdAck"}

(* This worker carried out the cancellation latched at the current version. *)
Cancelled(w) ==
    \/ watch[w].pc = "ack" /\ watch[w].seen = ctl.ver
    \/ main[w].pc \in AfterCancel /\ main[w].ver = ctl.ver

SameControl ==
    /\ ctl'.armed = ctl.armed /\ ctl'.pend = ctl.pend
    /\ ctl'.real = ctl.real /\ ctl'.ver = ctl.ver

(* A new version is armed or has a cancellation pending.                    *)
NewVersion ==
    /\ ctl'.ver = ctl.ver + 1
    /\ ctl'.armed = TRUE \/ ctl'.pend = TRUE
    /\ ctl'.real = TRUE

(* An acknowledgement: of the cancellation of the current version, in an    *)
(* account without unresolved orders.                                       *)
AckStep ==
    /\ ctl' = Acknowledged(ctl)
    /\ ctl.pend = TRUE /\ ctl.armed = FALSE /\ ~Unresolved(rows)
    /\ \E w \in Worker : Cancelled(w)
    /\ rows' = rows /\ exch' = exch

ControlStep == SameControl \/ NewVersion \/ AckStep

(* The rows that the functions of AccountGate write.                        *)
LEMMA WrittenControls ==
    ASSUME NEW c \in Control
    PROVE  /\ Armed(c).armed = TRUE /\ Armed(c).real = TRUE /\ Armed(c).ver = c.ver + 1
           /\ Disarmed(c).armed = FALSE /\ Disarmed(c).pend = TRUE
           /\ Disarmed(c).real = TRUE /\ Disarmed(c).ver = c.ver + 1
           /\ Expired(c).armed = FALSE /\ Expired(c).pend = TRUE
           /\ Expired(c).real = c.real /\ Expired(c).ver = c.ver + 1
           /\ Acknowledged(c).armed = c.armed /\ Acknowledged(c).pend = FALSE
           /\ Acknowledged(c).real = c.real /\ Acknowledged(c).ver = c.ver + 1
  BY DEF Control, Armed, Disarmed, Expired, Acknowledged

(* A pause leaves a stopped account alone or leaves a cancellation pending: *)
(* an account in which nothing is to be cancelled was never armed.          *)
LEMMA PausedStep ==
    ASSUME TypeOK, ControlOK, ctl' = PausedControl(ctl)
    PROVE  SameControl \/ (NewVersion /\ ctl'.armed = FALSE)
  <1>1. ctl \in Control
    BY DEF TypeOK
  <1>2. CASE ctl' = ctl
    BY <1>2 DEF SameControl
  <1>3. CASE /\ ctl.armed \/ ctl.pend # ctl.real
             /\ ctl' = [armed |-> FALSE, fresh |-> FALSE, pend |-> ctl.real,
                        real |-> ctl.real, ver |-> ctl.ver + 1]
    <2>1. ctl.real = TRUE
      BY <1>1, <1>3, ControlFields DEF ControlOK
    <2> QED BY <1>3, <2>1 DEF NewVersion
  <1> QED BY <1>2, <1>3 DEF PausedControl

(* Disarming and expiring start a version with a pending cancellation.      *)
LEMMA DisarmStep ==
    ASSUME TypeOK, ControlOK,
           \/ ctl' = Disarmed(ctl)
           \/ ExpireAllowed(ctl) /\ ctl' = Expired(ctl)
    PROVE  NewVersion /\ ctl'.armed = FALSE
  <1>1. ctl \in Control
    BY DEF TypeOK
  <1>2. CASE ctl' = Disarmed(ctl)
    <2>1. /\ Disarmed(ctl).armed = FALSE /\ Disarmed(ctl).pend = TRUE
          /\ Disarmed(ctl).real = TRUE /\ Disarmed(ctl).ver = ctl.ver + 1
      BY <1>1, WrittenControls
    <2> QED BY <1>2, <2>1 DEF NewVersion
  <1>3. CASE ExpireAllowed(ctl) /\ ctl' = Expired(ctl)
    <2>1. /\ Expired(ctl).armed = FALSE /\ Expired(ctl).pend = TRUE
          /\ Expired(ctl).real = ctl.real /\ Expired(ctl).ver = ctl.ver + 1
      BY <1>1, WrittenControls
    <2>2. ctl.armed = TRUE
      BY <1>1, <1>3, ControlFields DEF ExpireAllowed
    <2> QED BY <1>3, <2>1, <2>2 DEF NewVersion, ControlOK
  <1> QED BY <1>2, <1>3

(* Whatever the control row does keeps it a real-money account.             *)
LEMMA ControlKept ==
    ASSUME TypeOK, ControlOK, ControlStep
    PROVE  ControlOK' /\ ctl'.ver >= ctl.ver
  <1>1. ctl \in Control /\ ctl.ver \in Nat
    BY ControlFields DEF TypeOK
  <1>2. CASE SameControl
    BY <1>1, <1>2 DEF SameControl, ControlOK
  <1>3. CASE NewVersion
    BY <1>1, <1>3 DEF NewVersion, ControlOK
  <1>4. CASE AckStep
    <2>1. ctl'.real = ctl.real /\ ctl'.ver = ctl.ver + 1
      BY <1>1, <1>4, WrittenControls DEF AckStep
    <2> QED BY <1>1, <1>4, <2>1 DEF AckStep, ControlOK
  <1> QED BY <1>2, <1>3, <1>4 DEF ControlStep

-----------------------------------------------------------------------------
(* What the workers remember. *)

(* Nobody knows a control version that was not written yet.                 *)
VersionsIssued ==
    \A w \in Worker : main[w].ver <= ctl.ver /\ watch[w].seen <= ctl.ver

(* A process that shuts down does not run.                                  *)
Stopping == {"sdCancel", "sdValidate", "sdAck", "sdRelease"}

StopOK == \A w \in Worker : main[w].pc \in Stopping => proc[w] # "run"

(* This worker is about to hand back the lease that it still owns.          *)
OwnsStop(w) == main[w].pc = "sdRelease" /\ lease.owner = w /\ lease.token = tok[w]

NothingOpen == \A i \in Intent : exch[i] # "open"

(* A worker comes to its acknowledgement only by a verified cancel-all.     *)
CancelStep ==
    \A x \in Worker :
        /\ watch'[x].pc = "ack" =>
              (watch[x].pc = "ack" /\ watch'[x].seen = watch[x].seen) \/ NothingOpen'
        /\ main'[x].pc \in AfterCancel =>
              (main[x].pc \in AfterCancel /\ main'[x].ver = main[x].ver) \/ NothingOpen'

(* A worker comes to its release only by an acknowledgement, and nobody     *)
(* arms the account while it owns the lease.                                *)
ReleaseStep ==
    \A x \in Worker : OwnsStop(x)' =>
        \/ OwnsStop(x) /\ (ctl'.armed = TRUE => ctl.armed = TRUE)
        \/ ctl'.armed = FALSE /\ ctl'.pend = FALSE

MemoryStep == VersionsIssued' /\ CancelStep /\ StopOK' /\ ReleaseStep

(* Versions only grow.                                                      *)
LEMMA OldVersions ==
    ASSUME TypeOK, VersionsIssued, ctl'.ver \in Nat, ctl'.ver >= ctl.ver
    PROVE  \A w \in Worker : main[w].ver <= ctl'.ver /\ watch[w].seen <= ctl'.ver
  <1>1. \A w \in Worker : main[w].ver \in Nat /\ watch[w].seen \in Nat /\ ctl.ver \in Nat
    BY MainFields, WatchFields, ControlFields DEF TypeOK
  <1> QED BY <1>1 DEF VersionsIssued

(* A step in which one worker takes part, or none.                          *)
LEMMA WorkerStep ==
    ASSUME TypeOK, VersionsIssued, StopOK, NEW w \in Worker,
           SameLease, ctl'.ver \in Nat, ctl'.ver >= ctl.ver,
           \A x \in Worker : x # w => /\ main'[x] = main[x] /\ watch'[x] = watch[x]
                                      /\ proc'[x] = proc[x] /\ tok'[x] = tok[x],
           main'[w].ver <= ctl'.ver, watch'[w].seen <= ctl'.ver,
           main'[w].pc \in AfterCancel =>
              (main[w].pc \in AfterCancel /\ main'[w].ver = main[w].ver) \/ NothingOpen',
           watch'[w].pc = "ack" =>
              (watch[w].pc = "ack" /\ watch'[w].seen = watch[w].seen) \/ NothingOpen',
           main'[w].pc \in Stopping => proc'[w] # "run",
           main'[w].pc = "sdRelease" =>
              \/ main[w].pc = "sdRelease" /\ tok'[w] = tok[w]
              \/ ctl'.armed = FALSE /\ ctl'.pend = FALSE,
           \/ ctl'.armed = TRUE => ctl.armed = TRUE
           \/ lease.owner = w /\ main'[w].pc # "sdRelease"
    PROVE  MemoryStep
  <1>1. VersionsIssued'
    BY OldVersions DEF VersionsIssued
  <1>2. CancelStep
    BY DEF CancelStep
  <1>3. StopOK'
    BY DEF StopOK
  <1>4. ReleaseStep
    <2> SUFFICES ASSUME NEW x \in Worker, OwnsStop(x)'
                 PROVE  \/ OwnsStop(x) /\ (ctl'.armed = TRUE => ctl.armed = TRUE)
                        \/ ctl'.armed = FALSE /\ ctl'.pend = FALSE
      BY DEF ReleaseStep
    <2>1. CASE x = w
      BY <2>1 DEF OwnsStop, SameLease
    <2>2. CASE x # w
      BY <2>2 DEF OwnsStop, SameLease
    <2> QED BY <2>1, <2>2
  <1> QED BY <1>1, <1>2, <1>3, <1>4 DEF MemoryStep

(* The control row did not change.                                          *)
LEMMA ControlRests ==
    ASSUME TypeOK, ctl' = ctl
    PROVE  SameControl /\ ctl'.ver \in Nat /\ ctl'.ver >= ctl.ver
  <1>1. ctl.ver \in Nat
    BY ControlFields DEF TypeOK
  <1> QED BY <1>1 DEF SameControl

(* It has a new version that is not armed.                                  *)
LEMMA ControlDisarmed ==
    ASSUME TypeOK, NewVersion
    PROVE  ctl'.ver \in Nat /\ ctl'.ver >= ctl.ver /\ ctl'.ver = ctl.ver + 1
  <1>1. ctl.ver \in Nat
    BY ControlFields DEF TypeOK
  <1> QED BY <1>1 DEF NewVersion

(* A cancellation was acknowledged.                                         *)
LEMMA ControlAcknowledged ==
    ASSUME TypeOK, NEW w \in Worker, Cancelled(w), NEW v, v = ctl.ver,
           AckAllowed(ctl, rows, v), ctl' = Acknowledged(ctl), rows' = rows, exch' = exch
    PROVE  /\ AckStep /\ ctl'.ver \in Nat /\ ctl'.ver >= ctl.ver
           /\ ctl'.armed = FALSE /\ ctl'.pend = FALSE
  <1>1. ctl \in Control /\ ctl.ver \in Nat
    BY ControlFields DEF TypeOK
  <1>2. /\ ctl'.armed = ctl.armed /\ ctl'.pend = FALSE /\ ctl'.ver = ctl.ver + 1
    BY <1>1, WrittenControls
  <1>3. ctl.pend = TRUE /\ ctl.armed = FALSE /\ ~Unresolved(rows)
    BY <1>1, ControlFields DEF AckAllowed
  <1> QED BY <1>1, <1>2, <1>3 DEF AckStep

(* The exchange, the clocks and the operator.                               *)
LEMMA EnvironmentMemory ==
    ASSUME TypeOK, ControlOK, VersionsIssued, StopOK, Environment
    PROVE  ControlStep /\ MemoryStep
  <1>1. /\ main' = main /\ watch' = watch /\ proc' = proc /\ tok' = tok
    BY DEF Environment, Land, Close, LeaseLapses, ArmLapses, Pause, Resume, taskVars
  <1>2. SameLease
    <2>1. CASE LeaseLapses
      <3>1. lease \in Lease /\ lease' = [lease EXCEPT !.live = FALSE]
        BY <2>1 DEF LeaseLapses, TypeOK
      <3> QED BY <3>1 DEF SameLease, Lease
    <2>2. CASE lease' = lease
      BY <2>2 DEF SameLease
    <2> QED BY <2>1, <2>2 DEF Environment, Land, Close, ArmLapses, Pause, Resume, dbVars
  <1>3. /\ SameControl \/ (NewVersion /\ ctl'.armed = FALSE)
        /\ ctl'.ver \in Nat /\ ctl'.ver >= ctl.ver
    <2>1. CASE ctl' = ctl
      BY <2>1, ControlRests
    <2>2. CASE ArmLapses
      <3>1. ctl \in Control /\ ctl' = [ctl EXCEPT !.fresh = FALSE]
        BY <2>2 DEF ArmLapses, TypeOK
      <3> QED BY <3>1 DEF SameControl, Control
    <2>3. CASE Pause
      <3>1. SameControl \/ (NewVersion /\ ctl'.armed = FALSE)
        BY <2>3, PausedStep DEF Pause
      <3>2. ctl.ver \in Nat
        BY ControlFields DEF TypeOK
      <3> QED BY <3>1, <3>2 DEF SameControl, NewVersion
    <2> QED BY <2>1, <2>2, <2>3 DEF Environment, Land, Close, LeaseLapses, Resume, dbVars
  <1>4. ctl'.armed = TRUE => ctl.armed = TRUE
    BY <1>3 DEF SameControl
  <1>5. VersionsIssued'
    BY <1>1, <1>3, OldVersions DEF VersionsIssued
  <1>6. MemoryStep
    BY <1>1, <1>2, <1>4, <1>5
       DEF MemoryStep, CancelStep, StopOK, ReleaseStep, OwnsStop, SameLease
  <1> QED BY <1>3, <1>6 DEF ControlStep

(* The heartbeat: a process that claims the lease does not shut down.       *)
LEMMA LeaseMemory ==
    ASSUME TypeOK, ControlOK, VersionsIssued, StopOK, NEW w \in Worker,
           ClaimLease(w) \/ LoseLease(w)
    PROVE  ControlStep /\ MemoryStep
  <1>1. /\ main' = main /\ watch' = watch /\ proc' = proc /\ ctl' = ctl
        /\ proc[w] = "run" /\ \A x \in Worker : x # w => tok'[x] = tok[x]
    BY DEF ClaimLease, LoseLease, dbVars, TypeOK
  <1>2. lease' = lease \/ lease'.owner = w
    BY DEF ClaimLease, LoseLease, Claimed, dbVars
  <1>3. main[w].pc # "sdRelease"
    BY <1>1 DEF StopOK, Stopping
  <1>4. VersionsIssued' /\ CancelStep /\ StopOK'
    BY <1>1 DEF VersionsIssued, CancelStep, StopOK
  <1>5. ReleaseStep
    BY <1>1, <1>2, <1>3 DEF ReleaseStep, OwnsStop
  <1> QED BY <1>1, <1>4, <1>5, ControlRests DEF ControlStep, MemoryStep

(* The reconciler.                                                          *)
LEMMA ReconcileMemory ==
    ASSUME TypeOK, VersionsIssued, StopOK, NEW w \in Worker, NEW i \in Intent,
           ReconcileOrder(w, i)
    PROVE  ControlStep /\ MemoryStep
  <1>1. /\ main' = main /\ watch' = watch /\ proc' = proc /\ ctl' = ctl
        /\ tok' = tok /\ lease' = lease
    BY DEF ReconcileOrder, taskVars
  <1>2. MemoryStep
    BY <1>1 DEF MemoryStep, VersionsIssued, CancelStep, StopOK, ReleaseStep, OwnsStop
  <1> QED BY <1>1, <1>2, ControlRests DEF ControlStep

(* A step of a main loop that goes neither to an acknowledgement nor to a   *)
(* shutdown.                                                                *)
LEMMA LoopRests ==
    ASSUME TypeOK, VersionsIssued, StopOK, NEW w \in Worker,
           watch' = watch, tok' = tok, lease' = lease,
           \A x \in Worker : x # w => main'[x] = main[x] /\ proc'[x] = proc[x],
           ctl'.ver \in Nat, ctl'.ver >= ctl.ver, main'[w].ver <= ctl'.ver,
           main'[w].pc \notin AfterCancel \cup Stopping,
           (ctl'.armed = TRUE => ctl.armed = TRUE) \/ lease.owner = w
    PROVE  MemoryStep
  <1>1. SameLease /\ watch'[w].seen <= ctl'.ver
    BY OldVersions DEF SameLease
  <1>2. main'[w].pc # "sdRelease"
    BY DEF Stopping
  <1> QED BY <1>1, <1>2, WorkerStep

(* A submission moves to another of its steps, or ends.                     *)
SubmitMoves(w) ==
    /\ main'[w].pc \in SubmitPc \cup {"cycle"}
    /\ main'[w].ver \in {main[w].ver, 0, ctl.ver}
    /\ \A x \in Worker : x # w => main'[x] = main[x]

(* A submission knows no version but the one it read, and never stops.      *)
LEMMA SubmitMemory ==
    ASSUME TypeOK, Held, VersionsIssued, StopOK, NEW w \in Worker, SubmitStep(w)
    PROVE  ControlStep /\ MemoryStep
  <1>1. /\ watch' = watch /\ proc' = proc /\ tok' = tok /\ ctl' = ctl /\ lease' = lease
    BY DEF SubmitStep, Reserve, CheckUnresolved, Gate, Sign, SignFails, Mark, FinalCheck,
           Reject, Post, Refused, Accepted, Revoked, AmbiguousPost, BrokerSave,
           EngineSave, EngineWrite, dbVars, taskVars
  <1>2. /\ main \in [Worker -> MainState] /\ main[w] \in MainState
        /\ main[w].out \in Outcome /\ main[w].ver \in Nat /\ ctl.ver \in Nat /\ tok[w] \in Nat
    BY ControlFields, MainFields DEF TypeOK
  <1>3. SubmitMoves(w)
    <2>1. ASSUME NEW i \in Intent, Reserve(w, i) PROVE SubmitMoves(w)
      BY <1>2, <2>1, CheckSet DEF Reserve, SubmitPc, SubmitMoves
    <2>2. ASSUME NEW pc \in SubmitPc, Advance(w, pc) PROVE SubmitMoves(w)
      BY <1>2, <2>2, AdvanceSet DEF MainPc, SubmitMoves
    <2>3. ASSUME NEW pc \in SubmitPc, NEW out \in Outcome, Result(w, pc, out)
          PROVE  SubmitMoves(w)
      <3>1. pc \in MainPc
        BY DEF MainPc
      <3>2. /\ main'[w].pc = pc /\ main'[w].ver = main[w].ver
            /\ \A x \in Worker : x # w => main'[x] = main[x]
        BY <1>2, <2>3, <3>1, ResultSet
      <3> QED BY <3>2 DEF SubmitMoves
    <2>4. CASE Gate(w)
      <3>1. PICK t \in Nat, n \in Nat :
               /\ t = tok[w] /\ n = ctl.ver
               /\ SetMain(w, [main[w] EXCEPT !.pc = "sign", !.tok = t, !.ver = n])
        BY <1>2, <2>4 DEF Gate
      <3>2. /\ main'[w].pc = "sign" /\ main'[w].ver = ctl.ver
            /\ \A x \in Worker : x # w => main'[x] = main[x]
        <4> DEFINE s == [main[w] EXCEPT !.pc = "sign", !.tok = t, !.ver = n]
        <4>1. s \in MainState /\ s.pc = "sign" /\ s.ver = n
          BY <1>2 DEF MainState, MainPc, SubmitPc
        <4>2. SetMain(w, s)
          BY <3>1
        <4> HIDE DEF s
        <4>3. /\ main'[w].pc = "sign" /\ main'[w].ver = n
              /\ \A x \in Worker : x # w => main'[x] = main[x]
          BY <1>2, <4>1, <4>2, MainSet
        <4> QED BY <3>1, <4>3
      <3> QED BY <3>2 DEF SubmitMoves, SubmitPc
    <2>5. CASE EngineSave(w)
      <3>1. rows[main[w].i].st \in RowStatus
        <4>1. main[w].pc \in SubmitPc
          BY <2>5 DEF EngineSave, SubmitPc
        <4>2. main[w].i \in Intent
          BY <4>1, HasIntent
        <4> QED BY <4>2, RowFields DEF TypeOK
      <3>2. SetMain(w, [main[w] EXCEPT !.pc = "ewrite", !.old = rows[main[w].i].st])
        BY <2>5 DEF EngineSave
      <3>3. /\ main'[w].pc = "ewrite" /\ main'[w].ver = main[w].ver
            /\ \A x \in Worker : x # w => main'[x] = main[x]
        BY <1>2, <3>1, <3>2, ReadSet
      <3> QED BY <3>3 DEF SubmitPc, SubmitMoves
    <2>6. CASE EngineWrite(w)
      BY <1>2, <2>6, MainSet, RestStates DEF EngineWrite, SubmitMoves
    <2>7. CASE CheckUnresolved(w) \/ Sign(w) \/ FinalCheck(w) \/ Post(w)
      BY <2>2, <2>7 DEF CheckUnresolved, Sign, FinalCheck, Post, SubmitPc
    <2>8. CASE SignFails(w) \/ Reject(w) \/ Refused(w) \/ Accepted(w) \/ Revoked(w)
               \/ AmbiguousPost(w)
      BY <2>3, <2>8 DEF SignFails, Reject, Refused, Accepted, Revoked, AmbiguousPost,
                        SubmitPc, Outcome
    <2>9. CASE Mark(w)
      BY <2>2, <2>3, <2>9 DEF Mark, SubmitPc, Outcome
    <2>10. CASE BrokerSave(w)
      <3>1. Advance(w, "esave") \/ \E out \in Outcome : Result(w, "esave", out)
        BY <1>2, <2>10 DEF BrokerSave, Outcome
      <3> QED BY <2>2, <2>3, <3>1 DEF SubmitPc
    <2> QED BY <2>1, <2>4, <2>5, <2>6, <2>7, <2>8, <2>9, <2>10 DEF SubmitStep
  <1>4. main'[w].ver <= ctl'.ver
    BY <1>1, <1>2, <1>3 DEF SubmitMoves, VersionsIssued
  <1>5. main'[w].pc \notin AfterCancel \cup Stopping
    BY <1>3 DEF SubmitMoves, SubmitPc, AfterCancel, Stopping
  <1>6. SameControl /\ ctl'.ver \in Nat /\ ctl'.ver >= ctl.ver
    BY <1>1, ControlRests
  <1>7. MemoryStep
    BY <1>1, <1>3, <1>4, <1>5, <1>6, LoopRests DEF SubmitMoves
  <1> QED BY <1>6, <1>7 DEF ControlStep

(* The steps of the main loop around a cycle; only the arm changes control, *)
(* and only the holder of the lease arms.                                   *)
LEMMA CycleMemory ==
    ASSUME TypeOK, Held, ControlOK, VersionsIssued, StopOK, NEW w \in Worker,
           \/ StartCycle(w) \/ PrepareCycle(w) \/ EndCycle(w)
           \/ HaltCycle(w) \/ PauseLive(w) \/ HaltWorker(w)
    PROVE  ControlStep /\ MemoryStep
  <1>1. /\ watch' = watch /\ tok' = tok /\ lease' = lease
        /\ \A x \in Worker : x # w => proc'[x] = proc[x]
    BY DEF StartCycle, PrepareCycle, EndCycle, HaltCycle, PauseLive, HaltWorker,
           dbVars, taskVars, TypeOK
  <1>2. /\ main \in [Worker -> MainState] /\ ctl \in Control /\ ctl.ver \in Nat /\ tok[w] \in Nat
    BY ControlFields DEF TypeOK
  <1>3. /\ main'[w].pc \in {"prep", "cycle", "idle", "pausing", "halting"}
        /\ main'[w].ver = 0
        /\ \A x \in Worker : x # w => main'[x] = main[x]
    <2>1. CASE StartCycle(w)
      BY <1>2, <2>1, PrepSet DEF StartCycle
    <2>2. CASE PrepareCycle(w)
      BY <1>2, <2>2, MainSet, RestStates DEF PrepareCycle
    <2>3. CASE EndCycle(w)
      BY <1>2, <2>3, MainSet, RestStates DEF EndCycle
    <2>4. CASE HaltCycle(w)
      BY <1>2, <2>4, MainSet, RestStates DEF HaltCycle
    <2>5. CASE PauseLive(w)
      BY <1>2, <2>5, MainSet, RestStates, HaltingSet DEF PauseLive
    <2>6. CASE HaltWorker(w)
      BY <1>2, <2>6, MainSet, RestStates DEF HaltWorker
    <2> QED BY <2>1, <2>2, <2>3, <2>4, <2>5, <2>6
  <1>4. /\ SameControl \/ NewVersion
        /\ (ctl'.armed = TRUE => ctl.armed = TRUE) \/ lease.owner = w
        /\ ctl'.ver \in Nat /\ ctl'.ver >= ctl.ver
    <2>1. CASE ctl' = ctl
      BY <2>1, ControlRests
    <2>2. CASE PrepareCycle(w) /\ ctl' = Armed(ctl)
      <3>1. lease.owner = w
        BY <2>2 DEF PrepareCycle, ArmAllowed, LeaseValid
      <3>2. ctl'.armed = TRUE /\ ctl'.real = TRUE /\ ctl'.ver = ctl.ver + 1
        BY <1>2, <2>2, WrittenControls
      <3> QED BY <1>2, <3>1, <3>2 DEF NewVersion
    <2>3. CASE ctl' = PausedControl(ctl)
      <3>1. SameControl \/ (NewVersion /\ ctl'.armed = FALSE)
        BY <2>3, PausedStep
      <3>2. ctl'.armed = TRUE => ctl.armed = TRUE
        BY <3>1 DEF SameControl
      <3>3. ctl'.ver \in Nat /\ ctl'.ver >= ctl.ver
        BY <1>2, <3>1 DEF SameControl, NewVersion
      <3> QED BY <3>1, <3>2, <3>3
    <2> QED BY <2>1, <2>2, <2>3 DEF StartCycle, PrepareCycle, EndCycle, HaltCycle,
                                   PauseLive, HaltWorker, dbVars
  <1>5. main'[w].pc \notin AfterCancel \cup Stopping /\ main'[w].ver <= ctl'.ver
    BY <1>3, <1>4 DEF AfterCancel, Stopping
  <1>6. MemoryStep
    BY <1>1, <1>3, <1>4, <1>5, LoopRests
  <1> QED BY <1>4, <1>6 DEF ControlStep

(* The engine stop: latch, cancel, acknowledge the version it latched.      *)
LEMMA StopMemory ==
    ASSUME TypeOK, Held, ControlOK, VersionsIssued, StopOK, NEW w \in Worker,
           EngineStop(w) \/ StopCancel(w) \/ StopAck(w)
    PROVE  ControlStep /\ MemoryStep
  <1>1. watch' = watch /\ tok' = tok /\ lease' = lease /\ proc' = proc
    BY DEF EngineStop, StopCancel, StopAck, dbVars, taskVars
  <1>2. /\ main \in [Worker -> MainState] /\ main[w].ver \in Nat
        /\ ctl \in Control /\ ctl.ver \in Nat /\ main[w].ver <= ctl.ver
    BY ControlFields, MainFields DEF TypeOK, VersionsIssued
  <1>3. CASE EngineStop(w)
    <2>1. /\ SameControl \/ (NewVersion /\ ctl'.armed = FALSE)
          /\ ctl'.ver \in Nat /\ ctl'.ver >= ctl.ver
      <3>1. CASE ctl' = ctl
        BY <3>1, ControlRests
      <3>2. CASE ctl' = Disarmed(ctl)
        BY <3>2, DisarmStep, ControlDisarmed
      <3> QED BY <1>3, <3>1, <3>2 DEF EngineStop
    <2>2. /\ main'[w].pc = "stopCancel" /\ main'[w].ver <= ctl'.ver
          /\ \A x \in Worker : x # w => main'[x] = main[x]
      <3>1. "stopCancel" \in MainPc
        BY DEF MainPc
      <3>2. CASE ~ctl.armed /\ UNCHANGED ctl
                  /\ SetMain(w, [main[w] EXCEPT !.pc = "stopCancel", !.ver = ctl.ver])
        <4>1. SetMain(w, [main[w] EXCEPT !.pc = "stopCancel", !.ver = ctl.ver]) /\ ctl' = ctl
          BY <3>2
        <4>2. main'[w].pc = "stopCancel" /\ main'[w].ver = ctl.ver
              /\ \A x \in Worker : x # w => main'[x] = main[x]
          <5>1. main' = [main EXCEPT ![w] = [main[w] EXCEPT !.pc = "stopCancel",
                                                           !.ver = ctl.ver]]
            BY <4>1 DEF SetMain
          <5>2. main[w] \in MainState /\ main \in [Worker -> MainState]
            BY <1>2
          <5> QED BY <1>2, <5>1, <5>2 DEF MainState
        <4>3. main'[w].ver <= ctl'.ver
          <5>1. ctl' = ctl
            BY <4>1
          <5>2. ctl.ver \in Nat /\ main'[w].ver = ctl.ver
            BY <1>2, <4>2
          <5> QED BY <5>1, <5>2
        <4> QED BY <4>2, <4>3
      <3>3. CASE SetMain(w, [main[w] EXCEPT !.pc = "stopCancel", !.ver = ctl'.ver])
        <4>1. main' = [main EXCEPT ![w] = [main[w] EXCEPT !.pc = "stopCancel", !.ver = ctl'.ver]]
          BY <3>3 DEF SetMain
        <4>2. main[w] \in MainState
          BY <1>2
        <4> QED BY <1>2, <2>1, <4>1, <4>2 DEF MainState
      <3>4. CASE Advance(w, "stopCancel")
        BY <1>2, <2>1, <3>1, <3>4, AdvanceSet
      <3> QED BY <1>3, <3>2, <3>3, <3>4 DEF EngineStop
    <2>3. main'[w].pc \notin AfterCancel \cup Stopping
      BY <2>2 DEF AfterCancel, Stopping
    <2>4. MemoryStep
      BY <1>1, <2>1, <2>2, <2>3, LoopRests DEF SameControl
    <2> QED BY <2>1, <2>4 DEF ControlStep
  <1>4. CASE StopCancel(w)
    <2>1. SameControl /\ ctl'.ver \in Nat /\ ctl'.ver >= ctl.ver /\ ctl' = ctl
      BY <1>4, ControlRests DEF StopCancel, dbVars
    <2>2. CASE CancelVerified /\ Advance(w, "stopAck")
      <3>1. /\ main'[w].pc = "stopAck" /\ main'[w].ver = main[w].ver
            /\ \A x \in Worker : x # w => main'[x] = main[x]
        BY <1>2, <2>2, AdvanceSet DEF MainPc
      <3>2. NothingOpen'
        BY <2>2, VerifiedCancel DEF NothingOpen
      <3>3. SameLease /\ watch'[w].seen <= ctl'.ver
        BY <1>1, <2>1, OldVersions DEF SameLease
      <3>4. MemoryStep
        BY <1>1, <1>2, <2>1, <3>1, <3>2, <3>3, WorkerStep DEF Stopping
      <3> QED BY <2>1, <3>4 DEF ControlStep
    <2>3. CASE SetMain(w, [PausingMain EXCEPT !.out = "error"])
      <3>1. /\ main'[w].pc = "pausing" /\ main'[w].ver = 0
            /\ \A x \in Worker : x # w => main'[x] = main[x]
        BY <1>2, <2>3, LatchErrorSet
      <3>2. main'[w].pc \notin AfterCancel \cup Stopping /\ main'[w].ver <= ctl'.ver
        BY <2>1, <3>1 DEF AfterCancel, Stopping
      <3>3. MemoryStep
        BY <1>1, <2>1, <3>1, <3>2, LoopRests
      <3> QED BY <2>1, <3>3 DEF ControlStep
    <2> QED BY <1>4, <2>2, <2>3 DEF StopCancel
  <1>5. CASE StopAck(w)
    <2>1. /\ main'[w].pc = "pausing" /\ main'[w].ver = 0
          /\ \A x \in Worker : x # w => main'[x] = main[x]
      BY <1>2, <1>5, MainSet, RestStates DEF StopAck
    <2>2. /\ ControlStep /\ ctl'.ver \in Nat /\ ctl'.ver >= ctl.ver
          /\ ctl'.armed = TRUE => ctl.armed = TRUE
      <3>1. CASE AckAllowed(ctl, rows, main[w].ver)
        <4>1. main[w].ver = ctl.ver
          BY <3>1 DEF AckAllowed
        <4>2. Cancelled(w)
          BY <1>5, <4>1 DEF StopAck, Cancelled, AfterCancel
        <4>3. ctl' = Acknowledged(ctl) /\ rows' = rows /\ exch' = exch
          BY <1>5, <3>1 DEF StopAck, exVars
        <4> QED BY <3>1, <4>1, <4>2, <4>3, ControlAcknowledged DEF ControlStep
      <3>2. CASE ~AckAllowed(ctl, rows, main[w].ver)
        <4>1. ctl' = ctl
          BY <1>5, <3>2 DEF StopAck
        <4> QED BY <4>1, ControlRests DEF ControlStep
      <3> QED BY <3>1, <3>2
    <2>3. main'[w].pc \notin AfterCancel \cup Stopping /\ main'[w].ver <= ctl'.ver
      BY <2>1, <2>2 DEF AfterCancel, Stopping
    <2>4. MemoryStep
      BY <1>1, <2>1, <2>2, <2>3, LoopRests
    <2> QED BY <2>2, <2>4
  <1> QED BY <1>3, <1>4, <1>5

(* The watcher: latch, cancel, acknowledge the version it latched.          *)
LEMMA WatchMemory ==
    ASSUME TypeOK, ControlOK, VersionsIssued, StopOK, NEW w \in Worker, WatchStep(w)
    PROVE  ControlStep /\ MemoryStep
  <1>1. main' = main /\ tok' = tok /\ lease' = lease /\ proc' = proc
    BY DEF WatchStep, WatchObserve, WatchLatch, WatchCancel, WatchAck, WatchFails, dbVars
  <1>2. /\ watch \in [Worker -> WatchState] /\ watch[w].seen \in Nat
        /\ watch[w].pend \in BOOLEAN /\ watch[w].seen <= ctl.ver
        /\ ctl \in Control /\ ctl.ver \in Nat
    BY ControlFields, WatchFields DEF TypeOK, VersionsIssued
  <1>3. /\ ControlStep /\ ctl'.ver \in Nat /\ ctl'.ver >= ctl.ver
        /\ ctl'.armed = TRUE => ctl.armed = TRUE
    <2>1. CASE ctl' = ctl
      BY <2>1, ControlRests DEF ControlStep
    <2>2. CASE \/ ctl' = Disarmed(ctl)
               \/ ExpireAllowed(ctl) /\ ctl' = Expired(ctl)
      <3>1. NewVersion /\ ctl'.armed = FALSE
        BY <2>2, DisarmStep
      <3> QED BY <3>1, ControlDisarmed DEF ControlStep
    <2>3. CASE WatchAck(w) /\ AckAllowed(ctl, rows, watch[w].seen)
      <3>1. watch[w].seen = ctl.ver
        BY <2>3 DEF AckAllowed
      <3>2. Cancelled(w)
        BY <2>3, <3>1 DEF WatchAck, Cancelled
      <3>3. ctl' = Acknowledged(ctl) /\ rows' = rows /\ exch' = exch
        BY <2>3 DEF WatchAck, exVars
      <3> QED BY <2>3, <3>1, <3>2, <3>3, ControlAcknowledged DEF ControlStep
    <2>4. CASE WatchObserve(w)
      BY <2>1, <2>2, <2>4 DEF WatchObserve
    <2> QED BY <2>1, <2>2, <2>3, <2>4 DEF WatchStep, WatchLatch, WatchCancel, WatchAck,
                                         WatchFails, dbVars
  <1>4. /\ watch'[w].seen <= ctl'.ver
        /\ watch'[w].pc = "ack" => watch'[w].seen = watch[w].seen /\ NothingOpen'
        /\ \A x \in Worker : x # w => watch'[x] = watch[x]
    <2>1. ASSUME NEW pc \in {"idle", "latch"}, NEW p \in BOOLEAN,
                 SetWatch(w, [watch[w] EXCEPT !.pc = pc, !.pend = p])
          PROVE  /\ watch'[w].pc # "ack" /\ watch'[w].seen <= ctl'.ver
                 /\ \A x \in Worker : x # w => watch'[x] = watch[x]
      <3>1. pc \in {"idle", "latch", "cancel", "ack"} /\ pc # "ack"
        OBVIOUS
      <3>2. /\ watch'[w].pc = pc /\ watch'[w].seen = watch[w].seen
            /\ \A x \in Worker : x # w => watch'[x] = watch[x]
        BY <1>2, <2>1, <3>1, WatchNotes
      <3> QED BY <1>2, <1>3, <3>1, <3>2
    <2>2. ASSUME NEW pc \in {"idle", "cancel"}, NEW p \in BOOLEAN, NEW a \in BOOLEAN,
                 NEW n \in Nat, n = ctl'.ver,
                 SetWatch(w, [pc |-> pc, pend |-> p, seen |-> n, was |-> a])
          PROVE  /\ watch'[w].pc # "ack" /\ watch'[w].seen <= ctl'.ver
                 /\ \A x \in Worker : x # w => watch'[x] = watch[x]
      BY <1>2, <1>3, <2>2, WatchReads
    <2>3. CASE WatchObserve(w)
      <3>1. LiveArmed(ctl) \in BOOLEAN
        BY DEF LiveArmed
      <3>2. CASE \E p \in BOOLEAN : SetWatch(w, [watch[w] EXCEPT !.pc = "latch", !.pend = p])
        BY <2>1, <3>2
      <3>3. CASE SetWatch(w, Cancelling(ctl'.ver, LiveArmed(ctl)))
        BY <1>3, <2>2, <3>1, <3>3 DEF Cancelling
      <3>4. CASE SetWatch(w, [pc |-> "idle", pend |-> FALSE, seen |-> ctl'.ver,
                              was |-> LiveArmed(ctl)])
        BY <1>3, <2>2, <3>1, <3>4
      <3> QED BY <1>2, <2>3, <3>2, <3>3, <3>4 DEF WatchObserve
    <2>4. CASE WatchLatch(w)
      BY <1>3, <2>2, <2>4 DEF WatchLatch, Cancelling
    <2>5. CASE WatchCancel(w)
      <3>1. /\ watch'[w].pc = "ack" /\ watch'[w].seen = watch[w].seen
            /\ \A x \in Worker : x # w => watch'[x] = watch[x]
        BY <1>2, <2>5, WatchMoves DEF WatchCancel
      <3>2. NothingOpen' /\ ctl' = ctl
        BY <2>5, VerifiedCancel DEF WatchCancel, NothingOpen, dbVars
      <3> QED BY <1>2, <3>1, <3>2
    <2>6. CASE WatchAck(w)
      <3>1. CASE AckAllowed(ctl, rows, watch[w].seen)
        <4> DEFINE n == ctl'.ver
        <4>1. /\ n \in Nat
              /\ SetWatch(w, [watch[w] EXCEPT !.pc = "idle", !.pend = FALSE, !.seen = n])
          BY <1>3, <2>6, <3>1 DEF WatchAck
        <4> HIDE DEF n
        <4>2. /\ watch'[w].pc = "idle" /\ watch'[w].seen = n
              /\ \A x \in Worker : x # w => watch'[x] = watch[x]
          BY <1>2, <4>1, WatchSees
        <4> QED BY <1>3, <4>2 DEF n
      <3>2. CASE ~AckAllowed(ctl, rows, watch[w].seen)
        <4>1. SetWatch(w, [watch[w] EXCEPT !.pc = "idle"]) /\ ctl' = ctl
          BY <2>6, <3>2 DEF WatchAck
        <4> QED BY <1>2, <4>1, WatchMoves
      <3> QED BY <3>1, <3>2
    <2>7. CASE WatchFails(w)
      BY <2>1, <2>7 DEF WatchFails
    <2> QED BY <2>3, <2>4, <2>5, <2>6, <2>7 DEF WatchStep
  <1>5. SameLease /\ main'[w].ver <= ctl'.ver
    BY <1>1, <1>3, OldVersions DEF SameLease
  <1>6. main'[w].pc \in Stopping => proc'[w] # "run"
    BY <1>1 DEF StopOK
  <1>7. MemoryStep
    BY <1>1, <1>3, <1>4, <1>5, <1>6, WorkerStep
  <1> QED BY <1>3, <1>7

(* The end of a process.                                                    *)
LEMMA ExitMemory ==
    ASSUME TypeOK, VersionsIssued, StopOK, NEW w \in Worker, Exit(w), SameLease, ctl' = ctl
    PROVE  ControlStep /\ MemoryStep
  <1>1. SameControl /\ ctl'.ver \in Nat /\ ctl'.ver >= ctl.ver
    BY ControlRests
  <1>2. /\ main'[w].pc = "idle" /\ main'[w].ver = 0
        /\ \A x \in Worker : x # w => main'[x] = main[x]
    BY MainSet, RestStates DEF Exit, TypeOK
  <1>3. /\ watch'[w].pc = "idle" /\ watch'[w].seen = 0
        /\ \A x \in Worker : x # w => watch'[x] = watch[x]
    BY FreshWatchType DEF Exit, TypeOK
  <1>4. \A x \in Worker : x # w => proc'[x] = proc[x] /\ tok'[x] = tok[x]
    BY DEF Exit, TypeOK
  <1>5. main'[w].pc \notin AfterCancel \cup Stopping
    BY <1>2 DEF AfterCancel, Stopping
  <1>6. /\ main'[w].ver <= ctl'.ver /\ watch'[w].seen <= ctl'.ver
        /\ ctl'.armed = TRUE => ctl.armed = TRUE
        /\ main'[w].pc # "sdRelease" /\ watch'[w].pc # "ack"
    BY <1>1, <1>2, <1>3
  <1>7. MemoryStep
    BY <1>1, <1>2, <1>3, <1>4, <1>5, <1>6, WorkerStep
  <1> QED BY <1>1, <1>7 DEF ControlStep

(* The shutdown: disarm, cancel, acknowledge, only then release.            *)
LEMMA ShutdownMemory ==
    ASSUME TypeOK, Held, ControlOK, VersionsIssued, StopOK, NEW w \in Worker, ShutdownStep(w)
    PROVE  ControlStep /\ MemoryStep
  <1>1. /\ main \in [Worker -> MainState] /\ main[w] \in MainState
        /\ main[w].ver \in Nat /\ main[w].ver <= ctl.ver /\ watch[w].seen <= ctl.ver
        /\ ctl \in Control /\ ctl.ver \in Nat /\ tok[w] \in Nat /\ lease \in Lease
    BY ControlFields, MainFields DEF TypeOK, VersionsIssued
  <1>2. CASE StopRequested(w)
    <2>1. /\ main' = main /\ watch' = watch /\ tok' = tok /\ ctl' = ctl /\ lease' = lease
          /\ proc'[w] = "stop" /\ \A x \in Worker : x # w => proc'[x] = proc[x]
      BY <1>2 DEF StopRequested, dbVars, taskVars, TypeOK
    <2>2. SameControl /\ ctl'.ver \in Nat /\ ctl'.ver >= ctl.ver /\ SameLease
      BY <2>1, ControlRests DEF SameLease
    <2>3. MemoryStep
      BY <1>1, <2>1, <2>2, WorkerStep
    <2> QED BY <2>2, <2>3 DEF ControlStep
  <1>3. CASE Shutdown(w)
    <2>1. /\ SameControl \/ (NewVersion /\ ctl'.armed = FALSE)
          /\ ctl'.ver \in Nat /\ ctl'.ver >= ctl.ver
      <3>1. CASE ctl' = ctl
        BY <3>1, ControlRests
      <3>2. CASE ctl' = Disarmed(ctl)
        BY <3>2, DisarmStep, ControlDisarmed
      <3> QED BY <1>3, <3>1, <3>2 DEF Shutdown
    <2>2. /\ main'[w].pc = "sdCancel" /\ main'[w].ver <= ctl'.ver
          /\ \A x \in Worker : x # w => main'[x] = main[x]
      <3>1. CASE main' = [main EXCEPT ![w] = [main[w] EXCEPT !.pc = "sdCancel",
                                                             !.ver = ctl'.ver]]
        BY <1>1, <2>1, <3>1 DEF MainState
      <3>2. CASE Advance(w, "sdCancel")
        <4>1. "sdCancel" \in MainPc
          BY DEF MainPc
        <4> QED BY <1>1, <2>1, <3>2, <4>1, AdvanceSet
      <3> QED BY <1>3, <3>1, <3>2 DEF Shutdown, SetMain
    <2>3. /\ watch'[w].pc = "idle" /\ watch'[w].seen = 0
          /\ \A x \in Worker : x # w => watch'[x] = watch[x]
      BY <1>3, FreshWatchType DEF Shutdown, TypeOK
    <2>4. proc'[w] = "stop" /\ proc' = proc /\ tok' = tok /\ SameLease
      BY <1>3 DEF Shutdown, SameLease
    <2>5. ctl'.armed = TRUE => ctl.armed = TRUE
      BY <2>1 DEF SameControl
    <2>6. /\ watch'[w].seen <= ctl'.ver /\ watch'[w].pc # "ack"
          /\ main'[w].pc # "sdRelease" /\ main'[w].pc \notin AfterCancel
      BY <2>1, <2>2, <2>3 DEF AfterCancel
    <2>7. MemoryStep
      BY <2>1, <2>2, <2>3, <2>4, <2>5, <2>6, WorkerStep
    <2> QED BY <2>1, <2>7 DEF ControlStep
  <1>4. CASE ctl' = ctl /\ SameLease /\ Exit(w)
    BY <1>4, ExitMemory
  <1>5. CASE ShutdownCancel(w) /\ CancelVerified /\ Advance(w, "sdValidate")
             /\ UNCHANGED <<proc, taskVars>>
    <2>1. /\ main'[w].pc = "sdValidate" /\ main'[w].ver = main[w].ver
          /\ \A x \in Worker : x # w => main'[x] = main[x]
      BY <1>1, <1>5, AdvanceSet DEF MainPc
    <2>2. NothingOpen'
      BY <1>5, VerifiedCancel DEF NothingOpen
    <2>3. watch' = watch /\ tok' = tok /\ proc' = proc /\ ctl' = ctl /\ SameLease
      BY <1>5 DEF ShutdownCancel, dbVars, taskVars, SameLease
    <2>4. proc'[w] # "run"
      BY <1>5, <2>3 DEF ShutdownCancel, StopOK, Stopping
    <2>5. SameControl /\ ctl'.ver \in Nat /\ ctl'.ver >= ctl.ver
      BY <2>3, ControlRests
    <2>6. MemoryStep
      BY <1>1, <2>1, <2>2, <2>3, <2>4, <2>5, WorkerStep
    <2> QED BY <2>5, <2>6 DEF ControlStep
  <1>6. CASE ShutdownValidate(w) /\ Advance(w, "sdAck") /\ UNCHANGED <<proc, taskVars>>
    <2>1. /\ main'[w].pc = "sdAck" /\ main'[w].ver = main[w].ver
          /\ \A x \in Worker : x # w => main'[x] = main[x]
      BY <1>1, <1>6, AdvanceSet DEF MainPc
    <2>2. main[w].pc \in AfterCancel /\ main[w].pc \in Stopping
      BY <1>6 DEF ShutdownValidate, AfterCancel, Stopping
    <2>3. watch' = watch /\ tok' = tok /\ proc' = proc /\ ctl' = ctl /\ SameLease
      BY <1>6 DEF ShutdownValidate, dbVars, taskVars, SameLease
    <2>4. proc'[w] # "run"
      BY <2>2, <2>3 DEF StopOK
    <2>5. SameControl /\ ctl'.ver \in Nat /\ ctl'.ver >= ctl.ver
      BY <2>3, ControlRests
    <2>6. MemoryStep
      BY <1>1, <2>1, <2>2, <2>3, <2>4, <2>5, WorkerStep
    <2> QED BY <2>5, <2>6 DEF ControlStep
  <1>7. CASE /\ ShutdownAck(w) /\ AckAllowed(ctl, rows, main[w].ver)
             /\ ctl' = Acknowledged(ctl) /\ Advance(w, "sdRelease")
             /\ UNCHANGED <<proc, taskVars>>
    <2>1. /\ main'[w].pc = "sdRelease" /\ main'[w].ver = main[w].ver
          /\ \A x \in Worker : x # w => main'[x] = main[x]
      BY <1>1, <1>7, AdvanceSet DEF MainPc
    <2>2. main[w].pc = "sdAck" /\ main[w].ver = ctl.ver
      BY <1>7 DEF ShutdownAck, AckAllowed
    <2>3. watch' = watch /\ tok' = tok /\ proc' = proc /\ SameLease
      BY <1>7 DEF ShutdownAck, taskVars, SameLease
    <2>4. proc'[w] # "run"
      BY <2>2, <2>3 DEF StopOK, Stopping
    <2>5. /\ ControlStep /\ ctl'.ver \in Nat /\ ctl'.ver >= ctl.ver
          /\ ctl'.armed = FALSE /\ ctl'.pend = FALSE
      <3>1. Cancelled(w)
        BY <2>2 DEF Cancelled, AfterCancel
      <3>2. ctl' = Acknowledged(ctl) /\ rows' = rows /\ exch' = exch
        BY <1>7 DEF ShutdownAck, exVars
      <3> QED BY <1>7, <2>2, <3>1, <3>2, ControlAcknowledged DEF ControlStep
    <2>6. /\ watch'[w].seen <= ctl'.ver /\ main'[w].ver <= ctl'.ver
          /\ main'[w].pc \notin AfterCancel
          /\ watch'[w].pc = "ack" => watch[w].pc = "ack" /\ watch'[w].seen = watch[w].seen
          /\ \A x \in Worker : x # w => /\ main'[x] = main[x] /\ watch'[x] = watch[x]
                                      /\ proc'[x] = proc[x] /\ tok'[x] = tok[x]
      <3>1. main[w].ver <= ctl'.ver /\ watch[w].seen <= ctl'.ver
        BY <2>5, OldVersions
      <3> QED BY <2>1, <2>3, <3>1 DEF AfterCancel
    <2>7. MemoryStep
      BY <2>3, <2>4, <2>5, <2>6, WorkerStep
    <2> QED BY <2>5, <2>7
  <1>8. CASE ShutdownRelease(w)
    <2>1. SameLease
      BY <1>1, <1>8 DEF ShutdownRelease, Released, SameLease, Lease
    <2> QED BY <1>4, <1>8, <2>1 DEF ShutdownRelease
  <1> QED BY <1>2, <1>3, <1>4, <1>5, <1>6, <1>7, <1>8
          DEF ShutdownStep, ShutdownCancel, ShutdownValidate, ShutdownAck, Crash, SameLease,
              dbVars

(* Every step of the system changes the control row in one of these ways,   *)
(* and the memories of the workers accordingly.                             *)
LEMMA EveryMemory ==
    ASSUME TypeOK, Held, ControlOK, VersionsIssued, StopOK, [Next]_vars
    PROVE  ControlStep /\ MemoryStep
  <1>1. CASE UNCHANGED vars
    <2>1. /\ main' = main /\ watch' = watch /\ proc' = proc /\ ctl' = ctl
          /\ tok' = tok /\ lease' = lease
      BY <1>1 DEF vars
    <2>2. MemoryStep
      BY <2>1 DEF MemoryStep, VersionsIssued, CancelStep, StopOK, ReleaseStep, OwnsStop
    <2> QED BY <2>1, <2>2, ControlRests DEF ControlStep
  <1>2. CASE Environment
    BY <1>2, EnvironmentMemory
  <1>3. ASSUME NEW w \in Worker, LoopStep(w) PROVE ControlStep /\ MemoryStep
    BY <1>3, CycleMemory, StopMemory DEF LoopStep
  <1> QED BY <1>1, <1>2, <1>3, LeaseMemory, SubmitMemory, WatchMemory, ShutdownMemory,
             ReconcileMemory DEF Next

(* Every step treats the orders as Passage allows.                          *)
LEMMA EveryPassage ==
    ASSUME TypeOK, Held, HandsOK, BookOK, [Next]_vars
    PROVE  OrdersStep
  <1>1. CASE UNCHANGED vars
    BY <1>1, RestStep DEF vars, OnlyCloses
  <1>2. CASE Environment
    BY <1>2, EnvironmentOrders
  <1>3. ASSUME NEW w \in Worker, SubmitStep(w) PROVE OrdersStep
    BY <1>3, SubmitOrders
  <1>4. ASSUME NEW w \in Worker, NEW i \in Intent, ReconcileOrder(w, i) PROVE OrdersStep
    BY <1>4, ReconcileStep
  <1> QED BY <1>1, <1>2, <1>3, <1>4, OtherOrders DEF Next

-----------------------------------------------------------------------------
(* The stopped account. *)

NoneUnderWay ==
    \A i \in Intent : exch[i] # "transit" /\ rows[i].st # "submitting"

OpenIsUndecided == \A i \in Intent : exch[i] = "open" => Undecided(i)

Stopped == ctl.armed = FALSE /\ ctl.pend = FALSE

(* In an account that is stopped for good no order is under way.            *)
GateOK == Stopped => NoneUnderWay

(* While a cancellation is pending, whoever carried it out left nothing at  *)
(* the exchange but orders whose rows stay unresolved.                      *)
CancelOK ==
    ctl.pend = TRUE /\ ctl.armed = FALSE =>
        \A w \in Worker : Cancelled(w) => OpenIsUndecided

(* In an account that is stopped for good nothing rests.                    *)
BookQuiet == Stopped => NothingOpen

(* The same while a worker is about to hand back the lease.                 *)
ReleaseOK ==
    \A w \in Worker : OwnsStop(w) => ctl.armed = FALSE /\ NoneUnderWay /\ NothingOpen

(* Without the arm nothing comes under way.                                 *)
LEMMA NoneUnderWayKept ==
    ASSUME NoneUnderWay, ctl.armed = FALSE, Passage
    PROVE  NoneUnderWay'
  BY DEF NoneUnderWay, Passage, LiveArmed

(* Nothing comes to rest that was not under way.                            *)
LEMMA NothingOpenKept ==
    ASSUME NothingOpen, NoneUnderWay, Passage
    PROVE  NothingOpen'
  BY DEF NothingOpen, NoneUnderWay, Passage

(* An order that is under way is undecided.                                 *)
LEMMA TransitIsUndecided ==
    ASSUME TypeOK, HandsOK, BookOK, NEW i \in Intent, exch[i] = "transit"
    PROVE  Undecided(i)
  <1>1. rows[i].st \in Limbo /\ rows[i].id = FALSE
    BY RowFields DEF BookOK, BookOf, Sent, TypeOK
  <1>2. \A w \in Worker : main[w].i = i => main[w].out \notin Known
    BY DEF HandsOK, HandOf, Sent
  <1> QED BY <1>1, <1>2 DEF Undecided

(* Without the arm, what rests stays undecided.                             *)
LEMMA UndecidedKept ==
    ASSUME SubmitterCancelMayFail = FALSE, TypeOK, HandsOK, BookOK,
           OpenIsUndecided, ctl.armed = FALSE, Passage
    PROVE  OpenIsUndecided'
  <1> SUFFICES ASSUME NEW i \in Intent, exch'[i] = "open" PROVE Undecided(i)'
    BY DEF OpenIsUndecided
  <1>1. exch[i] \in {"open", "transit"}
    BY DEF Passage
  <1>2. Undecided(i)
    BY <1>1, TransitIsUndecided DEF OpenIsUndecided
  <1>3. ~LiveArmed(ctl)
    BY DEF LiveArmed
  <1> QED BY <1>2, <1>3 DEF Passage

(* An acknowledgement finds nothing under way.                              *)
LEMMA ResolvedBook ==
    ASSUME TypeOK, BookOK, ~Unresolved(rows)
    PROVE  NoneUnderWay /\ (OpenIsUndecided => NothingOpen)
  <1>1. \A i \in Intent : rows[i].st \notin {"signed", "submitting", "unknown"}
    BY DEF TypeOK, Unresolved
  <1>2. NoneUnderWay
    BY <1>1 DEF NoneUnderWay, BookOK, BookOf, Limbo
  <1>3. OpenIsUndecided => NothingOpen
    BY <1>1 DEF OpenIsUndecided, NothingOpen, Undecided, Limbo
  <1> QED BY <1>2, <1>3

(* The control row after an acknowledgement.                                *)
LEMMA AfterAck ==
    ASSUME TypeOK, AckStep
    PROVE  ctl'.pend = FALSE /\ ctl'.ver = ctl.ver + 1 /\ rows' = rows /\ exch' = exch
  <1>1. ctl \in Control
    BY DEF TypeOK
  <1> QED BY <1>1, WrittenControls DEF AckStep

(* GateOK is kept, whatever cancel-alls fail.                               *)
LEMMA GateKept ==
    ASSUME TypeOK, BookOK, GateOK, Passage, ControlStep
    PROVE  GateOK'
  <1> SUFFICES ASSUME Stopped' PROVE NoneUnderWay'
    BY DEF GateOK
  <1>1. CASE SameControl
    BY <1>1, NoneUnderWayKept DEF SameControl, Stopped, GateOK
  <1>2. CASE NewVersion
    BY <1>2 DEF NewVersion, Stopped
  <1>3. CASE AckStep
    <2>1. NoneUnderWay /\ rows' = rows /\ exch' = exch
      BY <1>3, ResolvedBook, AfterAck DEF AckStep
    <2> QED BY <2>1 DEF NoneUnderWay
  <1> QED BY <1>1, <1>2, <1>3 DEF ControlStep

(* CancelOK is kept: a cancellation carried out earlier is one of an        *)
(* earlier version.                                                         *)
LEMMA CancelKept ==
    ASSUME SubmitterCancelMayFail = FALSE, TypeOK, HandsOK, BookOK, VersionsIssued,
           CancelOK, Passage, ControlStep, CancelStep
    PROVE  CancelOK'
  <1> SUFFICES ASSUME ctl'.pend = TRUE, ctl'.armed = FALSE, NEW w \in Worker, Cancelled(w)'
               PROVE  OpenIsUndecided'
    BY DEF CancelOK
  <1>1. CASE NothingOpen'
    BY <1>1 DEF NothingOpen, OpenIsUndecided
  <1>2. CASE ~NothingOpen'
    <2>1. \/ watch[w].pc = "ack" /\ watch[w].seen = ctl'.ver
          \/ main[w].pc \in AfterCancel /\ main[w].ver = ctl'.ver
      BY <1>2 DEF CancelStep, Cancelled
    <2>2. ctl'.ver <= ctl.ver /\ ctl.ver \in Nat
      BY <2>1, ControlFields DEF VersionsIssued, TypeOK
    <2>3. ctl'.ver # ctl.ver + 1
      BY <2>2
    <2>6. ~NewVersion /\ ~AckStep
      BY <2>3, AfterAck DEF NewVersion
    <2>4. SameControl
      BY <2>6 DEF ControlStep
    <2>5. OpenIsUndecided /\ ctl.armed = FALSE
      BY <2>1, <2>4 DEF SameControl, CancelOK, Cancelled
    <2> QED BY <2>5, UndecidedKept
  <1> QED BY <1>1, <1>2

(* BookQuiet is kept.                                                       *)
LEMMA BookKept ==
    ASSUME TypeOK, BookOK, GateOK, CancelOK, BookQuiet, Passage, ControlStep
    PROVE  BookQuiet'
  <1> SUFFICES ASSUME Stopped' PROVE NothingOpen'
    BY DEF BookQuiet
  <1>1. CASE SameControl
    BY <1>1, NothingOpenKept DEF SameControl, Stopped, GateOK, BookQuiet
  <1>2. CASE NewVersion
    BY <1>2 DEF NewVersion, Stopped
  <1>3. CASE AckStep
    <2>1. OpenIsUndecided
      BY <1>3 DEF AckStep, CancelOK
    <2>2. NothingOpen /\ exch' = exch
      BY <1>3, <2>1, ResolvedBook, AfterAck DEF AckStep
    <2> QED BY <2>2 DEF NothingOpen
  <1> QED BY <1>1, <1>2, <1>3 DEF ControlStep

(* ReleaseOK is kept.                                                       *)
LEMMA ReleaseKept ==
    ASSUME TypeOK', ReleaseOK, Passage, ReleaseStep, GateOK', BookQuiet'
    PROVE  ReleaseOK'
  <1> SUFFICES ASSUME NEW w \in Worker, OwnsStop(w)'
               PROVE  ctl'.armed = FALSE /\ NoneUnderWay' /\ NothingOpen'
    BY DEF ReleaseOK
  <1>1. CASE Stopped'
    BY <1>1 DEF GateOK, BookQuiet, Stopped
  <1>2. CASE OwnsStop(w) /\ (ctl'.armed = TRUE => ctl.armed = TRUE)
    <2>1. ctl.armed = FALSE /\ NoneUnderWay /\ NothingOpen
      BY <1>2 DEF ReleaseOK
    <2>2. NoneUnderWay' /\ NothingOpen'
      BY <2>1, NoneUnderWayKept, NothingOpenKept
    <2>3. ctl'.armed \in BOOLEAN
      BY ControlFields DEF TypeOK
    <2> QED BY <1>2, <2>1, <2>2, <2>3
  <1> QED BY <1>1, <1>2 DEF ReleaseStep, Stopped

-----------------------------------------------------------------------------
(* The invariants of a run.  The first four concern single orders and       *)
(* memories, GateOK needs nothing but them; what rests at the exchange also *)
(* depends on the cancel-all of a submitter that lost its authority.        *)

MemoryInv ==
    /\ TypeOK /\ Held
    /\ HandsOK /\ BookOK /\ ControlOK /\ VersionsIssued /\ StopOK
    /\ GateOK

QuietInv == MemoryInv /\ CancelOK /\ BookQuiet /\ ReleaseOK

(* Initially the account is stopped, without orders.                        *)
LEMMA InitQuiet == Init => QuietInv
  <1> SUFFICES ASSUME Init PROVE QuietInv
    OBVIOUS
  <1>1. TypeOK /\ Held
    BY InitTypes DEF TypeInv
  <1>2. /\ \A w \in Worker : main[w] = IdleMain /\ watch[w] = FreshWatch
        /\ \A i \in Intent : rows[i] = NoRow /\ exch[i] = "none"
        /\ ctl = InitialControl
    BY DEF Init
  <1>3. /\ InitialControl.armed = FALSE /\ InitialControl.pend = FALSE
        /\ InitialControl.ver \in Nat
        /\ NoRow.st = "none" /\ NoRow.id = FALSE
    BY DEF InitialControl, NoRow
  <1>4. HandsOK /\ BookOK
    BY <1>2, <1>3, RestStates, LiveAssumption DEF HandsOK, BookOK, BookOf
  <1>5. ControlOK /\ VersionsIssued /\ StopOK
    BY <1>2, <1>3, RestStates, FreshWatchType DEF ControlOK, VersionsIssued, StopOK, Stopping
  <1>6. NoneUnderWay /\ NothingOpen
    BY <1>2, <1>3 DEF NoneUnderWay, NothingOpen
  <1>7. GateOK /\ CancelOK /\ BookQuiet
    BY <1>2, <1>3, <1>6 DEF GateOK, CancelOK, BookQuiet
  <1>8. ReleaseOK
    BY <1>2, RestStates DEF ReleaseOK, OwnsStop
  <1> QED BY <1>1, <1>4, <1>5, <1>7, <1>8 DEF QuietInv, MemoryInv

(* Every step keeps what concerns orders and memories.                      *)
LEMMA NextMemory ==
    ASSUME MemoryInv, [Next]_vars
    PROVE  MemoryInv' /\ Passage /\ ControlStep /\ MemoryStep
  <1>1. TypeOK' /\ Held'
    BY NextTypes DEF MemoryInv, TypeInv
  <1>2. OrdersStep
    BY EveryPassage DEF MemoryInv
  <1>3. ControlStep /\ MemoryStep
    BY EveryMemory DEF MemoryInv
  <1>4. ControlOK'
    BY <1>3, ControlKept DEF MemoryInv
  <1>5. GateOK'
    BY <1>2, <1>3, GateKept DEF MemoryInv, OrdersStep
  <1> QED BY <1>1, <1>2, <1>3, <1>4, <1>5 DEF MemoryInv, OrdersStep, MemoryStep

(* Every step keeps what concerns the book.                                 *)
LEMMA NextQuiet ==
    ASSUME SubmitterCancelMayFail = FALSE, QuietInv, [Next]_vars
    PROVE  QuietInv'
  <1>1. MemoryInv' /\ Passage /\ ControlStep /\ CancelStep /\ ReleaseStep
    BY NextMemory DEF QuietInv, MemoryStep
  <1>2. CancelOK'
    BY <1>1, CancelKept DEF QuietInv, MemoryInv
  <1>3. BookQuiet'
    BY <1>1, BookKept DEF QuietInv, MemoryInv
  <1>4. ReleaseOK'
    BY <1>1, <1>3, ReleaseKept DEF QuietInv, MemoryInv
  <1> QED BY <1>1, <1>2, <1>3, <1>4 DEF QuietInv

(* The account of a control row that says "stopped and nothing left to      *)
(* cancel" has no order past mark_personal_order_submitting and none on its *)
(* way to the exchange, whatever cancel-alls, answers and processes fail.   *)
THEOREM GateTheorem == Spec => []GateOK
  <1>1. Init => MemoryInv
    BY InitQuiet DEF QuietInv
  <1>2. MemoryInv /\ [Next]_vars => MemoryInv'
    BY NextMemory
  <1>3. MemoryInv => GateOK
    BY DEF MemoryInv
  <1> QED BY <1>1, <1>2, <1>3, PTL DEF Spec

(* The invariant of a run in which a submitter that lost its authority      *)
(* during the POST gets its cancel-all through.                             *)
LEMMA QuietInvariant ==
    ASSUME SubmitterCancelMayFail = FALSE
    PROVE  Spec => []QuietInv
  <1>1. QuietInv /\ [Next]_vars => QuietInv'
    BY NextQuiet
  <1> QED BY <1>1, InitQuiet, PTL DEF Spec

(* Stopped and acknowledged means quiet: acknowledge_runtime_cancellation   *)
(* is never accepted while an order rests, is under way, or is past its     *)
(* last durable gate.                                                       *)
THEOREM QuietTheorem ==
    ASSUME SubmitterCancelMayFail = FALSE
    PROVE  Spec => []Quiet
  <1>1. QuietInv => Quiet
    <2> SUFFICES ASSUME QuietInv, ~ctl.armed, ~ctl.pend, NEW i \in Intent
                 PROVE  ~InFlight(i) /\ rows[i].st # "submitting"
      BY DEF Quiet
    <2>1. Stopped
      BY ControlFields DEF QuietInv, MemoryInv, TypeOK, Stopped
    <2>2. NoneUnderWay /\ NothingOpen
      BY <2>1 DEF QuietInv, MemoryInv, GateOK, BookQuiet
    <2> QED BY <2>2 DEF NoneUnderWay, NothingOpen, InFlight
  <1> QED BY <1>1, QuietInvariant, PTL

-----------------------------------------------------------------------------
(* Arming and releasing. *)

(* Authority comes only from arm_personal_runtime_control, which asks for   *)
(* an account without a pending cancellation and without a lapsed arm.      *)
LEMMA ArmStep ==
    ASSUME TypeOK, ControlOK, [Next]_vars, LiveArmed(ctl)', ~LiveArmed(ctl)
    PROVE  Stopped
  <1>1. ctl \in Control /\ ctl.armed \in BOOLEAN /\ ctl.fresh \in BOOLEAN /\ ctl.pend \in BOOLEAN
    BY ControlFields DEF TypeOK
  <1>2. ctl'.armed /\ ctl'.fresh
    BY DEF LiveArmed
  <1>3. ~(ctl.armed /\ ctl.fresh) /\ ctl' # ctl
    BY DEF LiveArmed
  <1>4. \A c \in {Disarmed(ctl), Expired(ctl)} : ctl' # c
    BY <1>2 DEF Disarmed, Expired
  <1>5. ctl' # Acknowledged(ctl)
    BY <1>2, <1>3 DEF Acknowledged
  <1>6. ctl' # PausedControl(ctl)
    BY <1>2, <1>3 DEF PausedControl
  <1>7. ~ArmLapses
    BY <1>1, <1>2 DEF ArmLapses, Control
  <1>8. PICK w \in Worker : PrepareCycle(w)
    <2>1. ~Environment
      BY <1>3, <1>6, <1>7 DEF Environment, Land, Close, LeaseLapses, Pause, Resume, dbVars
    <2>2. \A w \in Worker : ~WatchStep(w)
      BY <1>3, <1>4, <1>5
         DEF WatchStep, WatchObserve, WatchLatch, WatchCancel, WatchAck, WatchFails, dbVars
    <2>3. \A w \in Worker : ~ShutdownStep(w)
      BY <1>3, <1>4, <1>5
         DEF ShutdownStep, StopRequested, Shutdown, ShutdownCancel, ShutdownValidate,
             ShutdownAck, ShutdownRelease, Crash, dbVars
    <2>4. \A w \in Worker : ~SubmitStep(w)
      BY <1>3 DEF SubmitStep, Reserve, CheckUnresolved, Gate, Sign, SignFails, Mark,
           FinalCheck, Reject, Post, Refused, Accepted, Revoked, AmbiguousPost, BrokerSave,
           EngineSave, EngineWrite, dbVars
    <2>5. \A w \in Worker : LoopStep(w) => PrepareCycle(w)
      BY <1>3, <1>4, <1>5, <1>6
         DEF LoopStep, StartCycle, EndCycle, HaltCycle, PauseLive, HaltWorker, EngineStop,
             StopCancel, StopAck, dbVars
    <2>6. \A w \in Worker : ~ClaimLease(w) /\ ~LoseLease(w)
      BY <1>3 DEF ClaimLease, LoseLease, dbVars
    <2>7. \A w \in Worker, i \in Intent : ~ReconcileOrder(w, i)
      BY <1>3 DEF ReconcileOrder
    <2> QED BY <1>3, <2>1, <2>2, <2>3, <2>4, <2>5, <2>6, <2>7 DEF Next, vars
  <1>9. ~ctl.pend /\ ~ctl.armed
    BY <1>1, <1>3, <1>8 DEF PrepareCycle, ArmAllowed
  <1> QED BY <1>1, <1>9 DEF Stopped

(* An arm that is not a renewal finds nothing of an earlier arm at the       *)
(* exchange.                                                                *)
THEOREM ArmTheorem ==
    ASSUME SubmitterCancelMayFail = FALSE
    PROVE  Spec => ArmOverQuietBook
  <1>1. QuietInv /\ [Next]_vars =>
           [LiveArmed(ctl)' /\ ~LiveArmed(ctl) => \A i \in Intent : ~InFlight(i)]_vars
    <2> SUFFICES ASSUME QuietInv, [Next]_vars, LiveArmed(ctl)', ~LiveArmed(ctl),
                        NEW i \in Intent
                 PROVE  ~InFlight(i)
      OBVIOUS
    <2>1. Stopped
      BY ArmStep DEF QuietInv, MemoryInv
    <2>2. NoneUnderWay /\ NothingOpen
      BY <2>1 DEF QuietInv, MemoryInv, GateOK, BookQuiet
    <2> QED BY <2>2 DEF NoneUnderWay, NothingOpen, InFlight
  <1> QED BY <1>1, QuietInvariant, PTL DEF Spec, ArmOverQuietBook

(* A lease is handed back only with nothing of the account at the exchange. *)
THEOREM ReleaseTheorem ==
    ASSUME SubmitterCancelMayFail = FALSE
    PROVE  Spec => ReleaseIsQuiet
  <1>1. QuietInv /\ [Next]_vars =>
           [\A w \in Worker : ShutdownRelease(w) /\ LeaseValid(lease, w, tok[w]) =>
              \A i \in Intent : ~InFlight(i)]_vars
    <2> SUFFICES ASSUME QuietInv, NEW w \in Worker, ShutdownRelease(w),
                        LeaseValid(lease, w, tok[w]), NEW i \in Intent
                 PROVE  ~InFlight(i)
      OBVIOUS
    <2>1. OwnsStop(w)
      BY DEF ShutdownRelease, LeaseValid, OwnsStop
    <2>2. NoneUnderWay /\ NothingOpen
      BY <2>1 DEF QuietInv, ReleaseOK
    <2> QED BY <2>2 DEF NoneUnderWay, NothingOpen, InFlight
  <1> QED BY <1>1, QuietInvariant, PTL DEF Spec, ReleaseIsQuiet
=============================================================================
