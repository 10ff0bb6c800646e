--------------------------- MODULE WalletLifecycle ---------------------------
(***************************************************************************)
(* The trading wallets of one tenant account: enrolment of a signer key,   *)
(* verification and revocation by WalletLifecycleWorker (wallet_worker.py) *)
(* under a fencing lease, and the live jobs that trade with the wallet     *)
(* meanwhile (TenantRuntimeExecutor._run_runtime, tenant_execution.py).    *)
(* The rows are changed by the functions of migrations 0007, 0010 and      *)
(* 0015, one statement each (credentials.py, jobs/supabase.py).            *)
(*                                                                         *)
(* The worker lease, the runtime control and the order rows are those of   *)
(* AccountGate.  The control watch of a live job, which runs the same      *)
(* _enforce_runtime_control_once as the personal worker, is modelled in    *)
(* LiveExecution and left out here.                                        *)
(***************************************************************************)
EXTENDS AccountGate, FiniteSets

CONSTANTS
    WalletKey,      \* enrolment idempotency keys: one wallet row each
    Signer,         \* fingerprints of signer keys
    Order,
    None,
    MaxTries,       \* lifecycle_attempt_count limit (5 in the code)
    MaxEdits,       \* bound: profile updates and arms
    MaxJobs,        \* bound: live jobs started
    WalletFaults,   \* bound: the kinds of fault that are explored
    Lasting         \* bound: processes that never end and whose serve never raises

WalletAssumption ==
    /\ IsFiniteSet(Worker)
    /\ None \notin WalletKey
    /\ MaxTries \in Nat \ {0}
    /\ MaxEdits \in Nat
    /\ MaxJobs \in Nat
    /\ WalletFaults \subseteq {"claim", "client", "lease", "crash"}
    /\ Lasting \subseteq Worker

VARIABLES
    wallet,     \* trading_wallets joined with their signer's credential_refs
    wprof,      \* account_runtime_profiles: version, wallet, live mode
    pick,       \* a profile update between its wallet check and its UPDATE
    ctl,        \* runtime_controls
    lease,      \* worker_leases
    rows,       \* orders
    book,       \* the exchange's view of each order, and its wallet
    alive,      \* the processes that run
    ww,         \* the wallet lifecycle worker of each process
    job         \* the live job of each process

db == <<wallet, wprof, pick, ctl, lease>>
wvars == <<wallet, wprof, pick, ctl, lease, rows, book, alive, ww, job>>

WalletStatus == {"none", "pending", "active", "revoking", "revoked", "failed"}

(* cred is the status of the wallet's credential_refs row; ready stands for *)
(* a fresh readiness record with balance and allowances.                    *)
WalletRow == [st : WalletStatus, cred : WalletStatus, signer : Signer \cup {None},
              by : Worker \cup {NoWorker}, tok : Nat, lease : BOOLEAN,
              tries : Nat, ready : BOOLEAN]

NoWallet == [st |-> "none", cred |-> "none", signer |-> None, by |-> NoWorker,
             tok |-> 0, lease |-> FALSE, tries |-> 0, ready |-> FALSE]

(* What WalletLifecycleWorker.process_claim is doing, with its claim and    *)
(* lease_valid; "dead" is a serve loop that a raising call has ended.       *)
LifecycleTask == [pc : {"idle", "dead", "envelope", "verify", "record", "fail",
                        "cancel", "list", "complete"},
                  key : WalletKey \cup {None}, tok : Nat, ok : BOOLEAN]

NoTask == [pc |-> "idle", key |-> None, tok |-> 0, ok |-> FALSE]

(* What _run_runtime and the broker's submit are doing, with the snapshots  *)
(* they hold: wallet, profile version, lease token, control version, order. *)
LiveJob == [pc : {"idle", "start", "cycle", "mark", "check", "wait", "answer",
                  "stop", "sweep"},
            key : WalletKey \cup {None}, pver : Nat, tok : Nat, cver : Nat,
            o : Order \cup {None}]

NoLiveJob == [pc |-> "idle", key |-> None, pver |-> 0, tok |-> 0, cver |-> 0,
              o |-> None]

WTypeOK ==
    /\ wallet \in [WalletKey -> WalletRow]
    /\ wprof \in [ver : Nat, key : WalletKey \cup {None}, live : BOOLEAN]
    /\ pick \in {<<>>} \cup ((WalletKey \cup {None}) \X Nat)
    /\ ctl \in Control
    /\ lease \in Lease
    /\ rows \in [Order -> OrderRow]
    /\ book \in [Order -> [st : {"none", "flight", "open", "gone", "refused"},
                           key : WalletKey \cup {None}]]
    /\ alive \in SUBSET Worker
    /\ ww \in [Worker -> LifecycleTask]
    /\ job \in [Worker -> LiveJob]

WInit ==
    /\ wallet = [k \in WalletKey |-> NoWallet]
    /\ wprof = [ver |-> 1, key |-> None, live |-> FALSE]
    /\ pick = <<>>
    /\ ctl = InitialControl
    /\ lease = InitialLease
    /\ rows = [o \in Order |-> NoRow]
    /\ book = [o \in Order |-> [st |-> "none", key |-> None]]
    /\ alive = Worker
    /\ ww = [p \in Worker |-> NoTask]
    /\ job = [p \in Worker |-> NoLiveJob]

-----------------------------------------------------------------------------
(* The wallet row, one operator per repository call *)

Enrolled == {"pending", "active", "revoking"}

Unclaimed(r) == [r EXCEPT !.by = NoWorker, !.lease = FALSE]

(* Has a worker of this claim still the row? (_claimed_wallet, and the      *)
(* WHERE clauses of the lifecycle functions)                                *)
Fenced(r, p, t) == r.by = p /\ r.tok = t /\ r.lease

(* The lifecycle columns allow a claim. *)
Free(r) == r.by = NoWorker \/ ~r.lease

LifecycleClaimable(r) ==
    /\ Free(r)
    /\ \/ r.st = "pending" /\ r.tries < MaxTries
       \/ r.st = "revoking"

(* Seeded fault: exhausted verifications are left alone. *)
WalletNotSwept(r) == r

(* The first statement of claim_trading_wallet_lifecycle. *)
WalletSwept(r) ==
    IF r.st = "pending" /\ r.tries >= MaxTries /\ Free(r)
    THEN [Unclaimed(r) EXCEPT !.st = "failed", !.cred = "revoked"] ELSE r

(* lifecycle_fencing_token + 1.  A token is only ever compared for equality *)
(* with one that a task remembers, so the least number that neither the row *)
(* nor a task holds stands for it, and the model stays finite.              *)
FreshToken(r) ==
    CHOOSE t \in 1 .. Cardinality(Worker) + 2 :
        LET used == {r.tok} \cup {ww[p].tok : p \in Worker}
        IN t \notin used /\ \A u \in 1 .. t - 1 : u \in used

ClaimedWallet(r, p) ==
    [r EXCEPT !.by = p, !.tok = FreshToken(r), !.lease = TRUE,
              !.tries = IF r.st = "pending" THEN r.tries + 1 ELSE r.tries]

(* complete_trading_wallet_verification *)
Verified(r, p, t) ==
    IF Fenced(r, p, t) /\ r.st = "pending" /\ r.cred = "pending"
    THEN [Unclaimed(r) EXCEPT !.st = "active", !.cred = "active"] ELSE r

(* fail_trading_wallet_verification *)
VerificationFailed(r, p, t, retryable) ==
    IF ~(Fenced(r, p, t) /\ r.st = "pending") THEN r
    ELSE IF retryable /\ r.tries < MaxTries THEN Unclaimed(r)
    ELSE [Unclaimed(r) EXCEPT !.st = "failed", !.cred = "revoked"]

(* record_wallet_readiness *)
Recorded(r, ready) == IF r.st = "active" THEN [r EXCEPT !.ready = ready] ELSE r

(* request_trading_wallet_revocation: a wallet that never became active is  *)
(* revoked at once, an active one waits for the worker.                     *)
RevocationRequested(r) ==
    CASE r.st \in {"revoked", "revoking", "none"} -> r
      [] r.st = "active" -> [r EXCEPT !.st = "revoking", !.cred = "revoking"]
      [] OTHER -> [Unclaimed(r) EXCEPT !.st = "revoked", !.cred = "revoked"]

(* The order rows that keep a revocation from completing. *)
OpenRows == {o \in Order : rows[o].st \in {"signed", "submitting", "submitted",
                                           "unknown", "working"}}

(* Seeded fault: the exchange's answer is taken for the account's orders.   *)
MayRevokeUnchecked(r, p, t) == Fenced(r, p, t) /\ r.st = "revoking"

(* complete_trading_wallet_revocation *)
MayRevoke(r, p, t) ==
    Fenced(r, p, t) /\ r.st = "revoking" /\ OpenRows = {}

RevokedWallet(r) == [Unclaimed(r) EXCEPT !.st = "revoked", !.cred = "revoked"]

-----------------------------------------------------------------------------
(* The control API *)

(* Seeded fault: the signer's other wallets are not looked up. *)
ImportSecond(k, s) ==
    /\ wallet[k].st = "none"
    /\ wallet' = [wallet EXCEPT ![k] = [NoWallet EXCEPT
                      !.st = "pending", !.cred = "pending", !.signer = s]]
    /\ UNCHANGED <<wprof, pick, ctl, lease, rows, book, alive, ww, job>>

(* import_trading_wallet: a known key, or an enrolled signer, returns the   *)
(* wallet it has (or conflicts) and changes nothing.                        *)
Import(k, s) ==
    /\ wallet[k].st = "none"
    /\ \A j \in WalletKey : ~(wallet[j].signer = s /\ wallet[j].cred \in Enrolled)
    /\ wallet' = [wallet EXCEPT ![k] = [NoWallet EXCEPT
                      !.st = "pending", !.cred = "pending", !.signer = s]]
    /\ UNCHANGED <<wprof, pick, ctl, lease, rows, book, alive, ww, job>>

RequestRevoke(k) ==
    /\ RevocationRequested(wallet[k]) # wallet[k]
    /\ wallet' = [wallet EXCEPT ![k] = RevocationRequested(@)]
    /\ IF wallet[k].st = "active"
       THEN /\ wprof' = IF wprof.key = k
                       THEN [ver |-> wprof.ver + 1, key |-> None, live |-> FALSE]
                       ELSE wprof
            /\ ctl' = IF ctl.real THEN Disarmed(ctl) ELSE ctl
       ELSE UNCHANGED <<wprof, ctl>>
    /\ UNCHANGED <<pick, lease, rows, book, alive, ww, job>>

(* update_account_runtime_profile checks the wallet in one statement and    *)
(* writes the profile in another, which compares the version only.          *)
SelectWallet(k) ==
    /\ pick = <<>>
    /\ wprof.ver + ctl.ver < MaxEdits + 2
    /\ k # None => wallet[k].st = "active"
    /\ pick' = <<k, wprof.ver>>
    /\ UNCHANGED <<wallet, wprof, ctl, lease, rows, book, alive, ww, job>>

WriteProfile ==
    /\ pick # <<>>
    /\ pick' = <<>>
    /\ wprof' = IF wprof.ver = pick[2]
               THEN [ver |-> wprof.ver + 1, key |-> pick[1], live |-> pick[1] # None]
               ELSE wprof
    /\ UNCHANGED <<wallet, ctl, lease, rows, book, alive, ww, job>>

(* arm: assert_live_ready, then arm_runtime_control *)
Arm ==
    /\ wprof.ver + ctl.ver < MaxEdits + 2
    /\ wprof.live /\ wallet[wprof.key].st = "active"
    /\ ~ctl.pend
    /\ ctl.armed => ctl.fresh
    /\ ctl' = Armed(ctl)
    /\ UNCHANGED <<wallet, wprof, pick, lease, rows, book, alive, ww, job>>

-----------------------------------------------------------------------------
(* WalletLifecycleWorker *)

SetLifecycle(p, t) == ww' = [ww EXCEPT ![p] = t]

TaskAt(p, pc) == p \in alive /\ ww[p].pc = pc

Row(p) == wallet[ww[p].key]

(* serve: revocations are claimed before verifications. *)
ClaimLifecycle(p) ==
    /\ TaskAt(p, "idle")
    /\ \E swept \in {[k \in WalletKey |-> WalletSwept(wallet[k])]} :
         \/ \E k \in WalletKey :
              /\ LifecycleClaimable(swept[k])
              /\ swept[k].st = "pending" =>
                     ~\E j \in WalletKey : swept[j].st = "revoking" /\ LifecycleClaimable(swept[j])
              /\ wallet' = [swept EXCEPT ![k] = ClaimedWallet(@, p)]
              /\ SetLifecycle(p, [pc |-> "envelope", key |-> k,
                             tok |-> wallet'[k].tok, ok |-> TRUE])
         \/ /\ \A k \in WalletKey : ~LifecycleClaimable(swept[k])
            /\ swept # wallet
            /\ wallet' = swept
            /\ UNCHANGED ww
    /\ UNCHANGED <<wprof, pick, ctl, lease, rows, book, alive, job>>

(* The claim, the envelope read or the recording of a failure raises:       *)
(* neither serve nor process_claim has a handler, and                       *)
(* run_tenant_queue_worker looks at the task only when it stops.            *)
ServeRaises(p) ==
    /\ p \in alive \ Lasting
    /\ ww[p].pc \in {"idle", "envelope", "fail"}
    /\ "claim" \in WalletFaults
    /\ SetLifecycle(p, [NoTask EXCEPT !.pc = "dead"])
    /\ UNCHANGED <<db, rows, book, alive, job>>

(* get_wallet_lifecycle_envelope: wallet and credential in the same state. *)
HasEnvelope(r, p, t) == Fenced(r, p, t) /\ r.st \in {"pending", "revoking"} /\ r.cred = r.st

GetEnvelope(p) ==
    /\ TaskAt(p, "envelope")
    /\ IF HasEnvelope(Row(p), p, ww[p].tok)
       THEN SetLifecycle(p, [ww[p] EXCEPT !.pc = IF Row(p).st = "pending"
                                            THEN "verify" ELSE "cancel"])
       ELSE IF Row(p).st = "pending" THEN SetLifecycle(p, [ww[p] EXCEPT !.pc = "fail"])
       ELSE SetLifecycle(p, NoTask)
    /\ UNCHANGED <<db, rows, book, alive, job>>

(* _verify: the client answers, the completion is fenced; a task whose      *)
(* heartbeat was lost stops before it.                                      *)
CompleteVerification(p) ==
    /\ TaskAt(p, "verify")
    /\ IF ww[p].ok
       THEN /\ wallet' = [wallet EXCEPT ![ww[p].key] = Verified(@, p, ww[p].tok)]
            /\ SetLifecycle(p, IF wallet' = wallet THEN NoTask
                          ELSE [ww[p] EXCEPT !.pc = "record"])
       ELSE SetLifecycle(p, NoTask) /\ UNCHANGED wallet
    /\ UNCHANGED <<wprof, pick, ctl, lease, rows, book, alive, job>>

RecordReadiness(p) ==
    /\ TaskAt(p, "record")
    /\ \E ready \in BOOLEAN : wallet' = [wallet EXCEPT ![ww[p].key] = Recorded(@, ready)]
    /\ SetLifecycle(p, NoTask)
    /\ UNCHANGED <<wprof, pick, ctl, lease, rows, book, alive, job>>

(* The client, the decryptor or a repository call raises: _verify records   *)
(* a failure, _revoke leaves the claim to expire.                           *)
LifecycleRaises(p) ==
    /\ p \in alive
    /\ ww[p].pc \in {"verify", "record", "cancel", "list", "complete"}
    /\ "client" \in WalletFaults
    /\ SetLifecycle(p, IF ww[p].pc \in {"verify", "record"}
                  THEN [ww[p] EXCEPT !.pc = "fail"] ELSE NoTask)
    /\ UNCHANGED <<db, rows, book, alive, job>>

FailVerification(p) ==
    /\ TaskAt(p, "fail")
    /\ IF ww[p].ok
       THEN \E retryable \in BOOLEAN :
              wallet' = [wallet EXCEPT ![ww[p].key] =
                             VerificationFailed(@, p, ww[p].tok, retryable)]
       ELSE UNCHANGED wallet
    /\ SetLifecycle(p, NoTask)
    /\ UNCHANGED <<wprof, pick, ctl, lease, rows, book, alive, job>>

(* The exchange cancels every order that rests under this wallet's key. *)
CancelledBook(k) ==
    [o \in Order |-> IF book[o].st = "open" /\ book[o].key = k
                     THEN [book[o] EXCEPT !.st = "gone"] ELSE book[o]]

(* _revoke: cancel_all, then list_open_orders, then the completion. *)
RevokeCancel(p) ==
    /\ TaskAt(p, "cancel")
    /\ book' = CancelledBook(ww[p].key)
    /\ SetLifecycle(p, [ww[p] EXCEPT !.pc = "list"])
    /\ UNCHANGED <<db, rows, alive, job>>

RevokeList(p) ==
    /\ TaskAt(p, "list")
    /\ SetLifecycle(p, IF ww[p].ok /\ \A o \in Order :
                        ~(book[o].st = "open" /\ book[o].key = ww[p].key)
                  THEN [ww[p] EXCEPT !.pc = "complete"] ELSE NoTask)
    /\ UNCHANGED <<db, rows, book, alive, job>>

CompleteRevocation(p) ==
    /\ TaskAt(p, "complete")
    /\ wallet' = [wallet EXCEPT ![ww[p].key] =
                      IF MayRevoke(@, p, ww[p].tok) THEN RevokedWallet(@) ELSE @]
    /\ SetLifecycle(p, NoTask)
    /\ UNCHANGED <<wprof, pick, ctl, lease, rows, book, alive, job>>

(* A task whose heartbeats still renew the lease of this row. *)
WalletKept(k) == \E p \in alive : ww[p].key = k /\ ww[p].tok = wallet[k].tok /\ ww[p].ok

LifecycleLeaseLapses(k) ==
    /\ wallet[k].lease
    /\ "lease" \in WalletFaults \/ ~WalletKept(k)
    /\ wallet' = [wallet EXCEPT ![k].lease = FALSE]
    /\ UNCHANGED <<wprof, pick, ctl, lease, rows, book, alive, ww, job>>

(* _heartbeat: a refused or raising heartbeat clears lease_valid. *)
LifecycleHeartbeatLost(p) ==
    /\ p \in alive /\ ww[p].ok
    /\ "lease" \in WalletFaults \/ ~Fenced(Row(p), p, ww[p].tok)
    /\ ww' = [ww EXCEPT ![p].ok = FALSE]
    /\ UNCHANGED <<db, rows, book, alive, job>>

-----------------------------------------------------------------------------
(* A live job of this account *)

SetLive(p, j) == job' = [job EXCEPT ![p] = j]

LiveAt(p, pc) == p \in alive /\ job[p].pc = pc

(* TenantRuntimeExecutor up to claim_worker_lease: every job claims under   *)
(* an owner id of its own.                                                  *)
StartJob(p) ==
    /\ LiveAt(p, "idle")
    /\ lease.token < MaxJobs
    /\ wprof.live
    /\ wallet[wprof.key].st = "active" /\ wallet[wprof.key].cred = "active"
    /\ ~lease.live
    /\ lease' = Claimed([lease EXCEPT !.owner = NoWorker], p)
    /\ SetLive(p, [NoLiveJob EXCEPT !.pc = "start", !.key = wprof.key,
                                    !.pver = wprof.ver, !.tok = lease'.token])
    /\ UNCHANGED <<wallet, wprof, pick, ctl, rows, book, alive, ww>>

(* broker_guard: the lease and the profile are still those of the job. *)
Guarded(p) == LeaseValid(lease, p, job[p].tok) /\ wprof.ver = job[p].pver

(* The control must be armed and the readiness record must find the wallet  *)
(* active.                                                                  *)
EnterCycle(p) ==
    /\ LiveAt(p, "start")
    /\ IF LiveArmed(ctl) /\ ~ctl.pend /\ wallet[job[p].key].st = "active"
       THEN /\ SetLive(p, [job[p] EXCEPT !.pc = "cycle"])
            /\ \E ready \in BOOLEAN :
                 wallet' = [wallet EXCEPT ![job[p].key] = Recorded(@, ready)]
       ELSE SetLive(p, [job[p] EXCEPT !.pc = "stop"]) /\ UNCHANGED wallet
    /\ UNCHANGED <<wprof, pick, ctl, lease, rows, book, alive, ww>>

(* PolymarketBroker.submit up to prepare_signed_order *)
SignOrder(p, o) ==
    /\ LiveAt(p, "cycle")
    /\ rows[o].st = "none"
    /\ ~Unresolved(rows)
    /\ Guarded(p) /\ LiveArmed(ctl)
    /\ rows' = [rows EXCEPT ![o] = [st |-> "signed", tok |-> job[p].tok, id |-> FALSE]]
    /\ book' = [book EXCEPT ![o].key = job[p].key]
    /\ SetLive(p, [job[p] EXCEPT !.pc = "mark", !.o = o, !.cver = ctl.ver])
    /\ UNCHANGED <<db, alive, ww>>

(* mark_tenant_order_submitting, and the trigger orders_live_wallet_ready,  *)
(* which looks at the profile's wallet.                                     *)
MarkTenantAllowed(p) ==
    LET j == job[p] IN
    /\ rows[j.o].st = "signed" /\ rows[j.o].tok = j.tok
    /\ lease.token = j.tok /\ lease.live
    /\ ctl.ver = j.cver /\ LiveArmed(ctl) /\ ~ctl.pend
    /\ wprof.ver = j.pver /\ wprof.live /\ wprof.key = j.key
    /\ wallet[j.key].st = "active" /\ wallet[j.key].cred = "active"
    /\ wallet[j.key].ready

Settle(p, st, id) ==
    /\ rows' = [rows EXCEPT ![job[p].o] =
           SavedRow(rows[job[p].o], rows[job[p].o].st, st, id)]
    /\ SetLive(p, [job[p] EXCEPT !.pc = "cycle", !.o = None])

MarkOrder(p) ==
    /\ LiveAt(p, "mark")
    /\ IF MarkTenantAllowed(p)
       THEN /\ rows' = [rows EXCEPT ![job[p].o].st = "submitting"]
            /\ SetLive(p, [job[p] EXCEPT !.pc = "check"])
       ELSE Settle(p, "rejected", FALSE)
    /\ UNCHANGED <<db, book, alive, ww>>

PostOrder(p) ==
    /\ LiveAt(p, "check")
    /\ IF Guarded(p) /\ LiveArmed(ctl) /\ ctl.ver = job[p].cver
       THEN /\ book' = [book EXCEPT ![job[p].o].st = "flight"]
            /\ SetLive(p, [job[p] EXCEPT !.pc = "wait"])
            /\ UNCHANGED rows
       ELSE Settle(p, "rejected", FALSE) /\ UNCHANGED book
    /\ UNCHANGED <<db, alive, ww>>

(* The exchange takes the request, whoever still waits for the answer. *)
Land(o) ==
    /\ book[o].st = "flight"
    /\ \E st \in {"open", "refused"} : book' = [book EXCEPT ![o].st = st]
    /\ UNCHANGED <<db, rows, alive, ww, job>>

(* A resting order fills or expires. *)
CloseOrder(o) ==
    /\ book[o].st = "open"
    /\ book' = [book EXCEPT ![o].st = "gone"]
    /\ UNCHANGED <<db, rows, alive, ww, job>>

(* The answer arrives and is saved; a control or lease that changed during  *)
(* the POST leads to cancel_all and an unknown result.                      *)
Answer(p) ==
    /\ LiveAt(p, "wait")
    /\ book[job[p].o].st # "flight"
    /\ IF book[job[p].o].st = "refused"
       THEN Settle(p, "rejected", FALSE) /\ UNCHANGED book
       ELSE IF Guarded(p) /\ LiveArmed(ctl) /\ ctl.ver = job[p].cver
       THEN Settle(p, "submitted", TRUE) /\ UNCHANGED book
       ELSE Settle(p, "unknown", TRUE) /\ book' = CancelledBook(job[p].key)
    /\ UNCHANGED <<db, alive, ww>>

(* The POST raises: cancel_all, and a result without an order id. *)
AnswerLost(p) ==
    /\ LiveAt(p, "wait")
    /\ "client" \in WalletFaults
    /\ book' = CancelledBook(job[p].key)
    /\ Settle(p, "unknown", FALSE)
    /\ UNCHANGED <<db, alive, ww>>

(* The reconciler of a running job brings a row with an order id up to      *)
(* date (OrderLifecycle has the detail).                                    *)
ReconcileRow(p, o) ==
    /\ p \in alive /\ job[p].pc # "idle"
    /\ rows[o].id /\ book[o].key = job[p].key
    /\ rows[o].st \in {"submitted", "unknown", "working"}
    /\ LET st == IF book[o].st = "open" THEN "working" ELSE "closed"
       IN rows[o].st # st /\ rows' = [rows EXCEPT ![o].st = st]
    /\ UNCHANGED <<db, book, alive, ww, job>>

(* The end of run_cycle: the fence is checked, the orders are cancelled,    *)
(* and only unresolved rows keep the job from ending well.                  *)
Boundary(p) ==
    /\ LiveAt(p, "cycle")
    /\ book' = IF Guarded(p) THEN CancelledBook(job[p].key) ELSE book
    /\ IF Guarded(p) /\ ~Unresolved(rows)
       THEN /\ lease' = Released(lease, p, job[p].tok)
            /\ SetLive(p, NoLiveJob)
       ELSE SetLive(p, [job[p] EXCEPT !.pc = "stop"]) /\ UNCHANGED lease
    /\ UNCHANGED <<wallet, wprof, pick, ctl, rows, alive, ww>>

(* _shutdown_live_safely: disarm; then cancel, acknowledge and release. *)
StopJob(p) ==
    /\ LiveAt(p, "stop")
    /\ ctl' = Disarmed(ctl)
    /\ SetLive(p, [job[p] EXCEPT !.pc = "sweep", !.cver = ctl'.ver])
    /\ UNCHANGED <<wallet, wprof, pick, lease, rows, book, alive, ww>>

SweepJob(p) ==
    /\ LiveAt(p, "sweep")
    /\ book' = CancelledBook(job[p].key)
    /\ IF LeaseValid(lease, p, job[p].tok) /\ AckAllowed(ctl, rows, job[p].cver)
       THEN /\ ctl' = Acknowledged(ctl)
            /\ lease' = Released(lease, p, job[p].tok)
       ELSE UNCHANGED <<ctl, lease>>
    /\ SetLive(p, NoLiveJob)
    /\ UNCHANGED <<wallet, wprof, pick, rows, alive, ww>>

AccountLeaseLapses ==
    /\ lease.live
    /\ "lease" \in WalletFaults \/ ~(lease.owner \in alive /\ job[lease.owner].pc # "idle"
                                  /\ job[lease.owner].tok = lease.token)
    /\ lease' = [lease EXCEPT !.live = FALSE]
    /\ UNCHANGED <<wallet, wprof, pick, ctl, rows, book, alive, ww, job>>

WorkerEnds(p) ==
    /\ p \in alive \ Lasting
    /\ "crash" \in WalletFaults
    /\ alive' = alive \ {p}
    /\ ww' = [ww EXCEPT ![p] = NoTask]
    /\ job' = [job EXCEPT ![p] = NoLiveJob]
    /\ UNCHANGED <<db, rows, book>>

-----------------------------------------------------------------------------
Lifecycle(p) ==
    \/ ClaimLifecycle(p) \/ GetEnvelope(p) \/ CompleteVerification(p)
    \/ RecordReadiness(p) \/ FailVerification(p) \/ RevokeCancel(p)
    \/ RevokeList(p) \/ CompleteRevocation(p)

Live(p) ==
    \/ EnterCycle(p) \/ MarkOrder(p) \/ PostOrder(p) \/ Answer(p)
    \/ StopJob(p) \/ SweepJob(p)

WNext ==
    \/ \E k \in WalletKey, s \in Signer : Import(k, s)
    \/ \E k \in WalletKey : RequestRevoke(k) \/ LifecycleLeaseLapses(k)
    \/ \E k \in WalletKey \cup {None} : SelectWallet(k)
    \/ WriteProfile \/ Arm \/ AccountLeaseLapses
    \/ \E o \in Order : Land(o) \/ CloseOrder(o)
    \/ \E p \in Worker :
          \/ Lifecycle(p) \/ ServeRaises(p) \/ LifecycleRaises(p) \/ LifecycleHeartbeatLost(p)
          \/ StartJob(p) \/ Live(p) \/ Boundary(p) \/ AnswerLost(p) \/ WorkerEnds(p)
          \/ \E o \in Order : SignOrder(p, o) \/ ReconcileRow(p, o)

WSpec == WInit /\ [][WNext]_wvars

(* A process keeps polling for wallets and its calls return or raise; time  *)
(* passes; the exchange answers; a cycle ends; a running job reconciles.    *)
WFairSpec ==
    /\ WSpec
    /\ \A k \in WalletKey : WF_wvars(~WalletKept(k) /\ LifecycleLeaseLapses(k))
    /\ \A o \in Order : WF_wvars(Land(o))
    /\ \A p \in Worker :
          /\ WF_wvars(Lifecycle(p)) /\ WF_wvars(Live(p)) /\ WF_wvars(Boundary(p))
          /\ \A o \in Order : WF_wvars(ReconcileRow(p, o))

-----------------------------------------------------------------------------
(* A revoked wallet is quiet for good: no order of it rests at the exchange *)
(* or is on its way there, whatever live jobs, other processes and late     *)
(* requests were doing while it was revoked (wallet_worker.py _revoke,      *)
(* complete_trading_wallet_revocation, mark_tenant_order_submitting).       *)
RevokedIsQuiet ==
    \A k \in WalletKey, o \in Order :
        wallet[k].st = "revoked" /\ book[o].key = k
            => book[o].st \notin {"flight", "open"}

(* A signer key is enrolled in one wallet at a time, and a wallet and its   *)
(* key change status together: no worker can decrypt the key of a wallet    *)
(* that failed or was revoked (import_trading_wallet and the lifecycle      *)
(* functions, which update trading_wallets and credential_refs).            *)
KeyFollowsWallet ==
    /\ \A k \in WalletKey : wallet[k].cred = IF wallet[k].st = "failed" THEN "revoked"
                                       ELSE wallet[k].st
    /\ \A j, k \in WalletKey :
          wallet[j].st \in Enrolled /\ wallet[k].st \in Enrolled
              /\ wallet[j].signer = wallet[k].signer => j = k

(* Whatever fails and whichever process ends, an enrolled wallet is         *)
(* verified, failed or revoked in the end: the attempts run out and the     *)
(* next claim sweeps the row (claim_trading_wallet_lifecycle).              *)
VerificationSettles ==
    \A k \in WalletKey : wallet[k].st = "pending" ~> wallet[k].st # "pending"

(* A requested revocation completes (wallet_worker.py:192 keeps it pending  *)
(* "until zero open orders is verified").                                   *)
RevocationCompletes ==
    \A k \in WalletKey : wallet[k].st = "revoking" ~> wallet[k].st = "revoked"
=============================================================================
