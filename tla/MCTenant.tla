------------------------------- MODULE MCTenant ------------------------------
(* The tenant process for TLC, in parts: its job queue, a live job that     *)
(* trades while its wallet is revoked, and two enrolments of one signer.    *)
(* A behaviour stays in the part it starts in.                              *)
EXTENDS TenantQueue, WalletLifecycle, TLC

CONSTANT Traded         \* the wallet of the trading part

VARIABLE part

allVars == <<part, vars, wvars>>

AnyFault == {"call", "lease", "beat", "crash"}

MCInit == Init /\ WInit /\ part \in {"queue", "trading", "enrolment"}

In(p, A, others) == part = p /\ A /\ UNCHANGED <<part, others>>

(* One wallet and one process that may end, and at most one verification.   *)
Trading ==
    /\ WNext
    /\ \A k \in WalletKey \ {Traded} : wallet'[k] = NoWallet
    /\ wallet'[Traded].tries <= 1
    /\ \A p \in Worker : ww'[p].pc # "dead"
    /\ \A p \in Lasting : ww'[p] = NoTask /\ job'[p] = NoLiveJob

(* Two processes and two enrolments of one signer, and nothing trades.      *)
Enrolment ==
    \/ \E k \in WalletKey, s \in Signer : Import(k, s)
    \/ \E k \in WalletKey :
          RequestRevoke(k) \/ (~WalletKept(k) /\ LifecycleLeaseLapses(k))
    \/ \E p \in Worker :
          \/ Lifecycle(p) \/ ServeRaises(p) \/ LifecycleRaises(p) \/ WorkerEnds(p)
          \/ ww[p].ok /\ ~Fenced(Row(p), p, ww[p].tok) /\ LifecycleHeartbeatLost(p)

MCNext ==
    \/ In("queue", Next, wvars)
    \/ In("trading", Trading, vars)
    \/ In("enrolment", Enrolment, vars)

(* The fairness of TenantQueue and of WalletLifecycle, part by part. *)
FairQueue ==
    /\ \A j \in Job : /\ WF_allVars(In("queue", DelayPasses(j), wvars))
                      /\ WF_allVars(In("queue", ~Kept(j) /\ LeaseExpires(j), wvars))
    /\ \A o \in Owner : /\ WF_allVars(In("queue", ClaimNext(o), wvars))
                        /\ WF_allVars(In("queue", ReturnDuplicate(o), wvars))
    /\ \A o \in Owner, a \in Account : WF_allVars(In("queue", TaskStep(o, a), wvars))

FairEnrolment ==
    /\ \A k \in WalletKey :
          WF_allVars(In("enrolment", ~WalletKept(k) /\ LifecycleLeaseLapses(k), vars))
    /\ \A p \in Worker : WF_allVars(In("enrolment", Lifecycle(p), vars))

MCSpec == MCInit /\ [][MCNext]_allVars /\ FairQueue /\ FairEnrolment

-----------------------------------------------------------------------------
(* VerificationSettles of WalletLifecycle, in the enrolment part: whatever  *)
(* fails, an enrolled wallet is verified, failed or revoked in the end      *)
(* (claim_trading_wallet_lifecycle).                                        *)
EnrolmentSettles ==
    \A k \in WalletKey :
        part = "enrolment" /\ wallet[k].st = "pending" ~> wallet[k].st # "pending"
=============================================================================
