------------------------------ MODULE CycleJobs ------------------------------
(***************************************************************************)
(* The cycle_jobs row of a tenant account and the repository calls that    *)
(* move it: claim, heartbeat, mark running, save paper state, complete and *)
(* fail.  The calls are the functions of migrations 0007, 0013 and 0015    *)
(* behind jobs/supabase.py; the in-process repository of jobs/memory.py    *)
(* makes the same changes under fewer conditions and serves one process,   *)
(* and is left out.  Each call is one statement on one row, so it is one   *)
(* predicate and one operator from the old row to the new.                 *)
(*                                                                         *)
(* Clock readings are abstracted to what the calls ask of them: lease is   *)
(* lease_expires_at > now(), due is run_after <= now().                    *)
(***************************************************************************)
EXTENDS Naturals

CONSTANTS
    Owner,          \* claimed_by: worker processes, a restarted one is another
    NoOwner,        \* a row that was never claimed, or was put back
    MaxAttempts     \* max_attempts of every row (3 by default)

ASSUME CycleJobsAssumption ==
    /\ NoOwner \notin Owner
    /\ MaxAttempts \in Nat \ {0}

Held == {"claimed", "running"}

Active == Held \cup {"queued"}

Settled == {"succeeded", "failed", "cancelled"}

(* ids stands for the wallet, AI credential and risk policy that the job   *)
(* was enqueued with.                                                       *)
JobRow == [st : {"none"} \cup Active \cup Settled, by : Owner \cup {NoOwner},
           tok : Nat, tries : Nat, lease : BOOLEAN, due : BOOLEAN,
           mode : {"paper", "shadow"}, ids : Nat]

NoJob == [st |-> "none", by |-> NoOwner, tok |-> 0, tries |-> 0,
          lease |-> FALSE, due |-> FALSE, mode |-> "paper", ids |-> 0]

QueuedJob(mode, ids) ==
    [NoJob EXCEPT !.st = "queued", !.due = TRUE, !.mode = mode, !.ids = ids]

-----------------------------------------------------------------------------
(* Claiming *)

Claimable(r) ==
    /\ r.due
    /\ \/ r.st = "queued"
       \/ r.st \in Held /\ ~r.lease /\ r.tries < MaxAttempts

(* claim_next_cycle_job first fails the rows whose last lease ran out. *)
Exhausted(r) == r.st \in Held /\ ~r.lease /\ r.tries >= MaxAttempts

(* Seeded fault: the sweep is missing. *)
NotSwept(r) == r

Swept(r) ==
    IF Exhausted(r) THEN [r EXCEPT !.st = "failed", !.lease = FALSE] ELSE r

(* Seeded fault: a takeover keeps the fencing token. *)
ClaimedSameFence(r, o) ==
    [r EXCEPT !.st = "claimed", !.by = o, !.lease = TRUE,
              !.tok = IF r.tok = 0 THEN 1 ELSE r.tok, !.tries = r.tries + 1]

ClaimedJob(r, o) ==
    [r EXCEPT !.st = "claimed", !.by = o, !.lease = TRUE,
              !.tok = r.tok + 1, !.tries = r.tries + 1]

-----------------------------------------------------------------------------
(* Transitions by the holder of a fencing token *)

Holds(r, o, t) == r.by = o /\ r.tok = t

(* Seeded fault: the token is not compared. *)
HeldByOwner(r, o, t) == r.by = o /\ r.st \in Held /\ r.lease

(* The WHERE clause that heartbeat_cycle_job, validate_cycle_job_lease,     *)
(* complete_cycle_job_with_result and fail_cycle_job share.                 *)
HeldBy(r, o, t) == Holds(r, o, t) /\ r.st \in Held /\ r.lease

(* mark_cycle_job_running *)
MayRun(r, o, t) == Holds(r, o, t) /\ r.st = "claimed" /\ r.lease

RunningJob(r) == [r EXCEPT !.st = "running"]

(* save_paper_account_state *)
MaySave(r, o, t) ==
    Holds(r, o, t) /\ r.st = "running" /\ r.mode = "paper" /\ r.lease

CompletedJob(r) == [r EXCEPT !.st = "succeeded", !.lease = FALSE]

(* fail_cycle_job: back to the queue in 30 seconds, or failed for good. *)
FailedJob(r, retryable) ==
    IF retryable /\ r.tries < MaxAttempts
    THEN [r EXCEPT !.st = "queued", !.by = NoOwner, !.lease = FALSE,
                   !.due = FALSE]
    ELSE [r EXCEPT !.st = "failed", !.lease = FALSE]

(* revoke_ai_credential and request_trading_wallet_revocation *)
CancelledJob(r) ==
    IF r.st = "queued" THEN [r EXCEPT !.st = "cancelled"] ELSE r
=============================================================================
