----------------------------- MODULE TenantQueue -----------------------------
(***************************************************************************)
(* The multi-tenant worker: TenantJobRunner (tenant_worker.py) claims      *)
(* cycle jobs of many accounts, runs each in a task of its own under a     *)
(* fencing token, and records how it ended; TenantRuntimeExecutor          *)
(* (tenant_execution.py) runs a paper or shadow cycle inside the task, and *)
(* carries a paper account's state from cycle to cycle.  Several processes *)
(* share the queue.  Calls to the repository can fail before or after they *)
(* took effect, leases expire under a working task, processes end.         *)
(*                                                                         *)
(* A paper account's state is the sequence of the cycles whose trades it   *)
(* contains, each named by its job key and fencing token.                  *)
(***************************************************************************)
EXTENDS CycleJobs, FiniteSets, Sequences

CONSTANTS
    Account,
    Key,            \* idempotency keys, of the console's and of scheduled jobs
    NoKey,
    Ids,            \* selections of wallet, AI credential and risk policy
    MaxUpdates,     \* bound: profile updates and revocations per account
    MaxConcurrency, \* tasks of one process
    Faults,         \* bound: the kinds of fault that are explored
    Survivor        \* bound: processes that never end

ASSUME QueueAssumption ==
    /\ Key \subseteq Nat
    /\ NoKey \notin Key
    /\ Ids \subseteq Nat \ {0}
    /\ MaxUpdates \in Nat
    /\ MaxConcurrency \in Nat \ {0}
    /\ Faults \subseteq {"call", "lease", "beat", "crash"}
    /\ Survivor \subseteq Owner

VARIABLES
    jobs,       \* cycle_jobs, one row per account and idempotency key
    prof,       \* account_runtime_profiles
    paper,      \* paper_account_states
    up,         \* the processes that run
    serve,      \* a claim that the poll loop is about to hand back
    task        \* the task of a process for an account (_active_accounts)

vars == <<jobs, prof, paper, up, serve, task>>

Job == Account \X Key

Mode == {"paper", "shadow"}

Cycle == Key \X Nat

TaskPc == {"idle", "mark", "config", "load", "cycle", "save", "complete", "fail"}

(* A task: its job and token, JobLeaseGuard.is_valid, the paper state it    *)
(* holds, and whether the failure it is about to record may be retried.     *)
Task == [pc : TaskPc, key : Key \cup {NoKey}, tok : Nat, ok : BOOLEAN,
         state : Seq(Cycle), retry : BOOLEAN]

Idle == [pc |-> "idle", key |-> NoKey, tok |-> 0, ok |-> FALSE,
         state |-> <<>>, retry |-> FALSE]

NewTask(k, t) == [Idle EXCEPT !.pc = "mark", !.key = k, !.tok = t, !.ok = TRUE]

Profile == [upd : Nat, ids : Nat, mode : Mode, auto : BOOLEAN, due : BOOLEAN]

TypeOK ==
    /\ jobs \in [Job -> JobRow]
    /\ prof \in [Account -> Profile]
    /\ paper \in [Account -> Seq(Cycle)]
    /\ up \in SUBSET Owner
    /\ serve \in [Owner -> {<<>>} \cup (Account \X Key \X Nat)]
    /\ task \in [Owner -> [Account -> Task]]

Init ==
    /\ jobs = [j \in Job |-> NoJob]
    /\ prof \in [Account -> {[upd |-> 0, ids |-> i, mode |-> "paper",
                              auto |-> FALSE, due |-> FALSE] : i \in Ids}]
    /\ paper = [a \in Account |-> <<>>]
    /\ up = Owner
    /\ serve = [o \in Owner |-> <<>>]
    /\ task = [o \in Owner |-> [a \in Account |-> Idle]]

SetJob(j, r) == jobs' = [jobs EXCEPT ![j] = r]

SetTask(o, a, t) == task' = [task EXCEPT ![o][a] = t]

Step(o, a, pc) == SetTask(o, a, [task[o][a] EXCEPT !.pc = pc])

Fails(o, a, retryable) ==
    SetTask(o, a, [task[o][a] EXCEPT !.pc = "fail", !.retry = retryable])

Ends(o, a) == SetTask(o, a, Idle)

(* The job row of a task, and the task's claim on it. *)
JobOf(o, a) == <<a, task[o][a].key>>

RowOf(o, a) == jobs[JobOf(o, a)]

Claim(P(_, _, _), o, a) == P(RowOf(o, a), o, task[o][a].tok)

At(o, a, pc) == o \in up /\ task[o][a].pc = pc

-----------------------------------------------------------------------------
(* The control API and the scheduler *)

HasActive(a) == \E k \in Key : jobs[<<a, k>>].st \in Active

(* enqueue_cycle_job: a key that is known returns its job (or conflicts);   *)
(* a second active job violates cycle_jobs_one_active_per_account_uidx.     *)
Enqueue(a, k, m) ==
    /\ jobs[<<a, k>>].st = "none"
    /\ ~HasActive(a)
    /\ SetJob(<<a, k>>, QueuedJob(m, prof[a].ids))
    /\ UNCHANGED <<prof, paper, up, serve, task>>

(* update_account_runtime_profile *)
UpdateProfile(a, i, m, auto) ==
    /\ prof[a].upd < MaxUpdates
    /\ prof' = [prof EXCEPT ![a] =
           [upd |-> @.upd + 1, ids |-> i, mode |-> m, auto |-> auto,
            due |-> auto /\ (@.due \/ ~@.auto)]]
    /\ UNCHANGED <<jobs, paper, up, serve, task>>

(* revoke_ai_credential: queued jobs are cancelled, claimed ones find their *)
(* profile changed.                                                         *)
RevokeCredential(a) ==
    /\ prof[a].upd < MaxUpdates
    /\ prof[a].ids # 0
    /\ jobs' = [j \in Job |-> IF j[1] = a /\ jobs[j].ids = prof[a].ids
                              THEN CancelledJob(jobs[j]) ELSE jobs[j]]
    /\ prof' = [prof EXCEPT ![a] = [upd |-> @.upd + 1, ids |-> 0, mode |-> "paper",
                                    auto |-> FALSE, due |-> FALSE]]
    /\ UNCHANGED <<paper, up, serve, task>>

(* enqueue_due_cycle_jobs for one profile: the slot is used up even when    *)
(* the account still has a job.                                             *)
ScheduleDue(a) ==
    /\ prof[a].auto /\ prof[a].due
    /\ prof' = [prof EXCEPT ![a].due = FALSE]
    /\ \/ HasActive(a) /\ UNCHANGED jobs
       \/ /\ ~HasActive(a)
          /\ \E k \in Key :
                /\ jobs[<<a, k>>].st = "none"
                /\ SetJob(<<a, k>>, QueuedJob(prof[a].mode, prof[a].ids))
    /\ UNCHANGED <<paper, up, serve, task>>

(* Time: a slot comes due, a retry delay is over, a lease runs out. *)
SlotComesDue(a) ==
    /\ prof[a].auto /\ ~prof[a].due
    /\ prof' = [prof EXCEPT ![a].due = TRUE]
    /\ UNCHANGED <<jobs, paper, up, serve, task>>

DelayPasses(j) ==
    /\ jobs[j].st = "queued" /\ ~jobs[j].due
    /\ SetJob(j, [jobs[j] EXCEPT !.due = TRUE])
    /\ UNCHANGED <<prof, paper, up, serve, task>>

(* A task that still renews the lease of this row. *)
Kept(j) == \E o \in up : LET t == task[o][j[1]]
                         IN t.pc # "idle" /\ t.key = j[2] /\ t.tok = jobs[j].tok /\ t.ok

LeaseExpires(j) ==
    /\ jobs[j].st \in Held /\ jobs[j].lease
    /\ "lease" \in Faults \/ ~Kept(j)
    /\ SetJob(j, [jobs[j] EXCEPT !.lease = FALSE])
    /\ UNCHANGED <<prof, paper, up, serve, task>>

-----------------------------------------------------------------------------
(* TenantJobRunner.serve *)

Load(o) == {a \in Account : task[o][a].pc # "idle"}

SweptJobs == [j \in Job |-> Swept(jobs[j])]

(* A claim starts a task, unless this process still works for the account:  *)
(* then the claim is handed back.                                           *)
HandOut(o, a, k, t) ==
    IF a \in Load(o)
    THEN serve' = [serve EXCEPT ![o] = <<a, k, t>>] /\ UNCHANGED task
    ELSE SetTask(o, a, NewTask(k, t)) /\ UNCHANGED serve

(* claim_next_job: the oldest due row; which one that is, is left open. *)
ClaimNext(o) ==
    /\ o \in up
    /\ serve[o] = <<>>
    /\ Cardinality(Load(o)) < MaxConcurrency
    /\ \E swept \in {SweptJobs} :
          \/ \E j \in Job :
                /\ Claimable(swept[j])
                /\ jobs' = [swept EXCEPT ![j] = ClaimedJob(@, o)]
                /\ HandOut(o, j[1], j[2], jobs'[j].tok)
          \/ /\ \A j \in Job : ~Claimable(swept[j])
             /\ swept # jobs
             /\ jobs' = swept
             /\ UNCHANGED <<task, serve>>
    /\ UNCHANGED <<prof, paper, up>>

(* repository.fail(error_code="duplicate_account_claim", retryable=True) *)
ReturnDuplicate(o) ==
    /\ o \in up
    /\ serve[o] # <<>>
    /\ LET j == <<serve[o][1], serve[o][2]>>
       IN jobs' = IF HeldBy(jobs[j], o, serve[o][3])
                  THEN [jobs EXCEPT ![j] = FailedJob(@, TRUE)] ELSE jobs
    /\ serve' = [serve EXCEPT ![o] = <<>>]
    /\ UNCHANGED <<prof, paper, up, task>>

-----------------------------------------------------------------------------
(* TenantJobRunner._execute_claimed, with the executor's steps inside *)

MarkRunning(o, a) ==
    /\ At(o, a, "mark")
    /\ IF Claim(MayRun, o, a)
       THEN SetJob(JobOf(o, a), RunningJob(RowOf(o, a))) /\ Step(o, a, "config")
       ELSE Ends(o, a) /\ UNCHANGED jobs
    /\ UNCHANGED <<prof, paper, up, serve>>

(* TenantRuntimeExecutor.__call__ up to the runtime: the profile must still *)
(* be the one the job was enqueued for.                                     *)
CheckProfile(o, a) ==
    /\ At(o, a, "config")
    /\ IF prof[a].mode = RowOf(o, a).mode /\ prof[a].ids = RowOf(o, a).ids
       THEN Step(o, a, IF prof[a].mode = "paper" THEN "load" ELSE "cycle")
       ELSE Fails(o, a, FALSE)
    /\ UNCHANGED <<jobs, prof, paper, up, serve>>

LoadPaperState(o, a) ==
    /\ At(o, a, "load")
    /\ SetTask(o, a, [task[o][a] EXCEPT !.pc = "cycle", !.state = paper[a]])
    /\ UNCHANGED <<jobs, prof, paper, up, serve>>

(* runtime.engine.run_cycle with the lease guard as its execution guard: a  *)
(* task whose guard is invalid trades nothing.                              *)
RunCycle(o, a) ==
    /\ At(o, a, "cycle")
    /\ SetTask(o, a, [task[o][a] EXCEPT
           !.pc = IF RowOf(o, a).mode = "paper" THEN "save" ELSE "complete",
           !.state = IF task[o][a].ok /\ RowOf(o, a).mode = "paper"
                     THEN Append(@, <<task[o][a].key, task[o][a].tok>>) ELSE @])
    /\ UNCHANGED <<jobs, prof, paper, up, serve>>

(* An error of the executor: TenantJobExecutionError says whether it may be *)
(* retried, any other exception may.                                        *)
ExecutorRaises(o, a) ==
    /\ o \in up
    /\ task[o][a].pc \in {"config", "load", "cycle"}
    /\ "call" \in Faults
    /\ \E retryable \in BOOLEAN : Fails(o, a, retryable)
    /\ UNCHANGED <<jobs, prof, paper, up, serve>>

SaveAllowed(o, a) == Claim(MaySave, o, a)

SavePaperState(o, a) ==
    /\ At(o, a, "save")
    /\ IF SaveAllowed(o, a)
       THEN /\ paper' = [paper EXCEPT ![a] = task[o][a].state]
            /\ Step(o, a, "complete")
       ELSE Fails(o, a, TRUE) /\ UNCHANGED paper
    /\ UNCHANGED <<jobs, prof, up, serve>>

CompleteAllowed(o, a) == Claim(HeldBy, o, a)

(* Completion is not even tried after a lost heartbeat. *)
Complete(o, a) ==
    /\ At(o, a, "complete")
    /\ jobs' = IF task[o][a].ok /\ CompleteAllowed(o, a)
               THEN [jobs EXCEPT ![JobOf(o, a)] = CompletedJob(@)] ELSE jobs
    /\ Ends(o, a)
    /\ UNCHANGED <<prof, paper, up, serve>>

FailAllowed(o, a) == Claim(HeldBy, o, a)

(* _record_failure *)
RecordFailure(o, a) ==
    /\ At(o, a, "fail")
    /\ jobs' = IF task[o][a].ok /\ FailAllowed(o, a)
               THEN [jobs EXCEPT ![JobOf(o, a)] = FailedJob(@, task[o][a].retry)]
               ELSE jobs
    /\ Ends(o, a)
    /\ UNCHANGED <<prof, paper, up, serve>>

(* A call of _execute_claimed raises, without effect or after it: the       *)
(* handler records a retryable failure.  The failing call of the handler    *)
(* itself ends the task.                                                    *)
CallRaises(o, a) ==
    /\ "call" \in Faults
    /\ \/ /\ task[o][a].pc \in {"mark", "save", "complete"}
          /\ o \in up
          /\ Fails(o, a, TRUE)
          /\ \/ UNCHANGED <<jobs, paper>>
             \/ /\ task[o][a].pc = "mark" /\ Claim(MayRun, o, a)
                /\ SetJob(JobOf(o, a), RunningJob(RowOf(o, a)))
                /\ UNCHANGED paper
             \/ /\ task[o][a].pc = "save" /\ SaveAllowed(o, a)
                /\ paper' = [paper EXCEPT ![a] = task[o][a].state]
                /\ UNCHANGED jobs
             \/ /\ task[o][a].pc = "complete"
                /\ task[o][a].ok /\ CompleteAllowed(o, a)
                /\ SetJob(JobOf(o, a), CompletedJob(RowOf(o, a)))
                /\ UNCHANGED paper
       \/ /\ At(o, a, "fail")
          /\ Ends(o, a)
          /\ UNCHANGED <<jobs, paper>>
    /\ UNCHANGED <<prof, up, serve>>

(* _maintain_heartbeat: a refused or failed heartbeat invalidates the guard *)
(* for good; an accepted one renews the lease.                              *)
HeartbeatLost(o, a) ==
    /\ o \in up
    /\ task[o][a].pc \notin {"idle", "mark"}
    /\ task[o][a].ok
    /\ "beat" \in Faults \/ ~Claim(HeldBy, o, a)
    /\ SetTask(o, a, [task[o][a] EXCEPT !.ok = FALSE])
    /\ UNCHANGED <<jobs, prof, paper, up, serve>>

(* The process ends, or is stopped: serve cancels its tasks, and a cancelled *)
(* task records nothing.                                                     *)
ProcessEnds(o) ==
    /\ o \in up \ Survivor
    /\ "crash" \in Faults
    /\ up' = up \ {o}
    /\ task' = [task EXCEPT ![o] = [a \in Account |-> Idle]]
    /\ serve' = [serve EXCEPT ![o] = <<>>]
    /\ UNCHANGED <<jobs, prof, paper>>

-----------------------------------------------------------------------------
TaskStep(o, a) ==
    \/ MarkRunning(o, a) \/ CheckProfile(o, a) \/ LoadPaperState(o, a)
    \/ RunCycle(o, a) \/ SavePaperState(o, a) \/ Complete(o, a)
    \/ RecordFailure(o, a)

Tenant(a) ==
    \/ \E k \in Key, m \in Mode : Enqueue(a, k, m)
    \/ \E i \in Ids, m \in Mode, auto \in BOOLEAN : UpdateProfile(a, i, m, auto)
    \/ RevokeCredential(a)
    \/ ScheduleDue(a) \/ SlotComesDue(a)

Next ==
    \/ \E a \in Account : Tenant(a)
    \/ \E j \in Job : DelayPasses(j) \/ LeaseExpires(j)
    \/ \E o \in Owner : ClaimNext(o) \/ ReturnDuplicate(o) \/ ProcessEnds(o)
    \/ \E o \in Owner, a \in Account :
          TaskStep(o, a) \/ ExecutorRaises(o, a) \/ CallRaises(o, a)
             \/ HeartbeatLost(o, a)

Spec == Init /\ [][Next]_vars

(* Time passes, a process keeps polling until it ends, and the calls of     *)
(* a task return or raise.                                                  *)
FairSpec ==
    /\ Spec
    /\ \A j \in Job : WF_vars(DelayPasses(j)) /\ WF_vars(~Kept(j) /\ LeaseExpires(j))
    /\ \A o \in Owner : WF_vars(ClaimNext(o)) /\ WF_vars(ReturnDuplicate(o))
    /\ \A o \in Owner, a \in Account : WF_vars(TaskStep(o, a))

-----------------------------------------------------------------------------
Phase(r) ==
    CASE r.st = "none"       -> "free"
      [] r.st = "queued"     -> "waiting"
      [] r.st \in Held       -> "held"
      [] r.st \in Settled    -> "done"

Board == INSTANCE JobBoard
    WITH phase  <- [j \in Job |-> Phase(jobs[j])],
         ticket <- [j \in Job |-> jobs[j].tok],
         ledger <- paper

(* The queue, with its leases, retries, takeovers and failing calls, is a   *)
(* JobBoard: a job is settled once and stays settled, every takeover gets a *)
(* new fencing token, and a paper account's state is only ever replaced by  *)
(* itself plus the cycle of the token its job is held under                 *)
(* (save_paper_account_state, complete_cycle_job_with_result, fail_cycle_job). *)
ImplementsBoard == Board!BoardSpec

(* A paper job that is recorded as succeeded has its trades in the account: *)
(* the cycle of the very claim that completed it was saved, and the account *)
(* was never rolled back behind it (tenant_execution.py raises              *)
(* paper_state_fence_lost instead of completing).                           *)
SuccessIsSaved ==
    \A a \in Account, k \in Key : LET r == jobs[<<a, k>>] IN
        r.st = "succeeded" /\ r.mode = "paper"
            => \E n \in 1 .. Len(paper[a]) : paper[a][n] = <<k, r.tok>>

(* Whatever calls fail and whichever processes end, a queued job is settled *)
(* in the end: retried up to max_attempts, failed by the claim that finds   *)
(* its last lease expired, or cancelled (claim_next_cycle_job).             *)
JobSettles ==
    \A j \in Job : jobs[j].st = "queued" ~> jobs[j].st \in Settled
=============================================================================
