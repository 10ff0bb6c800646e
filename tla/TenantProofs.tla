---------------------------- MODULE TenantProofs -----------------------------
(***************************************************************************)
(* The tenant process, for any number of processes, accounts, keys,        *)
(* wallets, signers, orders, attempts and faults.                          *)
(*                                                                         *)
(* The job queue (TenantQueue) implements the JobBoard, and a job that is  *)
(* recorded as succeeded has its cycle in the account's state.             *)
(*                                                                         *)
(* The wallets (WalletLifecycle): every call of the repository moves a     *)
(* wallet row in one direction (Moves), and none but the completion of a   *)
(* revocation takes a wallet away from trading.  That call finds no open   *)
(* order row.  The rest is the passage of an order: from its signature to  *)
(* its result it is in the hand of one live job (HandOK), and as long as   *)
(* it may reach the exchange or rest there its row is open (OrderOK).      *)
(***************************************************************************)
EXTENDS TenantQueue, WalletLifecycle, TLAPS, FiniteSetTheorems, SequenceTheorems,
        WellFoundedInduction

-----------------------------------------------------------------------------
(* Rows *)

Status == {"none", "queued", "claimed", "running", "succeeded", "failed", "cancelled"}

LEMMA RowFields ==
    ASSUME NEW r \in JobRow
    PROVE  /\ r.st \in Status /\ r.by \in Owner \cup {NoOwner}
           /\ r.tok \in Nat /\ r.tries \in Nat /\ r.lease \in BOOLEAN /\ r.due \in BOOLEAN
           /\ r.mode \in {"paper", "shadow"} /\ r.ids \in Nat
BY DEF JobRow, Status, Active, Held, Settled

LEMMA PhaseOf ==
    ASSUME NEW r \in JobRow
    PROVE  /\ r.st = "none" => Phase(r) = "free"
           /\ r.st = "queued" => Phase(r) = "waiting"
           /\ r.st \in Held => Phase(r) = "held"
           /\ r.st \in Settled => Phase(r) = "done"
BY DEF Phase, Held, Settled

(* A change of a row after which no earlier claim holds that did not.       *)
RowKeeps(r, s) ==
    /\ s \in JobRow
    /\ r.st # "none" => s.st # "none" /\ s.mode = r.mode
    /\ s.tok >= r.tok
    /\ \A o \in Owner, n \in Nat : n <= r.tok /\ HeldBy(s, o, n) => HeldBy(r, o, n)
    /\ s.st \in Active => r.st \in Active
    /\ s.st = "none" => r.st = "none" /\ s.tok = r.tok

RowMoves(r, s) ==
    /\ RowKeeps(r, s)
    /\ s.st = "succeeded" => r.st = "succeeded" /\ s.mode = r.mode /\ s.tok = r.tok

LEMMA NoMove ==
    ASSUME NEW r \in JobRow
    PROVE  RowMoves(r, r)
BY RowFields DEF RowMoves, RowKeeps

LEMMA SweptMoves ==
    ASSUME NEW r \in JobRow
    PROVE  /\ RowMoves(r, Swept(r)) /\ Swept(r).tok = r.tok
           /\ Exhausted(r) => Swept(r).st = "failed" /\ ~Claimable(Swept(r))
           /\ ~Exhausted(r) => Swept(r) = r
<1>1. CASE Exhausted(r)
  <2> DEFINE s == [r EXCEPT !.st = "failed", !.lease = FALSE]
  <2>1. s \in JobRow /\ s.st = "failed" /\ s.tok = r.tok /\ s.mode = r.mode
    BY DEF JobRow, Settled
  <2>2. Swept(r) = s /\ r.st \in Held /\ r.tok \in Nat
    BY <1>1, RowFields DEF Swept, Exhausted
  <2> HIDE DEF s
  <2>3. ~Claimable(s)
    BY <2>1 DEF Claimable, Held
  <2> QED BY <1>1, <2>1, <2>2, <2>3 DEF RowMoves, RowKeeps, HeldBy, Held, Active
<1>2. CASE ~Exhausted(r)
  BY <1>2, NoMove DEF Swept
<1> QED BY <1>1, <1>2

LEMMA ClaimMoves ==
    ASSUME NEW r \in JobRow, NEW o \in Owner, Claimable(r)
    PROVE  LET s == ClaimedJob(r, o) IN
           RowMoves(r, s) /\ s.tok = r.tok + 1 /\ s.st = "claimed" /\ s.mode = r.mode
           /\ r.st \in Active
<1> DEFINE n == r.tok + 1  m == r.tries + 1
           s == [r EXCEPT !.st = "claimed", !.by = o, !.lease = TRUE, !.tok = n, !.tries = m]
<1>1. r.tok \in Nat /\ n \in Nat /\ m \in Nat /\ n > r.tok
  BY RowFields
<1>2. ClaimedJob(r, o) = s
  BY DEF ClaimedJob
<1>3. n = r.tok + 1
  OBVIOUS
<1> HIDE DEF n, m
<1>4. s \in JobRow /\ s.st = "claimed" /\ s.tok = n /\ s.mode = r.mode
  BY <1>1 DEF JobRow, Active, Held
<1> HIDE DEF s
<1>5. r.st \in Active
  BY DEF Claimable, Active
<1>6. \A p \in Owner, k \in Nat : k <= r.tok => ~HeldBy(s, p, k)
  BY <1>1, <1>4 DEF HeldBy, Holds
<1> QED BY <1>1, <1>2, <1>3, <1>4, <1>5, <1>6 DEF RowMoves, RowKeeps, Active, Held

LEMMA RunMoves ==
    ASSUME NEW r \in JobRow, NEW o, NEW n, MayRun(r, o, n)
    PROVE  LET s == RunningJob(r) IN
           RowMoves(r, s) /\ s.tok = r.tok /\ s.st = "running" /\ r.st = "claimed"
<1> DEFINE s == RunningJob(r)
<1>1. s \in JobRow /\ s.st = "running" /\ s.by = r.by /\ s.tok = r.tok /\ s.lease = r.lease
      /\ s.mode = r.mode
  BY DEF RunningJob, JobRow, Active, Held
<1>2. r.st = "claimed" /\ r.tok \in Nat
  BY RowFields DEF MayRun
<1> HIDE DEF s
<1> QED BY <1>1, <1>2 DEF RowMoves, RowKeeps, HeldBy, Holds, Held, Active, s

LEMMA CompleteMoves ==
    ASSUME NEW r \in JobRow, NEW o, NEW n, HeldBy(r, o, n)
    PROVE  LET s == CompletedJob(r) IN
           /\ RowKeeps(r, s) /\ s.tok = r.tok /\ s.st = "succeeded" /\ s.mode = r.mode
           /\ r.st \in Held
<1> DEFINE s == CompletedJob(r)
<1>1. s \in JobRow /\ s.tok = r.tok /\ s.st = "succeeded" /\ s.mode = r.mode
  BY DEF CompletedJob, JobRow, Settled
<1>2. r.st \in Held /\ r.tok \in Nat
  BY RowFields DEF HeldBy
<1> HIDE DEF s
<1>3. RowKeeps(r, s)
  BY <1>1, <1>2 DEF RowKeeps, HeldBy, Held, Active
<1> QED BY <1>1, <1>2, <1>3 DEF s

LEMMA FailMoves ==
    ASSUME NEW r \in JobRow, NEW b, r.st \in Held
    PROVE  LET s == FailedJob(r, b) IN
           RowMoves(r, s) /\ s.tok = r.tok /\ s.st \in {"queued", "failed"}
<1> DEFINE q == [r EXCEPT !.st = "queued", !.by = NoOwner, !.lease = FALSE, !.due = FALSE]
           f == [r EXCEPT !.st = "failed", !.lease = FALSE]
<1>1. q \in JobRow /\ q.st = "queued" /\ q.tok = r.tok /\ q.mode = r.mode
  BY DEF JobRow, Active
<1>2. f \in JobRow /\ f.st = "failed" /\ f.tok = r.tok /\ f.mode = r.mode
  BY DEF JobRow, Settled
<1>3. FailedJob(r, b) \in {q, f}
  BY DEF FailedJob
<1> HIDE DEF q, f
<1>4. r.tok \in Nat /\ r.st \in Active /\ r.st \notin {"none", "succeeded"}
  BY RowFields DEF Active, Held
<1>5. RowMoves(r, q) /\ RowMoves(r, f)
  BY <1>1, <1>2, <1>4 DEF RowMoves, RowKeeps, HeldBy, Held, Active
<1> QED BY <1>1, <1>2, <1>3, <1>5

LEMMA CancelMoves ==
    ASSUME NEW r \in JobRow
    PROVE  /\ RowMoves(r, CancelledJob(r)) /\ CancelledJob(r).tok = r.tok
           /\ r.st = "queued" => CancelledJob(r).st = "cancelled"
           /\ r.st # "queued" => CancelledJob(r) = r
<1>1. CASE r.st = "queued"
  <2> DEFINE s == [r EXCEPT !.st = "cancelled"]
  <2>1. s \in JobRow /\ s.st = "cancelled" /\ s.tok = r.tok /\ s.mode = r.mode
    BY DEF JobRow, Settled
  <2>2. CancelledJob(r) = s /\ r.tok \in Nat
    BY <1>1, RowFields DEF CancelledJob
  <2> HIDE DEF s
  <2> QED BY <1>1, <2>1, <2>2 DEF RowMoves, RowKeeps, HeldBy, Held, Active
<1>2. CASE r.st # "queued"
  BY <1>2, NoMove DEF CancelledJob
<1> QED BY <1>1, <1>2

LEMMA TimeMoves ==
    ASSUME NEW r \in JobRow
    PROVE  /\ LET s == [r EXCEPT !.due = TRUE] IN
              RowMoves(r, s) /\ s.tok = r.tok /\ s.st = r.st
           /\ LET s == [r EXCEPT !.lease = FALSE] IN
              RowMoves(r, s) /\ s.tok = r.tok /\ s.st = r.st
<1> DEFINE d == [r EXCEPT !.due = TRUE]  l == [r EXCEPT !.lease = FALSE]
<1>1. d \in JobRow /\ d.st = r.st /\ d.by = r.by /\ d.tok = r.tok /\ d.lease = r.lease
      /\ d.mode = r.mode
  BY DEF JobRow
<1>2. l \in JobRow /\ l.st = r.st /\ l.tok = r.tok /\ l.lease = FALSE /\ l.mode = r.mode
  BY DEF JobRow
<1>3. r.tok \in Nat
  BY RowFields
<1> HIDE DEF d, l
<1>4. RowMoves(r, d)
  BY <1>1, <1>3 DEF RowMoves, RowKeeps, HeldBy, Holds
<1>5. RowMoves(r, l)
  BY <1>2, <1>3 DEF RowMoves, RowKeeps, HeldBy
<1> QED BY <1>1, <1>2, <1>4, <1>5 DEF d, l

LEMMA QueueMoves ==
    ASSUME NEW m \in Mode, NEW i \in Nat
    PROVE  LET s == QueuedJob(m, i) IN
           s \in JobRow /\ s.tok = 0 /\ s.st = "queued" /\ s.mode = m
BY CycleJobsAssumption DEF QueuedJob, NoJob, JobRow, Active, Mode

-----------------------------------------------------------------------------
(* The board under a change of the rows *)

BoardStep == Board!BoardNext \/ UNCHANGED Board!boardVars

JobsTyped == jobs \in [Job -> JobRow]

LEMMA BoardStutters ==
    ASSUME JobsTyped, NEW js \in [Job -> JobRow], jobs' = js, paper' = paper,
           \A j \in Job : Phase(js[j]) = Phase(jobs[j]) /\ js[j].tok = jobs[j].tok
    PROVE  BoardStep
<1>1. /\ [j \in Job |-> Phase(jobs'[j])] = [j \in Job |-> Phase(jobs[j])]
      /\ [j \in Job |-> jobs'[j].tok] = [j \in Job |-> jobs[j].tok]
  OBVIOUS
<1> QED BY <1>1 DEF BoardStep, Board!boardVars

LEMMA BoardPosts ==
    ASSUME JobsTyped, NEW j \in Job, NEW s \in JobRow, jobs' = [jobs EXCEPT ![j] = s],
           paper' = paper, s.tok = jobs[j].tok, jobs[j].st = "none", s.st = "queued"
    PROVE  BoardStep
<1>1. Phase(jobs[j]) = "free" /\ Phase(s) = "waiting"
  BY PhaseOf DEF JobsTyped
<1>2. /\ [i \in Job |-> Phase(jobs'[i])]
            = [[i \in Job |-> Phase(jobs[i])] EXCEPT ![j] = "waiting"]
      /\ [i \in Job |-> jobs'[i].tok] = [i \in Job |-> jobs[i].tok]
  BY <1>1 DEF JobsTyped
<1>3. Board!PostJob(j)
  BY <1>1, <1>2 DEF Board!PostJob, Board!MoveTo
<1> QED BY <1>3 DEF BoardStep, Board!BoardNext, Job

LEMMA BoardTakes ==
    ASSUME JobsTyped, NEW j \in Job, NEW s \in JobRow, jobs' = [jobs EXCEPT ![j] = s],
           paper' = paper, s.tok = jobs[j].tok + 1, jobs[j].st \in Active, s.st = "claimed"
    PROVE  BoardStep
<1>1. Phase(jobs[j]) \in {"waiting", "held"} /\ Phase(s) = "held"
  BY PhaseOf DEF JobsTyped, Active, Held
<1>2. /\ [i \in Job |-> Phase(jobs'[i])]
            = [[i \in Job |-> Phase(jobs[i])] EXCEPT ![j] = "held"]
      /\ [i \in Job |-> jobs'[i].tok]
            = [[i \in Job |-> jobs[i].tok] EXCEPT ![j] = @ + 1]
  BY <1>1 DEF JobsTyped
<1>3. Board!TakeJob(j)
  BY <1>1, <1>2 DEF Board!TakeJob, Board!MoveTo
<1> QED BY <1>3 DEF BoardStep, Board!BoardNext, Job

LEMMA BoardPutsBack ==
    ASSUME JobsTyped, NEW j \in Job, NEW s \in JobRow, jobs' = [jobs EXCEPT ![j] = s],
           paper' = paper, s.tok = jobs[j].tok, jobs[j].st \in Held, s.st = "queued"
    PROVE  BoardStep
<1>1. Phase(jobs[j]) = "held" /\ Phase(s) = "waiting"
  BY PhaseOf DEF JobsTyped
<1>2. /\ [i \in Job |-> Phase(jobs'[i])]
            = [[i \in Job |-> Phase(jobs[i])] EXCEPT ![j] = "waiting"]
      /\ [i \in Job |-> jobs'[i].tok] = [i \in Job |-> jobs[i].tok]
  BY <1>1 DEF JobsTyped
<1>3. Board!PutBack(j)
  BY <1>1, <1>2 DEF Board!PutBack, Board!MoveTo
<1> QED BY <1>3 DEF BoardStep, Board!BoardNext, Job

(* The jobs of a set, all of them active, are settled in one statement. *)
LEMMA BoardFinishes ==
    ASSUME JobsTyped, NEW js \in [Job -> JobRow], jobs' = js, paper' = paper,
           NEW S \in SUBSET Job, S # {},
           \A j \in Job : js[j].tok = jobs[j].tok,
           \A j \in S : jobs[j].st \in Active /\ js[j].st \in Settled,
           \A j \in Job \ S : js[j] = jobs[j]
    PROVE  BoardStep
<1>1. \A j \in S : Phase(jobs[j]) \in {"waiting", "held"} /\ Phase(js[j]) = "done"
  BY PhaseOf DEF JobsTyped, Active, Held
<1>2. /\ [i \in Job |-> Phase(jobs'[i])]
            = [i \in Job |-> IF i \in S THEN "done" ELSE [k \in Job |-> Phase(jobs[k])][i]]
      /\ [i \in Job |-> jobs'[i].tok] = [i \in Job |-> jobs[i].tok]
  BY <1>1
<1>3. Board!FinishJobs(S)
  BY <1>1, <1>2 DEF Board!FinishJobs, Job
<1> QED BY <1>3 DEF BoardStep, Board!BoardNext, Job

LEMMA BoardFinishesAndTakes ==
    ASSUME JobsTyped, NEW js \in [Job -> JobRow], jobs' = js, paper' = paper,
           NEW S \in SUBSET Job, S # {}, NEW j \in Job \ S,
           jobs[j].st \in Active, js[j].st = "claimed", js[j].tok = jobs[j].tok + 1,
           \A i \in S : jobs[i].st \in Held /\ js[i].st = "failed" /\ js[i].tok = jobs[i].tok,
           \A i \in Job \ S : i # j => js[i] = jobs[i]
    PROVE  BoardStep
<1>1. \A i \in S : Phase(jobs[i]) = "held" /\ Phase(js[i]) = "done"
  BY PhaseOf DEF JobsTyped, Settled
<1>2. Phase(jobs[j]) \in {"waiting", "held"} /\ Phase(js[j]) = "held"
  BY PhaseOf DEF JobsTyped, Active, Held
<1>3. /\ [i \in Job |-> Phase(jobs'[i])]
            = [i \in Job |-> IF i \in S THEN "done" ELSE IF i = j THEN "held"
                             ELSE [k \in Job |-> Phase(jobs[k])][i]]
      /\ [i \in Job |-> jobs'[i].tok] = [[i \in Job |-> jobs[i].tok] EXCEPT ![j] = @ + 1]
  BY <1>1, <1>2
<1>4. Board!FinishAndTake(S, j)
  BY <1>1, <1>2, <1>3 DEF Board!FinishAndTake, Job
<1> QED BY <1>4 DEF BoardStep, Board!BoardNext, Job

LEMMA BoardRecords ==
    ASSUME JobsTyped, NEW a \in Account, NEW k \in Key, jobs' = jobs,
           jobs[<<a, k>>].st \in Held,
           paper' = [paper EXCEPT ![a] = Append(paper[a], <<k, jobs[<<a, k>>].tok>>)]
    PROVE  BoardStep
<1> DEFINE j == <<a, k>>
<1>1. j \in Job /\ j[1] = a /\ j[2] = k
  BY DEF Job
<1>2. Phase(jobs[j]) = "held"
  BY <1>1, PhaseOf DEF JobsTyped
<1>3. Board!Record(j)
  BY <1>1, <1>2 DEF Board!Record
<1> QED BY <1>1, <1>3 DEF BoardStep, Board!BoardNext, Job

-----------------------------------------------------------------------------
(* The invariant *)

(* What the state in a task's hands is, while the task holds its paper job. *)
StateOK(t, p) ==
    /\ t.pc = "cycle" => t.state = p
    /\ t.pc = "save" => \/ t.state = Append(p, <<t.key, t.tok>>)
                        \/ t.ok = FALSE /\ t.state = p
    /\ t.pc = "complete" /\ t.ok = TRUE => \E n \in 1..Len(p) : p[n] = <<t.key, t.tok>>

TaskOK(o, t, r, p) ==
    /\ t.key \in Key /\ t.tok <= r.tok /\ r.st # "none"
    /\ HeldBy(r, o, t.tok) /\ r.mode = "paper" => StateOK(t, p)

TasksOK(ts, js, ps) ==
    \A o \in Owner, a \in Account :
        ts[o][a].pc # "idle" => TaskOK(o, ts[o][a], js[<<a, ts[o][a].key>>], ps[a])

(* One job of an account waits or is held, and a row starts without token.  *)
RowsOK(js) ==
    /\ js \in [Job -> JobRow]
    /\ \A j \in Job : js[j].st = "none" => js[j].tok = 0
    /\ \A a \in Account, k, l \in Key :
          js[<<a, k>>].st \in Active /\ js[<<a, l>>].st \in Active => k = l

SavedOK(js, ps) ==
    \A a \in Account, k \in Key : LET r == js[<<a, k>>] IN
        r.st = "succeeded" /\ r.mode = "paper"
            => \E n \in 1 .. Len(ps[a]) : ps[a][n] = <<k, r.tok>>

QueueOK == TypeOK /\ RowsOK(jobs) /\ TasksOK(task, jobs, paper) /\ SavedOK(jobs, paper)

LEMMA TaskFields ==
    ASSUME TypeOK, NEW o \in Owner, NEW a \in Account
    PROVE  LET t == task[o][a] IN
           /\ t \in Task /\ t.pc \in TaskPc /\ t.key \in Key \cup {NoKey} /\ t.tok \in Nat
           /\ t.ok \in BOOLEAN /\ t.state \in Seq(Cycle) /\ t.retry \in BOOLEAN
<1>1. task[o][a] \in Task
  BY DEF TypeOK
<1> QED BY <1>1 DEF Task

LEMMA TaskRow ==
    ASSUME QueueOK, NEW o \in Owner, NEW a \in Account, task[o][a].pc # "idle"
    PROVE  /\ TaskOK(o, task[o][a], RowOf(o, a), paper[a])
           /\ task[o][a].key \in Key /\ JobOf(o, a) \in Job
           /\ RowOf(o, a) \in JobRow /\ RowOf(o, a) = jobs[JobOf(o, a)]
           /\ RowOf(o, a) = jobs[<<a, task[o][a].key>>]
<1>1. TaskOK(o, task[o][a], jobs[<<a, task[o][a].key>>], paper[a])
  BY DEF QueueOK, TasksOK
<1>2. task[o][a].key \in Key
  BY <1>1 DEF TaskOK
<1> QED BY <1>1, <1>2 DEF RowOf, JobOf, Job, QueueOK, TypeOK

(* A claim that holds after a change of its row held before it. *)
LEMMA TaskFollows ==
    ASSUME NEW o \in Owner, NEW t, t.tok \in Nat, NEW r, r.tok \in Nat, NEW p,
           TaskOK(o, t, r, p), NEW s, RowKeeps(r, s), s.tok \in Nat
    PROVE  TaskOK(o, t, s, p)
<1>1. t.key \in Key /\ t.tok <= s.tok /\ s.st # "none" /\ s.mode = r.mode
  BY DEF TaskOK, RowKeeps
<1>2. HeldBy(s, o, t.tok) => HeldBy(r, o, t.tok)
  BY DEF TaskOK, RowKeeps
<1> QED BY <1>1, <1>2 DEF TaskOK

LEMMA RowsMove ==
    ASSUME QueueOK, NEW js, js \in [Job -> JobRow], \A j \in Job : RowKeeps(jobs[j], js[j])
    PROVE  RowsOK(js) /\ TasksOK(task, js, paper)
<1>1. RowsOK(js)
  <2>1. ASSUME NEW j \in Job, js[j].st = "none" PROVE js[j].tok = 0
    BY <2>1 DEF QueueOK, RowsOK, RowKeeps
  <2>2. ASSUME NEW a \in Account, NEW k \in Key, NEW l \in Key,
               js[<<a, k>>].st \in Active, js[<<a, l>>].st \in Active
        PROVE  k = l
    <3>1. <<a, k>> \in Job /\ <<a, l>> \in Job
      BY DEF Job
    <3>2. jobs[<<a, k>>].st \in Active /\ jobs[<<a, l>>].st \in Active
      BY <2>2, <3>1 DEF RowKeeps
    <3> QED BY <3>2 DEF QueueOK, RowsOK
  <2> QED BY <2>1, <2>2 DEF RowsOK
<1>2. ASSUME NEW o \in Owner, NEW a \in Account, task[o][a].pc # "idle"
      PROVE  TaskOK(o, task[o][a], js[<<a, task[o][a].key>>], paper[a])
  <2> DEFINE t == task[o][a]  j == <<a, t.key>>
  <2>1. TaskOK(o, t, jobs[j], paper[a]) /\ t.key \in Key /\ t.tok \in Nat
    BY <1>2, TaskRow, TaskFields DEF QueueOK
  <2>2. j \in Job
    BY <2>1 DEF Job
  <2>3. RowKeeps(jobs[j], js[j]) /\ jobs[j] \in JobRow /\ js[j] \in JobRow
    BY <2>2 DEF QueueOK, RowsOK
  <2>4. jobs[j].tok \in Nat /\ js[j].tok \in Nat
    BY <2>3, RowFields
  <2> HIDE DEF t, j
  <2>5. TaskOK(o, t, js[j], paper[a])
    BY <2>1, <2>3, <2>4, TaskFollows
  <2> QED BY <2>5 DEF t, j
<1> QED BY <1>1, <1>2 DEF TasksOK

LEMMA SavedMoves ==
    ASSUME QueueOK, NEW js, js \in [Job -> JobRow], \A j \in Job : RowMoves(jobs[j], js[j])
    PROVE  SavedOK(js, paper)
<1>1. ASSUME NEW a \in Account, NEW k \in Key, js[<<a, k>>].st = "succeeded",
             js[<<a, k>>].mode = "paper"
      PROVE  \E n \in 1 .. Len(paper[a]) : paper[a][n] = <<k, js[<<a, k>>].tok>>
  <2>1. <<a, k>> \in Job
    BY DEF Job
  <2>2. /\ jobs[<<a, k>>].st = "succeeded" /\ jobs[<<a, k>>].mode = "paper"
        /\ js[<<a, k>>].tok = jobs[<<a, k>>].tok
    BY <1>1, <2>1 DEF RowMoves
  <2> QED BY <2>2 DEF QueueOK, SavedOK
<1> QED BY <1>1 DEF SavedOK

-----------------------------------------------------------------------------
(* Changes of one row and of one task *)

LEMMA OneRow ==
    ASSUME QueueOK, NEW j \in Job, NEW s, RowMoves(jobs[j], s),
           NEW js, js = [jobs EXCEPT ![j] = s]
    PROVE  RowsOK(js) /\ TasksOK(task, js, paper) /\ SavedOK(js, paper)
<1>1. jobs \in [Job -> JobRow] /\ s \in JobRow
  BY DEF QueueOK, TypeOK, RowMoves, RowKeeps
<1>2. js \in [Job -> JobRow]
  BY <1>1
<1>3. \A i \in Job : RowMoves(jobs[i], js[i])
  <2>1. \A i \in Job : i # j => RowMoves(jobs[i], js[i])
    BY <1>1, NoMove
  <2> QED BY <1>1, <2>1
<1>4. \A i \in Job : RowKeeps(jobs[i], js[i])
  BY <1>3 DEF RowMoves
<1> QED BY <1>2, <1>3, <1>4, RowsMove, SavedMoves

LEMMA OneTask ==
    ASSUME TypeOK, NEW o \in Owner, NEW a \in Account, NEW t \in Task, SetTask(o, a, t)
    PROVE  /\ task' \in [Owner -> [Account -> Task]] /\ task'[o][a] = t
           /\ \A p \in Owner, b \in Account : p # o \/ b # a => task'[p][b] = task[p][b]
BY DEF TypeOK, SetTask

LEMMA TaskMoves ==
    ASSUME TypeOK, NEW o \in Owner, NEW a \in Account, NEW t \in Task, SetTask(o, a, t),
           NEW js, NEW ps, TasksOK(task, js, ps),
           t.pc # "idle" => TaskOK(o, t, js[<<a, t.key>>], ps[a])
    PROVE  TasksOK(task', js, ps) /\ task' \in [Owner -> [Account -> Task]]
<1>1. /\ task' \in [Owner -> [Account -> Task]] /\ task'[o][a] = t
      /\ \A p \in Owner, b \in Account : p # o \/ b # a => task'[p][b] = task[p][b]
  BY OneTask
<1>2. ASSUME NEW p \in Owner, NEW b \in Account, task'[p][b].pc # "idle"
      PROVE  TaskOK(p, task'[p][b], js[<<b, task'[p][b].key>>], ps[b])
  <2>1. CASE p = o /\ b = a
    BY <1>1, <1>2, <2>1
  <2>2. CASE p # o \/ b # a
    BY <1>1, <1>2, <2>2 DEF TasksOK
  <2> QED BY <2>1, <2>2
<1> QED BY <1>1, <1>2 DEF TasksOK

LEMMA IdleTask == Idle \in Task /\ Idle.pc = "idle"
BY EmptySeq DEF Idle, Task, TaskPc

LEMMA PcTask ==
    ASSUME NEW t \in Task, NEW pc \in TaskPc
    PROVE  LET u == [t EXCEPT !.pc = pc] IN
           /\ u \in Task /\ u.pc = pc /\ u.key = t.key /\ u.tok = t.tok /\ u.ok = t.ok
           /\ u.state = t.state
BY DEF Task

LEMMA FailTask ==
    ASSUME NEW t \in Task, NEW b \in BOOLEAN
    PROVE  LET u == [t EXCEPT !.pc = "fail", !.retry = b] IN
           u \in Task /\ u.pc = "fail" /\ u.key = t.key /\ u.tok = t.tok
BY DEF Task, TaskPc

WithState(t, pc, st) == [t EXCEPT !.pc = pc, !.state = st]

LEMMA StateTask ==
    ASSUME NEW t \in Task, NEW pc \in TaskPc, NEW st \in Seq(Cycle)
    PROVE  LET u == WithState(t, pc, st) IN
           /\ u \in Task /\ u.pc = pc /\ u.key = t.key /\ u.tok = t.tok /\ u.ok = t.ok
           /\ u.state = st
BY DEF Task, WithState

LEMMA LostTask ==
    ASSUME NEW t \in Task
    PROVE  LET u == [t EXCEPT !.ok = FALSE] IN
           /\ u \in Task /\ u.pc = t.pc /\ u.key = t.key /\ u.tok = t.tok /\ u.ok = FALSE
           /\ u.state = t.state
BY DEF Task

LEMMA StartTask ==
    ASSUME NEW k \in Key, NEW n \in Nat
    PROVE  LET u == NewTask(k, n) IN u \in Task /\ u.pc = "mark" /\ u.key = k /\ u.tok = n
BY EmptySeq DEF NewTask, Idle, Task, TaskPc

(* A task that moves on to a place where it holds no state of its own. *)
LEMMA MovesOn ==
    ASSUME NEW o, NEW t, NEW u, NEW r, NEW p, TaskOK(o, t, r, p), u.key = t.key, u.tok = t.tok,
           u.pc \notin {"cycle", "save", "complete"}
    PROVE  TaskOK(o, u, r, p)
BY DEF TaskOK, StateOK

-----------------------------------------------------------------------------
(* Steps that leave the tasks and the accounts alone *)

Rest == /\ prof' \in [Account -> Profile] /\ up' \in SUBSET Owner
        /\ serve' \in [Owner -> {<<>>} \cup (Account \X Key \X Nat)]

LEMMA Kept1 ==
    ASSUME RowsOK(jobs'), TasksOK(task', jobs', paper'), SavedOK(jobs', paper'), Rest,
           paper' \in [Account -> Seq(Cycle)], task' \in [Owner -> [Account -> Task]]
    PROVE  QueueOK'
BY DEF QueueOK, TypeOK, Rest, RowsOK

LEMMA OnlyRest ==
    ASSUME QueueOK, UNCHANGED <<jobs, paper, task>>, Rest
    PROVE  QueueOK' /\ BoardStep
<1>1. QueueOK'
  BY Kept1 DEF QueueOK, TypeOK
<1>2. BoardStep
  BY DEF BoardStep, Board!boardVars
<1> QED BY <1>1, <1>2

LEMMA OnlyRow ==
    ASSUME QueueOK, NEW j \in Job, NEW s, RowMoves(jobs[j], s), jobs' = [jobs EXCEPT ![j] = s],
           UNCHANGED <<paper, task>>, Rest
    PROVE  QueueOK'
<1>1. RowsOK(jobs') /\ TasksOK(task, jobs', paper) /\ SavedOK(jobs', paper)
  BY OneRow
<1> QED BY <1>1, Kept1 DEF QueueOK, TypeOK

LEMMA OnlyTask ==
    ASSUME QueueOK, NEW o \in Owner, NEW a \in Account, NEW t \in Task, SetTask(o, a, t),
           t.pc # "idle" => TaskOK(o, t, jobs[<<a, t.key>>], paper[a]),
           UNCHANGED <<jobs, paper>>, Rest
    PROVE  QueueOK' /\ BoardStep
<1>1. TasksOK(task', jobs, paper) /\ task' \in [Owner -> [Account -> Task]]
  BY TaskMoves DEF QueueOK
<1>2. QueueOK'
  BY <1>1, Kept1 DEF QueueOK, TypeOK
<1>3. BoardStep
  BY DEF BoardStep, Board!boardVars
<1> QED BY <1>2, <1>3

LEMMA RestStays ==
    ASSUME TypeOK, UNCHANGED <<prof, up, serve>>
    PROVE  Rest
BY DEF TypeOK, Rest

LEMMA ProfileFields ==
    ASSUME TypeOK, NEW a \in Account
    PROVE  /\ prof[a] \in Profile /\ prof[a].upd \in Nat /\ prof[a].ids \in Nat
           /\ prof[a].mode \in Mode /\ prof[a].auto \in BOOLEAN /\ prof[a].due \in BOOLEAN
BY DEF TypeOK, Profile

(* enqueue_cycle_job and enqueue_due_cycle_jobs *)
LEMMA EnqueueStep ==
    ASSUME QueueOK, NEW a \in Account, NEW k \in Key, NEW m \in Mode, NEW i \in Nat,
           jobs[<<a, k>>].st = "none", ~HasActive(a), SetJob(<<a, k>>, QueuedJob(m, i)),
           UNCHANGED <<paper, task>>, Rest
    PROVE  QueueOK' /\ BoardStep
<1> DEFINE j == <<a, k>>  s == QueuedJob(m, i)
<1>1. /\ j \in Job /\ jobs \in [Job -> JobRow] /\ jobs[j].tok = 0 /\ jobs[j].st = "none"
      /\ jobs' = [jobs EXCEPT ![j] = s]
  BY DEF Job, QueueOK, RowsOK, SetJob
<1>2. s \in JobRow /\ s.tok = 0 /\ s.st = "queued"
  BY QueueMoves
<1> HIDE DEF s
<1>3. jobs' \in [Job -> JobRow] /\ jobs'[j] = s /\ \A x \in Job : x # j => jobs'[x] = jobs[x]
  BY <1>1, <1>2
<1>4. RowsOK(jobs')
  <2>1. \A x \in Job : jobs'[x].st = "none" => jobs'[x].tok = 0
    BY <1>2, <1>3 DEF QueueOK, RowsOK
  <2>2. ASSUME NEW b \in Account, NEW x \in Key, NEW y \in Key,
               jobs'[<<b, x>>].st \in Active, jobs'[<<b, y>>].st \in Active
        PROVE  x = y
    <3>1. <<b, x>> \in Job /\ <<b, y>> \in Job
      BY DEF Job
    <3>2. CASE b = a
      <4>1. \A z \in Key : z # k => jobs'[<<a, z>>].st \notin Active
        <5>1. ASSUME NEW z \in Key, z # k PROVE jobs'[<<a, z>>].st \notin Active
          <6>1. <<a, z>> \in Job /\ <<a, z>> # j
            BY <5>1 DEF Job
          <6> QED BY <1>3, <6>1 DEF HasActive
        <5> QED BY <5>1
      <4> QED BY <2>2, <3>2, <4>1
    <3>3. CASE b # a
      <4>1. jobs'[<<b, x>>] = jobs[<<b, x>>] /\ jobs'[<<b, y>>] = jobs[<<b, y>>]
        BY <1>3, <3>1, <3>3
      <4> QED BY <2>2, <4>1 DEF QueueOK, RowsOK
    <3> QED BY <3>2, <3>3
  <2> QED BY <1>3, <2>1, <2>2 DEF RowsOK
<1>5. TasksOK(task, jobs', paper)
  <2>1. ASSUME NEW p \in Owner, NEW b \in Account, task[p][b].pc # "idle"
        PROVE  TaskOK(p, task[p][b], jobs'[<<b, task[p][b].key>>], paper[b])
    <3>1. /\ TaskOK(p, task[p][b], jobs[<<b, task[p][b].key>>], paper[b])
          /\ <<b, task[p][b].key>> \in Job
      BY <2>1, TaskRow DEF JobOf, RowOf
    <3>2. jobs[<<b, task[p][b].key>>].st # "none"
      BY <3>1 DEF TaskOK
    <3>3. <<b, task[p][b].key>> # j
      BY <1>1, <3>2
    <3> QED BY <1>3, <3>1, <3>3
  <2> QED BY <2>1 DEF TasksOK
<1>6. SavedOK(jobs', paper)
  <2>1. ASSUME NEW b \in Account, NEW x \in Key, jobs'[<<b, x>>].st = "succeeded",
               jobs'[<<b, x>>].mode = "paper"
        PROVE  \E n \in 1 .. Len(paper[b]) : paper[b][n] = <<x, jobs'[<<b, x>>].tok>>
    <3>1. <<b, x>> \in Job /\ <<b, x>> # j
      BY <1>2, <1>3, <2>1 DEF Job
    <3> QED BY <1>3, <2>1, <3>1 DEF QueueOK, SavedOK
  <2> QED BY <2>1 DEF SavedOK
<1>7. QueueOK'
  BY <1>4, <1>5, <1>6, Kept1 DEF QueueOK, TypeOK
<1>8. BoardStep
  BY <1>1, <1>2, BoardPosts DEF JobsTyped
<1> QED BY <1>7, <1>8

-----------------------------------------------------------------------------
(* The tenant, the scheduler and time *)

LEMMA TenantStep ==
    ASSUME QueueOK, NEW a \in Account, Tenant(a)
    PROVE  QueueOK' /\ BoardStep
<1>1. TypeOK /\ jobs \in [Job -> JobRow]
  BY DEF QueueOK, TypeOK
<1>2. ASSUME NEW k \in Key, NEW m \in Mode, Enqueue(a, k, m) PROVE QueueOK' /\ BoardStep
  <2>1. Rest /\ prof[a].ids \in Nat
    BY <1>1, <1>2, RestStays, ProfileFields DEF Enqueue
  <2> QED BY <1>2, <2>1, EnqueueStep DEF Enqueue
<1>3. ASSUME NEW i \in Ids, NEW m \in Mode, NEW auto \in BOOLEAN, UpdateProfile(a, i, m, auto)
      PROVE  QueueOK' /\ BoardStep
  <2> DEFINE n == prof[a].upd + 1  d == auto /\ (prof[a].due \/ ~prof[a].auto)
             f == [upd |-> n, ids |-> i, mode |-> m, auto |-> auto, due |-> d]
  <2>1. n \in Nat /\ i \in Nat /\ prof' = [prof EXCEPT ![a] = f]
    BY <1>1, <1>3, ProfileFields, QueueAssumption DEF UpdateProfile
  <2>2. d \in BOOLEAN
    OBVIOUS
  <2> HIDE DEF n, d
  <2>3. f \in Profile
    BY <2>1, <2>2 DEF Profile
  <2> HIDE DEF f
  <2>4. Rest
    BY <1>1, <1>3, <2>1, <2>3 DEF Rest, TypeOK, UpdateProfile
  <2> QED BY <1>3, <2>4, OnlyRest DEF UpdateProfile
<1>4. CASE RevokeCredential(a)
  <2> DEFINE js == [j \in Job |-> IF j[1] = a /\ jobs[j].ids = prof[a].ids
                                  THEN CancelledJob(jobs[j]) ELSE jobs[j]]
             n == prof[a].upd + 1
             f == [upd |-> n, ids |-> 0, mode |-> "paper", auto |-> FALSE, due |-> FALSE]
             S == {j \in Job : jobs[j].st = "queued" /\ j[1] = a /\ jobs[j].ids = prof[a].ids}
  <2>1. n \in Nat /\ prof' = [prof EXCEPT ![a] = f] /\ jobs' = js /\ UNCHANGED <<paper, up, serve, task>>
    BY <1>1, <1>4, ProfileFields DEF RevokeCredential
  <2> HIDE DEF n
  <2>2. f \in Profile
    BY <2>1 DEF Profile, Mode
  <2> HIDE DEF f
  <2>3. Rest
    BY <1>1, <2>1, <2>2 DEF Rest, TypeOK
  <2>4. \A j \in Job : RowMoves(jobs[j], js[j]) /\ js[j].tok = jobs[j].tok
    BY <1>1, CancelMoves, NoMove
  <2>5. /\ \A j \in S : jobs[j].st \in Active /\ js[j].st \in Settled
        /\ \A j \in Job \ S : js[j] = jobs[j]
    BY <1>1, CancelMoves DEF Active, Settled
  <2>6. js \in [Job -> JobRow] /\ \A j \in Job : RowKeeps(jobs[j], js[j])
    <3>1. \A j \in Job : js[j] \in JobRow /\ RowKeeps(jobs[j], js[j])
      BY <2>4 DEF RowMoves, RowKeeps
    <3> QED BY <3>1
  <2>7. S \in SUBSET Job
    OBVIOUS
  <2> HIDE DEF js, S
  <2>8. RowsOK(js) /\ TasksOK(task, js, paper) /\ SavedOK(js, paper)
    BY <2>4, <2>6, RowsMove, SavedMoves
  <2>9. QueueOK'
    BY <1>1, <2>1, <2>3, <2>8, Kept1 DEF TypeOK
  <2>10. ASSUME S = {} PROVE BoardStep
    BY <1>1, <2>1, <2>5, <2>6, <2>10, BoardStutters DEF JobsTyped
  <2>11. ASSUME S # {} PROVE BoardStep
    BY <1>1, <2>1, <2>4, <2>5, <2>6, <2>7, <2>11, BoardFinishes DEF JobsTyped
  <2> QED BY <2>9, <2>10, <2>11
<1>5. CASE ScheduleDue(a)
  <2>1. /\ prof' = [prof EXCEPT ![a].due = FALSE] /\ UNCHANGED <<paper, up, serve, task>>
        /\ \/ UNCHANGED jobs
           \/ \E k \in Key : /\ ~HasActive(a) /\ jobs[<<a, k>>].st = "none"
                             /\ SetJob(<<a, k>>, QueuedJob(prof[a].mode, prof[a].ids))
    BY <1>5 DEF ScheduleDue
  <2>2. Rest /\ prof[a].ids \in Nat /\ prof[a].mode \in Mode
    <3>1. [prof[a] EXCEPT !.due = FALSE] \in Profile
      BY <1>1, ProfileFields DEF Profile
    <3> QED BY <1>1, <2>1, <3>1, ProfileFields DEF Rest, TypeOK
  <2> QED BY <2>1, <2>2, OnlyRest, EnqueueStep
<1>6. CASE SlotComesDue(a)
  <2>1. [prof[a] EXCEPT !.due = TRUE] \in Profile
    BY <1>1, ProfileFields DEF Profile
  <2>2. Rest
    BY <1>1, <1>6, <2>1 DEF Rest, TypeOK, SlotComesDue
  <2> QED BY <1>6, <2>2, OnlyRest DEF SlotComesDue
<1> QED BY <1>2, <1>3, <1>4, <1>5, <1>6 DEF Tenant

LEMMA TimeStep ==
    ASSUME QueueOK, NEW j \in Job, DelayPasses(j) \/ LeaseExpires(j)
    PROVE  QueueOK' /\ BoardStep
<1>1. PICK s \in {[jobs[j] EXCEPT !.due = TRUE], [jobs[j] EXCEPT !.lease = FALSE]} :
        jobs' = [jobs EXCEPT ![j] = s]
  BY DEF DelayPasses, LeaseExpires, SetJob
<1>2. TypeOK /\ jobs \in [Job -> JobRow] /\ UNCHANGED <<prof, up, serve, paper, task>>
  BY DEF QueueOK, TypeOK, DelayPasses, LeaseExpires
<1>3. RowMoves(jobs[j], s) /\ s.tok = jobs[j].tok /\ s.st = jobs[j].st /\ s \in JobRow
  <2> DEFINE d == [jobs[j] EXCEPT !.due = TRUE]  l == [jobs[j] EXCEPT !.lease = FALSE]
  <2>1. /\ RowMoves(jobs[j], d) /\ d.tok = jobs[j].tok /\ d.st = jobs[j].st
        /\ RowMoves(jobs[j], l) /\ l.tok = jobs[j].tok /\ l.st = jobs[j].st
    BY <1>2, TimeMoves
  <2>2. s \in {d, l}
    OBVIOUS
  <2> HIDE DEF d, l
  <2> QED BY <2>1, <2>2 DEF RowMoves, RowKeeps
<1>4. QueueOK'
  BY <1>1, <1>2, <1>3, RestStays, OnlyRow
<1>5. Phase(s) = Phase(jobs[j])
  BY <1>3 DEF Phase
<1>6. BoardStep
  <2>1. /\ [jobs EXCEPT ![j] = s] \in [Job -> JobRow]
        /\ \A i \in Job : /\ Phase([jobs EXCEPT ![j] = s][i]) = Phase(jobs[i])
                          /\ [jobs EXCEPT ![j] = s][i].tok = jobs[i].tok
    BY <1>2, <1>3, <1>5
  <2> QED BY <1>1, <1>2, <2>1, BoardStutters DEF JobsTyped
<1> QED BY <1>4, <1>6

-----------------------------------------------------------------------------
(* TenantJobRunner.serve *)

(* fail_cycle_job on a row that is held *)
LEMMA FailRow ==
    ASSUME QueueOK, NEW j \in Job, NEW b, jobs[j].st \in Held,
           jobs' = [jobs EXCEPT ![j] = FailedJob(jobs[j], b)], paper' = paper
    PROVE  /\ RowsOK(jobs') /\ TasksOK(task, jobs', paper') /\ SavedOK(jobs', paper')
           /\ BoardStep
<1> DEFINE s == FailedJob(jobs[j], b)
<1>1. jobs \in [Job -> JobRow] /\ jobs[j] \in JobRow
  BY DEF QueueOK, TypeOK
<1>2. RowMoves(jobs[j], s) /\ s.tok = jobs[j].tok /\ s.st \in {"queued", "failed"} /\ s \in JobRow
  BY <1>1, FailMoves DEF RowMoves, RowKeeps
<1> HIDE DEF s
<1>3. RowsOK(jobs') /\ TasksOK(task, jobs', paper') /\ SavedOK(jobs', paper')
  BY <1>2, OneRow DEF s
<1>4. jobs' = [jobs EXCEPT ![j] = s]
  BY DEF s
<1>5. ASSUME s.st = "queued" PROVE BoardStep
  BY <1>1, <1>2, <1>4, <1>5, BoardPutsBack DEF JobsTyped
<1>6. ASSUME s.st = "failed" PROVE BoardStep
  <2> DEFINE js == [jobs EXCEPT ![j] = s]
  <2>1. /\ js \in [Job -> JobRow] /\ {j} \in SUBSET Job /\ {j} # {}
        /\ \A i \in Job : js[i].tok = jobs[i].tok
        /\ \A i \in {j} : jobs[i].st \in Active /\ js[i].st \in Settled
        /\ \A i \in Job \ {j} : js[i] = jobs[i]
    BY <1>1, <1>2, <1>6 DEF Active, Settled
  <2> HIDE DEF js
  <2>2. jobs' = js
    BY <1>4 DEF js
  <2> QED BY <1>1, <2>1, <2>2, BoardFinishes DEF JobsTyped
<1>7. BoardStep
  BY <1>2, <1>5, <1>6
<1> QED BY <1>3, <1>7

LEMMA ReturnStep ==
    ASSUME QueueOK, NEW o \in Owner, ReturnDuplicate(o)
    PROVE  QueueOK' /\ BoardStep
<1>1. TypeOK /\ serve[o] \in Account \X Key \X Nat
  BY DEF QueueOK, TypeOK, ReturnDuplicate
<1> DEFINE j == <<serve[o][1], serve[o][2]>>
<1>2. j \in Job
  BY <1>1 DEF Job
<1>3. /\ UNCHANGED <<paper, task>>
      /\ \/ UNCHANGED jobs
         \/ jobs[j].st \in Held /\ jobs' = [jobs EXCEPT ![j] = FailedJob(jobs[j], TRUE)]
  BY DEF ReturnDuplicate, HeldBy
<1>4. Rest
  BY <1>1 DEF ReturnDuplicate, Rest, TypeOK
<1> HIDE DEF j
<1>5. CASE UNCHANGED jobs
  BY <1>3, <1>4, <1>5, OnlyRest
<1>6. CASE jobs[j].st \in Held /\ jobs' = [jobs EXCEPT ![j] = FailedJob(jobs[j], TRUE)]
  <2>1. RowsOK(jobs') /\ TasksOK(task, jobs', paper') /\ SavedOK(jobs', paper') /\ BoardStep
    BY <1>2, <1>3, <1>6, FailRow
  <2> QED BY <1>1, <1>3, <1>4, <2>1, Kept1 DEF TypeOK
<1> QED BY <1>3, <1>5, <1>6

LEMMA ClaimStep ==
    ASSUME QueueOK, NEW o \in Owner, ClaimNext(o)
    PROVE  QueueOK' /\ BoardStep
<1>1. TypeOK /\ jobs \in [Job -> JobRow] /\ UNCHANGED <<prof, paper, up>>
  BY DEF QueueOK, TypeOK, ClaimNext
<1> DEFINE sw == SweptJobs  S == {j \in Job : Exhausted(jobs[j])}
<1>2. \A j \in Job : /\ RowMoves(jobs[j], sw[j]) /\ sw[j].tok = jobs[j].tok /\ sw[j] \in JobRow
                     /\ j \in S => sw[j].st = "failed" /\ ~Claimable(sw[j]) /\ jobs[j].st \in Held
                     /\ j \notin S => sw[j] = jobs[j]
  <2>1. \A j \in Job : sw[j] = Swept(jobs[j])
    BY DEF SweptJobs
  <2> HIDE DEF sw
  <2>2. \A j \in Job : jobs[j] \in JobRow
    BY <1>1
  <2> QED BY <2>1, <2>2, SweptMoves DEF RowMoves, RowKeeps, Exhausted
<1>3. sw \in [Job -> JobRow]
  BY <1>2 DEF SweptJobs
<1>4. S \in SUBSET Job
  OBVIOUS
<1>5. \/ \E j \in Job : /\ Claimable(sw[j])
                        /\ jobs' = [sw EXCEPT ![j] = ClaimedJob(sw[j], o)]
                        /\ HandOut(o, j[1], j[2], jobs'[j].tok)
      \/ jobs' = sw /\ UNCHANGED <<task, serve>> /\ sw # jobs
  BY DEF ClaimNext
<1> HIDE DEF sw, S
<1>6. CASE jobs' = sw /\ UNCHANGED <<task, serve>> /\ sw # jobs
  <2>1. \A j \in Job : RowKeeps(jobs[j], sw[j])
    BY <1>2 DEF RowMoves
  <2>2. RowsOK(sw) /\ TasksOK(task, sw, paper) /\ SavedOK(sw, paper)
    BY <1>2, <1>3, <2>1, RowsMove, SavedMoves
  <2>3. QueueOK'
    BY <1>1, <1>6, <2>2, RestStays, Kept1 DEF TypeOK
  <2>4. S # {}
    BY <1>1, <1>2, <1>3, <1>6
  <2>5. \A j \in S : jobs[j].st \in Active /\ sw[j].st \in Settled
    BY <1>2, <1>4 DEF Active, Settled
  <2>6. BoardStep
    BY <1>1, <1>2, <1>3, <1>4, <1>6, <2>4, <2>5, BoardFinishes DEF JobsTyped
  <2> QED BY <2>3, <2>6
<1>7. ASSUME NEW j \in Job, Claimable(sw[j]), jobs' = [sw EXCEPT ![j] = ClaimedJob(sw[j], o)],
             HandOut(o, j[1], j[2], jobs'[j].tok)
      PROVE  QueueOK' /\ BoardStep
  <2> DEFINE r == ClaimedJob(jobs[j], o)  js == [sw EXCEPT ![j] = r]
  <2>1. j \notin S /\ sw[j] = jobs[j] /\ jobs[j] \in JobRow
    BY <1>1, <1>2, <1>7
  <2>2. /\ RowMoves(jobs[j], r) /\ r.tok = jobs[j].tok + 1 /\ r.st = "claimed"
        /\ jobs[j].st \in Active /\ r \in JobRow
    BY <1>7, <2>1, ClaimMoves DEF RowMoves, RowKeeps
  <2>3. jobs' = js
    BY <1>7, <2>1
  <2> HIDE DEF r
  <2>4. js \in [Job -> JobRow] /\ js[j] = r /\ \A i \in Job : i # j => js[i] = sw[i]
    BY <1>3, <2>2
  <2> HIDE DEF js
  <2>5. \A i \in Job : RowMoves(jobs[i], js[i])
    BY <1>2, <2>2, <2>4
  <2>6. \A i \in Job : RowKeeps(jobs[i], js[i])
    BY <2>5 DEF RowMoves
  <2>7. RowsOK(js) /\ TasksOK(task, js, paper) /\ SavedOK(js, paper)
    BY <2>4, <2>5, <2>6, RowsMove, SavedMoves
  <2>8. BoardStep
    <3>1. CASE S = {}
      <4>1. sw = jobs
        BY <1>1, <1>2, <1>3, <3>1
      <4>2. js = [jobs EXCEPT ![j] = r]
        BY <4>1 DEF js
      <4> QED BY <1>1, <2>2, <2>3, <4>2, BoardTakes DEF JobsTyped
    <3>2. CASE S # {}
      <4>1. \A i \in S : jobs[i].st \in Held /\ js[i].st = "failed" /\ js[i].tok = jobs[i].tok
        BY <1>2, <1>4, <2>1, <2>4
      <4>2. \A i \in Job \ S : i # j => js[i] = jobs[i]
        BY <1>2, <2>4
      <4> QED BY <1>1, <1>4, <2>1, <2>2, <2>3, <2>4, <3>2, <4>1, <4>2, BoardFinishesAndTakes
             DEF JobsTyped
    <3> QED BY <3>1, <3>2
  <2> DEFINE a == j[1]  k == j[2]  n == r.tok
  <2>9. a \in Account /\ k \in Key /\ j = <<a, k>> /\ n \in Nat /\ HandOut(o, a, k, n)
    BY <1>7, <2>2, <2>3, <2>4, RowFields DEF Job
  <2> HIDE DEF a, k, n
  <2>10. TasksOK(task', js, paper) /\ task' \in [Owner -> [Account -> Task]] /\ Rest
    <3>1. CASE serve' = [serve EXCEPT ![o] = <<a, k, n>>] /\ UNCHANGED task
      BY <1>1, <2>7, <2>9, <3>1 DEF TypeOK, Rest
    <3>2. CASE SetTask(o, a, NewTask(k, n)) /\ UNCHANGED serve
      <4>1. NewTask(k, n) \in Task /\ NewTask(k, n).pc = "mark" /\ NewTask(k, n).key = k
            /\ NewTask(k, n).tok = n
        BY <2>9, StartTask
      <4>2. TaskOK(o, NewTask(k, n), js[j], paper[a])
        BY <2>2, <2>4, <2>9, <4>1 DEF TaskOK, StateOK, n
      <4>3. TasksOK(task', js, paper) /\ task' \in [Owner -> [Account -> Task]]
        BY <1>1, <2>7, <2>9, <3>2, <4>1, <4>2, TaskMoves
      <4> QED BY <1>1, <3>2, <4>3, RestStays
    <3> QED BY <2>9, <3>1, <3>2 DEF HandOut
  <2>11. QueueOK'
    BY <1>1, <2>3, <2>7, <2>10, Kept1 DEF TypeOK
  <2> QED BY <2>8, <2>11
<1> QED BY <1>5, <1>6, <1>7

LEMMA EndsStep ==
    ASSUME QueueOK, NEW o \in Owner, ProcessEnds(o)
    PROVE  QueueOK' /\ BoardStep
<1>1. /\ TypeOK /\ UNCHANGED <<jobs, prof, paper>> /\ up' = up \ {o}
      /\ task' = [task EXCEPT ![o] = [a \in Account |-> Idle]]
      /\ serve' = [serve EXCEPT ![o] = <<>>]
  BY DEF QueueOK, ProcessEnds
<1>2. Rest
  BY <1>1 DEF TypeOK, Rest
<1>3. /\ task' \in [Owner -> [Account -> Task]]
      /\ \A p \in Owner, a \in Account : task'[p][a].pc # "idle" => task'[p][a] = task[p][a]
  BY <1>1, IdleTask DEF TypeOK
<1>4. TasksOK(task', jobs, paper)
  BY <1>3 DEF QueueOK, TasksOK
<1>5. QueueOK'
  BY <1>1, <1>2, <1>3, <1>4, Kept1 DEF QueueOK, TypeOK
<1>6. BoardStep
  BY <1>1 DEF BoardStep, Board!boardVars
<1> QED BY <1>5, <1>6

-----------------------------------------------------------------------------
(* The steps of a task *)

(* A row and its task change together. *)
LEMMA RowAndTask ==
    ASSUME QueueOK, NEW o \in Owner, NEW a \in Account, NEW t \in Task, SetTask(o, a, t),
           RowsOK(jobs'), TasksOK(task, jobs', paper'), SavedOK(jobs', paper'),
           t.pc # "idle" => TaskOK(o, t, jobs'[<<a, t.key>>], paper'[a]),
           paper' \in [Account -> Seq(Cycle)], Rest
    PROVE  QueueOK'
<1>1. TasksOK(task', jobs', paper') /\ task' \in [Owner -> [Account -> Task]]
  BY TaskMoves DEF QueueOK
<1> QED BY <1>1, Kept1

LEMMA MarkRow ==
    ASSUME QueueOK, NEW o \in Owner, NEW a \in Account, task[o][a].pc # "idle",
           MayRun(RowOf(o, a), o, task[o][a].tok),
           SetJob(JobOf(o, a), RunningJob(RowOf(o, a))), paper' = paper
    PROVE  /\ RowsOK(jobs') /\ TasksOK(task, jobs', paper') /\ SavedOK(jobs', paper')
           /\ BoardStep
<1> DEFINE j == JobOf(o, a)  s == RunningJob(jobs[j])
<1>1. j \in Job /\ jobs[j] \in JobRow /\ RowOf(o, a) = jobs[j] /\ jobs \in [Job -> JobRow]
  BY TaskRow DEF QueueOK, TypeOK
<1>2. RowMoves(jobs[j], s) /\ s.tok = jobs[j].tok /\ s.st = "running" /\ jobs[j].st = "claimed"
      /\ s \in JobRow
  BY <1>1, RunMoves DEF RowMoves, RowKeeps
<1>3. jobs' = [jobs EXCEPT ![j] = s]
  BY <1>1 DEF SetJob
<1> HIDE DEF j, s
<1>4. RowsOK(jobs') /\ TasksOK(task, jobs', paper') /\ SavedOK(jobs', paper')
  BY <1>1, <1>2, <1>3, OneRow
<1>5. Phase(s) = Phase(jobs[j])
  BY <1>1, <1>2, PhaseOf DEF Held
<1> DEFINE js == [jobs EXCEPT ![j] = s]
<1>6. /\ js \in [Job -> JobRow]
      /\ \A i \in Job : Phase(js[i]) = Phase(jobs[i]) /\ js[i].tok = jobs[i].tok
  BY <1>1, <1>2, <1>5
<1>7. jobs' = js
  BY <1>3
<1> HIDE DEF js
<1>8. BoardStep
  BY <1>1, <1>6, <1>7, BoardStutters DEF JobsTyped
<1> QED BY <1>4, <1>8

LEMMA MarkStep ==
    ASSUME QueueOK, NEW o \in Owner, NEW a \in Account, MarkRunning(o, a)
    PROVE  QueueOK' /\ BoardStep
<1>1. /\ TypeOK /\ task[o][a].pc = "mark" /\ task[o][a] \in Task /\ Rest
      /\ paper' = paper /\ paper \in [Account -> Seq(Cycle)]
  BY TaskFields, RestStays DEF QueueOK, TypeOK, MarkRunning, At
<1>2. CASE Claim(MayRun, o, a)
  <2> DEFINE t == [task[o][a] EXCEPT !.pc = "config"]
  <2>1. /\ MayRun(RowOf(o, a), o, task[o][a].tok)
        /\ SetJob(JobOf(o, a), RunningJob(RowOf(o, a))) /\ SetTask(o, a, t)
    BY <1>2 DEF MarkRunning, Claim, Step
  <2>2. /\ RowsOK(jobs') /\ TasksOK(task, jobs', paper') /\ SavedOK(jobs', paper')
        /\ BoardStep
    BY <1>1, <2>1, MarkRow
  <2>3. t \in Task /\ t.pc = "config" /\ t.key = task[o][a].key /\ t.tok = task[o][a].tok
    BY <1>1, PcTask DEF TaskPc
  <2> HIDE DEF t
  <2>4. TaskOK(o, t, jobs'[<<a, t.key>>], paper'[a])
    BY <1>1, <2>2, <2>3, MovesOn DEF TasksOK
  <2>5. QueueOK'
    BY <1>1, <2>1, <2>2, <2>3, <2>4, RowAndTask
  <2> QED BY <2>2, <2>5
<1>3. CASE ~Claim(MayRun, o, a)
  <2>1. UNCHANGED jobs /\ SetTask(o, a, Idle)
    BY <1>3 DEF MarkRunning, Ends
  <2> QED BY <1>1, <2>1, IdleTask, OnlyTask
<1> QED BY <1>2, <1>3

LEMMA ExecutorSteps ==
    ASSUME QueueOK, NEW o \in Owner, NEW a \in Account,
           \/ CheckProfile(o, a) \/ LoadPaperState(o, a) \/ ExecutorRaises(o, a)
           \/ HeartbeatLost(o, a)
    PROVE  QueueOK' /\ BoardStep
<1> DEFINE t == task[o][a]  r == jobs[<<a, t.key>>]
<1>1. /\ TypeOK /\ t \in Task /\ t.pc # "idle" /\ t.pc \in TaskPc /\ UNCHANGED <<jobs, paper>>
      /\ Rest
  BY TaskFields, RestStays
     DEF QueueOK, CheckProfile, LoadPaperState, ExecutorRaises, HeartbeatLost, At
<1>2. TaskOK(o, t, r, paper[a]) /\ RowOf(o, a) = r
  BY <1>1, TaskRow
<1>3. \A b \in BOOLEAN : SetTask(o, a, [t EXCEPT !.pc = "fail", !.retry = b])
         => QueueOK' /\ BoardStep
  <2> TAKE b \in BOOLEAN
  <2> DEFINE u == [t EXCEPT !.pc = "fail", !.retry = b]
  <2>1. u \in Task /\ u.pc = "fail" /\ u.key = t.key /\ u.tok = t.tok
    BY <1>1, FailTask
  <2> HIDE DEF u
  <2>2. TaskOK(o, u, jobs[<<a, u.key>>], paper[a])
    BY <1>2, <2>1, MovesOn
  <2>3. SetTask(o, a, u) => QueueOK' /\ BoardStep
    BY <1>1, <2>1, <2>2, OnlyTask
  <2> QED BY <2>3 DEF u
<1>4. CASE CheckProfile(o, a)
  <2>1. CASE prof[a].mode = r.mode
    <3> DEFINE pc == IF prof[a].mode = "paper" THEN "load" ELSE "cycle"
               u == [t EXCEPT !.pc = pc]
    <3>1. SetTask(o, a, u) \/ SetTask(o, a, [t EXCEPT !.pc = "fail", !.retry = FALSE])
      BY <1>2, <1>4, <2>1 DEF CheckProfile, Step, Fails
    <3>2. pc \in TaskPc /\ pc \in {"load", "cycle"} /\ (pc = "cycle" => r.mode # "paper")
      BY <2>1 DEF TaskPc
    <3> HIDE DEF pc
    <3>3. u \in Task /\ u.pc = pc /\ u.key = t.key /\ u.tok = t.tok
      BY <1>1, <3>2, PcTask
    <3> HIDE DEF u
    <3>4. TaskOK(o, u, jobs[<<a, u.key>>], paper[a])
      BY <1>2, <3>2, <3>3 DEF TaskOK, StateOK
    <3> QED BY <1>1, <1>3, <3>1, <3>3, <3>4, OnlyTask
  <2>2. CASE prof[a].mode # r.mode
    <3>1. SetTask(o, a, [t EXCEPT !.pc = "fail", !.retry = FALSE])
      BY <1>2, <1>4, <2>2 DEF CheckProfile, Fails
    <3> QED BY <1>3, <3>1
  <2> QED BY <2>1, <2>2
<1>5. CASE LoadPaperState(o, a)
  <2> DEFINE u == WithState(t, "cycle", paper[a])
  <2>1. SetTask(o, a, u) /\ paper[a] \in Seq(Cycle)
    BY <1>1, <1>5 DEF LoadPaperState, TypeOK, WithState
  <2>2. u \in Task /\ u.pc = "cycle" /\ u.key = t.key /\ u.tok = t.tok /\ u.state = paper[a]
    <3>1. "cycle" \in TaskPc
      BY DEF TaskPc
    <3> HIDE DEF t
    <3> QED BY <1>1, <2>1, <3>1, StateTask
  <2> HIDE DEF u
  <2>3. TaskOK(o, u, jobs[<<a, u.key>>], paper[a])
    BY <1>2, <2>2 DEF TaskOK, StateOK
  <2> QED BY <1>1, <2>1, <2>2, <2>3, OnlyTask
<1>6. CASE ExecutorRaises(o, a)
  BY <1>3, <1>6 DEF ExecutorRaises, Fails
<1>7. CASE HeartbeatLost(o, a)
  <2> DEFINE u == [t EXCEPT !.ok = FALSE]
  <2>1. SetTask(o, a, u)
    BY <1>7 DEF HeartbeatLost
  <2>2. u \in Task /\ u.pc = t.pc /\ u.key = t.key /\ u.tok = t.tok /\ u.ok = FALSE
        /\ u.state = t.state
    BY <1>1, LostTask
  <2> HIDE DEF u
  <2>3. TaskOK(o, u, jobs[<<a, u.key>>], paper[a])
    BY <1>2, <2>2 DEF TaskOK, StateOK
  <2> QED BY <1>1, <2>1, <2>2, <2>3, OnlyTask
<1> QED BY <1>4, <1>5, <1>6, <1>7

(* run_cycle under the guard: the state in hand gains the cycle's trades, or *)
(* stays what was loaded.                                                   *)
LEMMA CycleStep ==
    ASSUME QueueOK, NEW o \in Owner, NEW a \in Account, RunCycle(o, a)
    PROVE  QueueOK' /\ BoardStep
<1> DEFINE t == task[o][a]  r == jobs[<<a, t.key>>]
           pc == IF RowOf(o, a).mode = "paper" THEN "save" ELSE "complete"
           st == IF t.ok /\ RowOf(o, a).mode = "paper"
                 THEN Append(t.state, <<t.key, t.tok>>) ELSE t.state
           u == WithState(t, pc, st)
<1>1. /\ TypeOK /\ t \in Task /\ t.pc = "cycle" /\ UNCHANGED <<jobs, paper>> /\ Rest
      /\ t.state \in Seq(Cycle) /\ t.tok \in Nat /\ t.ok \in BOOLEAN /\ t.key \in Key
  BY TaskFields, TaskRow, RestStays DEF QueueOK, RunCycle, At
<1>2. TaskOK(o, t, r, paper[a]) /\ RowOf(o, a) = r
  BY <1>1, TaskRow
<1>3. SetTask(o, a, u)
  BY DEF RunCycle, WithState
<1>4. /\ pc \in TaskPc /\ (r.mode = "paper" => pc = "save")
      /\ (r.mode # "paper" => pc = "complete")
  BY <1>2 DEF TaskPc
<1>5. st \in Seq(Cycle)
  <2>1. <<t.key, t.tok>> \in Cycle
    BY <1>1 DEF Cycle
  <2>2. Append(t.state, <<t.key, t.tok>>) \in Seq(Cycle)
    BY <1>1, <2>1, AppendProperties
  <2> QED BY <1>1, <2>2
<1>6. r.mode = "paper" => \/ st = Append(t.state, <<t.key, t.tok>>)
                          \/ t.ok = FALSE /\ st = t.state
  BY <1>1, <1>2
<1> HIDE DEF pc, st
<1>7. /\ u \in Task /\ u.pc = pc /\ u.key = t.key /\ u.tok = t.tok /\ u.ok = t.ok
      /\ u.state = st
  BY <1>1, <1>4, <1>5, StateTask
<1> HIDE DEF u
<1>8. TaskOK(o, u, jobs[<<a, u.key>>], paper[a])
  <2>1. u.key \in Key /\ u.tok <= r.tok /\ r.st # "none"
    BY <1>2, <1>7 DEF TaskOK
  <2>2. ASSUME HeldBy(r, o, u.tok), r.mode = "paper" PROVE StateOK(u, paper[a])
    <3>1. t.state = paper[a]
      BY <1>1, <1>2, <1>7, <2>2 DEF TaskOK, StateOK
    <3> QED BY <1>4, <1>6, <1>7, <2>2, <3>1 DEF StateOK
  <2> QED BY <1>7, <2>1, <2>2 DEF TaskOK
<1> QED BY <1>1, <1>3, <1>7, <1>8, OnlyTask

(* save_paper_account_state, whose answer may be lost *)
LEMMA SaveRow ==
    ASSUME QueueOK, NEW o \in Owner, NEW a \in Account, task[o][a].pc = "save",
           SaveAllowed(o, a), paper' = [paper EXCEPT ![a] = task[o][a].state], jobs' = jobs,
           NEW u \in Task, SetTask(o, a, u), u.key = task[o][a].key, u.tok = task[o][a].tok,
           \/ u.pc = "complete" /\ u.ok = task[o][a].ok
           \/ u.pc = "fail",
           Rest
    PROVE  QueueOK' /\ BoardStep
<1> DEFINE t == task[o][a]  r == jobs[<<a, t.key>>]
<1>1. /\ TypeOK /\ t \in Task /\ t.pc = "save" /\ t.tok \in Nat /\ t.key \in Key
      /\ paper \in [Account -> Seq(Cycle)] /\ paper[a] \in Seq(Cycle)
  BY TaskFields, TaskRow DEF QueueOK, TypeOK
<1>2. TaskOK(o, t, r, paper[a]) /\ RowOf(o, a) = r
  BY <1>1, TaskRow
<1>3. /\ HeldBy(r, o, t.tok) /\ r.mode = "paper" /\ r.st \in Held /\ r.tok = t.tok /\ r.by = o
  BY <1>2 DEF SaveAllowed, Claim, MaySave, HeldBy, Holds, Held
<1>4. \/ t.state = Append(paper[a], <<t.key, t.tok>>)
      \/ t.ok = FALSE /\ t.state = paper[a]
  <2>1. StateOK(t, paper[a]) /\ t.pc = "save"
    BY <1>1, <1>2, <1>3 DEF TaskOK
  <2> HIDE DEF t
  <2> QED BY <2>1 DEF StateOK
<1>5. CASE t.ok = FALSE /\ t.state = paper[a]
  <2>1. paper' = paper
    BY <1>1, <1>5
  <2>2. TaskOK(o, u, jobs[<<a, u.key>>], paper[a])
    BY <1>2, <1>5 DEF TaskOK, StateOK
  <2> QED BY <2>1, <2>2, OnlyTask
<1>6. CASE t.state = Append(paper[a], <<t.key, t.tok>>)
  <2> DEFINE p == paper[a]  e == <<t.key, t.tok>>  q == Append(p, e)
  <2>1. e \in Cycle
    BY <1>1 DEF Cycle
  <2>2. /\ q \in Seq(Cycle) /\ Len(q) = Len(p) + 1 /\ q[Len(p) + 1] = e /\ Len(p) \in Nat
        /\ \A n \in 1..Len(p) : q[n] = p[n]
    BY <1>1, <2>1, AppendProperties, LenProperties
  <2>3. /\ paper' \in [Account -> Seq(Cycle)] /\ paper'[a] = q
        /\ \A b \in Account : b # a => paper'[b] = paper[b]
    BY <1>1, <1>6, <2>2
  <2> HIDE DEF q
  <2>4. \A x : (\E n \in 1..Len(p) : p[n] = x) => \E n \in 1..Len(q) : q[n] = x
    <3>1. \A n \in 1..Len(p) : n \in 1..Len(q)
      BY <2>2
    <3> QED BY <2>2, <3>1
  <2>5. SavedOK(jobs, paper')
    <3>1. ASSUME NEW b \in Account, NEW k \in Key, jobs[<<b, k>>].st = "succeeded",
                 jobs[<<b, k>>].mode = "paper"
          PROVE  \E n \in 1 .. Len(paper'[b]) : paper'[b][n] = <<k, jobs[<<b, k>>].tok>>
      <4>1. \E n \in 1 .. Len(paper[b]) : paper[b][n] = <<k, jobs[<<b, k>>].tok>>
        BY <3>1 DEF QueueOK, SavedOK
      <4>2. CASE b = a
        <5> DEFINE x == <<k, jobs[<<b, k>>].tok>>
        <5>1. \E n \in 1..Len(p) : p[n] = x
          BY <4>1, <4>2
        <5> HIDE DEF x, p
        <5>2. \E n \in 1..Len(q) : q[n] = x
          BY <2>4, <5>1
        <5> QED BY <2>3, <4>2, <5>2 DEF x
      <4>3. CASE b # a
        BY <2>3, <4>1, <4>3
      <4> QED BY <4>2, <4>3
    <3> QED BY <3>1 DEF SavedOK
  <2>6. TasksOK(task', jobs, paper') /\ task' \in [Owner -> [Account -> Task]]
    <3>1. /\ task' \in [Owner -> [Account -> Task]] /\ task'[o][a] = u
          /\ \A x \in Owner, b \in Account : x # o \/ b # a => task'[x][b] = task[x][b]
      BY <1>1, OneTask
    <3>2. TaskOK(o, u, jobs[<<a, u.key>>], paper'[a])
      <4>1. Len(q) \in 1..Len(q) /\ q[Len(q)] = e
        BY <2>2
      <4> QED BY SMTT(60), <1>2, <2>3, <4>1 DEF TaskOK, StateOK
    <3>3. ASSUME NEW x \in Owner, x # o, task[x][a].pc # "idle"
          PROVE  TaskOK(x, task[x][a], jobs[<<a, task[x][a].key>>], paper'[a])
      <4>1. TaskOK(x, task[x][a], jobs[<<a, task[x][a].key>>], paper[a])
        BY <3>3, TaskRow
      <4>2. ~HeldBy(jobs[<<a, task[x][a].key>>], x, task[x][a].tok)
        <5>1. SUFFICES ASSUME HeldBy(jobs[<<a, task[x][a].key>>], x, task[x][a].tok)
                       PROVE  FALSE
          OBVIOUS
        <5>2. /\ jobs[<<a, task[x][a].key>>].by = x
              /\ jobs[<<a, task[x][a].key>>].st \in Active /\ r.st \in Active
              /\ task[x][a].key \in Key
          BY <1>3, <4>1, <5>1 DEF HeldBy, Holds, Active, TaskOK
        <5>3. task[x][a].key = t.key
          BY <1>1, <5>2 DEF QueueOK, RowsOK
        <5> QED BY <1>3, <3>3, <5>2, <5>3
      <4> QED BY <4>1, <4>2 DEF TaskOK
    <3>4. ASSUME NEW x \in Owner, NEW b \in Account, task'[x][b].pc # "idle"
          PROVE  TaskOK(x, task'[x][b], jobs[<<b, task'[x][b].key>>], paper'[b])
      <4>1. CASE b # a
        BY <2>3, <3>1, <3>4, <4>1, TaskRow
      <4>2. CASE b = a /\ x # o
        BY <3>1, <3>3, <3>4, <4>2
      <4>3. CASE b = a /\ x = o
        BY <3>1, <3>2, <4>3
      <4> QED BY <4>1, <4>2, <4>3
    <3> QED BY <3>1, <3>4 DEF TasksOK
  <2>7. QueueOK'
    BY <2>3, <2>5, <2>6, Kept1 DEF QueueOK
  <2>8. BoardStep
    BY <1>1, <1>3, <1>6, BoardRecords DEF JobsTyped, TypeOK
  <2> QED BY <2>7, <2>8
<1> QED BY <1>4, <1>5, <1>6

(* complete_cycle_job_with_result, whose answer may be lost *)
LEMMA CompleteRow ==
    ASSUME QueueOK, NEW o \in Owner, NEW a \in Account, task[o][a].pc = "complete",
           task[o][a].ok = TRUE, CompleteAllowed(o, a),
           SetJob(JobOf(o, a), CompletedJob(RowOf(o, a))), paper' = paper
    PROVE  /\ RowsOK(jobs') /\ TasksOK(task, jobs', paper') /\ SavedOK(jobs', paper')
           /\ BoardStep
<1> DEFINE j == JobOf(o, a)  s == CompletedJob(jobs[j])  k == task[o][a].key
           n == task[o][a].tok
<1>1. /\ j \in Job /\ j = <<a, k>> /\ jobs[j] \in JobRow /\ RowOf(o, a) = jobs[j]
      /\ jobs \in [Job -> JobRow] /\ TaskOK(o, task[o][a], jobs[j], paper[a])
  BY TaskRow DEF QueueOK, TypeOK, JobOf
<1>2. HeldBy(jobs[j], o, n) /\ jobs[j].tok = n
  BY <1>1 DEF CompleteAllowed, Claim, HeldBy, Holds
<1>3. /\ RowKeeps(jobs[j], s) /\ s.tok = jobs[j].tok /\ s.st = "succeeded"
      /\ s.mode = jobs[j].mode /\ jobs[j].st \in Held /\ s \in JobRow
  BY <1>1, <1>2, CompleteMoves DEF RowKeeps
<1>4. jobs[j].mode = "paper" => \E i \in 1..Len(paper[a]) : paper[a][i] = <<k, n>>
  BY <1>1, <1>2 DEF TaskOK, StateOK
<1> DEFINE js == [jobs EXCEPT ![j] = s]
<1>5. jobs' = js
  BY <1>1 DEF SetJob
<1> HIDE DEF s
<1>6. /\ js \in [Job -> JobRow] /\ js[j] = s /\ \A i \in Job : i # j => js[i] = jobs[i]
  BY <1>1, <1>3
<1> HIDE DEF js, j, k, n
<1>7. \A i \in Job : RowKeeps(jobs[i], js[i])
  <2>1. \A i \in Job : RowKeeps(jobs[i], jobs[i])
    BY <1>1, NoMove DEF RowMoves
  <2> QED BY <1>3, <1>6, <2>1
<1>8. RowsOK(js) /\ TasksOK(task, js, paper)
  BY <1>6, <1>7, RowsMove
<1>9. SavedOK(js, paper)
  <2>1. ASSUME NEW b \in Account, NEW l \in Key, js[<<b, l>>].st = "succeeded",
               js[<<b, l>>].mode = "paper"
        PROVE  \E i \in 1 .. Len(paper[b]) : paper[b][i] = <<l, js[<<b, l>>].tok>>
    <3>1. <<b, l>> \in Job
      BY DEF Job
    <3>2. CASE <<b, l>> = j
      <4>1. b = a /\ l = k
        BY <1>1, <3>2
      <4> QED BY <1>2, <1>3, <1>4, <1>6, <2>1, <3>2, <4>1
    <3>3. CASE <<b, l>> # j
      BY <1>6, <2>1, <3>1, <3>3 DEF QueueOK, SavedOK
    <3> QED BY <3>2, <3>3
  <2> QED BY <2>1 DEF SavedOK
<1>10. BoardStep
  <2>1. /\ {j} \in SUBSET Job /\ {j} # {} /\ \A i \in Job : js[i].tok = jobs[i].tok
        /\ \A i \in {j} : jobs[i].st \in Active /\ js[i].st \in Settled
        /\ \A i \in Job \ {j} : js[i] = jobs[i]
    BY <1>1, <1>3, <1>6 DEF Active, Settled
  <2> QED BY <1>1, <1>5, <1>6, <2>1, BoardFinishes DEF JobsTyped
<1> QED BY <1>5, <1>8, <1>9, <1>10

LEMMA SaveStep ==
    ASSUME QueueOK, NEW o \in Owner, NEW a \in Account, SavePaperState(o, a)
    PROVE  QueueOK' /\ BoardStep
<1> DEFINE t == task[o][a]
<1>1. /\ TypeOK /\ t \in Task /\ t.pc = "save" /\ jobs' = jobs /\ Rest
  BY TaskFields, RestStays DEF QueueOK, SavePaperState, At
<1>2. CASE SaveAllowed(o, a)
  <2> DEFINE u == [t EXCEPT !.pc = "complete"]
  <2>1. SetTask(o, a, u) /\ paper' = [paper EXCEPT ![a] = t.state]
    BY <1>2 DEF SavePaperState, Step
  <2>2. u \in Task /\ u.pc = "complete" /\ u.key = t.key /\ u.tok = t.tok /\ u.ok = t.ok
    BY <1>1, PcTask DEF TaskPc
  <2> HIDE DEF u
  <2> QED BY <1>1, <1>2, <2>1, <2>2, SaveRow
<1>3. CASE ~SaveAllowed(o, a)
  <2> DEFINE u == [t EXCEPT !.pc = "fail", !.retry = TRUE]
  <2>1. SetTask(o, a, u) /\ paper' = paper
    BY <1>3 DEF SavePaperState, Fails
  <2>2. u \in Task /\ u.pc = "fail" /\ u.key = t.key /\ u.tok = t.tok
    BY <1>1, FailTask
  <2> HIDE DEF u
  <2>3. TaskOK(o, u, jobs[<<a, u.key>>], paper[a])
    BY <1>1, <2>2, TaskRow, MovesOn
  <2> QED BY <1>1, <2>1, <2>2, <2>3, OnlyTask
<1> QED BY <1>2, <1>3

LEMMA CompleteStep ==
    ASSUME QueueOK, NEW o \in Owner, NEW a \in Account, Complete(o, a) \/ RecordFailure(o, a)
    PROVE  QueueOK' /\ BoardStep
<1>1. /\ TypeOK /\ task[o][a].pc \in {"complete", "fail"} /\ paper' = paper /\ Rest
      /\ SetTask(o, a, Idle) /\ task[o][a].ok \in BOOLEAN /\ paper \in [Account -> Seq(Cycle)]
  BY TaskFields, RestStays DEF QueueOK, TypeOK, Complete, RecordFailure, At, Ends
<1>2. CASE UNCHANGED jobs
  BY <1>1, <1>2, IdleTask, OnlyTask
<1>3. CASE Complete(o, a) /\ ~UNCHANGED jobs
  <2>1. /\ task[o][a].pc = "complete" /\ task[o][a].ok /\ CompleteAllowed(o, a)
        /\ jobs' = [jobs EXCEPT ![JobOf(o, a)] = CompletedJob(jobs[JobOf(o, a)])]
    BY <1>3 DEF Complete, At
  <2>2. task[o][a].ok = TRUE /\ SetJob(JobOf(o, a), CompletedJob(RowOf(o, a)))
    BY <1>1, <2>1 DEF SetJob, RowOf
  <2>3. RowsOK(jobs') /\ TasksOK(task, jobs', paper') /\ SavedOK(jobs', paper') /\ BoardStep
    BY <1>1, <2>1, <2>2, CompleteRow
  <2>4. QueueOK'
    BY <1>1, <2>3, IdleTask, RowAndTask
  <2> QED BY <2>3, <2>4
<1>4. CASE RecordFailure(o, a) /\ ~UNCHANGED jobs
  <2>1. /\ task[o][a].pc = "fail" /\ FailAllowed(o, a)
        /\ jobs' = [jobs EXCEPT ![JobOf(o, a)] = FailedJob(jobs[JobOf(o, a)], task[o][a].retry)]
    BY <1>4 DEF RecordFailure, At
  <2>2. JobOf(o, a) \in Job /\ jobs[JobOf(o, a)].st \in Held
    BY <2>1, TaskRow DEF FailAllowed, Claim, HeldBy
  <2>3. RowsOK(jobs') /\ TasksOK(task, jobs', paper') /\ SavedOK(jobs', paper') /\ BoardStep
    BY <1>1, <2>1, <2>2, FailRow
  <2>4. QueueOK'
    BY <1>1, <2>3, IdleTask, RowAndTask
  <2> QED BY <2>3, <2>4
<1> QED BY <1>2, <1>3, <1>4

LEMMA CallStep ==
    ASSUME QueueOK, NEW o \in Owner, NEW a \in Account, CallRaises(o, a)
    PROVE  QueueOK' /\ BoardStep
<1> DEFINE t == task[o][a]  u == [t EXCEPT !.pc = "fail", !.retry = TRUE]
<1>1. TypeOK /\ t \in Task /\ t.ok \in BOOLEAN /\ Rest /\ paper \in [Account -> Seq(Cycle)]
  BY TaskFields, RestStays DEF QueueOK, TypeOK, CallRaises
<1>2. u \in Task /\ u.pc = "fail" /\ u.key = t.key /\ u.tok = t.tok
  BY <1>1, FailTask
<1>3. \/ At(o, a, "fail") /\ SetTask(o, a, Idle) /\ UNCHANGED <<jobs, paper>>
      \/ /\ t.pc \in {"mark", "save", "complete"} /\ SetTask(o, a, u)
         /\ \/ UNCHANGED <<jobs, paper>>
            \/ /\ t.pc = "mark" /\ MayRun(RowOf(o, a), o, t.tok)
               /\ SetJob(JobOf(o, a), RunningJob(RowOf(o, a))) /\ paper' = paper
            \/ /\ t.pc = "save" /\ SaveAllowed(o, a)
               /\ paper' = [paper EXCEPT ![a] = t.state] /\ jobs' = jobs
            \/ /\ t.pc = "complete" /\ t.ok /\ CompleteAllowed(o, a)
               /\ SetJob(JobOf(o, a), CompletedJob(RowOf(o, a))) /\ paper' = paper
  BY DEF CallRaises, Fails, Ends, Claim
<1> HIDE DEF u
<1>4. CASE At(o, a, "fail") /\ SetTask(o, a, Idle) /\ UNCHANGED <<jobs, paper>>
  BY <1>1, <1>4, IdleTask, OnlyTask
<1>5. ASSUME t.pc \in {"mark", "save", "complete"}
      PROVE  t.pc # "idle" /\ TaskOK(o, t, jobs[<<a, t.key>>], paper[a])
  BY <1>5, TaskRow
<1>6. ASSUME SetTask(o, a, u), t.pc \in {"mark", "save", "complete"}, UNCHANGED <<jobs, paper>>
      PROVE  QueueOK' /\ BoardStep
  <2>1. TaskOK(o, u, jobs[<<a, u.key>>], paper[a])
    BY <1>2, <1>5, <1>6, MovesOn
  <2> QED BY <1>1, <1>2, <1>6, <2>1, OnlyTask
<1>7. ASSUME SetTask(o, a, u), t.pc \in {"mark", "complete"}, paper' = paper, BoardStep,
             RowsOK(jobs'), TasksOK(task, jobs', paper'), SavedOK(jobs', paper')
      PROVE  QueueOK' /\ BoardStep
  <2>1. TaskOK(o, t, jobs'[<<a, t.key>>], paper'[a])
    BY <1>7 DEF TasksOK
  <2>2. TaskOK(o, u, jobs'[<<a, u.key>>], paper'[a])
    BY <1>2, <2>1, MovesOn
  <2>3. QueueOK'
    BY <1>1, <1>2, <1>7, <2>2, RowAndTask
  <2> QED BY <1>7, <2>3
<1>8. ASSUME SetTask(o, a, u), t.pc = "mark", MayRun(RowOf(o, a), o, t.tok),
             SetJob(JobOf(o, a), RunningJob(RowOf(o, a))), paper' = paper
      PROVE  QueueOK' /\ BoardStep
  <2>1. RowsOK(jobs') /\ TasksOK(task, jobs', paper') /\ SavedOK(jobs', paper') /\ BoardStep
    BY <1>5, <1>8, MarkRow
  <2> QED BY <1>7, <1>8, <2>1
<1>9. ASSUME SetTask(o, a, u), t.pc = "save", SaveAllowed(o, a),
             paper' = [paper EXCEPT ![a] = t.state], jobs' = jobs
      PROVE  QueueOK' /\ BoardStep
  BY <1>1, <1>2, <1>9, SaveRow
<1>10. ASSUME SetTask(o, a, u), t.pc = "complete", t.ok, CompleteAllowed(o, a),
              SetJob(JobOf(o, a), CompletedJob(RowOf(o, a))), paper' = paper
       PROVE  QueueOK' /\ BoardStep
  <2>1. t.ok = TRUE
    BY <1>1, <1>10
  <2>2. RowsOK(jobs') /\ TasksOK(task, jobs', paper') /\ SavedOK(jobs', paper') /\ BoardStep
    BY <1>10, <2>1, CompleteRow
  <2> QED BY <1>7, <1>10, <2>2
<1> QED BY <1>3, <1>4, <1>6, <1>8, <1>9, <1>10

-----------------------------------------------------------------------------
(* The theorems *)

LEMMA QueueInit == Init => QueueOK /\ Board!BoardInit
<1> SUFFICES ASSUME Init PROVE QueueOK /\ Board!BoardInit
  OBVIOUS
<1>1. NoJob \in JobRow /\ NoJob.st = "none" /\ NoJob.tok = 0
  BY DEF NoJob, JobRow
<1>2. /\ jobs = [j \in Job |-> NoJob] /\ paper = [a \in Account |-> <<>>] /\ up = Owner
      /\ serve = [o \in Owner |-> <<>>] /\ task = [o \in Owner |-> [a \in Account |-> Idle]]
      /\ <<>> \in Seq(Cycle)
  BY EmptySeq DEF Init
<1>3. prof \in [Account -> Profile]
  <2>1. \A i \in Ids : [upd |-> 0, ids |-> i, mode |-> "paper", auto |-> FALSE, due |-> FALSE]
                          \in Profile
    BY QueueAssumption DEF Profile, Mode
  <2>2. {[upd |-> 0, ids |-> i, mode |-> "paper", auto |-> FALSE, due |-> FALSE] : i \in Ids}
           \subseteq Profile
    BY <2>1
  <2> HIDE DEF Profile
  <2> QED BY <2>2 DEF Init
<1> HIDE DEF NoJob
<1>4. TypeOK
  BY <1>1, <1>2, <1>3, IdleTask DEF TypeOK
<1>5. RowsOK(jobs)
  <2>1. \A a \in Account, k \in Key : jobs[<<a, k>>].st = "none"
    BY <1>1, <1>2 DEF Job
  <2>2. "none" \notin Active
    BY DEF Active, Held
  <2>3. \A j \in Job : jobs[j] = NoJob
    BY <1>2
  <2> QED BY <1>1, <1>4, <2>1, <2>2, <2>3 DEF RowsOK, TypeOK
<1>6. TasksOK(task, jobs, paper)
  BY <1>2, IdleTask DEF TasksOK
<1>7. SavedOK(jobs, paper)
  <2>1. \A a \in Account, k \in Key : jobs[<<a, k>>].st = "none"
    BY <1>1, <1>2 DEF Job
  <2> QED BY <2>1 DEF SavedOK
<1>8. Board!BoardInit
  <2>1. Phase(NoJob) = "free"
    BY <1>1, PhaseOf
  <2>2. /\ [j \in Job |-> Phase(jobs[j])] = [j \in Account \X Key |-> "free"]
        /\ [j \in Job |-> jobs[j].tok] = [j \in Account \X Key |-> 0]
    BY <1>1, <1>2, <2>1 DEF Job
  <2> QED BY <1>2, <2>2 DEF Board!BoardInit
<1> QED BY <1>4, <1>5, <1>6, <1>7, <1>8 DEF QueueOK

LEMMA QueueNext == QueueOK /\ [Next]_vars => QueueOK' /\ BoardStep
<1> SUFFICES ASSUME QueueOK, [Next]_vars PROVE QueueOK' /\ BoardStep
  OBVIOUS
<1>1. ASSUME UNCHANGED vars PROVE QueueOK' /\ BoardStep
  <2>1. UNCHANGED <<jobs, prof, paper, up, serve, task>>
    BY <1>1 DEF vars
  <2> QED BY <2>1, RestStays, OnlyRest DEF QueueOK
<1>2. ASSUME NEW o \in Owner, NEW a \in Account, TaskStep(o, a) PROVE QueueOK' /\ BoardStep
  BY <1>2, MarkStep, ExecutorSteps, CycleStep, SaveStep, CompleteStep DEF TaskStep
<1>3. ASSUME NEW o \in Owner, NEW a \in Account,
             ExecutorRaises(o, a) \/ CallRaises(o, a) \/ HeartbeatLost(o, a)
      PROVE  QueueOK' /\ BoardStep
  BY <1>3, ExecutorSteps, CallStep
<1> QED BY <1>1, <1>2, <1>3, TenantStep, TimeStep, ClaimStep, ReturnStep, EndsStep DEF Next

LEMMA QueueInvariant == Spec => []QueueOK
<1>1. QueueOK /\ [Next]_vars => QueueOK'
  BY QueueNext
<1> QED BY QueueInit, <1>1, PTL DEF Spec

(* Type correctness of the queue, its accounts and its tasks. *)
THEOREM QueueTypes == Spec => []TypeOK
<1>1. QueueOK => TypeOK
  BY DEF QueueOK
<1> QED BY <1>1, QueueInvariant, PTL

(* tenant_execution.py and complete_cycle_job_with_result: a paper job that *)
(* is recorded as succeeded has its cycle in the account, for good.         *)
THEOREM SavedTheorem == Spec => []SuccessIsSaved
<1>1. QueueOK => SuccessIsSaved
  BY DEF QueueOK, SavedOK, SuccessIsSaved
<1> QED BY <1>1, QueueInvariant, PTL

(* claim_next_cycle_job, save_paper_account_state, complete and fail: the   *)
(* queue with its leases, takeovers, retries and failing calls implements   *)
(* the JobBoard.                                                            *)
THEOREM BoardTheorem == Spec => ImplementsBoard
<1>1. Init => Board!BoardInit
  BY QueueInit
<1>2. QueueOK /\ [Next]_vars => [Board!BoardNext]_(Board!boardVars)
  BY QueueNext DEF BoardStep
<1> QED BY <1>1, <1>2, QueueInvariant, PTL DEF Spec, ImplementsBoard, Board!BoardSpec

-----------------------------------------------------------------------------
(* The wallet row *)

(* The statuses under which the orders of a wallet may be open. *)
Trading == {"active", "revoking"}

(* A wallet and its key have the same status, a failed wallet's key is gone. *)
KeyRow(r) == r.cred = IF r.st = "failed" THEN "revoked" ELSE r.st

(* What any call may do to a wallet row but import it or complete its        *)
(* revocation.                                                               *)
Moves(r, s) ==
    /\ s \in WalletRow
    /\ s.signer = r.signer
    /\ KeyRow(s)
    /\ s.st \in Enrolled => r.st \in Enrolled
    /\ r.st \in Trading => s.st \in Trading

LEMMA WalletFields ==
    ASSUME NEW r \in WalletRow
    PROVE  /\ r.st \in WalletStatus /\ r.cred \in WalletStatus /\ r.signer \in Signer \cup {None}
           /\ r.by \in Worker \cup {NoWorker} /\ r.tok \in Nat /\ r.lease \in BOOLEAN
           /\ r.tries \in Nat /\ r.ready \in BOOLEAN
BY DEF WalletRow

LEMMA Statuses ==
    {"none", "pending", "active", "revoking", "revoked", "failed"} = WalletStatus
BY DEF WalletStatus

LEMMA Unmoved ==
    ASSUME NEW r \in WalletRow, KeyRow(r)
    PROVE  /\ Moves(r, r) /\ Moves(r, Unclaimed(r)) /\ Moves(r, [r EXCEPT !.lease = FALSE])
           /\ \A ready \in BOOLEAN : Moves(r, Recorded(r, ready))
<1>1. \A s \in WalletRow : s.st = r.st /\ s.cred = r.cred /\ s.signer = r.signer => Moves(r, s)
  BY DEF Moves, KeyRow
<1>2. /\ Unclaimed(r) \in WalletRow /\ Unclaimed(r).st = r.st /\ Unclaimed(r).cred = r.cred
      /\ Unclaimed(r).signer = r.signer
  BY DEF Unclaimed, WalletRow
<1>3. \A s : s = [r EXCEPT !.lease = FALSE] =>
         s \in WalletRow /\ s.st = r.st /\ s.cred = r.cred /\ s.signer = r.signer
  BY DEF WalletRow
<1>4. \A ready \in BOOLEAN : \A s : s = [r EXCEPT !.ready = ready] =>
         s \in WalletRow /\ s.st = r.st /\ s.cred = r.cred /\ s.signer = r.signer
  BY DEF WalletRow
<1>5. Moves(r, r) /\ Moves(r, Unclaimed(r)) /\ Moves(r, [r EXCEPT !.lease = FALSE])
  BY <1>1, <1>2, <1>3
<1>6. \A ready \in BOOLEAN : Moves(r, Recorded(r, ready))
  BY <1>1, <1>4 DEF Recorded
<1> QED BY <1>5, <1>6

(* A row whose status and credential are written, with or without a claim. *)
WrittenFrom(r, s, st, cred) ==
    s \in WalletRow /\ s.st = st /\ s.cred = cred /\ s.signer = r.signer

LEMMA Written ==
    ASSUME NEW r \in WalletRow, NEW st \in WalletStatus, NEW cred \in WalletStatus,
           NEW s, s = [Unclaimed(r) EXCEPT !.st = st, !.cred = cred]
    PROVE  WrittenFrom(r, s, st, cred)
<1>1. PICK u : u = Unclaimed(r)
  OBVIOUS
<1>2. u \in WalletRow /\ u.signer = r.signer
  BY <1>1 DEF Unclaimed, WalletRow
<1>3. s = [u EXCEPT !.st = st, !.cred = cred]
  BY <1>1
<1> QED BY <1>2, <1>3 DEF WrittenFrom, WalletRow

(* The sweep of the claim, and the end of a verification. *)
LEMMA SweptWallets ==
    ASSUME NEW r \in WalletRow, KeyRow(r)
    PROVE  Moves(r, WalletSwept(r))
<1>1. PICK s : s = [Unclaimed(r) EXCEPT !.st = "failed", !.cred = "revoked"]
  OBVIOUS
<1>2. WrittenFrom(r, s, "failed", "revoked")
  BY <1>1, Statuses, Written
<1>3. r.st = "pending" => Moves(r, s)
  BY <1>2 DEF Moves, KeyRow, Enrolled, Trading, WrittenFrom
<1> QED BY <1>1, <1>3, Unmoved DEF WalletSwept

LEMMA VerifiedMoves ==
    ASSUME NEW r \in WalletRow, KeyRow(r), NEW p, NEW t
    PROVE  Moves(r, Verified(r, p, t))
<1>1. PICK s : s = [Unclaimed(r) EXCEPT !.st = "active", !.cred = "active"]
  OBVIOUS
<1>2. WrittenFrom(r, s, "active", "active")
  BY <1>1, Statuses, Written
<1>3. r.st = "pending" => Moves(r, s)
  BY <1>2 DEF Moves, KeyRow, Enrolled, Trading, WrittenFrom
<1> QED BY <1>1, <1>3, Unmoved DEF Verified

LEMMA FailedMoves ==
    ASSUME NEW r \in WalletRow, KeyRow(r), NEW p, NEW t, NEW retryable
    PROVE  Moves(r, VerificationFailed(r, p, t, retryable))
<1>1. PICK s : s = [Unclaimed(r) EXCEPT !.st = "failed", !.cred = "revoked"]
  OBVIOUS
<1>2. WrittenFrom(r, s, "failed", "revoked")
  BY <1>1, Statuses, Written
<1>3. r.st = "pending" => Moves(r, s)
  BY <1>2 DEF Moves, KeyRow, Enrolled, Trading, WrittenFrom
<1> QED BY <1>1, <1>3, Unmoved DEF VerificationFailed

(* A wallet that never became active is revoked at once. *)
LEMMA RequestedMoves ==
    ASSUME NEW r \in WalletRow, KeyRow(r)
    PROVE  Moves(r, RevocationRequested(r))
<1>1. PICK s, u : /\ s = [Unclaimed(r) EXCEPT !.st = "revoked", !.cred = "revoked"]
                  /\ u = [r EXCEPT !.st = "revoking", !.cred = "revoking"]
  OBVIOUS
<1>2. WrittenFrom(r, s, "revoked", "revoked")
  BY <1>1, Statuses, Written
<1>3. u \in WalletRow /\ u.st = "revoking" /\ u.cred = "revoking" /\ u.signer = r.signer
  BY <1>1, Statuses DEF WalletRow
<1>4. r.st \in {"pending", "failed"} => Moves(r, s)
  BY <1>2 DEF Moves, KeyRow, Enrolled, Trading, WrittenFrom
<1>5. r.st = "active" => Moves(r, u)
  BY <1>3 DEF Moves, KeyRow, Enrolled, Trading
<1>6. r.st \in {"none", "pending", "active", "revoking", "revoked", "failed"}
  BY Statuses, WalletFields
<1>7. CASE r.st = "active"
  BY <1>1, <1>5, <1>7 DEF RevocationRequested
<1>8. CASE r.st \in {"pending", "failed"}
  BY <1>1, <1>4, <1>8 DEF RevocationRequested
<1>9. CASE r.st \in {"none", "revoking", "revoked"}
  BY <1>9, Unmoved DEF RevocationRequested
<1> QED BY <1>6, <1>7, <1>8, <1>9

(* The completion of a revocation, and an import. *)
LEMMA RevokedRow ==
    ASSUME NEW r \in WalletRow
    PROVE  /\ RevokedWallet(r) \in WalletRow /\ RevokedWallet(r).st = "revoked"
           /\ KeyRow(RevokedWallet(r))
<1>1. WrittenFrom(r, RevokedWallet(r), "revoked", "revoked")
  BY Statuses, Written DEF RevokedWallet
<1> QED BY <1>1 DEF WrittenFrom, KeyRow

LEMMA ImportedRow ==
    ASSUME NEW s \in Signer, NEW w,
           w = [NoWallet EXCEPT !.st = "pending", !.cred = "pending", !.signer = s]
    PROVE  w \in WalletRow /\ w.st = "pending" /\ KeyRow(w) /\ w.signer = s
<1>1. NoWallet \in WalletRow
  BY Statuses DEF NoWallet, WalletRow
<1>2. w \in WalletRow /\ w.st = "pending" /\ w.cred = "pending" /\ w.signer = s
  BY <1>1, Statuses DEF WalletRow
<1> QED BY <1>2 DEF KeyRow

-----------------------------------------------------------------------------
(* The claim *)

LEMMA LeastNumber ==
    ASSUME NEW T, T \subseteq Nat, T # {}
    PROVE  \E x \in T : \A y \in T : x <= y
<1>1. PICK x \in T : \A y \in T : ~ (<<y, x>> \in OpToRel(<, Nat))
  BY NatLessThanWellFounded, WFMin
<1>2. \A y \in T : ~ (y < x)
  BY <1>1 DEF OpToRel
<1> QED BY <1>2

(* There is a token that neither the row nor a task holds: they hold fewer   *)
(* than there are to choose from.                                            *)
LEMMA FreshIs ==
    ASSUME IsFiniteSet(Worker), NEW r \in WalletRow, ww \in [Worker -> LifecycleTask]
    PROVE  FreshToken(r) \in Nat
<1> DEFINE n == Cardinality(Worker) + 2
           f == [p \in Worker |-> ww[p].tok]
           held == {f[p] : p \in Worker}
           used == {r.tok} \cup held
           T == (1 .. n) \ used
<1>1. Cardinality(Worker) \in Nat
  BY FS_CardinalityType
<1>2. IsFiniteSet(held) /\ Cardinality(held) <= Cardinality(Worker)
  <2>1. f \in Surjection(Worker, held)
    BY DEF Surjection
  <2> HIDE DEF f
  <2> QED BY <2>1, FS_Surjection
<1>3. IsFiniteSet({r.tok}) /\ Cardinality({r.tok}) = 1
  BY FS_Singleton
<1>4. IsFiniteSet(used) /\ Cardinality(used) \in Nat /\ Cardinality(used) < n
  <2> DEFINE I == {r.tok} \cap held
  <2>1. IsFiniteSet(I) /\ Cardinality(I) \in Nat
    <3>1. I \in SUBSET held
      OBVIOUS
    <3> QED BY <1>2, <3>1, FS_Subset, FS_CardinalityType
  <2>2. /\ IsFiniteSet(used)
        /\ Cardinality(used) = Cardinality({r.tok}) + Cardinality(held) - Cardinality(I)
    BY <1>2, <1>3, FS_Union
  <2>3. Cardinality(used) \in Nat /\ Cardinality(held) \in Nat
    BY <1>2, <2>2, FS_CardinalityType
  <2> HIDE DEF I, used, held
  <2> QED BY <1>1, <1>2, <1>3, <2>1, <2>2, <2>3
<1>5. n \in Nat /\ IsFiniteSet(1 .. n) /\ Cardinality(1 .. n) = n
  BY <1>1, FS_Interval
<1>6. T # {}
  <2> SUFFICES ASSUME (1 .. n) \in SUBSET used PROVE FALSE
    OBVIOUS
  <2>1. Cardinality(1 .. n) <= Cardinality(used)
    BY <1>4, FS_Subset
  <2> HIDE DEF n, used
  <2> QED BY <1>4, <1>5, <2>1
<1>7. PICK t \in T : \A u \in T : t <= u
  <2>1. T \subseteq Nat
    BY <1>5
  <2> HIDE DEF T
  <2> QED BY <1>6, <2>1, LeastNumber
<1>8. \A u \in 1 .. t - 1 : u \in used
  <2> HIDE DEF used
  <2> QED BY <1>5, <1>7
<1>9. \E x \in 1 .. n : x \notin used /\ \A u \in 1 .. x - 1 : u \in used
  BY <1>7, <1>8
<1>10. held = {ww[p].tok : p \in Worker}
  OBVIOUS
<1>11. FreshToken(r) = CHOOSE x \in 1 .. n : x \notin used /\ \A u \in 1 .. x - 1 : u \in used
  BY <1>10 DEF FreshToken
<1> HIDE DEF used, n
<1> QED BY <1>5, <1>9, <1>11

LEMMA ClaimedMoves ==
    ASSUME IsFiniteSet(Worker), ww \in [Worker -> LifecycleTask],
           NEW r \in WalletRow, KeyRow(r), NEW p \in Worker, NEW s, s = ClaimedWallet(r, p)
    PROVE  Moves(r, s) /\ s.tok \in Nat
<1>1. PICK t : t = FreshToken(r)
  OBVIOUS
<1>2. t \in Nat
  BY <1>1, FreshIs
<1>3. PICK n : n = IF r.st = "pending" THEN r.tries + 1 ELSE r.tries
  OBVIOUS
<1>4. n \in Nat
  BY <1>3, WalletFields
<1>5. s = [r EXCEPT !.by = p, !.tok = t, !.lease = TRUE, !.tries = n]
  BY <1>1, <1>3 DEF ClaimedWallet
<1>6. s \in WalletRow /\ s.st = r.st /\ s.cred = r.cred /\ s.signer = r.signer /\ s.tok = t
  BY <1>2, <1>4, <1>5 DEF WalletRow
<1> QED BY <1>2, <1>6 DEF Moves, KeyRow

-----------------------------------------------------------------------------
(* The inductive invariant *)

(* A live job has its order in hand from the signature to the result. *)
InHand == {"mark", "check", "wait"}

(* The rows of orders that may reach the exchange, or rest there. *)
Busy == {"submitting", "submitted", "unknown", "working"}

BookRow == [st : {"none", "flight", "open", "gone", "refused"}, key : WalletKey \cup {None}]

(* Every wallet goes with its key, and a signer has one enrolled wallet. *)
WalletsOK(w) ==
    /\ w \in [WalletKey -> WalletRow]
    /\ \A k \in WalletKey : KeyRow(w[k])
    /\ \A j, k \in WalletKey : w[j].st \in Enrolled /\ w[k].st \in Enrolled
                            /\ w[j].signer = w[k].signer => j = k

ProfileOK ==
    /\ wprof \in [ver : Nat, key : WalletKey \cup {None}, live : BOOLEAN]
    /\ wprof.live = TRUE => wprof.key \in WalletKey
    /\ pick \in {<<>>} \cup ((WalletKey \cup {None}) \X Nat)

LifecycleOK(t) == t \in LifecycleTask /\ (t.pc \notin {"idle", "dead"} => t.key \in WalletKey)

JobOK(j) ==
    /\ j \in LiveJob
    /\ j.pc # "idle" => j.key \in WalletKey
    /\ j.pc \in InHand => j.o \in Order

(* The order in the hand of j: its row r and what the exchange has of it, e. *)
HandOK(j, r, e) ==
    /\ e.key = j.key
    /\ r.id = FALSE
    /\ r.st = IF j.pc = "mark" THEN "signed" ELSE "submitting"
    /\ j.pc # "wait" => e.st = "none"

(* An order that can reach the exchange or rests there has an open row, and  *)
(* an open row belongs to a wallet that trades or is being revoked.  A row   *)
(* gets the exchange's id after the request has arrived.                     *)
OrderOK(w, r, e) ==
    /\ e.st \in {"flight", "open"} => r.st \in Busy
    /\ r.st \in Busy => e.key \in WalletKey /\ w[e.key].st \in Trading
    /\ r.id = TRUE => e.st # "flight"
    /\ r.st = "none" => r.id = FALSE /\ e.st = "none"

OrdersOK(w, rs, bk, jb) ==
    /\ rs \in [Order -> OrderRow]
    /\ bk \in [Order -> BookRow]
    /\ jb \in [Worker -> LiveJob]
    /\ \A p \in Worker : JobOK(jb[p])
    /\ \A p \in Worker : jb[p].pc \in InHand => HandOK(jb[p], rs[jb[p].o], bk[jb[p].o])
    /\ \A p, q \in Worker : jb[p].pc \in InHand /\ jb[q].pc \in InHand
                               /\ jb[p].o = jb[q].o => p = q
    /\ \A o \in Order : OrderOK(w, rs[o], bk[o])

WalletInv ==
    /\ WalletsOK(wallet)
    /\ ProfileOK
    /\ ctl \in Control
    /\ lease \in Lease
    /\ alive \in SUBSET Worker
    /\ ww \in [Worker -> LifecycleTask]
    /\ \A p \in Worker : LifecycleOK(ww[p])
    /\ OrdersOK(wallet, rows, book, job)

-----------------------------------------------------------------------------
(* What a step does to the wallets *)

(* No wallet stops trading, unless there is no open row. *)
Trades(w, v, rs) ==
    \/ \A k \in WalletKey : w[k].st \in Trading => v[k].st \in Trading
    \/ \A o \in Order : rs[o].st \notin Busy

LEMMA WalletsMove ==
    ASSUME NEW w, WalletsOK(w), NEW v \in [WalletKey -> WalletRow], \A k \in WalletKey : Moves(w[k], v[k]),
           NEW rs
    PROVE  WalletsOK(v) /\ Trades(w, v, rs)
BY DEF WalletsOK, Moves, Trades

LEMMA WalletMoves ==
    ASSUME NEW w, WalletsOK(w), NEW k \in WalletKey, NEW r, Moves(w[k], r),
           NEW v, v = [w EXCEPT ![k] = r], NEW rs
    PROVE  WalletsOK(v) /\ Trades(w, v, rs)
<1>1. w \in [WalletKey -> WalletRow] /\ r \in WalletRow /\ \A j \in WalletKey : KeyRow(w[j])
  BY DEF WalletsOK, Moves
<1>2. v \in [WalletKey -> WalletRow]
  BY <1>1
<1>3. \A j \in WalletKey : Moves(w[j], v[j])
  BY <1>1, Unmoved
<1> QED BY <1>2, <1>3, WalletsMove

LEMMA OrdersFollow ==
    ASSUME NEW w, NEW rs, NEW bk, NEW jb, OrdersOK(w, rs, bk, jb), NEW v, Trades(w, v, rs)
    PROVE  OrdersOK(v, rs, bk, jb)
<1>1. \A o \in Order : OrderOK(w, rs[o], bk[o])
  BY DEF OrdersOK
<1>2. \A o \in Order : OrderOK(v, rs[o], bk[o])
  BY <1>1 DEF OrderOK, Trades
<1> QED BY <1>2 DEF OrdersOK

-----------------------------------------------------------------------------
(* What a step does to the orders *)

(* Orders that rested are cancelled. *)
Clears(bk, bl) ==
    /\ bl \in [Order -> BookRow]
    /\ \A o \in Order : /\ bl[o].key = bk[o].key
                        /\ bl[o].st = bk[o].st \/ (bk[o].st = "open" /\ bl[o].st = "gone")

LEMMA CancelledClears ==
    ASSUME book \in [Order -> BookRow], NEW k
    PROVE  Clears(book, CancelledBook(k)) /\ Clears(book, book)
<1>1. \A o \in Order : [book[o] EXCEPT !.st = "gone"] \in BookRow
                       /\ [book[o] EXCEPT !.st = "gone"].key = book[o].key
                       /\ [book[o] EXCEPT !.st = "gone"].st = "gone"
  BY DEF BookRow
<1> QED BY <1>1 DEF Clears, CancelledBook

LEMMA OrdersCleared ==
    ASSUME NEW w, NEW rs, NEW bk, NEW jb, OrdersOK(w, rs, bk, jb), NEW bl, Clears(bk, bl)
    PROVE  OrdersOK(w, rs, bl, jb)
<1>1. \A o \in Order : OrderOK(w, rs[o], bl[o])
  BY DEF OrdersOK, OrderOK, Clears
<1>2. ASSUME NEW p \in Worker, jb[p].pc \in InHand
      PROVE  HandOK(jb[p], rs[jb[p].o], bl[jb[p].o])
  BY <1>2 DEF OrdersOK, HandOK, Clears, JobOK
<1> QED BY <1>1, <1>2 DEF OrdersOK, Clears

(* A job moves on without an order in hand. *)
LEMMA EmptyHand ==
    ASSUME NEW w, NEW rs, NEW bk, NEW jb, OrdersOK(w, rs, bk, jb), NEW p \in Worker,
           NEW j, JobOK(j), j.pc \notin InHand, NEW jn, jn = [jb EXCEPT ![p] = j]
    PROVE  OrdersOK(w, rs, bk, jn)
<1>1. jb \in [Worker -> LiveJob] /\ j \in LiveJob
  BY DEF OrdersOK, JobOK
<1>2. jn \in [Worker -> LiveJob] /\ \A q \in Worker : jn[q] = IF q = p THEN j ELSE jb[q]
  BY <1>1
<1> QED BY <1>2 DEF OrdersOK

(* One order moves on, in the hand of p or into it. *)
LEMMA OneOrder ==
    ASSUME NEW w, NEW rs, NEW bk, NEW jb, OrdersOK(w, rs, bk, jb), NEW p \in Worker,
           NEW o \in Order, (jb[p].pc \in InHand /\ jb[p].o = o) \/ rs[o].st = "none",
           NEW r \in OrderRow, NEW e \in BookRow, OrderOK(w, r, e),
           NEW j, JobOK(j), j.pc \in InHand => j.o = o /\ HandOK(j, r, e),
           NEW rn, rn = [rs EXCEPT ![o] = r], NEW bl, bl = [bk EXCEPT ![o] = e],
           NEW jn, jn = [jb EXCEPT ![p] = j]
    PROVE  OrdersOK(w, rn, bl, jn)
<1>1. /\ rs \in [Order -> OrderRow] /\ bk \in [Order -> BookRow]
      /\ jb \in [Worker -> LiveJob] /\ j \in LiveJob
  BY DEF OrdersOK, JobOK
<1>2. /\ rn \in [Order -> OrderRow] /\ bl \in [Order -> BookRow] /\ jn \in [Worker -> LiveJob]
      /\ \A x \in Order : rn[x] = IF x = o THEN r ELSE rs[x]
      /\ \A x \in Order : bl[x] = IF x = o THEN e ELSE bk[x]
      /\ \A q \in Worker : jn[q] = IF q = p THEN j ELSE jb[q]
  BY <1>1
<1>3. ASSUME NEW q \in Worker, q # p, jb[q].pc \in InHand
      PROVE  jb[q].o # o /\ jb[q].o \in Order
  <2>1. HandOK(jb[q], rs[jb[q].o], bk[jb[q].o]) /\ jb[q].o \in Order
    BY <1>3 DEF OrdersOK, JobOK
  <2>2. rs[jb[q].o].st # "none"
    BY <2>1 DEF HandOK
  <2>3. jb[p].pc \in InHand => jb[q].o # jb[p].o
    BY <1>3 DEF OrdersOK
  <2> QED BY <2>1, <2>2, <2>3
<1>4. \A x \in Order : OrderOK(w, rn[x], bl[x])
  BY <1>2 DEF OrdersOK
<1>5. ASSUME NEW q \in Worker, jn[q].pc \in InHand
      PROVE  HandOK(jn[q], rn[jn[q].o], bl[jn[q].o])
  BY <1>2, <1>3, <1>5 DEF OrdersOK
<1>6. ASSUME NEW q \in Worker, NEW u \in Worker, jn[q].pc \in InHand, jn[u].pc \in InHand,
             jn[q].o = jn[u].o
      PROVE  q = u
  BY <1>2, <1>3, <1>6 DEF OrdersOK
<1>7. \A q \in Worker : JobOK(jn[q])
  BY <1>2 DEF OrdersOK
<1> QED BY <1>2, <1>4, <1>5, <1>6, <1>7 DEF OrdersOK

-----------------------------------------------------------------------------
(* Enrolment, the profile and the wallet worker *)

LEMMA WalletInit == WalletAssumption /\ WInit => WalletInv
<1> SUFFICES ASSUME WalletAssumption, WInit PROVE WalletInv
  OBVIOUS
<1>1. NoWallet \in WalletRow /\ NoWallet.st = "none" /\ KeyRow(NoWallet)
  BY Statuses DEF NoWallet, WalletRow, KeyRow
<1>2. WalletsOK(wallet)
  BY <1>1 DEF WInit, WalletsOK, Enrolled
<1>3. ProfileOK
  BY DEF WInit, ProfileOK
<1>4. ctl \in Control /\ lease \in Lease
  BY DEF WInit, InitialControl, InitialLease, Control, Lease
<1>5. NoTask \in LifecycleTask /\ LifecycleOK(NoTask)
  BY DEF NoTask, LifecycleTask, LifecycleOK
<1>6. NoLiveJob \in LiveJob /\ NoLiveJob.pc = "idle"
  BY DEF NoLiveJob, LiveJob
<1>7. NoRow \in OrderRow /\ NoRow.st = "none" /\ NoRow.id = FALSE
  BY DEF NoRow, OrderRow, RowStatus
<1>8. OrdersOK(wallet, rows, book, job)
  BY <1>6, <1>7 DEF WInit, OrdersOK, OrderOK, JobOK, InHand, Busy, BookRow
<1> QED BY <1>2, <1>3, <1>4, <1>5, <1>8 DEF WInit, WalletInv

(* A step that leaves the orders and the jobs alone. *)
LEMMA StoreStep ==
    ASSUME WalletInv, UNCHANGED <<rows, book, job>>, WalletsOK(wallet'),
           Trades(wallet, wallet', rows), ProfileOK', ctl' \in Control, lease' \in Lease,
           alive' \in SUBSET Worker, ww' \in [Worker -> LifecycleTask],
           \A p \in Worker : LifecycleOK(ww'[p])
    PROVE  WalletInv'
<1>1. OrdersOK(wallet', rows, book, job)
  BY OrdersFollow DEF WalletInv
<1> QED BY <1>1 DEF WalletInv

LEMMA NoTaskIs == NoTask \in LifecycleTask /\ LifecycleOK(NoTask) /\ NoTask.pc = "idle"
BY DEF NoTask, LifecycleTask, LifecycleOK

LEMMA TasksMove ==
    ASSUME WalletInv, NEW p \in Worker, NEW t, LifecycleOK(t), SetLifecycle(p, t)
    PROVE  ww' \in [Worker -> LifecycleTask] /\ \A q \in Worker : LifecycleOK(ww'[q])
BY DEF WalletInv, LifecycleOK, SetLifecycle

(* A step of one task, which changes one wallet or none. *)
LEMMA WorkerStep ==
    ASSUME WalletInv, UNCHANGED <<wprof, pick, ctl, lease, rows, book, alive, job>>,
           NEW p \in Worker, NEW t, LifecycleOK(t), SetLifecycle(p, t),
           WalletsOK(wallet'), Trades(wallet, wallet', rows)
    PROVE  WalletInv'
<1>1. ww' \in [Worker -> LifecycleTask] /\ \A q \in Worker : LifecycleOK(ww'[q])
  BY TasksMove
<1>2. ProfileOK' /\ ctl' \in Control /\ lease' \in Lease /\ alive' \in SUBSET Worker
  BY DEF WalletInv, ProfileOK
<1> QED BY <1>1, <1>2, StoreStep

LEMMA SameWallets ==
    ASSUME WalletInv, wallet' = wallet
    PROVE  WalletsOK(wallet') /\ Trades(wallet, wallet', rows)
BY DEF WalletInv, Trades

LEMMA ImportStep ==
    ASSUME WalletAssumption, WalletInv, NEW k \in WalletKey, NEW s \in Signer, Import(k, s)
    PROVE  WalletInv'
<1>1. PICK r : r = [NoWallet EXCEPT !.st = "pending", !.cred = "pending", !.signer = s]
  OBVIOUS
<1>2. r \in WalletRow /\ r.st = "pending" /\ KeyRow(r) /\ r.signer = s
  BY <1>1, ImportedRow
<1>3. wallet' = [wallet EXCEPT ![k] = r] /\ wallet[k].st = "none" /\ WalletsOK(wallet)
  BY <1>1 DEF Import, WalletInv
<1>4. /\ wallet' \in [WalletKey -> WalletRow]
      /\ \A j \in WalletKey : wallet'[j] = IF j = k THEN r ELSE wallet[j]
  BY <1>2, <1>3 DEF WalletsOK
<1>5. \A j \in WalletKey : wallet[j].st \in Enrolled => wallet[j].signer # s
  <2>1. ASSUME NEW j \in WalletKey, wallet[j].st \in Enrolled PROVE wallet[j].cred \in Enrolled
    BY <1>3, <2>1 DEF WalletsOK, KeyRow, Enrolled
  <2> QED BY <2>1 DEF Import
<1>6. WalletsOK(wallet')
  BY <1>2, <1>3, <1>4, <1>5 DEF WalletsOK
<1>7. Trades(wallet, wallet', rows)
  BY <1>3, <1>4 DEF Trades, Trading
<1>8. UNCHANGED <<wprof, pick, ctl, lease, rows, book, alive, ww, job>>
  BY DEF Import
<1>9. ProfileOK' /\ ctl' \in Control /\ lease' \in Lease /\ alive' \in SUBSET Worker
      /\ ww' \in [Worker -> LifecycleTask] /\ \A p \in Worker : LifecycleOK(ww'[p])
  BY <1>8 DEF WalletInv, ProfileOK
<1> QED BY <1>6, <1>7, <1>8, <1>9, StoreStep

LEMMA ControlTypes ==
    ASSUME NEW c \in Control
    PROVE  /\ Armed(c) \in Control /\ Disarmed(c) \in Control /\ Acknowledged(c) \in Control
           /\ Disarmed(c).ver \in Nat
BY DEF Control, Armed, Disarmed, Acknowledged

LEMMA ProfileTypes ==
    ASSUME ProfileOK
    PROVE  wprof.ver \in Nat /\ wprof.key \in WalletKey \cup {None} /\ wprof.live \in BOOLEAN
           /\ wprof.ver + 1 \in Nat
BY DEF ProfileOK

ProfileRow(q) ==
    /\ q \in [ver : Nat, key : WalletKey \cup {None}, live : BOOLEAN]
    /\ q.live = TRUE => q.key \in WalletKey

LEMMA ProfileRows ==
    ASSUME NEW v \in Nat, NEW k \in WalletKey \cup {None}, NEW live \in BOOLEAN,
           live = TRUE => k # None
    PROVE  ProfileRow([ver |-> v, key |-> k, live |-> live])
BY DEF ProfileRow

LEMMA RequestRevokeStep ==
    ASSUME WalletAssumption, WalletInv, NEW k \in WalletKey, RequestRevoke(k)
    PROVE  WalletInv'
<1>1. WalletsOK(wallet) /\ ProfileOK /\ ctl \in Control
  BY DEF WalletInv
<1>2. PICK r : r = RevocationRequested(wallet[k])
  OBVIOUS
<1>3. Moves(wallet[k], r) /\ wallet' = [wallet EXCEPT ![k] = r]
  BY <1>1, <1>2, RequestedMoves DEF RequestRevoke, WalletsOK
<1>4. WalletsOK(wallet') /\ Trades(wallet, wallet', rows)
  BY <1>1, <1>3, WalletMoves
<1>5. UNCHANGED <<pick, lease, rows, book, alive, ww, job>>
  BY DEF RequestRevoke
<1>6. ctl' \in Control
  BY <1>1, ControlTypes DEF RequestRevoke
<1>7. ProfileOK'
  <2>1. wprof' = wprof \/ wprof' = [ver |-> wprof.ver + 1, key |-> None, live |-> FALSE]
    BY DEF RequestRevoke
  <2>2. ProfileRow([ver |-> wprof.ver + 1, key |-> None, live |-> FALSE])
    BY <1>1, ProfileTypes, ProfileRows
  <2>3. ProfileRow(wprof')
    BY <1>1, <2>1, <2>2 DEF ProfileOK, ProfileRow
  <2> QED BY <1>1, <1>5, <2>3 DEF ProfileOK, ProfileRow
<1>8. lease' \in Lease /\ alive' \in SUBSET Worker
      /\ ww' \in [Worker -> LifecycleTask] /\ \A p \in Worker : LifecycleOK(ww'[p])
  BY <1>5 DEF WalletInv
<1> QED BY <1>4, <1>5, <1>6, <1>7, <1>8, StoreStep

LEMMA ProfileStep ==
    ASSUME WalletAssumption, WalletInv,
           (\E k \in WalletKey \cup {None} : SelectWallet(k)) \/ WriteProfile \/ Arm
               \/ AccountLeaseLapses
    PROVE  WalletInv'
<1>1. ProfileOK /\ ctl \in Control /\ lease \in Lease
  BY DEF WalletInv
<1>2. UNCHANGED <<wallet, rows, book, alive, ww, job>>
  BY DEF SelectWallet, WriteProfile, Arm, AccountLeaseLapses
<1>3. ctl' \in Control
  BY <1>1, ControlTypes DEF SelectWallet, WriteProfile, Arm, AccountLeaseLapses
<1>4. lease' \in Lease
  <2>1. [lease EXCEPT !.live = FALSE] \in Lease
    BY <1>1 DEF Lease
  <2> QED BY <1>1, <2>1 DEF SelectWallet, WriteProfile, Arm, AccountLeaseLapses
<1>5. ProfileOK'
  <2>1. CASE \E k \in WalletKey \cup {None} : SelectWallet(k)
    BY <1>1, <2>1, ProfileTypes DEF SelectWallet, ProfileOK
  <2>2. CASE WriteProfile
    <3>1. pick' = <<>> /\ pick # <<>>
      BY <2>2 DEF WriteProfile
    <3>2. PICK k \in WalletKey \cup {None}, n \in Nat : pick = <<k, n>>
      BY <1>1, <3>1 DEF ProfileOK
    <3>3. wprof' = wprof \/ wprof' = [ver |-> wprof.ver + 1, key |-> k, live |-> k # None]
      BY <2>2, <3>2 DEF WriteProfile
    <3>4. ProfileRow([ver |-> wprof.ver + 1, key |-> k, live |-> k # None])
      <4>1. CASE k = None
        <5>1. ProfileRow([ver |-> wprof.ver + 1, key |-> k, live |-> FALSE])
          BY <1>1, ProfileTypes, ProfileRows
        <5>2. (k # None) = FALSE
          BY <4>1
        <5> QED BY <5>1, <5>2
      <4>2. CASE k # None
        <5>1. ProfileRow([ver |-> wprof.ver + 1, key |-> k, live |-> TRUE])
          BY <1>1, <4>2, ProfileTypes, ProfileRows
        <5>2. (k # None) = TRUE
          BY <4>2
        <5> QED BY <5>1, <5>2
      <4> QED BY <4>1, <4>2
    <3>6. ProfileRow(wprof')
      BY <1>1, <3>3, <3>4 DEF ProfileOK, ProfileRow
    <3> QED BY <3>1, <3>6 DEF ProfileOK, ProfileRow
  <2>3. CASE Arm \/ AccountLeaseLapses
    BY <1>1, <2>3 DEF Arm, AccountLeaseLapses, ProfileOK
  <2> QED BY <2>1, <2>2, <2>3
<1>6. alive' \in SUBSET Worker
      /\ ww' \in [Worker -> LifecycleTask] /\ \A p \in Worker : LifecycleOK(ww'[p])
  BY <1>2 DEF WalletInv
<1>7. WalletsOK(wallet') /\ Trades(wallet, wallet', rows)
  BY <1>2, SameWallets
<1> QED BY <1>2, <1>3, <1>4, <1>5, <1>6, <1>7, StoreStep

(* The wallet worker's steps that write no wallet. *)
LEMMA TaskOnlyStep ==
    ASSUME WalletAssumption, WalletInv, NEW p \in Worker,
           \/ ServeRaises(p) \/ GetEnvelope(p) \/ LifecycleRaises(p) \/ RevokeList(p)
    PROVE  WalletInv'
<1>1. PICK t : t = ww[p]
  OBVIOUS
<1>2. LifecycleOK(t) /\ t \in LifecycleTask
  BY <1>1 DEF WalletInv, LifecycleOK
<1>3. UNCHANGED <<wprof, pick, ctl, lease, rows, book, alive, job>> /\ wallet' = wallet
  BY DEF ServeRaises, GetEnvelope, LifecycleRaises, RevokeList, db
<1>4. WalletsOK(wallet') /\ Trades(wallet, wallet', rows)
  BY <1>3, SameWallets
<1>5. CASE SetLifecycle(p, NoTask)
  BY <1>3, <1>4, <1>5, NoTaskIs, WorkerStep
<1>6. CASE SetLifecycle(p, [NoTask EXCEPT !.pc = "dead"])
  <2>1. PICK u : u = [NoTask EXCEPT !.pc = "dead"]
    OBVIOUS
  <2>2. LifecycleOK(u)
    BY <2>1, NoTaskIs DEF LifecycleOK, LifecycleTask
  <2> QED BY <1>3, <1>4, <1>6, <2>1, <2>2, WorkerStep
<1>7. ASSUME NEW pc \in {"verify", "cancel", "fail", "complete"}, t.pc \notin {"idle", "dead"},
             SetLifecycle(p, [t EXCEPT !.pc = pc])
      PROVE  WalletInv'
  <2>1. PICK u : u = [t EXCEPT !.pc = pc]
    OBVIOUS
  <2>2. LifecycleOK(u)
    BY <1>2, <1>7, <2>1 DEF LifecycleOK, LifecycleTask
  <2> QED BY <1>3, <1>4, <1>7, <2>1, <2>2, WorkerStep
<1>8. t.pc \notin {"idle", "dead"} \/ ServeRaises(p)
  BY <1>1 DEF GetEnvelope, LifecycleRaises, RevokeList, TaskAt
<1>9. CASE ServeRaises(p)
  BY <1>6, <1>9 DEF ServeRaises
<1>10. CASE ~ServeRaises(p)
  BY <1>1, <1>5, <1>7, <1>8, <1>10 DEF GetEnvelope, LifecycleRaises, RevokeList
<1> QED BY <1>9, <1>10

LEMMA HeartbeatStep ==
    ASSUME WalletAssumption, WalletInv, NEW p \in Worker, LifecycleHeartbeatLost(p)
    PROVE  WalletInv'
<1>1. PICK t, u : t = ww[p] /\ u = [t EXCEPT !.ok = FALSE]
  OBVIOUS
<1>2. LifecycleOK(t) /\ ww \in [Worker -> LifecycleTask]
  BY <1>1 DEF WalletInv
<1>3. LifecycleOK(u)
  BY <1>1, <1>2 DEF LifecycleOK, LifecycleTask
<1>4. SetLifecycle(p, u)
  BY <1>1, <1>2 DEF LifecycleHeartbeatLost, SetLifecycle
<1>5. UNCHANGED <<wprof, pick, ctl, lease, rows, book, alive, job>> /\ wallet' = wallet
  BY DEF LifecycleHeartbeatLost, db
<1> QED BY <1>3, <1>4, <1>5, SameWallets, WorkerStep

LEMMA LeaseLapseStep ==
    ASSUME WalletAssumption, WalletInv, NEW k \in WalletKey, LifecycleLeaseLapses(k)
    PROVE  WalletInv'
<1>1. PICK r : r = [wallet[k] EXCEPT !.lease = FALSE]
  OBVIOUS
<1>2. WalletsOK(wallet)
  BY DEF WalletInv
<1>3. Moves(wallet[k], r)
  BY <1>1, <1>2, Unmoved DEF WalletsOK
<1>4. wallet' = [wallet EXCEPT ![k] = r]
  BY <1>1 DEF LifecycleLeaseLapses
<1>5. WalletsOK(wallet') /\ Trades(wallet, wallet', rows)
  BY <1>2, <1>3, <1>4, WalletMoves
<1>6. UNCHANGED <<wprof, pick, ctl, lease, rows, book, alive, ww, job>>
  BY DEF LifecycleLeaseLapses
<1>7. ProfileOK' /\ ctl' \in Control /\ lease' \in Lease /\ alive' \in SUBSET Worker
      /\ ww' \in [Worker -> LifecycleTask] /\ \A p \in Worker : LifecycleOK(ww'[p])
  BY <1>6 DEF WalletInv, ProfileOK
<1> QED BY <1>5, <1>6, <1>7, StoreStep

(* Verification: each of its calls moves one row. *)
LEMMA VerificationStep ==
    ASSUME WalletAssumption, WalletInv, NEW p \in Worker,
           \/ CompleteVerification(p) \/ RecordReadiness(p) \/ FailVerification(p)
    PROVE  WalletInv'
<1>1. PICK t, k : t = ww[p] /\ k = t.key
  OBVIOUS
<1>2. LifecycleOK(t) /\ t \in LifecycleTask /\ WalletsOK(wallet)
  BY <1>1 DEF WalletInv, LifecycleOK
<1>3. k \in WalletKey
  BY <1>1, <1>2 DEF LifecycleOK, CompleteVerification, RecordReadiness, FailVerification, TaskAt
<1>4. wallet[k] \in WalletRow /\ KeyRow(wallet[k])
  BY <1>2, <1>3 DEF WalletsOK
<1>5. WalletsOK(wallet') /\ Trades(wallet, wallet', rows)
  <2>1. CASE wallet' = wallet
    BY <2>1, SameWallets
  <2>2. ASSUME NEW r, Moves(wallet[k], r), wallet' = [wallet EXCEPT ![k] = r]
        PROVE  WalletsOK(wallet') /\ Trades(wallet, wallet', rows)
    BY <1>2, <1>3, <2>2, WalletMoves
  <2>3. CASE CompleteVerification(p)
    <3>1. wallet' = wallet \/ wallet' = [wallet EXCEPT ![k] = Verified(wallet[k], p, t.tok)]
      BY <1>1, <2>3 DEF CompleteVerification
    <3> QED BY <1>4, <2>1, <2>2, <3>1, VerifiedMoves
  <2>4. CASE RecordReadiness(p)
    <3>1. PICK ready \in BOOLEAN : wallet' = [wallet EXCEPT ![k] = Recorded(wallet[k], ready)]
      BY <1>1, <2>4 DEF RecordReadiness
    <3> QED BY <1>4, <2>2, <3>1, Unmoved
  <2>5. CASE FailVerification(p)
    <3>1. \/ wallet' = wallet
          \/ \E retryable \in BOOLEAN : wallet' =
                [wallet EXCEPT ![k] = VerificationFailed(wallet[k], p, t.tok, retryable)]
      BY <1>1, <2>5 DEF FailVerification
    <3> QED BY <1>4, <2>1, <2>2, <3>1, FailedMoves
  <2> QED BY <2>3, <2>4, <2>5
<1>6. PICK u : SetLifecycle(p, u) /\ LifecycleOK(u)
  <2>1. LifecycleOK([t EXCEPT !.pc = "record"])
    BY <1>1, <1>2, <1>3 DEF LifecycleOK, LifecycleTask
  <2>2. SetLifecycle(p, NoTask) \/ SetLifecycle(p, [t EXCEPT !.pc = "record"])
    BY <1>1 DEF CompleteVerification, RecordReadiness, FailVerification
  <2> QED BY <2>1, <2>2, NoTaskIs
<1>7. UNCHANGED <<wprof, pick, ctl, lease, rows, book, alive, job>>
  BY DEF CompleteVerification, RecordReadiness, FailVerification
<1> QED BY <1>5, <1>6, <1>7, WorkerStep

(* The completion of a revocation finds no open row. *)
LEMMA RevocationStep ==
    ASSUME WalletAssumption, WalletInv, NEW p \in Worker, CompleteRevocation(p)
    PROVE  WalletInv'
<1>1. PICK t, k : t = ww[p] /\ k = t.key
  OBVIOUS
<1>2. LifecycleOK(t) /\ WalletsOK(wallet)
  BY <1>1 DEF WalletInv
<1>3. k \in WalletKey
  BY <1>1, <1>2 DEF LifecycleOK, CompleteRevocation, TaskAt
<1>4. CASE ~MayRevoke(wallet[k], p, t.tok)
  <2>1. wallet' = wallet
    BY <1>1, <1>2, <1>4 DEF CompleteRevocation, WalletsOK
  <2> QED BY <2>1, NoTaskIs, SameWallets, WorkerStep DEF CompleteRevocation
<1>5. CASE MayRevoke(wallet[k], p, t.tok)
  <2>1. PICK r : r = RevokedWallet(wallet[k])
    OBVIOUS
  <2>2. r \in WalletRow /\ r.st = "revoked" /\ KeyRow(r)
    BY <1>2, <1>3, <2>1, RevokedRow DEF WalletsOK
  <2>3. wallet' = [wallet EXCEPT ![k] = r]
    BY <1>1, <1>5, <2>1 DEF CompleteRevocation
  <2>4. /\ wallet' \in [WalletKey -> WalletRow]
        /\ \A j \in WalletKey : wallet'[j] = IF j = k THEN r ELSE wallet[j]
    BY <1>2, <2>2, <2>3 DEF WalletsOK
  <2>5. WalletsOK(wallet')
    BY <1>2, <2>2, <2>4 DEF WalletsOK, Enrolled
  <2>6. Trades(wallet, wallet', rows)
    BY <1>5 DEF MayRevoke, OpenRows, Trades, Busy
  <2> QED BY <2>5, <2>6, NoTaskIs, WorkerStep DEF CompleteRevocation
<1> QED BY <1>4, <1>5

LEMMA ClaimLifecycleStep ==
    ASSUME WalletAssumption, WalletInv, NEW p \in Worker, ClaimLifecycle(p)
    PROVE  WalletInv'
<1>1. PICK swept : /\ swept = [k \in WalletKey |-> WalletSwept(wallet[k])]
                   /\ \/ \E k \in WalletKey :
                           /\ wallet' = [swept EXCEPT ![k] = ClaimedWallet(@, p)]
                           /\ SetLifecycle(p, [pc |-> "envelope", key |-> k,
                                          tok |-> wallet'[k].tok, ok |-> TRUE])
                      \/ wallet' = swept /\ UNCHANGED ww
  BY DEF ClaimLifecycle
<1>2. WalletsOK(wallet) /\ ww \in [Worker -> LifecycleTask] /\ IsFiniteSet(Worker)
  BY DEF WalletInv, WalletAssumption
<1>3. \A k \in WalletKey : Moves(wallet[k], swept[k])
  BY <1>1, <1>2, SweptWallets DEF WalletsOK
<1>4. swept \in [WalletKey -> WalletRow]
  BY <1>1, <1>3 DEF Moves
<1>5. WalletsOK(swept) /\ Trades(wallet, swept, rows)
  BY <1>2, <1>3, <1>4, WalletsMove
<1>6. UNCHANGED <<wprof, pick, ctl, lease, rows, book, alive, job>>
  BY DEF ClaimLifecycle
<1>7. CASE wallet' = swept /\ UNCHANGED ww
  <2>1. ProfileOK' /\ ctl' \in Control /\ lease' \in Lease /\ alive' \in SUBSET Worker
        /\ ww' \in [Worker -> LifecycleTask] /\ \A q \in Worker : LifecycleOK(ww'[q])
    BY <1>6, <1>7 DEF WalletInv, ProfileOK
  <2> QED BY <1>5, <1>6, <1>7, <2>1, StoreStep
<1>8. CASE \E k \in WalletKey :
             /\ wallet' = [swept EXCEPT ![k] = ClaimedWallet(@, p)]
             /\ SetLifecycle(p, [pc |-> "envelope", key |-> k, tok |-> wallet'[k].tok, ok |-> TRUE])
  <2>1. PICK k \in WalletKey :
             /\ wallet' = [swept EXCEPT ![k] = ClaimedWallet(@, p)]
             /\ SetLifecycle(p, [pc |-> "envelope", key |-> k, tok |-> wallet'[k].tok, ok |-> TRUE])
    BY <1>8
  <2>2. PICK r : r = ClaimedWallet(swept[k], p)
    OBVIOUS
  <2>3. Moves(swept[k], r) /\ r.tok \in Nat
    BY <1>2, <1>5, <2>2, ClaimedMoves DEF WalletsOK
  <2>4. wallet' = [swept EXCEPT ![k] = r]
    BY <1>4, <2>1, <2>2
  <2>5. WalletsOK(wallet') /\ Trades(swept, wallet', rows)
    BY <1>5, <2>3, <2>4, WalletMoves
  <2>6. Trades(wallet, wallet', rows)
    BY <1>5, <2>5 DEF Trades
  <2>7. PICK n : n = r.tok
    OBVIOUS
  <2>8. SetLifecycle(p, [pc |-> "envelope", key |-> k, tok |-> n, ok |-> TRUE])
    BY <1>4, <2>1, <2>4, <2>7
  <2>9. LifecycleOK([pc |-> "envelope", key |-> k, tok |-> n, ok |-> TRUE])
    BY <2>3, <2>7 DEF LifecycleOK, LifecycleTask
  <2> QED BY <1>6, <2>5, <2>6, <2>8, <2>9, WorkerStep
<1> QED BY <1>1, <1>7, <1>8

-----------------------------------------------------------------------------
(* Live jobs *)

(* A step that leaves the profile alone. *)
LEMMA TradeStep ==
    ASSUME WalletInv, UNCHANGED <<wprof, pick>>, WalletsOK(wallet'), ctl' \in Control,
           lease' \in Lease, alive' \in SUBSET Worker, ww' \in [Worker -> LifecycleTask],
           \A p \in Worker : LifecycleOK(ww'[p]), OrdersOK(wallet', rows', book', job')
    PROVE  WalletInv'
BY DEF WalletInv, ProfileOK

(* A step of a live job or of the exchange that changes the orders alone. *)
LEMMA OrderStep ==
    ASSUME WalletInv, UNCHANGED <<wallet, wprof, pick, alive, ww>>, ctl' \in Control,
           lease' \in Lease, OrdersOK(wallet, rows', book', job')
    PROVE  WalletInv'
<1>1. WalletsOK(wallet') /\ OrdersOK(wallet', rows', book', job')
  BY DEF WalletInv
<1>2. alive' \in SUBSET Worker /\ ww' \in [Worker -> LifecycleTask] /\ \A p \in Worker : LifecycleOK(ww'[p])
  BY DEF WalletInv
<1> QED BY <1>1, <1>2, TradeStep

LEMMA Orders ==
    ASSUME WalletInv
    PROVE  /\ OrdersOK(wallet, rows, book, job) /\ WalletsOK(wallet)
           /\ ctl \in Control /\ lease \in Lease /\ book \in [Order -> BookRow]
           /\ rows \in [Order -> OrderRow] /\ job \in [Worker -> LiveJob]
           /\ \A p \in Worker : JobOK(job[p])
BY DEF WalletInv, OrdersOK

LEMMA LeaseTypes ==
    ASSUME NEW g \in Lease, NEW p \in Worker, NEW t
    PROVE  /\ Released(g, p, t) \in Lease
           /\ Claimed([g EXCEPT !.owner = NoWorker], p) \in Lease
           /\ Claimed([g EXCEPT !.owner = NoWorker], p).token \in Nat
<1>1. Released(g, p, t) \in Lease
  BY DEF Lease, Released
<1>2. PICK h : h = [g EXCEPT !.owner = NoWorker]
  OBVIOUS
<1>3. h \in Lease
  BY <1>2 DEF Lease
<1>4. Claimed(h, p) \in Lease /\ Claimed(h, p).token \in Nat
  BY <1>3 DEF Lease, Claimed
<1> QED BY <1>1, <1>2, <1>4

LEMMA JobMoves ==
    ASSUME NEW j, JobOK(j), j.pc # "idle", NEW pc \in {"cycle", "stop"},
           NEW i, i = [j EXCEPT !.pc = pc]
    PROVE  JobOK(i) /\ i.pc \notin InHand
BY DEF JobOK, LiveJob, InHand

LEMMA NoJobIs == JobOK(NoLiveJob) /\ NoLiveJob.pc \notin InHand
BY DEF NoLiveJob, LiveJob, JobOK, InHand

LEMMA StartStep ==
    ASSUME WalletAssumption, WalletInv, NEW p \in Worker, StartJob(p)
    PROVE  WalletInv'
<1>1. PICK n : n = lease'.token
  OBVIOUS
<1>2. lease' \in Lease /\ n \in Nat
  BY <1>1, Orders, LeaseTypes DEF StartJob
<1>3. wprof.key \in WalletKey /\ wprof.ver \in Nat
  BY DEF StartJob, WalletInv, ProfileOK
<1>4. PICK j : j = [NoLiveJob EXCEPT !.pc = "start", !.key = wprof.key, !.pver = wprof.ver,
                                     !.tok = n]
  OBVIOUS
<1>5. JobOK(j) /\ j.pc \notin InHand
  BY <1>2, <1>3, <1>4 DEF NoLiveJob, LiveJob, JobOK, InHand
<1>6. job' = [job EXCEPT ![p] = j]
  BY <1>1, <1>4 DEF StartJob, SetLive
<1>7. OrdersOK(wallet, rows, book, job')
  BY <1>5, <1>6, EmptyHand, Orders
<1>8. UNCHANGED <<wallet, wprof, pick, ctl, rows, book, alive, ww>>
  BY DEF StartJob
<1> QED BY <1>2, <1>7, <1>8, OrderStep, Orders

LEMMA EnterStep ==
    ASSUME WalletAssumption, WalletInv, NEW p \in Worker, EnterCycle(p)
    PROVE  WalletInv'
<1>1. PICK j, k : j = job[p] /\ k = j.key
  OBVIOUS
<1>2. JobOK(j) /\ j.pc = "start" /\ k \in WalletKey
  BY <1>1, Orders DEF EnterCycle, LiveAt, JobOK
<1>3. PICK pc \in {"cycle", "stop"} : job' = [job EXCEPT ![p] = [j EXCEPT !.pc = pc]]
  BY <1>1 DEF EnterCycle, SetLive
<1>4. OrdersOK(wallet, rows, book, job')
  BY <1>2, <1>3, JobMoves, EmptyHand, Orders
<1>5. WalletsOK(wallet') /\ Trades(wallet, wallet', rows)
  <2>1. \/ wallet' = wallet
        \/ \E ready \in BOOLEAN : wallet' = [wallet EXCEPT ![k] = Recorded(wallet[k], ready)]
    BY <1>1 DEF EnterCycle
  <2>2. wallet[k] \in WalletRow /\ KeyRow(wallet[k])
    BY <1>2, Orders DEF WalletsOK
  <2>3. CASE wallet' = wallet
    BY <2>3, SameWallets
  <2>4. CASE \E ready \in BOOLEAN : wallet' = [wallet EXCEPT ![k] = Recorded(wallet[k], ready)]
    BY <1>2, <2>2, <2>4, Unmoved, WalletMoves, Orders
  <2> QED BY <2>1, <2>3, <2>4
<1>6. UNCHANGED <<wprof, pick, ctl, lease, rows, book, alive, ww>>
  BY DEF EnterCycle
<1>7. OrdersOK(wallet', rows, book, job')
  BY <1>4, <1>5, OrdersFollow
<1>8. alive' \in SUBSET Worker /\ ww' \in [Worker -> LifecycleTask] /\ \A q \in Worker : LifecycleOK(ww'[q])
  BY <1>6 DEF WalletInv
<1> QED BY <1>5, <1>6, <1>7, <1>8, TradeStep, Orders

(* The end of a job: no order is in its hand. *)
LEMMA StopStep ==
    ASSUME WalletAssumption, WalletInv, NEW p \in Worker, StopJob(p)
    PROVE  WalletInv'
<1>1. PICK j, n, i : j = job[p] /\ n = ctl'.ver /\ i = [j EXCEPT !.pc = "sweep", !.cver = n]
  OBVIOUS
<1>2. ctl' \in Control /\ n \in Nat
  BY <1>1, Orders, ControlTypes DEF StopJob
<1>3. JobOK(j) /\ j.pc = "stop"
  BY <1>1, Orders DEF StopJob, LiveAt
<1>4. JobOK(i) /\ i.pc \notin InHand
  BY <1>1, <1>2, <1>3 DEF JobOK, LiveJob, InHand
<1>5. job' = [job EXCEPT ![p] = i]
  BY <1>1 DEF StopJob, SetLive
<1>6. OrdersOK(wallet, rows, book, job')
  BY <1>4, <1>5, EmptyHand, Orders
<1>7. UNCHANGED <<wallet, wprof, pick, lease, rows, book, alive, ww>>
  BY DEF StopJob
<1> QED BY <1>2, <1>6, <1>7, OrderStep, Orders

LEMMA BoundaryStep ==
    ASSUME WalletAssumption, WalletInv, NEW p \in Worker, Boundary(p)
    PROVE  WalletInv'
<1>1. PICK j, b : j = job[p] /\ b = book'
  OBVIOUS
<1>2. Clears(book, b)
  BY <1>1, CancelledClears, Orders DEF Boundary
<1>3. OrdersOK(wallet, rows, b, job)
  BY <1>2, OrdersCleared, Orders
<1>4. JobOK(j) /\ j.pc = "cycle"
  BY <1>1, Orders DEF Boundary, LiveAt
<1>5. PICK i : JobOK(i) /\ i.pc \notin InHand /\ job' = [job EXCEPT ![p] = i]
  BY <1>1, <1>4, JobMoves, NoJobIs DEF Boundary, SetLive
<1>6. OrdersOK(wallet, rows, b, job')
  BY <1>3, <1>5, EmptyHand
<1>7. lease' \in Lease /\ UNCHANGED <<wallet, wprof, pick, ctl, rows, alive, ww>>
  BY Orders, LeaseTypes DEF Boundary
<1> QED BY <1>1, <1>6, <1>7, OrderStep, Orders

LEMMA SweepStep ==
    ASSUME WalletAssumption, WalletInv, NEW p \in Worker, SweepJob(p)
    PROVE  WalletInv'
<1>1. PICK b : b = book'
  OBVIOUS
<1>2. Clears(book, b)
  BY <1>1, CancelledClears, Orders DEF SweepJob
<1>3. OrdersOK(wallet, rows, b, job)
  BY <1>2, OrdersCleared, Orders
<1>4. job' = [job EXCEPT ![p] = NoLiveJob]
  BY DEF SweepJob, SetLive
<1>5. OrdersOK(wallet, rows, b, job')
  BY <1>3, <1>4, NoJobIs, EmptyHand
<1>6. lease' \in Lease /\ ctl' \in Control
  BY Orders, LeaseTypes, ControlTypes DEF SweepJob
<1>7. UNCHANGED <<wallet, wprof, pick, rows, alive, ww>>
  BY DEF SweepJob
<1> QED BY <1>1, <1>5, <1>6, <1>7, OrderStep

LEMMA ProcessEndsStep ==
    ASSUME WalletAssumption, WalletInv, NEW p \in Worker, WorkerEnds(p)
    PROVE  WalletInv'
<1>1. job' = [job EXCEPT ![p] = NoLiveJob] /\ SetLifecycle(p, NoTask) /\ alive' = alive \ {p}
  BY DEF WorkerEnds, SetLifecycle
<1>2. UNCHANGED <<wallet, wprof, pick, ctl, lease, rows, book>>
  BY DEF WorkerEnds, db
<1>3. OrdersOK(wallet, rows, book, job')
  BY <1>1, NoJobIs, EmptyHand, Orders
<1>4. ww' \in [Worker -> LifecycleTask] /\ \A q \in Worker : LifecycleOK(ww'[q])
  BY <1>1, NoTaskIs, TasksMove
<1>5. alive' \in SUBSET Worker
  BY <1>1 DEF WalletInv
<1>6. WalletsOK(wallet') /\ ctl' \in Control /\ lease' \in Lease
      /\ OrdersOK(wallet', rows', book', job')
  BY <1>2, <1>3, Orders
<1> QED BY <1>2, <1>4, <1>5, <1>6, TradeStep

LEMMA RevokeCancelStep ==
    ASSUME WalletAssumption, WalletInv, NEW p \in Worker, RevokeCancel(p)
    PROVE  WalletInv'
<1>1. PICK b, t, u : b = book' /\ t = ww[p] /\ u = [t EXCEPT !.pc = "list"]
  OBVIOUS
<1>2. Clears(book, b)
  BY <1>1, CancelledClears, Orders DEF RevokeCancel
<1>3. OrdersOK(wallet, rows, b, job)
  BY <1>2, OrdersCleared, Orders
<1>4. LifecycleOK(t) /\ t.pc = "cancel"
  BY <1>1 DEF WalletInv, RevokeCancel, TaskAt
<1>5. LifecycleOK(u) /\ SetLifecycle(p, u)
  BY <1>1, <1>4 DEF RevokeCancel, LifecycleOK, LifecycleTask
<1>6. ww' \in [Worker -> LifecycleTask] /\ \A q \in Worker : LifecycleOK(ww'[q])
  BY <1>5, TasksMove
<1>7. UNCHANGED <<wallet, wprof, pick, ctl, lease, rows, alive, job>>
  BY DEF RevokeCancel, db
<1>8. WalletsOK(wallet') /\ ctl' \in Control /\ lease' \in Lease /\ alive' \in SUBSET Worker
      /\ OrdersOK(wallet', rows', book', job')
  BY <1>1, <1>3, <1>7, Orders DEF WalletInv
<1> QED BY <1>6, <1>7, <1>8, TradeStep

-----------------------------------------------------------------------------
(* The passage of an order *)

(* One order moves on in the hand of p, from or to the status of its job. *)
LEMMA HandStep ==
    ASSUME WalletInv, UNCHANGED <<wallet, wprof, pick, ctl, lease, alive, ww>>,
           NEW p \in Worker, NEW o \in Order,
           (job[p].pc \in InHand /\ job[p].o = o) \/ rows[o].st = "none",
           NEW r \in OrderRow, NEW e \in BookRow, OrderOK(wallet, r, e),
           NEW j, JobOK(j), j.pc \in InHand => j.o = o /\ HandOK(j, r, e),
           rows' = [rows EXCEPT ![o] = r], NEW b, b = [book EXCEPT ![o] = e], Clears(b, book'),
           job' = [job EXCEPT ![p] = j]
    PROVE  WalletInv'
<1>1. OrdersOK(wallet, rows', b, job')
  <2>1. PICK rn, jn : rn = rows' /\ jn = job'
    OBVIOUS
  <2>2. OrdersOK(wallet, rn, b, jn)
    BY <2>1, OneOrder, Orders
  <2> QED BY <2>1, <2>2
<1>2. PICK bl : bl = book'
  OBVIOUS
<1>3. OrdersOK(wallet, rows', bl, job')
  BY <1>1, <1>2, OrdersCleared
<1> QED BY <1>2, <1>3, OrderStep, Orders

LEMMA WalletRowFields ==
    ASSUME NEW r \in OrderRow
    PROVE  r.st \in RowStatus /\ r.tok \in Nat /\ r.id \in BOOLEAN
BY DEF OrderRow

LEMMA BookFields ==
    ASSUME NEW e \in BookRow
    PROVE  /\ e.st \in {"none", "flight", "open", "gone", "refused"} /\ e.key \in WalletKey \cup {None}
BY DEF BookRow

LEMMA BookUnmoved ==
    ASSUME book \in [Order -> BookRow], NEW o \in Order
    PROVE  book = [book EXCEPT ![o] = book[o]] /\ book[o] \in BookRow
OBVIOUS

(* What the store and the exchange hold of the order in hand. *)
LEMMA InTheHand ==
    ASSUME WalletInv, NEW p \in Worker, NEW pc, LiveAt(p, pc), pc \in InHand,
           NEW j, j = job[p], NEW o, o = j.o
    PROVE  /\ JobOK(j) /\ j \in LiveJob /\ j.key \in WalletKey /\ o \in Order
           /\ rows[o] \in OrderRow /\ book[o] \in BookRow
           /\ HandOK(j, rows[o], book[o]) /\ OrderOK(wallet, rows[o], book[o])
<1>1. job[p].pc = pc
  BY DEF LiveAt
<1>2. JobOK(j) /\ j.pc \in InHand
  BY <1>1, Orders
<1>3. j \in LiveJob /\ j.key \in WalletKey /\ o \in Order
  BY <1>2 DEF JobOK, InHand
<1>4. rows[o] \in OrderRow /\ book[o] \in BookRow
  BY <1>3, Orders
<1>5. HandOK(j, rows[o], book[o]) /\ OrderOK(wallet, rows[o], book[o])
  BY <1>2, <1>3, Orders DEF OrdersOK
<1> QED BY <1>2, <1>3, <1>4, <1>5

LEMMA SignStep ==
    ASSUME WalletAssumption, WalletInv, NEW p \in Worker, NEW o \in Order, SignOrder(p, o)
    PROVE  WalletInv'
<1>1. PICK j, r, e, i : /\ j = job[p]
                        /\ r = [st |-> "signed", tok |-> j.tok, id |-> FALSE]
                        /\ e = [book[o] EXCEPT !.key = j.key]
                        /\ i = [j EXCEPT !.pc = "mark", !.o = o, !.cver = ctl.ver]
  OBVIOUS
<1>2. JobOK(j) /\ j.pc = "cycle"
  BY <1>1, Orders DEF SignOrder, LiveAt
<1>3. j \in LiveJob /\ j.key \in WalletKey /\ j.tok \in Nat
  BY <1>2 DEF JobOK, LiveJob
<1>4. rows[o].st = "none" /\ book[o] \in BookRow /\ OrderOK(wallet, rows[o], book[o])
  BY Orders DEF SignOrder, OrdersOK
<1>5. e \in BookRow /\ e.st = "none" /\ e.key = j.key
  <2>1. PICK k, c : k = j.key /\ c = book[o]
    OBVIOUS
  <2>2. e = [c EXCEPT !.key = k] /\ k \in WalletKey /\ c \in BookRow /\ c.st = "none"
    BY <1>1, <1>3, <1>4, <2>1 DEF OrderOK
  <2> QED BY <2>1, <2>2 DEF BookRow
<1>6. r \in OrderRow /\ r.st = "signed" /\ r.id = FALSE
  BY <1>1, <1>3 DEF OrderRow, RowStatus
<1>7. OrderOK(wallet, r, e)
  BY <1>5, <1>6 DEF OrderOK, Busy
<1>8. ctl.ver \in Nat
  BY Orders DEF Control
<1>9. JobOK(i) /\ i.pc = "mark" /\ i.o = o /\ i.key = j.key
  BY <1>1, <1>2, <1>3, <1>8 DEF JobOK, LiveJob
<1>10. HandOK(i, r, e)
  BY <1>5, <1>6, <1>9 DEF HandOK
<1>11. rows' = [rows EXCEPT ![o] = r] /\ book' = [book EXCEPT ![o] = e]
       /\ job' = [job EXCEPT ![p] = i]
  BY <1>1, Orders DEF SignOrder, SetLive
<1>12. PICK b : b = [book EXCEPT ![o] = e]
  OBVIOUS
<1>13. b \in [Order -> BookRow]
  BY <1>5, <1>12, Orders
<1>14. Clears(b, book')
  BY <1>11, <1>12, <1>13 DEF Clears
<1>15. UNCHANGED <<wallet, wprof, pick, ctl, lease, alive, ww>>
  BY DEF SignOrder, db
<1> QED BY <1>4, <1>5, <1>6, <1>7, <1>9, <1>10, <1>11, <1>12, <1>14, <1>15, HandStep

(* The row of a result: an order in hand takes whatever status is saved. *)
Resulted(s, st, id) == s \in OrderRow /\ s.st = st /\ s.id = id

LEMMA ResultRow ==
    ASSUME NEW r \in OrderRow, r.st \in {"signed", "submitting"}, r.id = FALSE,
           NEW st \in {"rejected", "submitted", "unknown"}, NEW id \in BOOLEAN,
           NEW s, s = SavedRow(r, r.st, st, id)
    PROVE  Resulted(s, st, id)
<1>1. TransitionAllowed(r.st, st)
  BY DEF TransitionAllowed, Early
<1>2. (r.id \/ id) = id
  OBVIOUS
<1>3. s = [r EXCEPT !.st = st, !.id = id]
  BY <1>1, <1>2 DEF SavedRow
<1>4. st \in RowStatus
  BY DEF RowStatus
<1> QED BY <1>3, <1>4 DEF OrderRow, Resulted

(* The result of an order in hand is saved: rejected when the exchange has   *)
(* not taken it, with an id when the request has arrived.                    *)
LEMMA SettleStep ==
    ASSUME WalletAssumption, WalletInv, UNCHANGED <<wallet, wprof, pick, ctl, lease, alive, ww>>,
           NEW p \in Worker, NEW pc \in InHand, LiveAt(p, pc),
           NEW st \in {"rejected", "submitted", "unknown"}, NEW id \in BOOLEAN,
           Settle(p, st, id), Clears(book, book'),
           st = "rejected" => book[job[p].o].st \notin {"flight", "open"},
           st # "rejected" => pc = "wait",
           id = TRUE => book[job[p].o].st # "flight"
    PROVE  WalletInv'
<1>1. PICK j, o, r, e : j = job[p] /\ o = j.o /\ r = rows[o] /\ e = book[o]
  OBVIOUS
<1>2. /\ JobOK(j) /\ j \in LiveJob /\ j.key \in WalletKey /\ o \in Order /\ j.pc = pc
      /\ r \in OrderRow /\ e \in BookRow /\ HandOK(j, r, e) /\ OrderOK(wallet, r, e)
  BY <1>1, InTheHand DEF LiveAt
<1>3. PICK s, i : s = SavedRow(r, r.st, st, id) /\ i = [j EXCEPT !.pc = "cycle", !.o = None]
  OBVIOUS
<1>4. r.st \in {"signed", "submitting"} /\ r.id = FALSE
  BY <1>2 DEF HandOK
<1>5. s \in OrderRow /\ s.st = st /\ s.id = id
  <2>1. Resulted(s, st, id)
    BY <1>3, <1>2, <1>4, ResultRow
  <2> QED BY <2>1 DEF Resulted
<1>6. OrderOK(wallet, s, e)
  <2>1. CASE st = "rejected"
    BY <1>1, <1>5, <2>1 DEF OrderOK, Busy
  <2>2. CASE st # "rejected"
    <3>1. r.st = "submitting"
      BY <1>2, <2>2 DEF HandOK
    <3>2. st \in Busy /\ r.st \in Busy
      BY <2>2, <3>1 DEF Busy
    <3> QED BY <1>1, <1>2, <1>5, <3>2 DEF OrderOK
  <2> QED BY <2>1, <2>2
<1>7. JobOK(i) /\ i.pc \notin InHand
  BY <1>2, <1>3 DEF JobOK, LiveJob, InHand
<1>8. rows' = [rows EXCEPT ![o] = s] /\ job' = [job EXCEPT ![p] = i]
  BY <1>1, <1>3 DEF Settle, SetLive
<1>9. PICK b : b = [book EXCEPT ![o] = e]
  OBVIOUS
<1>10. Clears(b, book')
  BY <1>1, <1>2, <1>9, Orders
<1>11. job[p].pc \in InHand /\ job[p].o = o
  BY <1>1, <1>2
<1> QED BY <1>2, <1>5, <1>6, <1>7, <1>8, <1>9, <1>10, <1>11, HandStep

LEMMA BookSame ==
    ASSUME WalletInv, book' = book
    PROVE  Clears(book, book')
BY CancelledClears, Orders

LEMMA BookCancelled ==
    ASSUME WalletInv, NEW k, book' = CancelledBook(k)
    PROVE  Clears(book, book')
BY CancelledClears, Orders

LEMMA BookSt ==
    ASSUME NEW e \in BookRow, NEW st \in {"flight", "open", "refused", "gone"},
           NEW f, f = [e EXCEPT !.st = st]
    PROVE  f \in BookRow /\ f.st = st /\ f.key = e.key
BY DEF BookRow

LEMMA RowSt ==
    ASSUME NEW r \in OrderRow, NEW st \in RowStatus, NEW s, s = [r EXCEPT !.st = st]
    PROVE  s \in OrderRow /\ s.st = st /\ s.id = r.id
BY DEF OrderRow

LEMMA MarkOrderStep ==
    ASSUME WalletAssumption, WalletInv, NEW p \in Worker, MarkOrder(p)
    PROVE  WalletInv'
<1>1. PICK j, o, r, e : j = job[p] /\ o = j.o /\ r = rows[o] /\ e = book[o]
  OBVIOUS
<1>2. LiveAt(p, "mark") /\ "mark" \in InHand
  BY DEF MarkOrder, InHand
<1>3. /\ JobOK(j) /\ j \in LiveJob /\ j.key \in WalletKey /\ o \in Order /\ j.pc = "mark"
      /\ r \in OrderRow /\ e \in BookRow /\ HandOK(j, r, e) /\ OrderOK(wallet, r, e)
  BY <1>1, <1>2, InTheHand DEF LiveAt
<1>4. UNCHANGED <<wallet, wprof, pick, ctl, lease, alive, ww>> /\ book' = book
  BY DEF MarkOrder, db
<1>5. Clears(book, book')
  BY <1>4, BookSame
<1>6. CASE MarkTenantAllowed(p)
  <2>1. PICK s, i : s = [r EXCEPT !.st = "submitting"] /\ i = [j EXCEPT !.pc = "check"]
    OBVIOUS
  <2>2. s \in OrderRow /\ s.st = "submitting" /\ s.id = r.id
    <3>1. "submitting" \in RowStatus
      BY DEF RowStatus
    <3> QED BY <1>3, <2>1, <3>1, RowSt
  <2>3. wallet[j.key].st = "active"
    BY <1>1, <1>6 DEF MarkTenantAllowed
  <2>4. e.key = j.key /\ e.st = "none" /\ r.id = FALSE
    BY <1>3 DEF HandOK
  <2>5. OrderOK(wallet, s, e)
    BY <1>3, <2>2, <2>3, <2>4 DEF OrderOK, Busy, Trading
  <2>6. JobOK(i) /\ i.pc = "check" /\ i.o = o /\ i.key = j.key
    BY <1>1, <1>3, <2>1 DEF JobOK, LiveJob, InHand
  <2>7. HandOK(i, s, e)
    BY <2>2, <2>4, <2>6 DEF HandOK
  <2>8. rows' = [rows EXCEPT ![o] = s] /\ job' = [job EXCEPT ![p] = i]
    BY <1>1, <1>6, <2>1 DEF MarkOrder, SetLive
  <2>9. PICK b : b = [book EXCEPT ![o] = e]
    OBVIOUS
  <2>10. Clears(b, book')
    BY <1>1, <1>3, <1>4, <1>5, <2>9, Orders
  <2>11. job[p].pc \in InHand /\ job[p].o = o
    BY <1>1, <1>2, <1>3
  <2> QED BY <1>3, <1>4, <2>2, <2>5, <2>6, <2>7, <2>8, <2>9, <2>10, <2>11, HandStep
<1>7. CASE ~MarkTenantAllowed(p)
  <2>1. Settle(p, "rejected", FALSE)
    BY <1>7 DEF MarkOrder
  <2>2. book[job[p].o].st = "none"
    BY <1>1, <1>3 DEF HandOK
  <2> QED BY <1>2, <1>4, <1>5, <2>1, <2>2, SettleStep
<1> QED BY <1>6, <1>7

LEMMA PostStep ==
    ASSUME WalletAssumption, WalletInv, NEW p \in Worker, PostOrder(p)
    PROVE  WalletInv'
<1>1. PICK j, o, r, e : j = job[p] /\ o = j.o /\ r = rows[o] /\ e = book[o]
  OBVIOUS
<1>2. LiveAt(p, "check") /\ "check" \in InHand
  BY DEF PostOrder, InHand
<1>3. /\ JobOK(j) /\ j \in LiveJob /\ j.key \in WalletKey /\ o \in Order /\ j.pc = "check"
      /\ r \in OrderRow /\ e \in BookRow /\ HandOK(j, r, e) /\ OrderOK(wallet, r, e)
  BY <1>1, <1>2, InTheHand DEF LiveAt
<1>4. UNCHANGED <<wallet, wprof, pick, ctl, lease, alive, ww>>
  BY DEF PostOrder, db
<1>5. CASE Settle(p, "rejected", FALSE) /\ UNCHANGED book
  <2>1. Clears(book, book')
    BY <1>5, BookSame
  <2>2. book[job[p].o].st = "none"
    BY <1>1, <1>3 DEF HandOK
  <2> QED BY <1>2, <1>4, <1>5, <2>1, <2>2, SettleStep
<1>6. CASE /\ book' = [book EXCEPT ![o].st = "flight"]
           /\ job' = [job EXCEPT ![p] = [j EXCEPT !.pc = "wait"]]
           /\ UNCHANGED rows
  <2>1. PICK f, i : f = [e EXCEPT !.st = "flight"] /\ i = [j EXCEPT !.pc = "wait"]
    OBVIOUS
  <2>2. f \in BookRow /\ f.st = "flight" /\ f.key = e.key
    BY <1>3, <2>1, BookSt
  <2>3. r.st = "submitting" /\ e.key = j.key /\ r.id = FALSE
    BY <1>3 DEF HandOK
  <2>4. OrderOK(wallet, r, f)
    BY <1>3, <2>2, <2>3 DEF OrderOK, Busy
  <2>5. JobOK(i) /\ i.pc = "wait" /\ i.o = o /\ i.key = j.key
    BY <1>1, <1>3, <2>1 DEF JobOK, LiveJob, InHand
  <2>6. HandOK(i, r, f)
    BY <2>2, <2>3, <2>5 DEF HandOK
  <2>7. rows' = [rows EXCEPT ![o] = r]
    BY <1>1, <1>3, <1>6, Orders
  <2>8. PICK b : b = [book EXCEPT ![o] = f]
    OBVIOUS
  <2>9. book' = b
    BY <1>1, <1>6, <2>1, <2>8
  <2>10. b \in [Order -> BookRow]
    BY <2>2, <2>8, Orders
  <2>11. Clears(b, book')
    BY <2>9, <2>10 DEF Clears
  <2>12. job[p].pc \in InHand /\ job[p].o = o /\ job' = [job EXCEPT ![p] = i]
    BY <1>1, <1>2, <1>3, <1>6, <2>1
  <2> QED BY <1>3, <1>4, <2>2, <2>4, <2>5, <2>6, <2>7, <2>8, <2>11, <2>12, HandStep
<1> QED BY <1>1, <1>5, <1>6 DEF PostOrder, SetLive

(* The answer names the order that the exchange has taken or refused. *)
LEMMA AnswerStep ==
    ASSUME WalletAssumption, WalletInv, NEW p \in Worker, Answer(p)
    PROVE  WalletInv'
<1>1. LiveAt(p, "wait") /\ "wait" \in InHand /\ book[job[p].o].st # "flight"
  BY DEF Answer, InHand
<1>2. UNCHANGED <<wallet, wprof, pick, ctl, lease, alive, ww>>
  BY DEF Answer, db
<1>3. Clears(book, book')
  BY BookSame, BookCancelled DEF Answer
<1>4. CASE Settle(p, "rejected", FALSE) /\ book[job[p].o].st = "refused"
  BY <1>1, <1>2, <1>3, <1>4, SettleStep
<1>5. CASE Settle(p, "submitted", TRUE)
  BY <1>1, <1>2, <1>3, <1>5, SettleStep
<1>6. CASE Settle(p, "unknown", TRUE)
  BY <1>1, <1>2, <1>3, <1>6, SettleStep
<1> QED BY <1>4, <1>5, <1>6 DEF Answer

LEMMA AnswerLostStep ==
    ASSUME WalletAssumption, WalletInv, NEW p \in Worker, AnswerLost(p)
    PROVE  WalletInv'
<1>1. LiveAt(p, "wait") /\ "wait" \in InHand
  BY DEF AnswerLost, InHand
<1>2. UNCHANGED <<wallet, wprof, pick, ctl, lease, alive, ww>>
  BY DEF AnswerLost, db
<1>3. Clears(book, book') /\ Settle(p, "unknown", FALSE)
  BY BookCancelled DEF AnswerLost
<1> QED BY <1>1, <1>2, <1>3, SettleStep

-----------------------------------------------------------------------------
(* The exchange and the reconciler *)

(* One order moves on, whoever has it in hand. *)
LEMMA LooseOrder ==
    ASSUME NEW w, NEW rs, NEW bk, NEW jb, OrdersOK(w, rs, bk, jb), NEW o \in Order,
           NEW r \in OrderRow, NEW e \in BookRow, OrderOK(w, r, e),
           \A p \in Worker : jb[p].pc \in InHand /\ jb[p].o = o => HandOK(jb[p], r, e),
           NEW rn, rn = [rs EXCEPT ![o] = r], NEW bl, bl = [bk EXCEPT ![o] = e]
    PROVE  OrdersOK(w, rn, bl, jb)
<1>1. rs \in [Order -> OrderRow] /\ bk \in [Order -> BookRow]
  BY DEF OrdersOK
<1>2. /\ rn \in [Order -> OrderRow] /\ bl \in [Order -> BookRow]
      /\ \A x \in Order : rn[x] = IF x = o THEN r ELSE rs[x]
      /\ \A x \in Order : bl[x] = IF x = o THEN e ELSE bk[x]
  BY <1>1
<1>3. \A x \in Order : OrderOK(w, rn[x], bl[x])
  BY <1>2 DEF OrdersOK
<1>4. ASSUME NEW p \in Worker, jb[p].pc \in InHand
      PROVE  HandOK(jb[p], rn[jb[p].o], bl[jb[p].o])
  <2>1. jb[p].o \in Order /\ HandOK(jb[p], rs[jb[p].o], bk[jb[p].o])
    BY <1>4 DEF OrdersOK, JobOK
  <2> QED BY <1>2, <1>4, <2>1
<1> QED BY <1>2, <1>3, <1>4 DEF OrdersOK

LEMMA HandIs ==
    ASSUME WalletInv, NEW p \in Worker, job[p].pc \in InHand, NEW o \in Order, job[p].o = o
    PROVE  HandOK(job[p], rows[o], book[o])
BY Orders DEF OrdersOK

(* A request that arrives, and an order that fills or expires, belong to a   *)
(* job that waits for the answer, or to none any more.                       *)
LEMMA ExchangeStep ==
    ASSUME WalletAssumption, WalletInv, NEW o \in Order, Land(o) \/ CloseOrder(o)
    PROVE  WalletInv'
<1>1. PICK st \in {"open", "refused", "gone"} : book' = [book EXCEPT ![o].st = st]
  BY DEF Land, CloseOrder
<1>2. PICK r, e, f : r = rows[o] /\ e = book[o] /\ f = [e EXCEPT !.st = st]
  OBVIOUS
<1>3. r \in OrderRow /\ e \in BookRow /\ OrderOK(wallet, r, e) /\ e.st \in {"flight", "open"}
  BY <1>2, Orders DEF OrdersOK, Land, CloseOrder
<1>4. f \in BookRow /\ f.st = st /\ f.key = e.key
  BY <1>2, <1>3, BookSt
<1>5. OrderOK(wallet, r, f)
  BY <1>1, <1>3, <1>4 DEF OrderOK, Busy
<1>6. ASSUME NEW p \in Worker, job[p].pc \in InHand, job[p].o = o
      PROVE  HandOK(job[p], r, f)
  <2>1. HandOK(job[p], r, e)
    BY <1>2, <1>6, HandIs
  <2> QED BY <1>3, <1>4, <2>1 DEF HandOK
<1>7. PICK bl, rn : bl = book' /\ rn = [rows EXCEPT ![o] = r]
  OBVIOUS
<1>8. rn = rows /\ bl = [book EXCEPT ![o] = f]
  BY <1>1, <1>2, <1>7, Orders
<1>9. OrdersOK(wallet, rn, bl, job)
  <2>1. \A p \in Worker : job[p].pc \in InHand /\ job[p].o = o => HandOK(job[p], r, f)
    BY <1>6
  <2>2. rn = [rows EXCEPT ![o] = r] /\ bl = [book EXCEPT ![o] = f]
    BY <1>7, <1>8
  <2>3. OrdersOK(wallet, rows, book, job)
    BY Orders
  <2> QED BY <1>3, <1>4, <1>5, <2>1, <2>2, <2>3, LooseOrder
<1>10. UNCHANGED <<wallet, wprof, pick, ctl, lease, rows, alive, ww, job>>
  BY DEF Land, CloseOrder, db
<1> QED BY <1>7, <1>8, <1>9, <1>10, OrderStep, Orders

(* The reconciler looks at rows with the exchange's id: no job has them in   *)
(* hand.                                                                     *)
LEMMA ReconcileStep ==
    ASSUME WalletAssumption, WalletInv, NEW p \in Worker, NEW o \in Order, ReconcileRow(p, o)
    PROVE  WalletInv'
<1>1. PICK st \in {"working", "closed"} :
          /\ rows' = [rows EXCEPT ![o].st = st]
          /\ book[o].st = "open" => st = "working"
  BY DEF ReconcileRow
<1>2. PICK r, e, s : r = rows[o] /\ e = book[o] /\ s = [r EXCEPT !.st = st]
  OBVIOUS
<1>3. r \in OrderRow /\ e \in BookRow /\ OrderOK(wallet, r, e)
  BY <1>2, Orders DEF OrdersOK
<1>4. r.id = TRUE /\ r.st \in Busy
  <2>1. r.id
    BY <1>2 DEF ReconcileRow
  <2>2. r.st \in Busy
    BY <1>2 DEF ReconcileRow, Busy
  <2>3. r.id \in BOOLEAN
    BY <1>3, WalletRowFields
  <2> QED BY <2>1, <2>2, <2>3
<1>5. s \in OrderRow /\ s.st = st /\ s.id = r.id
  <2>1. st \in RowStatus
    BY <1>1 DEF RowStatus
  <2> QED BY <1>2, <1>3, <2>1, RowSt
<1>6. OrderOK(wallet, s, e)
  BY <1>1, <1>2, <1>3, <1>4, <1>5 DEF OrderOK, Busy
<1>7. ASSUME NEW q \in Worker, job[q].pc \in InHand, job[q].o = o
      PROVE  FALSE
  <2>1. HandOK(job[q], r, e)
    BY <1>2, <1>7, HandIs
  <2> QED BY <1>4, <2>1 DEF HandOK
<1>8. PICK bl, rn : bl = [book EXCEPT ![o] = e] /\ rn = rows'
  OBVIOUS
<1>9. bl = book /\ rn = [rows EXCEPT ![o] = s]
  BY <1>1, <1>2, <1>8, Orders
<1>10. OrdersOK(wallet, rn, bl, job)
  <2>1. \A q \in Worker : job[q].pc \in InHand /\ job[q].o = o => HandOK(job[q], s, e)
    BY <1>7
  <2>2. rn = [rows EXCEPT ![o] = s] /\ bl = [book EXCEPT ![o] = e]
    BY <1>8, <1>9
  <2>3. OrdersOK(wallet, rows, book, job)
    BY Orders
  <2> QED BY <1>3, <1>5, <1>6, <2>1, <2>2, <2>3, LooseOrder
<1>11. UNCHANGED <<wallet, wprof, pick, ctl, lease, book, alive, ww, job>>
  BY DEF ReconcileRow, db
<1> QED BY <1>8, <1>9, <1>10, <1>11, OrderStep, Orders

-----------------------------------------------------------------------------
(* Every step *)

LEMMA StutterStep ==
    ASSUME WalletAssumption, WalletInv, UNCHANGED wvars
    PROVE  WalletInv'
<1>1. /\ UNCHANGED <<wallet, wprof, pick, ctl, lease, rows, book, alive, ww, job>>
  BY DEF wvars
<1>2. /\ WalletsOK(wallet') /\ ctl' \in Control /\ lease' \in Lease
      /\ OrdersOK(wallet, rows', book', job')
  BY <1>1, Orders
<1> QED BY <1>1, <1>2, OrderStep

LEMMA WalletStep ==
    ASSUME WalletAssumption, WalletInv, [WNext]_wvars
    PROVE  WalletInv'
<1>1. CASE UNCHANGED wvars
  BY <1>1, StutterStep
<1>2. CASE \E k \in WalletKey, s \in Signer : Import(k, s)
  BY <1>2, ImportStep
<1>3. CASE \E k \in WalletKey : RequestRevoke(k) \/ LifecycleLeaseLapses(k)
  BY <1>3, RequestRevokeStep, LeaseLapseStep
<1>4. CASE (\E k \in WalletKey \cup {None} : SelectWallet(k)) \/ WriteProfile \/ Arm
               \/ AccountLeaseLapses
  BY <1>4, ProfileStep
<1>5. CASE \E o \in Order : Land(o) \/ CloseOrder(o)
  BY <1>5, ExchangeStep
<1>6. ASSUME NEW p \in Worker, Lifecycle(p) PROVE WalletInv'
  BY <1>6, ClaimLifecycleStep, TaskOnlyStep, VerificationStep, RevokeCancelStep, RevocationStep
     DEF Lifecycle
<1>7. ASSUME NEW p \in Worker, ServeRaises(p) \/ LifecycleRaises(p) \/ LifecycleHeartbeatLost(p)
      PROVE  WalletInv'
  BY <1>7, TaskOnlyStep, HeartbeatStep
<1>8. ASSUME NEW p \in Worker, Live(p) PROVE WalletInv'
  BY <1>8, EnterStep, MarkOrderStep, PostStep, AnswerStep, StopStep, SweepStep DEF Live
<1>9. ASSUME NEW p \in Worker,
             StartJob(p) \/ Boundary(p) \/ AnswerLost(p) \/ WorkerEnds(p)
      PROVE  WalletInv'
  BY <1>9, StartStep, BoundaryStep, AnswerLostStep, ProcessEndsStep
<1>10. ASSUME NEW p \in Worker, NEW o \in Order, SignOrder(p, o) \/ ReconcileRow(p, o)
       PROVE  WalletInv'
  BY <1>10, SignStep, ReconcileStep
<1> QED BY <1>1, <1>2, <1>3, <1>4, <1>5, <1>6, <1>7, <1>8, <1>9, <1>10 DEF WNext

LEMMA WalletInductive ==
    ASSUME WalletAssumption
    PROVE  WSpec => []WalletInv
<1>1. WInit => WalletInv
  BY WalletInit
<1>2. WalletInv /\ [WNext]_wvars => WalletInv'
  BY WalletStep
<1> QED BY <1>1, <1>2, PTL DEF WSpec

(* Rows, claims, jobs and snapshots keep their types. *)
THEOREM WalletTypes ==
    ASSUME WalletAssumption
    PROVE  WSpec => []WTypeOK
<1>1. WalletInv => WTypeOK
  BY DEF WalletInv, WalletsOK, ProfileOK, OrdersOK, BookRow, WTypeOK
<1> QED BY <1>1, WalletInductive, PTL

(* KeyFollowsWallet: a wallet and its key change status together, and a      *)
(* signer's key is enrolled in one wallet at a time, through imports, sweeps,*)
(* verifications and revocations by any number of processes                  *)
(* (import_trading_wallet and the lifecycle functions).                      *)
THEOREM KeyTheorem ==
    ASSUME WalletAssumption
    PROVE  WSpec => []KeyFollowsWallet
<1>1. WalletInv => KeyFollowsWallet
  BY DEF WalletInv, WalletsOK, KeyRow, KeyFollowsWallet
<1> QED BY <1>1, WalletInductive, PTL

(* RevokedIsQuiet: no order of a revoked wallet rests at the exchange or is  *)
(* on its way there (wallet_worker.py _revoke,                               *)
(* complete_trading_wallet_revocation, mark_tenant_order_submitting).        *)
THEOREM RevokedTheorem ==
    ASSUME WalletAssumption
    PROVE  WSpec => []RevokedIsQuiet
<1>1. WalletInv => RevokedIsQuiet
  BY DEF WalletInv, OrdersOK, OrderOK, Trading, RevokedIsQuiet
<1> QED BY <1>1, WalletInductive, PTL
=============================================================================
