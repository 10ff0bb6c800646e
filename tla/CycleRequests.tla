---------------------------- MODULE CycleRequests ----------------------------
(***************************************************************************)
(* Manual cycles of the personal deployment: the HTTP handlers that accept *)
(* a request and change the mode, the bounded registry that remembers the  *)
(* requests, and the worker loop that is woken by an asyncio.Event and     *)
(* reports its cycles back to the registry.                                *)
(*                                                                         *)
(* Handlers, worker and registry share one event loop, so a step of the    *)
(* model is what runs between two awaits.  A handler that awaits the       *)
(* database is split there; the registry's methods never await inside.     *)
(***************************************************************************)
EXTENDS Naturals, SequencesExt

CONSTANTS
    Mode, Real,     \* trading modes, and those that spend real money
    FirstMode,      \* desired and effective mode when the process starts
    Key,            \* Idempotency-Key values
    Caller, Saver,  \* concurrent POST cycles/run and PUT runtime-profile calls
    NoMode,
    MaxEntries,     \* capacity of the registry
    MaxRequests,    \* bound: requests accepted in a behaviour
    MaxCycles,      \* bound: cycles run in a behaviour
    Fault           \* \subseteq {"gate", "fail", "lapse", "stop", "abort"}

ASSUME CycleRequestsAssumption ==
    /\ Real \subseteq Mode /\ FirstMode \in Mode /\ NoMode \notin Mode
    /\ MaxEntries \in Nat \ {0} /\ MaxRequests \in Nat /\ MaxCycles \in Nat

VARIABLES
    desired,    \* runtime profile: the mode the operator asked for
    mode,       \* settings.mode, shared by the API and the worker
    trigger,    \* personal_cycle_trigger
    entries,    \* the registry's OrderedDict, oldest first
    issued,     \* request ids handed out
    caller,     \* POST /v1/personal/cycles/run in progress
    saver,      \* PUT /v1/me/runtime-profile: mode saved, queue not swept yet
    worker,     \* where the worker loop is, and the mode it has read
    cycles,     \* every cycle so far, in order
    count,      \* personal_cycle_count
    last        \* personal_last_cycle

vars == <<desired, mode, trigger, entries, issued, caller, saver, worker,
          cycles, count, last>>

Active == {"queued", "running"}

Idle == [pc |-> "idle"]

NoCycle == [id |-> 0, st |-> "none"]

Reason == {"none", "queue_timeout", "result_timeout", "mode_superseded",
           "worker_stopped", "cycle"}

(* born is created_at, counted in cycles begun before it.                  *)
Entry == [key : Key, id : 1..MaxRequests, mode : Mode,
          st : Active \cup {"succeeded", "failed"}, cyc : 0..MaxCycles,
          why : Reason, unknown : BOOLEAN, born : 0..MaxCycles]

Cycle == [mode : Mode, st : {"running", "succeeded", "failed", "aborted"}]

-----------------------------------------------------------------------------
(* PersonalCycleRequestRegistry *)

Failed(e, why, unknown) ==
    [e EXCEPT !.st = "failed", !.why = why, !.unknown = unknown]

(* _expire: the requests queued up to one id, and the running ones up to   *)
(* one cycle, have passed their time limit.                                *)
Expired(es, lapse) ==
    [i \in DOMAIN es |->
        CASE es[i].st = "queued" /\ es[i].id <= lapse.queued ->
                Failed(es[i], "queue_timeout", FALSE)
          [] es[i].st = "running" /\ es[i].cyc <= lapse.running ->
                Failed(es[i], "result_timeout", TRUE)
          [] OTHER -> es[i]]

Lapse ==
    IF "lapse" \in Fault
    THEN [queued  : {0} \cup {entries[i].id : i \in DOMAIN entries},
          running : {0, Len(cycles)}]
    ELSE [queued : {0}, running : {0}]

(* The slot a new request takes: none, or the oldest one that has ended.   *)
Evictable(es) ==
    IF Len(es) < MaxEntries THEN {0}
    ELSE {i \in DOMAIN es : /\ es[i].st \notin Active
                            /\ \A j \in 1..(i - 1) : es[j].st \in Active}

(* accept: the same key returns the request it made, at the end of the     *)
(* order; a new one needs a slot.  is_new tells the handler which.         *)
Held(es, k) == \E i \in DOMAIN es : es[i].key = k

Touched(es, k) ==
    LET i == CHOOSE j \in DOMAIN es : es[j].key = k
    IN  Append(RemoveAt(es, i), es[i])

Inserted(es, slot, k, m) ==
    Append(IF slot = 0 THEN es ELSE RemoveAt(es, slot),
           [key |-> k, id |-> issued + 1, mode |-> m, st |-> "queued", cyc |-> 0,
            why |-> "none", unknown |-> FALSE, born |-> Len(cycles)])

(* observe_cycle: a cycle that starts takes every queued request of its    *)
(* mode and ends those of another; a cycle that ends closes its own.       *)
Observed(es, snap) ==
    [i \in DOMAIN es |->
        CASE es[i].st = "queued" /\ snap.st = "running" ->
                IF snap.mode = es[i].mode
                THEN [es[i] EXCEPT !.st = "running", !.cyc = snap.id]
                ELSE Failed(es[i], "mode_superseded", FALSE)
          [] es[i].st = "running" /\ es[i].cyc = snap.id ->
                [es[i] EXCEPT !.st = snap.st, !.why = "cycle"]
          [] OTHER -> es[i]]

(* Seeded fault: a mode change that also ends the running requests.        *)
SupersedeAll(es, m) ==
    [i \in DOMAIN es |-> IF es[i].st \in Active /\ es[i].mode # m
                         THEN Failed(es[i], "mode_superseded", FALSE) ELSE es[i]]

(* supersede_queued *)
Superseded(es, m) ==
    [i \in DOMAIN es |-> IF es[i].st = "queued" /\ es[i].mode # m
                         THEN Failed(es[i], "mode_superseded", FALSE) ELSE es[i]]

(* fail_active *)
Stopped(es) ==
    [i \in DOMAIN es |-> IF es[i].st \in Active
                         THEN Failed(es[i], "worker_stopped", es[i].st = "running")
                         ELSE es[i]]

-----------------------------------------------------------------------------
Ready == worker.pc \notin {"stopping", "done", "over"}

Init ==
    /\ desired = FirstMode /\ mode = FirstMode
    /\ trigger = FALSE /\ entries = <<>> /\ issued = 0
    /\ caller = [c \in Caller |-> Idle]
    /\ saver = [s \in Saver |-> NoMode]
    /\ worker = [pc |-> "loop", read |-> NoMode]
    /\ cycles = <<>> /\ count = 0 /\ last = NoCycle

(* run_personal_cycle: the desired mode is read from the database; a       *)
(* request for another mode will be refused, so only this one is followed. *)
ReadDesired(c, k) ==
    /\ caller[c].pc = "idle"
    /\ caller' = [caller EXCEPT ![c] = [pc |-> "read", key |-> k, mode |-> desired]]
    /\ UNCHANGED <<desired, mode, trigger, entries, issued, saver, worker, cycles, count, last>>

(* A real-money request is checked, then waits for the wallet binding.     *)
CheckReal(c) ==
    /\ caller[c].pc = "read" /\ caller[c].mode \in Real /\ caller[c].mode = mode
    /\ caller' = [caller EXCEPT ![c].pc = "bound"]
    /\ UNCHANGED <<desired, mode, trigger, entries, issued, saver, worker, cycles, count, last>>

(* A mismatch, a missing or paused binding, a worker that is not ready.    *)
Refuse(c) ==
    /\ caller[c].pc # "idle"
    /\ caller' = [caller EXCEPT ![c] = Idle]
    /\ UNCHANGED <<desired, mode, trigger, entries, issued, saver, worker, cycles, count, last>>

Acceptable(c) ==
    \/ caller[c].pc = "read" /\ caller[c].mode \notin Real /\ caller[c].mode = mode
    \/ caller[c].pc = "bound"

(* Seeded fault: the worker's state is not looked at after the awaits.     *)
AcceptUnready(c) ==
    /\ Acceptable(c)
    /\ caller' = [caller EXCEPT ![c] = Idle]
    /\ issued < MaxRequests /\ ~Held(entries, caller[c].key)
    /\ \E slot \in Evictable(entries) :
          entries' = Inserted(entries, slot, caller[c].key, caller[c].mode)
    /\ issued' = issued + 1 /\ trigger' = TRUE
    /\ UNCHANGED <<desired, mode, saver, worker, cycles, count, last>>

(* A new request is accepted and wakes the worker.                         *)
Accept(c) ==
    /\ Acceptable(c) /\ Ready
    /\ issued < MaxRequests
    /\ caller' = [caller EXCEPT ![c] = Idle]
    /\ \E lapse \in Lapse :
        LET es == Expired(entries, lapse) IN
            /\ ~Held(es, caller[c].key)
            /\ \E slot \in Evictable(es) :
                  entries' = Inserted(es, slot, caller[c].key, caller[c].mode)
    /\ issued' = issued + 1
    /\ trigger' = TRUE
    /\ UNCHANGED <<desired, mode, saver, worker, cycles, count, last>>

(* A replay of a key answers with the request it has, a key used for       *)
(* another mode with a conflict, a full registry with a capacity error:    *)
(* in each case only the order and the time limits move.                   *)
Replay(c) ==
    /\ Acceptable(c) /\ Ready
    /\ caller' = [caller EXCEPT ![c] = Idle]
    /\ \E lapse \in Lapse :
        LET es == Expired(entries, lapse) IN
            \/ /\ Held(es, caller[c].key)
               /\ entries' = Touched(es, caller[c].key)
            \/ /\ ~Held(es, caller[c].key) /\ Evictable(es) = {}
               /\ entries' = es
    /\ UNCHANGED <<desired, mode, trigger, issued, saver, worker, cycles, count, last>>

(* personal_cycle_request: reading a request applies the time limits.      *)
Poll ==
    /\ \E lapse \in Lapse : entries' = Expired(entries, lapse)
    /\ UNCHANGED <<desired, mode, trigger, issued, caller, saver, worker, cycles, count, last>>

(* update_runtime_profile: the profile is committed, ...                   *)
Save(s, m) ==
    /\ saver[s] = NoMode /\ m # desired
    /\ desired' = m
    /\ saver' = [saver EXCEPT ![s] = m]
    /\ UNCHANGED <<mode, trigger, entries, issued, caller, worker, cycles, count, last>>

(* ... and when the reply arrives the queue is swept and the worker woken. *)
Sweep(s) ==
    /\ saver[s] # NoMode
    /\ \E lapse \in Lapse :
          entries' = Superseded(Expired(entries, lapse), saver[s])
    /\ trigger' = TRUE
    /\ saver' = [saver EXCEPT ![s] = NoMode]
    /\ UNCHANGED <<desired, mode, issued, caller, worker, cycles, count, last>>

(* Resume, pause, a new baseline and a new risk policy only wake it.       *)
Nudge ==
    /\ ~trigger
    /\ trigger' = TRUE
    /\ UNCHANGED <<desired, mode, entries, issued, caller, saver, worker, cycles, count, last>>

-----------------------------------------------------------------------------
(* run_worker *)

Goto(pc) == worker' = [pc |-> pc, read |-> NoMode]

(* in _wait_for_next_cycle, after a cycle or after one that was skipped    *)
Waits == worker.pc \in {"wait", "skipped"}

(* align_effective_mode: the profile is read, then applied.                *)
ReadProfile ==
    /\ worker.pc = "loop"
    /\ worker' = [pc |-> "aligning", read |-> desired]
    /\ UNCHANGED <<desired, mode, trigger, entries, issued, caller, saver, cycles, count, last>>

ApplyMode ==
    /\ worker.pc = "aligning"
    /\ mode' = worker.read
    /\ Goto("gates")
    /\ UNCHANGED <<desired, trigger, entries, issued, caller, saver, cycles, count, last>>

(* A mode that could not be applied, or a closed gate, skips the cycle.    *)
SkipCycle ==
    /\ "gate" \in Fault
    /\ worker.pc \in {"aligning", "gates"}
    /\ Goto("skipped")
    /\ UNCHANGED <<desired, mode, trigger, entries, issued, caller, saver, cycles, count, last>>

(* _record_personal_cycle, called by publish_cycle                         *)
Record(snap) ==
    /\ \E lapse \in Lapse : entries' = Observed(Expired(entries, lapse), snap)
    /\ count' = IF /\ snap.st \in {"succeeded", "failed"}
                   /\ last.id # snap.id \/ last.st = "running"
                THEN count + 1 ELSE count
    /\ last' = [id |-> snap.id, st |-> snap.st]

(* The gates are open: the cycle is published as running.                  *)
StartCycle ==
    /\ worker.pc = "gates" /\ Len(cycles) < MaxCycles
    /\ cycles' = Append(cycles, [mode |-> mode, st |-> "running"])
    /\ Record([id |-> Len(cycles) + 1, mode |-> mode, st |-> "running"])
    /\ Goto("running")
    /\ UNCHANGED <<desired, mode, trigger, issued, caller, saver>>

(* Seeded fault: the event is cleared as the wait begins, with the         *)
(* wake-ups that arrived during the cycle.                                 *)
EndCycleClears(st) ==
    /\ worker.pc = "running"
    /\ st = "failed" => "fail" \in Fault
    /\ cycles' = [cycles EXCEPT ![Len(cycles)].st = st]
    /\ Record([id |-> Len(cycles), mode |-> mode, st |-> st])
    /\ trigger' = FALSE
    /\ Goto("wait")
    /\ UNCHANGED <<desired, mode, issued, caller, saver>>

(* The cycle ended, or raised: its result is published.                    *)
EndCycle(st) ==
    /\ worker.pc = "running"
    /\ st = "failed" => "fail" \in Fault
    /\ cycles' = [cycles EXCEPT ![Len(cycles)].st = st]
    /\ Record([id |-> Len(cycles), mode |-> mode, st |-> st])
    /\ Goto("wait")
    /\ UNCHANGED <<desired, mode, trigger, issued, caller, saver>>

(* _wait_for_next_cycle: the event ends the wait and is cleared, ...       *)
WakeUp ==
    /\ Waits /\ trigger
    /\ trigger' = FALSE
    /\ Goto("loop")
    /\ UNCHANGED <<desired, mode, entries, issued, caller, saver, cycles, count, last>>

(* ... or scan_interval_seconds passes, which leaves it as it is.          *)
ScanInterval ==
    /\ Waits
    /\ Goto("loop")
    /\ UNCHANGED <<desired, mode, trigger, entries, issued, caller, saver, cycles, count, last>>

(* The loop ends by itself (a safety latch, a stop) ...                    *)
LeaveLoop ==
    /\ "stop" \in Fault
    /\ worker.pc \in {"loop", "aligning", "gates", "wait", "skipped"}
    /\ Goto("stopping")
    /\ UNCHANGED <<desired, mode, trigger, entries, issued, caller, saver, cycles, count, last>>

(* ... or is cancelled in a cycle, whose end is then never reported.       *)
Abort ==
    /\ "abort" \in Fault
    /\ worker.pc = "running"
    /\ cycles' = [cycles EXCEPT ![Len(cycles)].st = "aborted"]
    /\ Goto("stopping")
    /\ UNCHANGED <<desired, mode, trigger, entries, issued, caller, saver, count, last>>

TaskDone ==
    /\ worker.pc = "stopping"
    /\ Goto("done")
    /\ UNCHANGED <<desired, mode, trigger, entries, issued, caller, saver, cycles, count, last>>

(* observe_personal_worker: the task's done callback.                      *)
DoneCallback ==
    /\ worker.pc = "done"
    /\ entries' = Stopped(entries)
    /\ Goto("over")
    /\ UNCHANGED <<desired, mode, trigger, issued, caller, saver, cycles, count, last>>

Work ==
    \/ ReadProfile \/ ApplyMode \/ StartCycle \/ WakeUp
    \/ \E st \in {"succeeded", "failed"} : EndCycle(st)
    \/ TaskDone \/ DoneCallback

Next ==
    \/ \E c \in Caller, k \in Key : ReadDesired(c, k)
    \/ \E c \in Caller : CheckReal(c) \/ Refuse(c) \/ Accept(c) \/ Replay(c)
    \/ Poll
    \/ \E s \in Saver, m \in Mode : Save(s, m)
    \/ \E s \in Saver : Sweep(s)
    \/ Nudge \/ Work \/ SkipCycle \/ ScanInterval \/ LeaveLoop \/ Abort

Spec == Init /\ [][Next]_vars

(* The event loop keeps running the worker; the timer owes nothing.        *)
FairSpec == Spec /\ WF_vars(Work)

-----------------------------------------------------------------------------
(* The registry never outgrows its capacity, and every variable has its    *)
(* type.                                                                   *)
TypeOK ==
    /\ desired \in Mode /\ mode \in Mode /\ trigger \in BOOLEAN
    /\ entries \in Seq(Entry) /\ Len(entries) <= MaxEntries
    /\ issued \in 0..MaxRequests
    /\ caller \in [Caller -> {Idle} \cup [pc : {"read", "bound"}, key : Key,
                                          mode : Mode]]
    /\ saver \in [Saver -> Mode \cup {NoMode}]
    /\ worker \in [pc : {"loop", "aligning", "gates", "running", "wait",
                         "skipped", "stopping", "done", "over"}, read : Mode \cup {NoMode}]
    /\ cycles \in Seq(Cycle) /\ Len(cycles) <= MaxCycles
    /\ count \in 0..MaxCycles
    /\ last \in [id : 0..MaxCycles, st : {"none", "running", "succeeded", "failed"}]

(* What the registry says of a request is what happened: a request is      *)
(* bound only to a cycle that began after it was accepted and ran in its   *)
(* mode; it reads succeeded or failed as that cycle ended, running only    *)
(* while that cycle runs or its worker is going down, and every other      *)
(* failure of a request that did run is marked outcome_unknown.            *)
ReportIsTrue ==
    \A i \in DOMAIN entries : LET e == entries[i] IN
        /\ e.cyc # 0 => e.cyc > e.born /\ cycles[e.cyc].mode = e.mode
        /\ e.st = "running" =>
              \/ cycles[e.cyc].st = "running"
              \/ cycles[e.cyc].st = "aborted" /\ worker.pc \in {"stopping", "done"}
        /\ e.why = "cycle" => e.cyc # 0 /\ cycles[e.cyc].st = e.st
        /\ e.why \notin {"none", "cycle"} => e.unknown = (e.cyc # 0)

(* Once the worker's task has ended and its callback has run, no request   *)
(* is left waiting for it: none is accepted behind the callback's back,    *)
(* whatever await its handler was in.                                      *)
NoOrphans ==
    worker.pc = "over" => \A i \in DOMAIN entries : entries[i].st \notin Active

(* The dashboard's cycle count is the number of cycles that ended with a   *)
(* report, however the reports of consecutive cycles follow one another.   *)
CountIsExact ==
    count = Cardinality({i \in DOMAIN cycles : cycles[i].st \in {"succeeded", "failed"}})

(* The outcome of a request that has ended never changes while it is held: *)
(* a late result, a mode change or a stop finds it closed.                 *)
OutcomeIsFinal ==
    [][\A i \in DOMAIN entries, j \in DOMAIN entries' :
         entries[i].id = entries'[j].id /\ entries[i].st \notin Active
             => entries'[j] = entries[i]]_vars

(* A full registry makes room only by dropping requests that have ended,   *)
(* so whoever was told "accepted" finds the request again until it ends    *)
(* (without time limits: one that runs out is dropped in the same call).   *)
ActiveIsHeld ==
    [][\A i \in DOMAIN entries : entries[i].st \in Active =>
         \E j \in DOMAIN entries' : entries'[j].id = entries[i].id]_vars

Waiting(n) == \E i \in DOMAIN entries : entries[i].id = n /\ entries[i].st = "queued"

(* A wake-up is never lost: without help of the scan timer or of a time    *)
(* limit every accepted request leaves the queue or is held back by a      *)
(* closed gate that the worker has looked at, whether it arrives during a  *)
(* cycle, between the clearing of the event and the next cycle, under a    *)
(* mode change or a stop (or the run has used up its cycles).              *)
AcceptedIsServed ==
    \A n \in 1..MaxRequests :
        Waiting(n) ~> (~Waiting(n) \/ worker.pc = "skipped" \/ Len(cycles) = MaxCycles)
=============================================================================
