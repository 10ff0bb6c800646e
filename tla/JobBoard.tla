------------------------------- MODULE JobBoard ------------------------------
(***************************************************************************)
(* What the job queue promises its tenants, without owners, leases and     *)
(* retries: a job is posted, taken under a ticket that only grows, put     *)
(* back or finished once, and an account's ledger is only ever extended by *)
(* the work of the ticket that a job is held under at that moment.         *)
(***************************************************************************)
EXTENDS Naturals, Sequences

CONSTANT Account, Key

VARIABLES
    phase,      \* [Account \X Key -> {"free", "waiting", "held", "done"}]
    ticket,     \* [Account \X Key -> Nat], the number of times it was taken
    ledger      \* [Account -> Seq(<<key, ticket>>)], one entry per cycle kept

boardVars == <<phase, ticket, ledger>>

BoardInit ==
    /\ phase = [j \in Account \X Key |-> "free"]
    /\ ticket = [j \in Account \X Key |-> 0]
    /\ ledger = [a \in Account |-> <<>>]

MoveTo(j, p) == phase' = [phase EXCEPT ![j] = p]

PostJob(j) == phase[j] = "free" /\ MoveTo(j, "waiting") /\ UNCHANGED <<ticket, ledger>>

TakeJob(j) ==
    /\ phase[j] \in {"waiting", "held"}
    /\ MoveTo(j, "held")
    /\ ticket' = [ticket EXCEPT ![j] = @ + 1]
    /\ UNCHANGED ledger

PutBack(j) == phase[j] = "held" /\ MoveTo(j, "waiting") /\ UNCHANGED <<ticket, ledger>>

FinishJobs(S) ==
    /\ S # {}
    /\ \A j \in S : phase[j] \in {"waiting", "held"}
    /\ phase' = [j \in Account \X Key |-> IF j \in S THEN "done" ELSE phase[j]]
    /\ UNCHANGED <<ticket, ledger>>

(* A worker that claims a job first gives up the ones nobody will retry. *)
FinishAndTake(S, j) ==
    /\ S # {}
    /\ \A i \in S : phase[i] = "held"
    /\ j \notin S
    /\ phase[j] \in {"waiting", "held"}
    /\ phase' = [i \in Account \X Key |->
                    IF i \in S THEN "done" ELSE IF i = j THEN "held" ELSE phase[i]]
    /\ ticket' = [ticket EXCEPT ![j] = @ + 1]
    /\ UNCHANGED ledger

Record(j) ==
    /\ phase[j] = "held"
    /\ ledger' = [ledger EXCEPT ![j[1]] = Append(@, <<j[2], ticket[j]>>)]
    /\ UNCHANGED <<phase, ticket>>

BoardNext ==
    \/ \E j \in Account \X Key : PostJob(j) \/ TakeJob(j) \/ PutBack(j) \/ Record(j)
    \/ \E S \in SUBSET (Account \X Key) :
          FinishJobs(S) \/ \E j \in Account \X Key : FinishAndTake(S, j)

BoardSpec == BoardInit /\ [][BoardNext]_boardVars
=============================================================================
