---------------------------- MODULE PaperAccount ----------------------------
(* The paper account of a personal deployment: PaperBroker in memory, its     *)
(* snapshot in the database, and the worker that restores the account under   *)
(* its lease, trades a cycle and saves it back.  Workers are processes; one   *)
(* that crashed does not return under its name.  Money is in integer units,   *)
(* the cost basis of a part of a position rounded down; events stand *)
(* for the code's event and bucket exposure maps, which are kept alike.       *)
EXTENDS AccountGate, Sequences, FiniteSets, FiniteSetsExt, SequencesExt

CONSTANTS
    Tokens,
    Events,
    EventOf,      \* the event of each token
    Bankroll,
    BuyPrices,    \* all-in price of a bought share
    SellPrices,   \* all-in proceeds of a sold share
    MaxShares,    \* bound on the shares of one intent
    MaxTrades,    \* bound on the intents reserved
    MaxDay,       \* bound on the day
    MaxFence,     \* bound on fencing tokens
    MaxFailures,    \* bound on failed cycles, crashes, lost replies and mode switches
    Renewal       \* may the holder of a lapsed lease renew it

PaperAssumption ==
    /\ EventOf \in [Tokens -> Events]
    /\ {Bankroll, MaxShares, MaxTrades, MaxDay, MaxFence, MaxFailures} \subseteq Nat
    /\ (BuyPrices \union SellPrices) \subseteq Nat \ {0}
    /\ Renewal \in BOOLEAN

VARIABLES
    holder,     \* worker_leases row
    durable,   \* paper_account_states row: Nothing or an account
    reserved,  \* number of durable intents
    today,
    desk,        \* the worker processes
    failures

pvars == <<holder, durable, reserved, today, desk, failures>>

Nothing == [history |-> << >>]

Fresh ==
    [cash |-> Bankroll, pos |-> [t \in Tokens |-> 0], cost |-> [t \in Tokens |-> 0],
     event |-> [e \in Events |-> 0], pnl |-> 0, peak |-> Bankroll, start |-> Bankroll,
     day |-> today, history |-> << >>]

Gross(a) == MapThenSumSet(LAMBDA t : a.cost[t], Tokens)

Equity(a) == a.cash + Gross(a)

-----------------------------------------------------------------------------
(* PaperBroker *)

(* portfolio_state: roll the risk day, raise the peak *)
Portfolio(a) ==
    LET b == IF today > a.day
             THEN [a EXCEPT !.day = today, !.start = Equity(a), !.pnl = 0]
             ELSE a
    IN  [b EXCEPT !.peak = IF b.peak < Equity(b) THEN Equity(b) ELSE b.peak]

Recorded(a, id) == [a EXCEPT !.history = Append(@, id)]

(* submit of a BUY of which n shares fill at the all-in price c; refused when *)
(* the cash is gone, the intent is remembered all the same                    *)
Bought(a, id, t, n, c) ==
    IF n * c > a.cash THEN Recorded(a, id)
    ELSE [Recorded(a, id) EXCEPT !.cash = @ - n * c, !.pos[t] = @ + n, !.cost[t] = @ + n * c,
                                 !.event[EventOf[t]] = @ + n * c]

(* submit of a SELL of size shares of which n fill: the basis of the sold     *)
(* part is released from cost and exposure                                    *)
Sold(a, id, t, size, n, c) ==
    IF size > a.pos[t] THEN Recorded(a, id)
    ELSE LET basis == (a.cost[t] * n) \div a.pos[t]
         IN  [Recorded(a, id) EXCEPT !.cash = @ + n * c, !.pnl = @ + n * c - basis,
                                     !.pos[t] = @ - n, !.cost[t] = @ - basis,
                                     !.event[EventOf[t]] = @ - basis]

Loadable(a) == Equity(a) <= a.peak

(* export_state: a position sold out is not written *)
Exported(a) == [a EXCEPT !.cost = [t \in Tokens |-> IF a.pos[t] > 0 THEN a.cost[t] ELSE 0]]

(* from_state: the exposures are added up again from the positions *)
Restored(a) ==
    [a EXCEPT !.event = [e \in Events |->
        MapThenSumSet(LAMBDA t : a.cost[t], {t \in Tokens : EventOf[t] = e})]]

-----------------------------------------------------------------------------
Started ==
    [up |-> TRUE, phase |-> "idle", token |-> 0, fence |-> 0, held |-> 0, mem |-> Fresh,
     fresh |-> TRUE]

PInit ==
    /\ holder = InitialLease
    /\ durable = Nothing
    /\ reserved = 0
    /\ today = 0
    /\ desk = [w \in Worker |-> Started]
    /\ failures = 0

DeskFault == failures < MaxFailures /\ failures' = failures + 1

HolderLapses ==
    /\ holder.live
    /\ holder' = [holder EXCEPT !.live = FALSE]
    /\ UNCHANGED <<durable, reserved, today, desk, failures>>

NewDay ==
    /\ today < MaxDay
    /\ today' = today + 1
    /\ UNCHANGED <<holder, durable, reserved, desk, failures>>

(* maintain_lease claims or renews, is refused, or gets no answer *)
DeskClaims(w) ==
    /\ desk[w].up
    /\ ClaimGranted(holder, w)
    /\ ~ LeaseValid(holder, w, desk[w].token)
    /\ (holder.owner = w /\ ~ holder.live) => Renewal
    /\ Claimed(holder, w).token <= MaxFence
    /\ holder' = Claimed(holder, w)
    /\ desk' = [desk EXCEPT ![w].token = Claimed(holder, w).token]
    /\ UNCHANGED <<durable, reserved, today, failures>>

DeskLosesLease(w) ==
    /\ desk[w].up /\ desk[w].token # 0
    /\ ~ ClaimGranted(holder, w)
    /\ desk' = [desk EXCEPT ![w].token = 0]
    /\ UNCHANGED <<holder, durable, reserved, today, failures>>

HeartbeatFails(w) ==
    /\ desk[w].up /\ desk[w].token # 0
    /\ DeskFault
    /\ desk' = [desk EXCEPT ![w].token = 0]
    /\ UNCHANGED <<holder, durable, reserved, today>>

(* load_personal_paper_account_state: no row without a valid lease *)
Load(w) == IF LeaseValid(holder, w, desk[w].token) THEN durable ELSE Nothing

(* restore_personal_paper_state: reload unless restored under this token      *)
Restore(w) ==
    IF desk[w].held = desk[w].token THEN desk[w]
    ELSE [desk[w] EXCEPT !.mem = IF Load(w) = Nothing THEN Fresh ELSE Restored(Load(w)),
                       !.held = desk[w].token]

(* a cycle starts under the token held now; a snapshot that from_state        *)
(* refuses keeps it from starting                                             *)
DeskStartsCycle(w) ==
    /\ desk[w].up /\ desk[w].phase = "idle" /\ desk[w].token # 0
    /\ (desk[w].held # desk[w].token /\ Load(w) # Nothing) => Loadable(Load(w))
    /\ LET r == Restore(w)
       IN  desk' = [desk EXCEPT ![w] = [r EXCEPT !.phase = "cycle", !.fence = desk[w].token,
                                             !.mem = Portfolio(r.mem), !.fresh = TRUE]]
    /\ UNCHANGED <<holder, durable, reserved, today, failures>>

(* one market of the cycle: the portfolio is read, the guard validates the    *)
(* lease held now, the intent is reserved in the database and filled in memory *)
Trade(w, t, n) ==
    /\ desk[w].phase = "cycle"
    /\ LeaseValid(holder, w, desk[w].token)
    /\ reserved < MaxTrades
    /\ LET a  == Portfolio(desk[w].mem)
           id == reserved + 1
       IN  \/ \E c \in BuyPrices :
                desk' = [desk EXCEPT ![w].mem = Bought(a, id, t, n, c), ![w].fresh = FALSE]
           \/ \E c \in SellPrices, size \in n..MaxShares :
                /\ a.pos[t] > 0
                /\ desk' = [desk EXCEPT ![w].mem = Sold(a, id, t, size, n, c), ![w].fresh = FALSE]
    /\ reserved' = reserved + 1
    /\ UNCHANGED <<holder, durable, today, failures>>

(* a market that is looked at and not traded still reads the portfolio        *)
Visit(w) ==
    /\ desk[w].phase = "cycle"
    /\ desk' = [desk EXCEPT ![w].mem = Portfolio(desk[w].mem)]
    /\ UNCHANGED <<holder, durable, reserved, today, failures>>

SaveUnfenced(w) ==
    /\ desk[w].phase = "cycle"
    /\ durable' = Exported(desk[w].mem)
    /\ desk' = [desk EXCEPT ![w].phase = "idle", ![w].fence = 0]
    /\ UNCHANGED <<holder, reserved, today, failures>>

(* save_personal_paper_state under the cycle's fence; a refused save forces   *)
(* the next cycle to reload                                                   *)
DeskEndsCycle(w) ==
    /\ desk[w].phase = "cycle"
    /\ IF LeaseValid(holder, w, desk[w].fence)
       THEN durable' = Exported(desk[w].mem) /\ desk' = [desk EXCEPT ![w].phase = "idle", ![w].fence = 0]
       ELSE /\ UNCHANGED durable
            /\ desk' = [desk EXCEPT ![w].phase = "idle", ![w].fence = 0, ![w].held = 0]
    /\ UNCHANGED <<holder, reserved, today, failures>>

CycleFailsKept(w) ==
    /\ desk[w].phase = "cycle"
    /\ DeskFault
    /\ UNCHANGED durable
    /\ desk' = [desk EXCEPT ![w].phase = "idle", ![w].fence = 0]
    /\ UNCHANGED <<holder, reserved, today>>

(* the cycle raises, or the reply to its save is lost: reload *)
CycleFails(w) ==
    /\ desk[w].phase = "cycle"
    /\ DeskFault
    /\ \/ UNCHANGED durable
       \/ LeaseValid(holder, w, desk[w].fence) /\ durable' = Exported(desk[w].mem)
    /\ desk' = [desk EXCEPT ![w].phase = "idle", ![w].fence = 0, ![w].held = 0]
    /\ UNCHANGED <<holder, reserved, today>>

(* the mode leaves paper at a cycle boundary and returns *)
LeavePaper(w) ==
    /\ desk[w].up /\ desk[w].phase = "idle" /\ desk[w].held # 0
    /\ DeskFault
    /\ desk' = [desk EXCEPT ![w].held = 0]
    /\ UNCHANGED <<holder, durable, reserved, today>>

DeskCrashes(w) ==
    /\ desk[w].up
    /\ DeskFault
    /\ desk' = [desk EXCEPT ![w] = [Started EXCEPT !.up = FALSE]]
    /\ UNCHANGED <<holder, durable, reserved, today>>

PNext ==
    \/ HolderLapses
    \/ NewDay
    \/ \E w \in Worker :
        \/ DeskClaims(w) \/ DeskLosesLease(w) \/ HeartbeatFails(w)
        \/ DeskStartsCycle(w) \/ Visit(w) \/ DeskEndsCycle(w) \/ CycleFails(w)
        \/ LeavePaper(w) \/ DeskCrashes(w)
        \/ \E t \in Tokens, n \in 0..MaxShares : Trade(w, t, n)

PSpec == PInit /\ [][PNext]_pvars

-----------------------------------------------------------------------------
(* Properties *)

OfType(a) ==
    /\ a.cash \in Nat /\ a.peak \in Nat /\ a.start \in Nat /\ a.pnl \in Int
    /\ a.pos \in [Tokens -> Nat] /\ a.cost \in [Tokens -> Nat] /\ a.event \in [Events -> Nat]
    /\ a.day \in 0..MaxDay /\ a.history \in Seq(1..MaxTrades)

PTypeOK ==
    /\ holder \in Lease
    /\ durable = Nothing \/ OfType(durable)
    /\ reserved \in 0..MaxTrades
    /\ \A w \in Worker :
        /\ desk[w].up \in BOOLEAN /\ desk[w].phase \in {"idle", "cycle"}
        /\ {desk[w].token, desk[w].fence, desk[w].held} \subseteq 0..MaxFence
        /\ OfType(desk[w].mem)

(* A cycle begins from the account last saved, whatever failed, was refused   *)
(* or was switched before: a worker whose lease is valid never trades on an   *)
(* account that was not committed (restore_personal_paper_state).             *)
CycleStartsFromDurable ==
    \A w \in Worker :
        (/\ desk[w].phase = "cycle" /\ desk[w].fresh
         /\ LeaseValid(holder, w, desk[w].fence) /\ durable # Nothing) =>
            /\ desk[w].mem.history = durable.history
            /\ desk[w].mem.cash = durable.cash
            /\ desk[w].mem.pos = durable.pos

(* The saved account only moves forward: a save extends the history saved     *)
(* before it, so no worker, however late its save, restores an older account  *)
(* or a reset one over it.                                                    *)
HistoryOnlyGrows == [][IsPrefix(durable.history, durable'.history)]_pvars

(* What was saved can be restored.                                            *)
SavedIsLoadable == durable # Nothing => Loadable(durable)
=============================================================================
