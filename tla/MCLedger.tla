------------------------------ MODULE MCLedger -------------------------------
(* The fill ledger for TLC, in parts: a reconciliation pass beside a human  *)
(* who uses the wallet, a pass whose baseline moves, and the replay against *)
(* the account it describes.  A behaviour stays in the part it starts in.   *)
EXTENDS LedgerPass

CONSTANTS Price, Size, HistoryLength

VARIABLES part, history, bad, rows, failed

replayVars == <<history, bad, rows, failed>>
allVars == <<part, vars, replayVars>>

Markets == [t \in Token |-> IF t = "far" THEN 2 ELSE 1]

OneMarket == [t \in {"yes", "no"} |-> 1]

Moving == INSTANCE LedgerPass
    WITH HumanToken <- {}, Quarantine <- FALSE, MaxBaseline <- 1,
         Faults <- {"merge", "cache"}

Account == INSTANCE LedgerReplay
    WITH Token <- {"yes", "no"}, CondOf <- OneMarket, Scale <- 360, Fee <- 60,
         MaxEvents <- HistoryLength, MaxFailed <- 1, hist <- history

MCInit == Init /\ Account!Init /\ part \in {"pass", "baseline", "replay"}

In(p, A, others) == part = p /\ A /\ UNCHANGED <<part, others>>

MCNext ==
    \/ In("pass", Next, replayVars)
    \/ In("baseline", Moving!Next, replayVars)
    \/ In("replay", Account!Next, vars)

Moves(A) == In("baseline", A, replayVars)

(* The fairness of LedgerPass: passes are periodic and their calls return. *)
MCSpec ==
    /\ MCInit /\ [][MCNext]_allVars
    /\ WF_allVars(Moves(Moving!PassStep))
    /\ WF_allVars(Moves(Moving!Invalidate))
    /\ WF_allVars(Moves(Moving!ReadCache("rest")))
    /\ WF_allVars(Moves(Moving!ReadFills("rest")))
    /\ WF_allVars(Moves(Moving!ReadActs("rest")))

-----------------------------------------------------------------------------
(* LedgerIsTrue of LedgerReplay: a complete ledger replays to the account's *)
(* holdings, average costs and profit, in whatever order it was stored, and *)
(* an incomplete one never invents shares (replay_fill_ledger).             *)
LedgerIsTrue == part = "replay" => Account!LedgerIsTrue

(* While the baseline moves, scopes follow the bot's footprint and the      *)
(* latest baseline: in the end an activity is excluded exactly when they    *)
(* say so, so a market that the bot enters later gets its old activities    *)
(* back (reconcile_activity_scope reclassifies the complete history).       *)
ScopeSettles ==
    \A n \in 1 .. MaxEvents : <>[](part = "baseline" /\ n \in ActivitiesOf(hist) =>
        (acts[n] = "quarantine")
            = Excluded(hist[n].cond, n, {CondOf[t] : t \in signed}, base.at, FALSE))
=============================================================================
