-------------------------- MODULE LedgerPassProofs --------------------------
(***************************************************************************)
(* Safety of the second half of a reconciliation pass, for any tokens,     *)
(* markets, events and faults.                                             *)
(*                                                                         *)
(* A replay of any part of a history is grounded in it: shares it holds    *)
(* were filled, markets it closed were redeemed (ReplayGrounded, by the    *)
(* least index at which it would not be).  The bot only fills what it has  *)
(* signed, so where the exchange's list agrees with the ledger, what a     *)
(* pass writes is the bot's or belongs to a redeemed market; and the row   *)
(* a pass is about to quarantine has been audited (PassOK).                *)
(***************************************************************************)
EXTENDS LedgerPass, WellFoundedInduction, SequenceTheorems, TLAPS

-----------------------------------------------------------------------------
(* Induction: a set of naturals has a least element.                          *)
Below == {ss \in Nat \X Nat : ss[1] < ss[2]}

LEMMA BelowIsWellFounded == IsWellFoundedOn(Below, Nat)
BY NatLessThanWellFounded DEF OpToRel, Below

LEMMA Least ==
    ASSUME NEW T, T \subseteq Nat, T # {}
    PROVE  \E x \in T : \A y \in T : x <= y
<1>1. PICK x \in T : \A y \in T : <<y, x>> \notin Below
  BY BelowIsWellFounded, WFMin
<1>2. ASSUME NEW y \in T, ~(x <= y) PROVE FALSE
  <2>1. x \in Nat /\ y \in Nat /\ y < x
    BY <1>2
  <2>2. <<y, x>> \in Nat \X Nat /\ <<y, x>>[1] < <<y, x>>[2]
    BY <2>1
  <2> DEFINE p == <<y, x>>
  <2>3. p \in Nat \X Nat /\ p[1] < p[2]
    BY <2>2
  <2> HIDE DEF p
  <2>4. p \in Below
    BY <2>3 DEF Below
  <2> QED BY <1>1, <2>4 DEF p
<1> QED BY <1>2

LEMMA MinIn ==
    ASSUME NEW T, T \subseteq Nat, T # {}
    PROVE  Min(T) \in T
<1>1. \E x \in T : \A y \in T : x =< y
  BY Least
<1> QED BY <1>1 DEF Min

LEMMA UpTo ==
    ASSUME NEW N \in Nat, NEW T, T \subseteq 0..N, 0 \in T,
           \A n \in 1..N : n - 1 \in T => n \in T
    PROVE  T = 0..N
<1> SUFFICES ASSUME T # 0..N PROVE FALSE
  OBVIOUS
<1> DEFINE U == (0..N) \ T
<1>1. U # {} /\ U \subseteq Nat
  <2>1. U \subseteq Nat
    OBVIOUS
  <2>2. \E x : x \in 0..N /\ x \notin T
    OBVIOUS
  <2> QED BY <2>1, <2>2
<1>2. PICK x \in U : \A y \in U : x <= y
  BY <1>1, Least
<1>3. x \in 1..N
  BY <1>2
<1>4. x - 1 \in 0..N /\ ~(x <= x - 1)
  BY <1>3
<1>5. x - 1 \in T
  BY <1>2, <1>4
<1> QED BY <1>2, <1>3, <1>5

-----------------------------------------------------------------------------
(* What the replay computes *)

Event(l, h, S, n, since) == IF n \in S THEN Applied(l, h[n], n >= since) ELSE l

Steps(h, S, since, k, f) ==
    f = [n \in 0..k |-> IF n = 0 THEN EmptyLedger ELSE Event(f[n - 1], h, S, n, since)]

LEMMA ReplayIs ==
    ASSUME NEW h, NEW S, NEW since
    PROVE  Replay(h, S, since) = (CHOOSE f : Steps(h, S, since, Len(h), f))[Len(h)]
BY DEF Replay, Steps, Event

LEMMA StepsExist ==
    ASSUME NEW h, NEW S, NEW since, NEW N \in Nat
    PROVE  \E f : Steps(h, S, since, N, f)
<1> DEFINE T == {k \in 0..N : \E f : Steps(h, S, since, k, f)}
<1>1. 0 \in T
  <2> DEFINE g == [n \in 0..0 |-> EmptyLedger]
  <2>1. g = [n \in 0..0 |-> IF n = 0 THEN EmptyLedger ELSE Event(g[n - 1], h, S, n, since)]
    OBVIOUS
  <2>2. Steps(h, S, since, 0, g)
    BY <2>1 DEF Steps
  <2> QED BY <2>2
<1>2. ASSUME NEW k \in 1..N, k - 1 \in T PROVE k \in T
  <2>1. PICK f : Steps(h, S, since, k - 1, f)
    BY <1>2
  <2> DEFINE g == [n \in 0..k |-> IF n = k THEN Event(f[k - 1], h, S, k, since) ELSE f[n]]
  <2>2. \A n \in 0..(k - 1) :
           f[n] = IF n = 0 THEN EmptyLedger ELSE Event(f[n - 1], h, S, n, since)
    BY <2>1 DEF Steps
  <2>3. ASSUME NEW n \in 0..k
        PROVE  g[n] = IF n = 0 THEN EmptyLedger ELSE Event(g[n - 1], h, S, n, since)
    <3>1. CASE n = k
      <4>1. g[k] = Event(f[k - 1], h, S, k, since) /\ g[k - 1] = f[k - 1] /\ k # 0
        OBVIOUS
      <4> QED BY <3>1, <4>1
    <3>2. CASE n # k /\ n # 0
      <4>1. n \in 0..(k - 1) /\ n - 1 \in 0..k /\ n - 1 # k
        BY <3>2
      <4>2. g[n] = f[n] /\ g[n - 1] = f[n - 1]
        BY <3>2, <4>1
      <4> QED BY <2>2, <3>2, <4>1, <4>2
    <3>3. CASE n = 0
      <4>1. 0 \in 0..(k - 1) /\ n # k
        BY <3>3
      <4>2. g[n] = f[n]
        BY <4>1
      <4> QED BY <2>2, <3>3, <4>1, <4>2
    <3> QED BY <3>1, <3>2, <3>3
  <2>4. g = [n \in 0..k |-> g[n]]
    OBVIOUS
  <2> HIDE DEF g
  <2>5. Steps(h, S, since, k, g)
    BY <2>3, <2>4 DEF Steps
  <2> QED BY <2>5
<1> HIDE DEF T
<1>3. T = 0..N
  <2>1. T \subseteq 0..N
    BY DEF T
  <2> QED BY <1>1, <1>2, <2>1, UpTo
<1> QED BY <1>3 DEF T

LEMMA ReplaySteps ==
    ASSUME NEW h, Len(h) \in Nat, NEW S, NEW since
    PROVE  \E f : Steps(h, S, since, Len(h), f) /\ Replay(h, S, since) = f[Len(h)]
BY ReplayIs, StepsExist

-----------------------------------------------------------------------------
(* A ledger is grounded in a history: the shares it holds were filled, the    *)
(* markets it closed were redeemed.                                           *)
FilledIn(h, t) == \E n \in 1..Len(h) : h[n].kind = "FILL" /\ h[n].tok = t

RedeemedIn(h, c) == \E n \in 1..Len(h) : h[n].kind = "REDEEM" /\ h[n].cond = c

Grounded(l, h) ==
    /\ \A t \in Token : l.qty[t] > 0 => FilledIn(h, t)
    /\ \A c \in l.red : RedeemedIn(h, c)

IsLedger(l) ==
    /\ l = [ok |-> l.ok, qty |-> l.qty, cost |-> l.cost, real |-> l.real, red |-> l.red]
    /\ l.qty = [t \in Token |-> l.qty[t]]

LEMMA EmptyIs ==
    ASSUME NEW h
    PROVE  IsLedger(EmptyLedger) /\ Grounded(EmptyLedger, h)
BY DEF EmptyLedger, IsLedger, Grounded

(* A ledger whose shares changed in one token only. *)
OneToken(l, u, v, m) ==
    /\ m = [ok |-> m.ok, qty |-> m.qty, cost |-> m.cost, real |-> m.real, red |-> m.red]
    /\ m.qty = [l.qty EXCEPT ![u] = v] /\ m.red = l.red

LEMMA OneTokenIs ==
    ASSUME NEW l, IsLedger(l), NEW h, Grounded(l, h), NEW u, FilledIn(h, u), NEW v, NEW m,
           OneToken(l, u, v, m)
    PROVE  IsLedger(m) /\ Grounded(m, h)
<1>1. m.qty = [t \in Token |-> IF t = u THEN v ELSE l.qty[t]]
  BY DEF OneToken, IsLedger
<1>2. m.qty = [t \in Token |-> m.qty[t]]
  BY <1>1
<1>3. \A t \in Token : t # u => m.qty[t] = l.qty[t]
  BY <1>1
<1>4. IsLedger(m)
  BY <1>2 DEF IsLedger, OneToken
<1>5. ASSUME NEW t \in Token, m.qty[t] > 0 PROVE FilledIn(h, t)
  <2>1. CASE t = u
    BY <2>1
  <2>2. CASE t # u
    <3>1. l.qty[t] > 0
      BY <1>3, <1>5, <2>2
    <3> QED BY <3>1 DEF Grounded
  <2> QED BY <2>1, <2>2
<1>6. \A c \in m.red : RedeemedIn(h, c)
  BY DEF OneToken, Grounded
<1> QED BY <1>4, <1>5, <1>6 DEF Grounded

LEMMA FailedIs ==
    ASSUME NEW l, IsLedger(l), NEW h, Grounded(l, h)
    PROVE  IsLedger(Failed(l)) /\ Grounded(Failed(l), h)
<1>1. ASSUME NEW m, m = [l EXCEPT !.ok = FALSE]
      PROVE  IsLedger(m) /\ m.qty = l.qty /\ m.red = l.red
  BY <1>1 DEF IsLedger
<1>2. IsLedger(Failed(l)) /\ Failed(l).qty = l.qty /\ Failed(l).red = l.red
  BY <1>1 DEF Failed
<1> QED BY <1>2 DEF Grounded

LEMMA BoughtIs ==
    ASSUME NEW l, IsLedger(l), NEW h, Grounded(l, h), NEW e, FilledIn(h, e.tok)
    PROVE  IsLedger(Bought(l, e)) /\ Grounded(Bought(l, e), h)
<1>1. ASSUME NEW u, NEW v, NEW x, NEW m, m = [l EXCEPT !.qty[u] = v, !.cost[u] = x]
      PROVE  OneToken(l, u, v, m)
  BY <1>1 DEF IsLedger, OneToken
<1> DEFINE u == e.tok
           v == l.qty[u] + e.size
           x == l.cost[u] + e.price * e.size * Scale + Fee
<1>2. Bought(l, e) = [l EXCEPT !.qty[u] = v, !.cost[u] = x]
  BY DEF Bought
<1> HIDE DEF v, x
<1>3. OneToken(l, u, v, Bought(l, e))
  BY <1>1, <1>2
<1> QED BY <1>3, OneTokenIs

LEMMA SoldIs ==
    ASSUME NEW l, IsLedger(l), NEW h, Grounded(l, h), NEW e, FilledIn(h, e.tok), NEW counts
    PROVE  IsLedger(Sold(l, e, counts)) /\ Grounded(Sold(l, e, counts), h)
<1>1. ASSUME NEW u, NEW v, NEW x, NEW y, NEW m,
             m = [l EXCEPT !.qty[u] = v, !.cost[u] = x, !.real = y]
      PROVE  OneToken(l, u, v, m)
  BY <1>1 DEF IsLedger, OneToken
<1> DEFINE u == e.tok
           v == l.qty[u] - e.size
           released == (l.cost[u] * e.size) \div l.qty[u]
           x == l.cost[u] - released
           y == IF counts THEN l.real + e.price * e.size * Scale - Fee - released ELSE l.real
<1>2. Sold(l, e, counts) = Failed(l)
        \/ Sold(l, e, counts) = [l EXCEPT !.qty[u] = v, !.cost[u] = x, !.real = y]
  BY DEF Sold
<1> HIDE DEF v, x, y
<1>3. CASE Sold(l, e, counts) = [l EXCEPT !.qty[u] = v, !.cost[u] = x, !.real = y]
  <2>1. OneToken(l, u, v, Sold(l, e, counts))
    BY <1>1, <1>3
  <2> QED BY <2>1, OneTokenIs
<1>4. CASE Sold(l, e, counts) = Failed(l)
  BY <1>4, FailedIs
<1> QED BY <1>2, <1>3, <1>4

LEMMA RedeemedIs ==
    ASSUME NEW l, IsLedger(l), NEW h, Grounded(l, h), NEW e, RedeemedIn(h, e.cond), NEW counts
    PROVE  IsLedger(Redeemed(l, e, counts)) /\ Grounded(Redeemed(l, e, counts), h)
<1> DEFINE held == {t \in Token : CondOf[t] = e.cond /\ l.qty[t] > 0}
           r == l.red \cup {e.cond}
           q == [t \in Token |-> IF t \in held THEN 0 ELSE l.qty[t]]
           k == [t \in Token |-> IF t \in held THEN 0 ELSE l.cost[t]]
<1>1. \E y : \/ Redeemed(l, e, counts) = Failed(l)
             \/ Redeemed(l, e, counts) = [l EXCEPT !.red = r]
             \/ Redeemed(l, e, counts) = [l EXCEPT !.red = r, !.real = y, !.qty = q, !.cost = k]
  BY DEF Redeemed
<1>2. \A c \in r : RedeemedIn(h, c)
  BY DEF Grounded
<1>3. q = [t \in Token |-> q[t]] /\ \A t \in Token : q[t] > 0 => l.qty[t] > 0
  OBVIOUS
<1> HIDE DEF q, k, r
<1>4. CASE Redeemed(l, e, counts) = Failed(l)
  BY <1>4, FailedIs
<1>5. ASSUME NEW m, m = [l EXCEPT !.red = r]
      PROVE  IsLedger(m) /\ Grounded(m, h)
  <2>1. IsLedger(m) /\ m.qty = l.qty /\ m.red = r
    BY <1>5 DEF IsLedger
  <2> QED BY <1>2, <2>1 DEF Grounded
<1>6. ASSUME NEW y, NEW m, m = [l EXCEPT !.red = r, !.real = y, !.qty = q, !.cost = k]
      PROVE  IsLedger(m) /\ Grounded(m, h)
  <2>1. m.qty = q /\ m.red = r
        /\ m = [ok |-> m.ok, qty |-> m.qty, cost |-> m.cost, real |-> m.real, red |-> m.red]
    BY <1>6 DEF IsLedger
  <2>2. IsLedger(m)
    BY <1>3, <2>1 DEF IsLedger
  <2> QED BY <1>2, <1>3, <2>1, <2>2 DEF Grounded
<1> QED BY <1>1, <1>4, <1>5, <1>6

LEMMA AppliedIs ==
    ASSUME NEW l, IsLedger(l), NEW h, Grounded(l, h), NEW n \in 1..Len(h), NEW counts
    PROVE  IsLedger(Applied(l, h[n], counts)) /\ Grounded(Applied(l, h[n], counts), h)
<1> DEFINE e == h[n]
<1>1. e.kind = "FILL" => FilledIn(h, e.tok)
  BY DEF FilledIn
<1>2. e.kind = "REDEEM" => RedeemedIn(h, e.cond)
  BY DEF RedeemedIn
<1> HIDE DEF e
<1>3. \/ Applied(l, e, counts) = l
      \/ e.kind = "FILL" /\ Applied(l, e, counts) = Bought(l, e)
      \/ e.kind = "FILL" /\ Applied(l, e, counts) = Sold(l, e, counts)
      \/ e.kind = "REDEEM" /\ Applied(l, e, counts) = Redeemed(l, e, counts)
      \/ Applied(l, e, counts) = Failed(l)
  BY DEF Applied
<1>4. IsLedger(Applied(l, e, counts)) /\ Grounded(Applied(l, e, counts), h)
  BY <1>1, <1>2, <1>3, BoughtIs, SoldIs, RedeemedIs, FailedIs
<1> QED BY <1>4 DEF e

(* The replay of a history is grounded in it, whatever it leaves out. *)
LEMMA ReplayGrounded ==
    ASSUME NEW h, Len(h) \in Nat, NEW S, NEW since
    PROVE  IsLedger(Replay(h, S, since)) /\ Grounded(Replay(h, S, since), h)
<1>1. PICK f : Steps(h, S, since, Len(h), f) /\ Replay(h, S, since) = f[Len(h)]
  BY ReplaySteps
<1> DEFINE N == Len(h)
           T == {n \in 0..N : IsLedger(f[n]) /\ Grounded(f[n], h)}
<1>2. \A n \in 0..N : f[n] = IF n = 0 THEN EmptyLedger ELSE Event(f[n - 1], h, S, n, since)
  BY <1>1 DEF Steps
<1>3. 0 \in T
  <2>1. f[0] = EmptyLedger
    BY <1>2
  <2> QED BY <2>1, EmptyIs
<1>4. ASSUME NEW n \in 1..N, n - 1 \in T PROVE n \in T
  <2>1. f[n] = Event(f[n - 1], h, S, n, since)
    BY <1>2
  <2>2. f[n] = f[n - 1] \/ f[n] = Applied(f[n - 1], h[n], n >= since)
    BY <2>1 DEF Event
  <2>3. IsLedger(f[n - 1]) /\ Grounded(f[n - 1], h)
    BY <1>4
  <2>4. IsLedger(f[n]) /\ Grounded(f[n], h)
    <3>1. CASE f[n] = f[n - 1]
      BY <2>3, <3>1
    <3>2. CASE f[n] = Applied(f[n - 1], h[n], n >= since)
      BY <2>3, <3>2, AppliedIs
    <3> QED BY <2>2, <3>1, <3>2
  <2> QED BY <2>4
<1>5. T = 0..N
  <2>1. T \subseteq 0..N
    OBVIOUS
  <2> HIDE DEF T
  <2> QED BY <1>3, <1>4, <2>1, UpTo
<1>6. Len(h) \in T
  BY <1>5
<1> QED BY <1>1, <1>6

-----------------------------------------------------------------------------
(* Histories only grow. *)

IsHist(h) == \E E : h \in Seq(E)

Grows(h, g) == Len(h) \in Nat /\ Len(g) \in Nat /\ Len(h) <= Len(g)
               /\ \A n \in 1..Len(h) : g[n] = h[n]

LEMMA AppendGrows ==
    ASSUME NEW h, IsHist(h), NEW e
    PROVE  /\ IsHist(Append(h, e)) /\ Grows(h, Append(h, e))
           /\ Len(Append(h, e)) = Len(h) + 1 /\ Append(h, e)[Len(h) + 1] = e
<1>1. PICK E : h \in Seq(E)
  BY DEF IsHist
<1> DEFINE F == E \cup {e}
<1>2. h \in Seq(F) /\ e \in F
  BY <1>1, SeqMonotonic
<1> HIDE DEF F
<1>3. Append(h, e) \in Seq(F)
  BY <1>2
<1>4. /\ Len(h) \in Nat /\ Len(Append(h, e)) = Len(h) + 1
      /\ Append(h, e)[Len(h) + 1] = e
      /\ \A n \in 1..Len(h) : Append(h, e)[n] = h[n]
  BY <1>2, AppendProperties
<1> QED BY <1>3, <1>4 DEF IsHist, Grows

LEMMA GrowsKeeps ==
    ASSUME NEW h, NEW g, Grows(h, g)
    PROVE  /\ \A t : FilledIn(h, t) => FilledIn(g, t)
           /\ \A c : RedeemedIn(h, c) => RedeemedIn(g, c)
           /\ \A l : Grounded(l, h) => Grounded(l, g)
<1>1. \A n \in 1..Len(h) : n \in 1..Len(g) /\ g[n] = h[n]
  BY DEF Grows
<1>2. \A t : FilledIn(h, t) => FilledIn(g, t)
  BY <1>1 DEF FilledIn
<1>3. \A c : RedeemedIn(h, c) => RedeemedIn(g, c)
  BY <1>1 DEF RedeemedIn
<1> QED BY <1>2, <1>3 DEF Grounded

-----------------------------------------------------------------------------
(* The invariant: what the bot fills it has signed; the cached ledger and the *)
(* one a pass compares with are grounded; what a pass is about to write is    *)
(* signed for or was redeemed; the row it is about to quarantine is audited.  *)
IsPass(p) ==
    p = [pc |-> p.pc, full |-> p.full, toks |-> p.toks, conds |-> p.conds, base |-> p.base,
         todo |-> p.todo, list |-> p.list, led |-> p.led]

ScopeOf(h, p, n) ==
    IF Excluded(h[n].cond, n, p.conds, p.base, Quarantine) THEN "quarantine" ELSE "bot"

FillsSigned(h, s) == \A n \in 1..Len(h) : h[n].kind = "FILL" => h[n].tok \in s

(* Shares of a token without an order of the bot belong to a market that was  *)
(* redeemed.                                                                  *)
Explained(q, h, s) ==
    \A t \in Token : q[t] > 0 /\ t \notin s => RedeemedIn(h, CondOf[t])

Audited(a, au) ==
    /\ a = [n \in 1..MaxEvents |-> a[n]]
    /\ \A n \in 1..MaxEvents : a[n] = "quarantine" => n \in au

PassOK(p, h, s, au) ==
    /\ IsPass(p)
    /\ p.todo \subseteq 1..Len(h)
    /\ p.pc = "update" => p.todo # {}
    /\ p.pc = "update" /\ ScopeOf(h, p, Min(p.todo)) = "quarantine" => Min(p.todo) \in au
    /\ p.pc = "check" => Grounded(p.led, h)
    /\ p.pc \in {"zero", "upsert"} => Explained(p.list, h, s)

LedgerInv ==
    /\ IsHist(hist)
    /\ FillsSigned(hist, signed)
    /\ cache.set => Grounded(cache.led, hist)
    /\ Audited(acts, audit)
    /\ PassOK(pass, hist, signed, audit)
    /\ pos = [t \in Token |-> pos[t]] /\ Explained(pos, hist, signed)

LEMMA ExplainedKeeps ==
    ASSUME NEW h, NEW g, Grows(h, g), NEW s, NEW r, s \subseteq r, NEW q, Explained(q, h, s)
    PROVE  Explained(q, g, r)
BY GrowsKeeps DEF Explained

LEMMA PassKeeps ==
    ASSUME NEW p, NEW h, NEW s, NEW au, PassOK(p, h, s, au),
           NEW g, Grows(h, g), NEW r, s \subseteq r, NEW av, au \subseteq av
    PROVE  PassOK(p, g, r, av)
<1>1. p.todo \subseteq 1..Len(g)
  BY DEF PassOK, Grows
<1>2. ASSUME p.pc = "update", ScopeOf(g, p, Min(p.todo)) = "quarantine"
      PROVE  Min(p.todo) \in av
  <2>1. p.todo \subseteq Nat /\ p.todo # {} /\ p.todo \subseteq 1..Len(h)
    BY <1>2 DEF PassOK
  <2>2. Min(p.todo) \in 1..Len(h)
    BY <2>1, MinIn
  <2>3. g[Min(p.todo)] = h[Min(p.todo)]
    BY <2>2 DEF Grows
  <2>4. ScopeOf(h, p, Min(p.todo)) = "quarantine"
    BY <1>2, <2>3 DEF ScopeOf
  <2> QED BY <1>2, <2>4 DEF PassOK
<1>3. p.pc = "check" => Grounded(p.led, g)
  BY GrowsKeeps DEF PassOK
<1>4. p.pc \in {"zero", "upsert"} => Explained(p.list, g, r)
  BY ExplainedKeeps DEF PassOK
<1> QED BY <1>1, <1>2, <1>3, <1>4 DEF PassOK

(* A step of the account, of the store or of the cache beside the pass. *)
LEMMA Beside ==
    ASSUME LedgerInv, IsHist(hist'), Grows(hist, hist'), signed \subseteq signed',
           FillsSigned(hist', signed'), cache' = cache \/ cache' = NoCache,
           acts' = acts, audit' = audit, pass' = pass, pos' = pos
    PROVE  LedgerInv'
<1>1. cache'.set => Grounded(cache'.led, hist')
  <2>1. ~NoCache.set
    BY DEF NoCache
  <2> QED BY <2>1, GrowsKeeps DEF LedgerInv
<1>2. PassOK(pass', hist', signed', audit')
  BY PassKeeps DEF LedgerInv
<1>3. Explained(pos', hist', signed')
  BY ExplainedKeeps DEF LedgerInv
<1> QED BY <1>1, <1>2, <1>3 DEF LedgerInv

LEMMA SameGrows ==
    ASSUME LedgerInv
    PROVE  Grows(hist, hist) /\ Len(hist) \in Nat
<1>1. Len(hist) \in Nat
  BY LenProperties DEF LedgerInv, IsHist
<1> QED BY <1>1 DEF Grows

(* A step of the pass. *)
LEMMA PassMoves ==
    ASSUME LedgerInv, hist' = hist, signed' = signed, audit \subseteq audit',
           cache' = cache \/ cache' = NoCache, acts' = acts, pos' = pos,
           PassOK(pass', hist, signed, audit')
    PROVE  LedgerInv'
<1>1. cache'.set => Grounded(cache'.led, hist')
  <2>1. ~NoCache.set
    BY DEF NoCache
  <2> QED BY <2>1 DEF LedgerInv
<1>2. Audited(acts', audit')
  BY DEF LedgerInv, Audited
<1> QED BY <1>1, <1>2 DEF LedgerInv

-----------------------------------------------------------------------------
(* The changes a step makes to the pass *)
Looks(s, x, y, b, d, q, l) ==
    /\ IsPass(s) /\ s.pc = x /\ s.conds = y /\ s.base = b /\ s.todo = d
    /\ s.list = q /\ s.led = l

LEMMA PcChanges ==
    ASSUME NEW p, IsPass(p), NEW x, NEW s, s = [p EXCEPT !.pc = x]
    PROVE  Looks(s, x, p.conds, p.base, p.todo, p.list, p.led)
BY DEF IsPass, Looks

LEMMA FullChanges ==
    ASSUME NEW p, IsPass(p), NEW x, NEW y, NEW s, s = [p EXCEPT !.pc = x, !.full = y]
    PROVE  Looks(s, x, p.conds, p.base, p.todo, p.list, p.led)
BY DEF IsPass, Looks

LEMMA ToksChange ==
    ASSUME NEW p, IsPass(p), NEW x, NEW y, NEW s, s = [p EXCEPT !.pc = x, !.toks = y]
    PROVE  Looks(s, x, p.conds, p.base, p.todo, p.list, p.led)
BY DEF IsPass, Looks

LEMMA CondsChange ==
    ASSUME NEW p, IsPass(p), NEW x, NEW y, NEW b, NEW d, NEW s,
           s = [p EXCEPT !.pc = x, !.conds = y, !.base = b, !.todo = d]
    PROVE  Looks(s, x, y, b, d, p.list, p.led)
BY DEF IsPass, Looks

LEMMA TodoChanges ==
    ASSUME NEW p, IsPass(p), NEW d, NEW s, s = [p EXCEPT !.todo = d]
    PROVE  Looks(s, p.pc, p.conds, p.base, d, p.list, p.led)
BY DEF IsPass, Looks

LEMMA PcTodoChange ==
    ASSUME NEW p, IsPass(p), NEW x, NEW d, NEW s, s = [p EXCEPT !.pc = x, !.todo = d]
    PROVE  Looks(s, x, p.conds, p.base, d, p.list, p.led)
BY DEF IsPass, Looks

LEMMA ListChanges ==
    ASSUME NEW p, IsPass(p), NEW x, NEW q, NEW s, s = [p EXCEPT !.pc = x, !.list = q]
    PROVE  Looks(s, x, p.conds, p.base, p.todo, q, p.led)
BY DEF IsPass, Looks

LEMMA LedChanges ==
    ASSUME NEW p, IsPass(p), NEW x, NEW l, NEW s, s = [p EXCEPT !.pc = x, !.led = l]
    PROVE  Looks(s, x, p.conds, p.base, p.todo, p.list, l)
BY DEF IsPass, Looks

LEMMA NoPassIs ==
    /\ IsPass(NoPass) /\ NoPass.pc = "idle" /\ NoPass.todo = {}
    /\ \A h, s, au : PassOK(NoPass, h, s, au)
<1>1. IsPass(NoPass) /\ NoPass.pc = "idle" /\ NoPass.todo = {}
  BY DEF NoPass, IsPass
<1> QED BY <1>1 DEF PassOK

(* A pass that is neither about to move a row nor about to compare or write. *)
LEMMA EasyPass ==
    ASSUME NEW s, NEW x, x \notin {"update", "check", "zero", "upsert"},
           NEW c, NEW b, NEW d, NEW q, NEW l, Looks(s, x, c, b, d, q, l),
           NEW h, d \subseteq 1..Len(h), NEW t, NEW au
    PROVE  PassOK(s, h, t, au)
BY DEF PassOK, Looks

-----------------------------------------------------------------------------
(* One lemma per action *)

LEMMA SignStep ==
    ASSUME LedgerInv, NEW t \in Token, Sign(t)
    PROVE  LedgerInv'
<1>1. hist' = hist /\ signed \subseteq signed' /\ cache' = cache /\ acts' = acts
      /\ audit' = audit /\ pass' = pass /\ pos' = pos
  BY DEF Sign, store, snap
<1>2. IsHist(hist') /\ Grows(hist, hist') /\ FillsSigned(hist', signed')
  BY <1>1, SameGrows DEF LedgerInv, FillsSigned
<1> QED BY <1>1, <1>2, Beside

(* Something happens to the account. *)
LEMMA HappensStep ==
    ASSUME LedgerInv, NEW e, Happens(e), e.kind = "FILL" => e.tok \in signed,
           signed' = signed, cache' = cache, acts' = acts, audit' = audit, pass' = pass,
           pos' = pos
    PROVE  LedgerInv'
<1>1. hist' = Append(hist, e)
  BY DEF Happens
<1>2. /\ IsHist(hist') /\ Grows(hist, hist')
      /\ Len(hist') = Len(hist) + 1 /\ hist'[Len(hist) + 1] = e
  BY <1>1, AppendGrows DEF LedgerInv
<1>3. ASSUME NEW n \in 1..Len(hist'), hist'[n].kind = "FILL" PROVE hist'[n].tok \in signed'
  <2>1. n \in 1..Len(hist) \/ n = Len(hist) + 1
    BY <1>2 DEF Grows
  <2>2. CASE n \in 1..Len(hist)
    <3>1. hist'[n] = hist[n]
      BY <1>2, <2>2 DEF Grows
    <3> QED BY <1>3, <2>2, <3>1 DEF LedgerInv, FillsSigned
  <2>3. CASE n = Len(hist) + 1
    <3>1. hist'[n] = e
      BY <1>2, <2>3
    <3> QED BY <1>3, <3>1
  <2> QED BY <2>1, <2>2, <2>3
<1>4. FillsSigned(hist', signed') /\ signed \subseteq signed'
  BY <1>3 DEF FillsSigned
<1> QED BY <1>2, <1>4, Beside

LEMMA BotTradeStep ==
    ASSUME LedgerInv, NEW side, NEW t, BotTrade(side, t)
    PROVE  LedgerInv'
<1> DEFINE e == Fill(side, t, 1, 1)
<1>1. /\ Happens(e) /\ t \in signed /\ signed' = signed /\ cache' = cache /\ acts' = acts
      /\ audit' = audit /\ pass' = pass /\ pos' = pos
  BY DEF BotTrade, store, snap
<1>2. e.tok = t
  BY DEF Fill
<1> HIDE DEF e
<1> QED BY <1>1, <1>2, HappensStep

LEMMA ActivityStep ==
    ASSUME LedgerInv, NEW k, k # "FILL", NEW c, NEW a, Happens(Activity(k, c, a)),
           signed' = signed, cache' = cache, acts' = acts, audit' = audit, pass' = pass,
           pos' = pos
    PROVE  LedgerInv'
<1> DEFINE e == Activity(k, c, a)
<1>1. Happens(e) /\ e.kind = k
  BY DEF Activity
<1> HIDE DEF e
<1> QED BY <1>1, HappensStep

LEMMA RedeemMarketStep ==
    ASSUME LedgerInv, NEW t \in Token, RedeemMarket(t)
    PROVE  LedgerInv'
<1> DEFINE a == Held(t)
<1>1. /\ Happens(Activity("REDEEM", CondOf[t], a)) /\ signed' = signed /\ cache' = cache
      /\ acts' = acts /\ audit' = audit /\ pass' = pass /\ pos' = pos
  BY DEF RedeemMarket, store, snap
<1> HIDE DEF a
<1> QED BY <1>1, ActivityStep

LEMMA HumanActivityStep ==
    ASSUME LedgerInv, NEW c, HumanActivity(c)
    PROVE  LedgerInv'
<1>1. /\ Happens(Activity("MERGE", c, 0)) /\ signed' = signed /\ cache' = cache
      /\ acts' = acts /\ audit' = audit /\ pass' = pass /\ pos' = pos
  BY DEF HumanActivity, store, snap
<1> QED BY <1>1, ActivityStep

(* Steps that leave the account, the scopes, the pass and the table alone. *)
LEMMA StillStep ==
    ASSUME LedgerInv, hist' = hist, signed' = signed, cache' = cache \/ cache' = NoCache,
           acts' = acts, audit' = audit, pass' = pass, pos' = pos
    PROVE  LedgerInv'
<1>1. IsHist(hist') /\ Grows(hist, hist') /\ FillsSigned(hist', signed')
      /\ signed \subseteq signed'
  BY SameGrows DEF LedgerInv
<1> QED BY <1>1, Beside

LEMMA BesideSteps ==
    ASSUME LedgerInv,
           \/ \E t \in HumanToken : HumanTrade(t)
           \/ \E b \in 1 .. MaxEvents + 1 : SetBaseline(b)
           \/ \E n \in Index : StoreFill(n)
           \/ Invalidate \/ CacheExpires
           \/ \E a \in Reader : ReadFills(a)
           \/ UNCHANGED vars
    PROVE  LedgerInv'
<1> DEFINE still == /\ hist' = hist /\ signed' = signed
                    /\ cache' = cache \/ cache' = NoCache
                    /\ acts' = acts
                    /\ audit' = audit /\ pass' = pass /\ pos' = pos
<1>1. (\E t \in HumanToken : HumanTrade(t)) => still
  BY DEF HumanTrade, store, snap
<1>2. (\E b \in 1 .. MaxEvents + 1 : SetBaseline(b)) => still
  BY DEF SetBaseline, store, snap, account
<1>3. (\E n \in Index : StoreFill(n)) => still
  BY DEF StoreFill, account
<1>4. Invalidate \/ CacheExpires => still
  BY DEF Invalidate, CacheExpires, account, store
<1>5. (\E a \in Reader : ReadFills(a)) => still
  BY DEF ReadFills, account, store
<1>6. UNCHANGED vars => still
  BY DEF vars, account, store, snap
<1>7. still
  BY <1>1, <1>2, <1>3, <1>4, <1>5, <1>6
<1> QED BY <1>7, StillStep

LEMMA PassNow ==
    ASSUME LedgerInv
    PROVE  /\ IsPass(pass) /\ PassOK(pass, hist, signed, audit)
           /\ pass.todo \subseteq 1..Len(hist) /\ pass.todo \subseteq Nat
BY DEF LedgerInv, PassOK

LEMMA ComparesWith ==
    ASSUME LedgerInv, NEW l, Grounded(l, hist), NEW s, s = [pass EXCEPT !.pc = "check", !.led = l]
    PROVE  PassOK(s, hist, signed, audit)
<1> DEFINE x == "check"
<1>1. Looks(s, x, pass.conds, pass.base, pass.todo, pass.list, l)
  BY PassNow, LedChanges
<1>2. pass.todo \subseteq 1..Len(hist)
  BY PassNow
<1> QED BY <1>1, <1>2 DEF Looks, PassOK

LEMMA ReadCacheStep ==
    ASSUME LedgerInv, NEW a \in Reader, ReadCache(a)
    PROVE  LedgerInv'
<1>1. /\ hist' = hist /\ signed' = signed /\ cache' = cache
      /\ acts' = acts /\ audit' = audit /\ pos' = pos
  BY DEF ReadCache, account, store
<1>2. CASE pass' = pass
  BY <1>1, <1>2, StillStep
<1>3. CASE cache.set /\ pass' = [pass EXCEPT !.pc = "check", !.led = cache.led]
  <2> DEFINE l == cache.led
  <2>1. Grounded(l, hist)
    BY <1>3 DEF LedgerInv
  <2>2. pass' = [pass EXCEPT !.pc = "check", !.led = l]
    BY <1>3
  <2> HIDE DEF l
  <2>3. PassOK(pass', hist, signed, audit)
    BY <2>1, <2>2, ComparesWith
  <2>4. PassOK(pass', hist, signed, audit') /\ audit \subseteq audit'
    BY <1>1, <2>3
  <2> QED BY <1>1, <2>4, PassMoves
<1> QED BY <1>2, <1>3 DEF ReadCache

LEMMA ReadActsStep ==
    ASSUME LedgerInv, NEW a \in Reader, ReadActs(a)
    PROVE  LedgerInv'
<1> DEFINE S == rd[a].from \cup BotActs
           r == Replay(hist, S, 1)
<1>1. /\ hist' = hist /\ signed' = signed
      /\ acts' = acts /\ audit' = audit /\ pos' = pos
  BY DEF ReadActs, account, store
<1>2. \/ cache' = cache
      \/ cache' = [set |-> TRUE, from |-> rd[a].from, led |-> r]
  BY DEF ReadActs
<1>3. \/ pass' = pass \/ pass' = NoPass
      \/ pass' = [pass EXCEPT !.pc = "check", !.led = r]
  BY DEF ReadActs
<1>4. Grounded(r, hist)
  <2>1. Len(hist) \in Nat
    BY SameGrows
  <2> HIDE DEF S
  <2> QED BY <2>1, ReplayGrounded
<1> HIDE DEF r
<1>5. cache'.set => Grounded(cache'.led, hist')
  BY <1>1, <1>2, <1>4 DEF LedgerInv
<1>6. PassOK(pass', hist, signed, audit)
  <2>1. CASE pass' = pass
    BY <2>1, PassNow
  <2>2. CASE pass' = NoPass
    BY <2>2, NoPassIs
  <2>3. CASE pass' = [pass EXCEPT !.pc = "check", !.led = r]
    BY <1>4, <2>3, ComparesWith
  <2> QED BY <1>3, <2>1, <2>2, <2>3
<1> QED BY <1>1, <1>5, <1>6 DEF LedgerInv

LEMMA StartPassStep ==
    ASSUME LedgerInv, StartPass
    PROVE  LedgerInv'
<1>1. /\ hist' = hist /\ signed' = signed /\ cache' = cache
      /\ acts' = acts /\ audit' = audit /\ pos' = pos
      /\ pass' = [NoPass EXCEPT !.pc = "trades", !.full = full]
  BY DEF StartPass, account, store, snap
<1> DEFINE x == "trades"
           d == NoPass.todo
<1>2. Looks(pass', x, NoPass.conds, NoPass.base, d, NoPass.list, NoPass.led)
  BY <1>1, NoPassIs, FullChanges
<1>3. d \subseteq 1..Len(hist)
  BY NoPassIs
<1> HIDE DEF d
<1>4. PassOK(pass', hist, signed, audit')
  BY <1>2, <1>3, EasyPass
<1> QED BY <1>1, <1>4, PassMoves

LEMMA PassTradesStep ==
    ASSUME LedgerInv, PassTrades
    PROVE  LedgerInv'
<1> DEFINE y == IF \E t \in Token : other[t] > 0 THEN {signed} ELSE {}
<1>1. /\ hist' = hist /\ signed' = signed /\ cache' = NoCache
      /\ acts' = acts /\ audit' = audit /\ pos' = pos
      /\ pass' = [pass EXCEPT !.pc = "acts", !.toks = y]
  BY DEF PassTrades, account
<1> HIDE DEF y
<1> DEFINE x == "acts"
<1>2. Looks(pass', x, pass.conds, pass.base, pass.todo, pass.list, pass.led)
  BY <1>1, PassNow, ToksChange
<1>3. PassOK(pass', hist, signed, audit')
  BY <1>2, PassNow, EasyPass
<1> QED BY <1>1, <1>3, PassMoves

(* A step of the pass that also moves scopes. *)
LEMMA ScopesMove ==
    ASSUME LedgerInv, hist' = hist, signed' = signed, audit' = audit,
           cache' = cache \/ cache' = NoCache, Audited(acts', audit), pos' = pos,
           PassOK(pass', hist, signed, audit)
    PROVE  LedgerInv'
<1>1. cache'.set => Grounded(cache'.led, hist')
  <2>1. ~NoCache.set
    BY DEF NoCache
  <2> QED BY <2>1 DEF LedgerInv
<1> QED BY <1>1 DEF LedgerInv

LEMMA PassActivitiesStep ==
    ASSUME LedgerInv, PassActivities
    PROVE  LedgerInv'
<1>1. /\ hist' = hist /\ signed' = signed /\ cache' = NoCache
      /\ audit' = audit /\ pos' = pos
      /\ pass' = [pass EXCEPT !.pc = "conds"]
  BY DEF PassActivities, account, Step
<1>2. acts' = [n \in 1 .. MaxEvents |->
                    IF n \in ActivitiesOf(hist) /\ acts[n] = "none" THEN "bot" ELSE acts[n]]
  BY DEF PassActivities
<1>3. Audited(acts', audit)
  <2>1. \A n \in 1..MaxEvents : acts'[n] = "quarantine" => acts[n] = "quarantine"
    BY <1>2
  <2>2. acts' = [n \in 1..MaxEvents |-> acts'[n]]
    BY <1>2
  <2> QED BY <2>1, <2>2 DEF Audited, LedgerInv
<1> DEFINE x == "conds"
<1>4. Looks(pass', x, pass.conds, pass.base, pass.todo, pass.list, pass.led)
  BY <1>1, PassNow, PcChanges
<1>5. PassOK(pass', hist, signed, audit)
  BY <1>4, PassNow, EasyPass
<1> QED BY <1>1, <1>3, <1>5, ScopesMove

LEMMA ReadConditionsStep ==
    ASSUME LedgerInv, ReadConditions
    PROVE  LedgerInv'
<1> DEFINE y == {CondOf[t] : t \in signed}
           b == base.at
           d == {n \in Index : acts[n] # "none"}
<1>1. /\ hist' = hist /\ signed' = signed /\ cache' = NoCache
      /\ acts' = acts /\ audit' = audit /\ pos' = pos
      /\ pass' = [pass EXCEPT !.pc = "scope", !.conds = y, !.base = b, !.todo = d]
  BY DEF ReadConditions, account, store
<1>2. d \subseteq 1..Len(hist)
  BY DEF Index
<1> HIDE DEF y, b, d
<1> DEFINE x == "scope"
<1>3. Looks(pass', x, y, b, d, pass.list, pass.led)
  BY <1>1, PassNow, CondsChange
<1>4. PassOK(pass', hist, signed, audit')
  BY <1>2, <1>3, EasyPass
<1> QED BY <1>1, <1>4, PassMoves

LEMMA RowIs ==
    ASSUME LedgerInv, pass.todo # {}
    PROVE  Row = Min(pass.todo) /\ NewScope(Row) = ScopeOf(hist, pass, Min(pass.todo))
BY DEF Row, NewScope, ScopeOf

LEMMA ClassifyStep ==
    ASSUME LedgerInv, Classify
    PROVE  LedgerInv'
<1>1. /\ hist' = hist /\ signed' = signed /\ cache' = cache
      /\ acts' = acts /\ pos' = pos /\ pass.pc = "scope" /\ pass.todo # {}
  BY DEF Classify, account, snap
<1> DEFINE d == pass.todo \ {Row}
<1>2. CASE pass' = [pass EXCEPT !.todo = d] /\ audit' = audit
  <2>1. d \subseteq 1..Len(hist)
    BY PassNow
  <2> HIDE DEF d
  <2>2. Looks(pass', pass.pc, pass.conds, pass.base, d, pass.list, pass.led)
    BY <1>2, PassNow, TodoChanges
  <2>3. PassOK(pass', hist, signed, audit')
    BY <1>1, <2>1, <2>2, EasyPass
  <2> QED BY <1>1, <1>2, <2>3, PassMoves
<1>3. CASE /\ pass' = [pass EXCEPT !.pc = "update"]
           /\ audit' = IF NewScope(Row) = "quarantine" THEN audit \cup {Row} ELSE audit
  <2> DEFINE x == "update"
  <2>1. Looks(pass', x, pass.conds, pass.base, pass.todo, pass.list, pass.led)
    BY <1>3, PassNow, PcChanges
  <2>2. ScopeOf(hist, pass', Min(pass'.todo)) = ScopeOf(hist, pass, Min(pass.todo))
    BY <2>1 DEF ScopeOf, Looks
  <2>3. ScopeOf(hist, pass, Min(pass.todo)) = "quarantine" => Min(pass.todo) \in audit'
    BY <1>1, <1>3, RowIs
  <2>4. PassOK(pass', hist, signed, audit')
    BY <1>1, <2>1, <2>2, <2>3, PassNow DEF Looks, PassOK
  <2>5. audit \subseteq audit'
    BY <1>3
  <2> QED BY <1>1, <2>4, <2>5, PassMoves
<1> QED BY <1>2, <1>3 DEF Classify, Step

LEMMA UpdateScopeStep ==
    ASSUME LedgerInv, UpdateScope
    PROVE  LedgerInv'
<1> DEFINE d == pass.todo \ {Row}
<1>1. /\ hist' = hist /\ signed' = signed /\ cache' = cache
      /\ audit' = audit /\ pos' = pos /\ pass.pc = "update"
      /\ pass' = [pass EXCEPT !.pc = "scope", !.todo = d]
      /\ acts' = [acts EXCEPT ![Row] = NewScope(Row)]
  BY DEF UpdateScope, account, snap
<1>2. pass.todo # {}
  BY <1>1, PassNow DEF PassOK
<1>3. d \subseteq 1..Len(hist)
  BY PassNow
<1> HIDE DEF d
<1> DEFINE x == "scope"
<1>4. Looks(pass', x, pass.conds, pass.base, d, pass.list, pass.led)
  BY <1>1, PassNow, PcTodoChange
<1>5. PassOK(pass', hist, signed, audit)
  BY <1>3, <1>4, EasyPass
<1>6. Audited(acts', audit)
  <2> DEFINE r == Row
             c == NewScope(r)
  <2>1. c = "quarantine" => r \in audit
    BY <1>1, <1>2, RowIs, PassNow DEF PassOK
  <2>2. acts' = [acts EXCEPT ![r] = c]
    BY <1>1
  <2> HIDE DEF c, r
  <2>3. acts = [n \in 1..MaxEvents |-> acts[n]]
    BY DEF LedgerInv, Audited
  <2>4. acts' = [n \in 1..MaxEvents |-> IF n = r THEN c ELSE acts[n]]
    BY <2>2, <2>3
  <2>5. acts' = [n \in 1..MaxEvents |-> acts'[n]]
    BY <2>4
  <2>6. \A n \in 1..MaxEvents : acts'[n] = "quarantine" =>
           (n = r /\ c = "quarantine") \/ acts[n] = "quarantine"
    BY <2>4
  <2> QED BY <2>1, <2>5, <2>6 DEF Audited, LedgerInv
<1> QED BY <1>1, <1>5, <1>6, ScopesMove

LEMMA ListPositionsStep ==
    ASSUME LedgerInv, ListPositions
    PROVE  LedgerInv'
<1>1. /\ hist' = hist /\ signed' = signed /\ cache' = cache
      /\ acts' = acts /\ audit' = audit /\ pos' = pos
  BY DEF ListPositions, account, store, snap
<1>2. PICK q : pass' = [pass EXCEPT !.pc = "ledger", !.list = q]
  BY DEF ListPositions
<1> DEFINE x == "ledger"
<1>3. Looks(pass', x, pass.conds, pass.base, pass.todo, q, pass.led)
  BY <1>2, PassNow, ListChanges
<1>4. PassOK(pass', hist, signed, audit')
  BY <1>3, PassNow, EasyPass
<1> QED BY <1>1, <1>4, PassMoves

(* When the exchange and the ledger differ in foreign tokens only, what the   *)
(* pass is about to write is explained.                                       *)
LEMMA OwnedIsExplained ==
    ASSUME LedgerInv, pass.pc = "check", Differs \subseteq Foreign
    PROVE  Explained(Owned(pass.list), hist, signed)
<1> SUFFICES ASSUME NEW t \in Token, Owned(pass.list)[t] > 0, t \notin signed
             PROVE  RedeemedIn(hist, CondOf[t])
  BY DEF Explained
<1>1. t \notin Foreign /\ pass.list[t] > 0
  BY DEF Owned
<1>2. Live(t) = pass.led.qty[t]
  BY <1>1 DEF Differs
<1>3. Grounded(pass.led, hist)
  BY PassNow DEF PassOK
<1>4. CASE CondOf[t] \in pass.led.red
  BY <1>3, <1>4 DEF Grounded
<1>5. CASE CondOf[t] \notin pass.led.red
  <2>1. pass.led.qty[t] > 0
    BY <1>1, <1>2, <1>5 DEF Live
  <2>2. FilledIn(hist, t)
    BY <1>3, <2>1 DEF Grounded
  <2> QED BY <2>2 DEF FilledIn, FillsSigned, LedgerInv
<1> QED BY <1>4, <1>5

LEMMA ComparePositionsStep ==
    ASSUME LedgerInv, ComparePositions
    PROVE  LedgerInv'
<1> DEFINE q == Owned(pass.list)
<1>1. /\ hist' = hist /\ signed' = signed /\ cache' = cache
      /\ acts' = acts /\ audit' = audit /\ pos' = pos /\ pass.pc = "check"
  BY DEF ComparePositions, account, store, snap
<1>2. CASE pass' = NoPass
  <2>1. PassOK(pass', hist, signed, audit')
    BY <1>2, NoPassIs
  <2> QED BY <1>1, <2>1, PassMoves
<1>3. CASE Differs \subseteq Foreign /\ pass' = [pass EXCEPT !.pc = "zero", !.list = q]
  <2>1. Explained(q, hist, signed)
    BY <1>1, <1>3, OwnedIsExplained
  <2> HIDE DEF q
  <2> DEFINE x == "zero"
  <2>2. Looks(pass', x, pass.conds, pass.base, pass.todo, q, pass.led)
    BY <1>3, PassNow, ListChanges
  <2>3. PassOK(pass', hist, signed, audit')
    BY <2>1, <2>2, PassNow DEF Looks, PassOK
  <2> QED BY <1>1, <2>3, PassMoves
<1> QED BY <1>2, <1>3 DEF ComparePositions

(* A step of the pass that writes the table. *)
LEMMA TableMoves ==
    ASSUME LedgerInv, hist' = hist, signed' = signed, audit' = audit, cache' = cache,
           acts' = acts, pos' = [t \in Token |-> pos'[t]], Explained(pos', hist, signed),
           PassOK(pass', hist, signed, audit)
    PROVE  LedgerInv'
BY DEF LedgerInv

LEMMA ZeroPositionsStep ==
    ASSUME LedgerInv, ZeroPositions
    PROVE  LedgerInv'
<1>1. /\ hist' = hist /\ signed' = signed /\ cache' = cache
      /\ acts' = acts /\ audit' = audit /\ pass.pc = "zero"
      /\ pass' = [pass EXCEPT !.pc = "upsert"]
      /\ pos' = [t \in Token |-> IF pass.list[t] = 0 THEN 0 ELSE pos[t]]
  BY DEF ZeroPositions, account, snap, Step
<1>2. pos' = [t \in Token |-> pos'[t]] /\ \A t \in Token : pos'[t] > 0 => pos[t] > 0
  BY <1>1
<1>3. Explained(pos', hist, signed)
  BY <1>2 DEF Explained, LedgerInv
<1>4. Explained(pass.list, hist, signed)
  BY <1>1, PassNow DEF PassOK
<1> DEFINE x == "upsert"
<1>5. Looks(pass', x, pass.conds, pass.base, pass.todo, pass.list, pass.led)
  BY <1>1, PassNow, PcChanges
<1>6. PassOK(pass', hist, signed, audit)
  BY <1>4, <1>5, PassNow DEF Looks, PassOK
<1> QED BY <1>1, <1>2, <1>3, <1>6, TableMoves

LEMMA UpsertPositionsStep ==
    ASSUME LedgerInv, UpsertPositions
    PROVE  LedgerInv'
<1>1. /\ hist' = hist /\ signed' = signed /\ cache' = cache
      /\ acts' = acts /\ audit' = audit /\ pass.pc = "upsert" /\ pass' = NoPass
      /\ pos' = [t \in Token |-> IF pass.list[t] > 0 THEN pass.list[t] ELSE pos[t]]
  BY DEF UpsertPositions, account, snap
<1>2. /\ pos' = [t \in Token |-> pos'[t]]
      /\ \A t \in Token : pos'[t] > 0 => pass.list[t] > 0 \/ pos[t] > 0
  BY <1>1
<1>3. Explained(pass.list, hist, signed)
  BY <1>1, PassNow DEF PassOK
<1>4. Explained(pos', hist, signed)
  BY <1>2, <1>3 DEF Explained, LedgerInv
<1>5. PassOK(pass', hist, signed, audit)
  BY <1>1, NoPassIs
<1> QED BY <1>1, <1>2, <1>4, <1>5, TableMoves

LEMMA PassRaisesStep ==
    ASSUME LedgerInv, PassRaises
    PROVE  LedgerInv'
<1>1. /\ hist' = hist /\ signed' = signed /\ cache' = cache
      /\ acts' = acts /\ audit' = audit /\ pos' = pos /\ pass' = NoPass
  BY DEF PassRaises, account, store, snap
<1>2. PassOK(pass', hist, signed, audit')
  BY <1>1, NoPassIs
<1> QED BY <1>1, <1>2, PassMoves

-----------------------------------------------------------------------------
(* The theorems *)

LEMMA Initial == Init => LedgerInv
<1> SUFFICES ASSUME Init PROVE LedgerInv
  OBVIOUS
<1>1. IsHist(hist) /\ Len(hist) = 0
  <2>1. hist \in Seq({})
    BY DEF Init
  <2> QED BY <2>1 DEF IsHist, Init
<1>2. FillsSigned(hist, signed)
  BY <1>1 DEF FillsSigned
<1>3. ~cache.set
  BY DEF Init, NoCache
<1>4. Audited(acts, audit)
  BY DEF Init, Audited
<1>5. PassOK(pass, hist, signed, audit)
  BY NoPassIs DEF Init
<1>6. pos = [t \in Token |-> pos[t]] /\ Explained(pos, hist, signed)
  BY DEF Init, Explained
<1> QED BY <1>1, <1>2, <1>3, <1>4, <1>5, <1>6 DEF LedgerInv

LEMMA PassKeepsInv ==
    ASSUME LedgerInv, PassStep \/ PassRaises
    PROVE  LedgerInv'
BY StartPassStep, PassTradesStep, PassActivitiesStep, ReadConditionsStep, ClassifyStep,
   UpdateScopeStep, ListPositionsStep, ComparePositionsStep, ZeroPositionsStep,
   UpsertPositionsStep, PassRaisesStep DEF PassStep

(* The invariant is inductive. *)
LEMMA Inductive ==
    ASSUME LedgerInv, [Next]_vars
    PROVE  LedgerInv'
<1>1. ASSUME NEW t \in BotToken, Sign(t) \/ \E side \in {"BUY", "SELL"} : BotTrade(side, t)
      PROVE  LedgerInv'
  <2>1. t \in Token
    BY PassAssumption
  <2> QED BY <1>1, <2>1, SignStep, BotTradeStep
<1>2. ASSUME NEW t \in Token, RedeemMarket(t) PROVE LedgerInv'
  BY <1>2, RedeemMarketStep
<1>3. ASSUME NEW c \in Condition, HumanActivity(c) PROVE LedgerInv'
  BY <1>3, HumanActivityStep
<1>4. ASSUME NEW a \in Reader, ReadCache(a) \/ ReadActs(a) PROVE LedgerInv'
  BY <1>4, ReadCacheStep, ReadActsStep
<1>5. CASE \/ \E t \in HumanToken : HumanTrade(t)
           \/ \E b \in 1 .. MaxEvents + 1 : SetBaseline(b)
           \/ \E n \in Index : StoreFill(n)
           \/ Invalidate \/ CacheExpires
           \/ \E a \in Reader : ReadFills(a)
           \/ UNCHANGED vars
  BY <1>5, BesideSteps
<1>6. CASE PassStep \/ PassRaises
  BY <1>6, PassKeepsInv
<1> QED BY <1>1, <1>2, <1>3, <1>4, <1>5, <1>6 DEF Next

(* Whatever a human does beside it, however the list of positions lags and    *)
(* whichever call raises, a pass (_reconcile_rest_once) keeps the invariant:  *)
(* what it moves is audited, what it writes is explained.                     *)
THEOREM LedgerInvariant == Spec => []LedgerInv
<1>1. Init => LedgerInv
  BY Initial
<1>2. LedgerInv /\ [Next]_vars => LedgerInv'
  BY Inductive
<1> QED BY <1>1, <1>2, PTL DEF Spec

(* "Audit first" (reconcile_activity_scope): in every behaviour, whatever     *)
(* calls fail and whatever the bounds, an activity in the quarantine scope    *)
(* has its audit row.                                                         *)
THEOREM QuarantineIsAudited == Spec => []AuditFirst
<1>1. LedgerInv => AuditFirst
  BY DEF LedgerInv, Audited, AuditFirst
<1> QED BY <1>1, LedgerInvariant, PTL

(* Foreign inventory stays out of the positions table while its market is     *)
(* open (_reconcile_rest_once, reconcile_positions), for every number of      *)
(* tokens, markets and events, with and without the quarantine.               *)
THEOREM ForeignInventoryStaysOut == Spec => []ForeignStaysOut
<1>1. LedgerInv => ForeignStaysOut
  <2> SUFFICES ASSUME LedgerInv, NEW t \in Token, pos[t] > 0, t \notin signed
               PROVE  \E n \in Index : hist[n].kind = "REDEEM" /\ hist[n].cond = CondOf[t]
    BY DEF ForeignStaysOut
  <2>1. RedeemedIn(hist, CondOf[t])
    BY DEF LedgerInv, Explained
  <2> QED BY <2>1 DEF RedeemedIn, Index
<1> QED BY <1>1, LedgerInvariant, PTL
=============================================================================
