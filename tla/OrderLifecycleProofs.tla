------------------------ MODULE OrderLifecycleProofs ------------------------
(***************************************************************************)
(* Two safety properties of OrderLifecycle, for any number of trades, any  *)
(* size of the order and any faults.                                       *)
(*                                                                         *)
(* CancellationTheorem: a row reads cancelled only when the order is gone. *)
(* While the order is open nothing that is on its way to the row (events,  *)
(* reads, payloads) says cancelled, and a pass can miss the order only     *)
(* once: the pass during which it was posted, before queries show it.      *)
(*                                                                         *)
(* CursorTheorem: no trade of ours is lost behind the cursor.  The cursor  *)
(* never passes a trade still to come, and in a pass every matched trade   *)
(* below the cursor to be is stored, listed, or in the hand of the call    *)
(* that stores it.                                                         *)
(***************************************************************************)
EXTENDS OrderLifecycle, TLAPS, FiniteSetTheorems, SequenceTheorems,
        WellFoundedInduction

-----------------------------------------------------------------------------
(* What rows, calls, events and passes may say while the exchange has the   *)
(* trades M and the order in state e.                                       *)

RowOK(r, M, e) ==
    /\ r \in Row
    /\ r.ids \subseteq M
    /\ e \in {"none", "live"} => r.st # "cancelled"
    /\ e = "none" => r.id = FALSE /\ r.miss = 0 /\ r.ids = {}

TradeCall == {"t1", "t2", "t3"}

TaskOK(k, M, e) ==
    /\ k \in Task
    /\ RowOK(k.data, M, e)
    /\ e = "none" => k = NoTask
    /\ e = "live" => k.st # "cancelled"
    /\ k.pc \in TradeCall => k.t \in M /\ k.st \in Settlement \ {"none"}
    /\ k.pc = "o1" => k.st \in Closed \cup {"live"}
    /\ k.pc = "o2" => k.data.miss = 0

EventOK(v, M, e) ==
    /\ v \in Event
    /\ e = "none" => v.kind = "foreign"
    /\ v.kind = "trade" => v.t \in M /\ v.st \in Settlement \ {"none"}
    /\ v.kind = "order" => v.st \in Closed \cup {"live"} /\ v.n \in Nat
                           /\ (e = "live" => v.st # "cancelled")

PassOK(p, M, e, vis) ==
    /\ p \in Pass
    /\ e = "none" => p.pc \notin {"get", "confirm", "write"} /\ p.absent = FALSE
                     /\ p.todo = {}
    /\ e = "live" /\ vis = TRUE => p.absent = FALSE
    /\ p.pc \in {"confirm", "write"} => p.absent = TRUE
    /\ p.pc = "each" => \A x \in p.todo : x[1] \in M /\ x[2] # "none"
    /\ p.pc = "poll" => \A x \in p.todo : x[1] \in M

SaverOK(s, M, e) ==
    /\ s \in Saver
    /\ s.ids \subseteq M
    /\ RowOK(s.data, M, e)
    /\ s.pc \in {"idle", "reserved"} => e = "none"
    /\ s.pc \notin {"idle", "reserved", "done"} => e # "none"
    /\ s.id = TRUE => e # "none"

-----------------------------------------------------------------------------
(* The invariant *)

(* The trades of the order are matched one after the other, up to its size. *)
TradesOK ==
    /\ ex \in [st : Closed \cup {"none", "live"}, vis : BOOLEAN]
    /\ tr \in [Trade -> Settlement]
    /\ IsFiniteSet(Matched) /\ Cardinality(Matched) <= Size
    /\ ex.st = "live" => Cardinality(Matched) < Size
    /\ ex.st = "none" => Matched = {}
    /\ \A t \in Matched, u \in Trade : u < t => u \in Matched
    /\ \E m \in Matched \cup {0} : \A u \in Matched : u <= m

FillOK ==
    /\ fill \in [Trade -> Settlement]
    /\ \A t \in Trade : fill[t] # "none" => t \in Matched

QueueOK ==
    /\ wsq \in Seq(Event)
    /\ \A i \in 1 .. Len(wsq) : EventOK(wsq[i], Matched, ex.st)

RestOK ==
    /\ owned \in BOOLEAN /\ link \in {"up", "down"} /\ healthy \in BOOLEAN
    /\ cache \in {"unset", "without", "with"} /\ quar \in BOOLEAN /\ cursor \in Nat

(* While queries do not show the order, a pass that may look for it has not *)
(* missed it before.                                                        *)
MissOK ==
    ex.st = "live" /\ ex.vis = FALSE /\ pass.pc \notin {"idle", "pos"} => row.miss = 0

(* A moment that no trade still to come lies before. *)
Reached(n) == \A t \in Trade : t < n => t \in Matched

Listed == {"each", "poll", "confirm", "write", "pos"}

InHand(t) ==
    \/ pass.pc = "each" /\ \E x \in pass.todo : x[1] = t
    \/ task["rest"].pc \in TradeCall /\ task["rest"].t = t

(* The trades below the cursor to be, or below one that is yet to be taken. *)
Due(t) ==
    \/ t < pass.latest
    \/ pass.pc = "each" /\ \E x \in pass.todo : t < x[1]

CursorOK ==
    /\ Reached(cursor) /\ Reached(pass.latest)
    /\ quar = FALSE =>
          /\ \A t \in Matched : t < cursor => fill[t] # "none"
          /\ pass.pc \in Listed =>
                \A t \in Matched : Due(t) => fill[t] # "none" \/ InHand(t)

OrderOK ==
    /\ TradesOK /\ RestOK /\ FillOK /\ QueueOK
    /\ RowOK(row, Matched, ex.st)
    /\ SaverOK(saver, Matched, ex.st)
    /\ task \in [Actor -> Task]
    /\ \A a \in Actor : TaskOK(task[a], Matched, ex.st)
    /\ PassOK(pass, Matched, ex.st, ex.vis)
    /\ MissOK /\ CursorOK

-----------------------------------------------------------------------------
(* Records *)

LEMMA RowFields ==
    ASSUME NEW r \in Row
    PROVE  /\ r.st \in RowStatus /\ r.filled \in 0 .. Size /\ r.miss \in Nat
           /\ r.id \in BOOLEAN /\ r.held \in BOOLEAN /\ r.ids \in SUBSET Trade
BY DEF Row

LEMMA TaskFields ==
    ASSUME NEW k \in Task
    PROVE  /\ k.pc \in {"idle", "o1", "o2", "t1", "t2", "t3", "t4", "t5"}
           /\ k.st \in Settlement \cup Closed \cup {"live"}
           /\ k.n \in Nat /\ k.t \in Trade \cup {0} /\ k.data \in Row
BY DEF Task

LEMMA PassFields ==
    ASSUME NEW p \in Pass
    PROVE  /\ p.pc \in {"idle", "snap", "get", "list", "each", "pend", "poll", "absent",
                        "confirm", "write", "pos"}
           /\ p.listed \in BOOLEAN /\ p.absent \in BOOLEAN
           /\ p.todo \in SUBSET (Trade \X Settlement)
           /\ p.seen \in SUBSET Trade /\ p.latest \in Nat
BY DEF Pass

LEMMA SaverFields ==
    ASSUME NEW s \in Saver
    PROVE  /\ s.pc \in {"idle", "reserved", "posted", "read1", "write1", "read2",
                        "write2", "done"}
           /\ s.st \in {"none", "submitted", "unknown"}
           /\ s.id \in BOOLEAN /\ s.held \in BOOLEAN
           /\ s.ids \in SUBSET Trade /\ s.data \in Row
BY DEF Saver

LEMMA StatusFacts ==
    /\ "none" \in RowStatus /\ "submitting" \in RowStatus /\ "cancelled" \in RowStatus
    /\ "unknown" \in RowStatus /\ "submitted" \in RowStatus /\ "live" \in RowStatus
    /\ "matched" \in RowStatus /\ "mined" \in RowStatus /\ "confirmed" \in RowStatus
    /\ "failed" \in RowStatus /\ "partially_filled" \in RowStatus
BY DEF RowStatus, Open

LEMMA NoRowOK ==
    ASSUME NEW M, NEW e
    PROVE  RowOK(NoRow, M, e) /\ NoRow \in Row
<1>1. NoRow \in Row
  BY StatusFacts, OrderAssumption DEF NoRow, Row
<1> QED BY <1>1 DEF RowOK, NoRow

LEMMA NoTaskOK ==
    ASSUME NEW M, NEW e
    PROVE  TaskOK(NoTask, M, e) /\ NoTask \in Task
<1>1. NoTask \in Task
  BY NoRowOK DEF NoTask, Task, Settlement
<1>2. NoTask.data = NoRow /\ NoTask.pc = "idle" /\ NoTask.st = "none"
  BY DEF NoTask
<1> QED BY <1>1, <1>2, NoRowOK DEF TaskOK, TradeCall

LEMMA NoPassOK ==
    ASSUME NEW M, NEW e, NEW v
    PROVE  PassOK(NoPass, M, e, v) /\ NoPass \in Pass
<1>1. NoPass \in Pass
  BY DEF NoPass, Pass
<1> QED BY <1>1 DEF PassOK, NoPass

LEMMA NoSaverOK ==
    ASSUME NEW M
    PROVE  SaverOK(NoSaver, M, "none") /\ NoSaver \in Saver
<1>1. NoSaver \in Saver
  BY NoRowOK DEF NoSaver, Saver
<1>2. NoSaver.data = NoRow /\ NoSaver.pc = "idle" /\ NoSaver.id = FALSE /\ NoSaver.ids = {}
  BY DEF NoSaver
<1> QED BY <1>1, <1>2, NoRowOK DEF SaverOK

LEMMA DoneSaverOK ==
    ASSUME NEW M, NEW e
    PROVE  SaverOK([NoSaver EXCEPT !.pc = "done"], M, e)
<1> DEFINE s == [NoSaver EXCEPT !.pc = "done"]
<1>1. s \in Saver
  BY NoRowOK DEF NoSaver, Saver
<1>2. s.data = NoRow /\ s.pc = "done" /\ s.id = FALSE /\ s.ids = {}
  BY DEF NoSaver
<1> QED BY <1>1, <1>2, NoRowOK DEF SaverOK

-----------------------------------------------------------------------------
(* The merge functions *)

LEMMA Smallest ==
    ASSUME NEW a \in Nat, NEW b \in Nat
    PROVE  /\ Max({a, b}) \in Nat /\ Max({a, b}) >= a /\ Max({a, b}) >= b
           /\ Max({a, b}) \in {a, b}
           /\ Min({a, b}) \in {a, b} /\ Min({a, b}) <= a /\ Min({a, b}) <= b
<1>1. \E x \in {a, b} : \A y \in {a, b} : x >= y
  OBVIOUS
<1>2. \E x \in {a, b} : \A y \in {a, b} : x <= y
  OBVIOUS
<1>3. Max({a, b}) \in {a, b} /\ \A y \in {a, b} : Max({a, b}) >= y
  BY <1>1 DEF Max
<1>4. Min({a, b}) \in {a, b} /\ \A y \in {a, b} : Min({a, b}) =< y
  BY <1>2 DEF Min
<1> QED BY <1>3, <1>4

LEMMA ReportedStatusIs ==
    ASSUME NEW cur \in RowStatus, NEW inc \in Closed \cup {"live"}, NEW f
    PROVE  /\ ReportedStatus(cur, inc, f) \in RowStatus
           /\ cur # "cancelled" /\ inc # "cancelled"
                => ReportedStatus(cur, inc, f) # "cancelled"
<1>1. inc \in RowStatus
  BY StatusFacts DEF Closed
<1> DEFINE st == IF 0 < f /\ f < Size /\ inc # "cancelled" THEN "partially_filled"
                 ELSE IF f >= Size /\ inc = "live" THEN "matched" ELSE inc
<1>2. st \in RowStatus /\ (inc # "cancelled" => st # "cancelled")
  BY <1>1, StatusFacts
<1>3. ReportedStatus(cur, inc, f) \in {cur, st}
  <2> HIDE DEF st
  <2>1. ReportedStatus(cur, inc, f)
          = CASE cur = "confirmed" -> cur
              [] cur \in {"cancelled", "failed"} ->
                    IF f >= Size /\ st = "matched" THEN st ELSE cur
              [] OTHER -> IF Rank(cur) > Rank(st) THEN cur ELSE st
    BY DEF ReportedStatus, st
  <2> QED BY <2>1
<1> QED BY <1>2, <1>3

LEMMA ReportedRowOK ==
    ASSUME NEW M, NEW e, e # "none", NEW r, RowOK(r, M, e),
           NEW inc \in Closed \cup {"live"}, e = "live" => inc # "cancelled",
           NEW n \in Nat
    PROVE  RowOK(ReportedRow(r, inc, n), M, e) /\ ReportedRow(r, inc, n).miss = 0
<1> DEFINE f == Min({Size, Max({r.filled, n})})
           s == ReportedStatus(r.st, inc, f)
<1>1. r \in Row /\ r.ids \subseteq M /\ (e = "live" => r.st # "cancelled")
  BY DEF RowOK
<1>2. f \in 0 .. Size
  BY <1>1, RowFields, Smallest, OrderAssumption
<1>3. s \in RowStatus /\ (e = "live" => s # "cancelled")
  BY <1>1, RowFields, ReportedStatusIs
<1>4. ReportedRow(r, inc, n) = [r EXCEPT !.filled = f, !.miss = 0, !.st = s]
  BY DEF ReportedRow
<1> HIDE DEF f, s
<1>5. /\ [r EXCEPT !.filled = f, !.miss = 0, !.st = s] \in Row
      /\ [r EXCEPT !.filled = f, !.miss = 0, !.st = s].ids = r.ids
      /\ [r EXCEPT !.filled = f, !.miss = 0, !.st = s].st = s
      /\ [r EXCEPT !.filled = f, !.miss = 0, !.st = s].miss = 0
  BY <1>1, <1>2, <1>3 DEF Row
<1> QED BY <1>1, <1>3, <1>4, <1>5 DEF RowOK

LEMMA MergedFillIs ==
    ASSUME NEW cur \in Settlement, NEW inc \in Settlement \ {"none"}
    PROVE  MergedFill(cur, inc) \in Settlement \ {"none"}
BY DEF MergedFill, Settlement, Pending, Final

LEMMA AggregateIs ==
    ASSUME NEW cur \in RowStatus, NEW fs
    PROVE  /\ AggregateStatus(cur, fs) \in RowStatus
           /\ cur # "cancelled" => AggregateStatus(cur, fs) # "cancelled"
BY StatusFacts DEF AggregateStatus

LEMMA FilledRowOK ==
    ASSUME NEW M, IsFiniteSet(M), Cardinality(M) <= Size, NEW e, e # "none",
           NEW cur \in RowStatus, e = "live" => cur # "cancelled",
           NEW fs \in [Trade -> Settlement], \A t \in Trade : fs[t] # "none" => t \in M
    PROVE  RowOK(FilledRow(cur, fs), M, e)
<1> DEFINE s == AggregateStatus(cur, fs)
           n == Cardinality(Successful(fs))
<1>1. s \in RowStatus /\ (e = "live" => s # "cancelled")
  BY AggregateIs
<1>2. Successful(fs) \in SUBSET M
  BY DEF Successful
<1>3. n \in Nat /\ n <= Cardinality(M) /\ Cardinality(M) \in Nat
  BY <1>2, FS_Subset, FS_CardinalityType
<1>4. n \in 0 .. Size
  BY <1>3, OrderAssumption
<1>5. FilledRow(cur, fs) = [NoRow EXCEPT !.st = s, !.filled = n]
  BY DEF FilledRow
<1> HIDE DEF s, n
<1>6. /\ [NoRow EXCEPT !.st = s, !.filled = n] \in Row
      /\ [NoRow EXCEPT !.st = s, !.filled = n].ids = {}
      /\ [NoRow EXCEPT !.st = s, !.filled = n].st = s
  BY <1>1, <1>4 DEF Row, NoRow
<1> QED BY <1>1, <1>5, <1>6 DEF RowOK

LEMMA SavedRowOK ==
    ASSUME NEW M, NEW e, e # "none", NEW r, RowOK(r, M, e), NEW s, SaverOK(s, M, e)
    PROVE  RowOK([SavedRow(r, s) EXCEPT !.miss = 0], M, e)
<1> DEFINE st == SavedStatus(r.st, s.st)
           id == r.id \/ s.id
           held == r.held \/ s.held
           ids == IF s.ids # {} THEN s.ids ELSE r.ids
<1>1. /\ r \in Row /\ r.ids \subseteq M /\ (e = "live" => r.st # "cancelled")
      /\ s \in Saver /\ s.ids \subseteq M
  BY DEF RowOK, SaverOK
<1>2. st \in RowStatus /\ (e = "live" => st # "cancelled")
  BY <1>1, RowFields, SaverFields, StatusFacts DEF SavedStatus
<1>3. id \in BOOLEAN /\ held \in BOOLEAN /\ ids \in SUBSET Trade /\ ids \subseteq M
  BY <1>1, RowFields, SaverFields
<1>4. [SavedRow(r, s) EXCEPT !.miss = 0]
        = [r EXCEPT !.st = st, !.id = id, !.held = held, !.ids = ids, !.miss = 0]
  BY <1>1 DEF SavedRow, Row
<1> HIDE DEF st, id, held, ids
<1> DEFINE q == [r EXCEPT !.st = st, !.id = id, !.held = held, !.ids = ids, !.miss = 0]
<1>5. q \in Row /\ q.ids = ids /\ q.st = st
  BY <1>1, <1>2, <1>3 DEF Row
<1> HIDE DEF q
<1> QED BY <1>2, <1>3, <1>4, <1>5 DEF RowOK, q

(* A row that differs in what the invariant does not speak of. *)
LEMMA RowLike ==
    ASSUME NEW M, NEW e, e # "none", NEW r, RowOK(r, M, e),
           NEW q \in Row, q.ids = r.ids, e = "live" => q.st # "cancelled"
    PROVE  RowOK(q, M, e)
BY DEF RowOK

LEMMA AbsentRowOK ==
    ASSUME NEW M, NEW e, e # "none", NEW r, RowOK(r, M, e), e = "live" => r.miss = 0
    PROVE  RowOK(AbsentRow(r), M, e)
<1> DEFINE n == r.miss + 1
           s == IF n >= 2 THEN "cancelled" ELSE "unknown"
<1>1. n \in Nat /\ s \in RowStatus /\ (e = "live" => s # "cancelled")
  BY RowFields, StatusFacts DEF RowOK
<1>2. AbsentRow(r) = [NoRow EXCEPT !.miss = n, !.st = s]
  BY DEF AbsentRow
<1> HIDE DEF n, s
<1>3. LET q == [NoRow EXCEPT !.miss = n, !.st = s] IN
      q \in Row /\ q.ids = {} /\ q.st = s
  BY <1>1, NoRowOK DEF Row, NoRow
<1> QED BY <1>1, <1>2, <1>3 DEF RowOK

-----------------------------------------------------------------------------
(* Steps of the exchange: trades are added, an open order closes. *)

LEMMA Growth ==
    ASSUME NEW M, NEW N, M \subseteq N, NEW e, e # "none", NEW f \in {e} \cup Closed
    PROVE  /\ \A r : RowOK(r, M, e) => RowOK(r, N, f)
           /\ \A k : TaskOK(k, M, e) => TaskOK(k, N, f)
           /\ \A v : EventOK(v, M, e) => EventOK(v, N, f)
           /\ \A p, s : PassOK(p, M, e, s) => PassOK(p, N, f, s)
           /\ \A s : SaverOK(s, M, e) => SaverOK(s, N, f)
<1>1. f # "none" /\ (f = "live" => e = "live")
  BY DEF Closed
<1>2. \A r : RowOK(r, M, e) => RowOK(r, N, f)
  BY <1>1 DEF RowOK
<1>3. ASSUME NEW k, TaskOK(k, M, e) PROVE TaskOK(k, N, f)
  BY <1>1, <1>2, <1>3 DEF TaskOK
<1>4. \A v : EventOK(v, M, e) => EventOK(v, N, f)
  BY <1>1 DEF EventOK
<1>5. \A p, s : PassOK(p, M, e, s) => PassOK(p, N, f, s)
  BY <1>1 DEF PassOK
<1>6. ASSUME NEW s, SaverOK(s, M, e) PROVE SaverOK(s, N, f)
  BY <1>1, <1>2, <1>6 DEF SaverOK
<1> QED BY <1>2, <1>3, <1>4, <1>5, <1>6

(* A stream that goes on holding what it may hold. *)
StreamOK(q, M, e) ==
    /\ q \in Seq(Event)
    /\ \A i \in 1 .. Len(q) : EventOK(q[i], M, e)

LEMMA StreamGrows ==
    ASSUME NEW q, NEW es, NEW M, NEW e, StreamOK(q, M, e), StreamOK(es, M, e)
    PROVE  StreamOK(q \o es, M, e)
<1>1. /\ q \in Seq(Event) /\ es \in Seq(Event)
      /\ \A i \in 1 .. Len(q) : EventOK(q[i], M, e)
      /\ \A i \in 1 .. Len(es) : EventOK(es[i], M, e)
  BY DEF StreamOK
<1>2. /\ q \o es \in Seq(Event) /\ Len(q \o es) = Len(q) + Len(es)
      /\ \A i \in 1 .. Len(q) + Len(es) :
            (q \o es)[i] = IF i <= Len(q) THEN q[i] ELSE es[i - Len(q)]
  BY <1>1, ConcatProperties
<1>3. Len(q) \in Nat /\ Len(es) \in Nat
  BY <1>1, LenProperties
<1>4. ASSUME NEW i \in 1 .. Len(q \o es) PROVE EventOK((q \o es)[i], M, e)
  <2>1. CASE i <= Len(q)
    BY <1>1, <1>2, <1>3, <2>1
  <2>2. CASE ~(i <= Len(q))
    <3>1. i - Len(q) \in 1 .. Len(es)
      BY <1>2, <1>3, <2>2
    <3>2. (q \o es)[i] = es[i - Len(q)]
      BY <1>2, <1>3, <2>2
    <3> QED BY <1>1, <3>1, <3>2
  <2> QED BY <2>1, <2>2
<1> QED BY <1>2, <1>4 DEF StreamOK

LEMMA StreamTail ==
    ASSUME NEW q, NEW M, NEW e, StreamOK(q, M, e), q # <<>>
    PROVE  StreamOK(Tail(q), M, e) /\ EventOK(Head(q), M, e)
<1>1. q \in Seq(Event) /\ \A i \in 1 .. Len(q) : EventOK(q[i], M, e)
  BY DEF StreamOK
<1>2. /\ Tail(q) \in Seq(Event) /\ Len(Tail(q)) = Len(q) - 1
      /\ \A i \in 1 .. Len(Tail(q)) : Tail(q)[i] = q[i + 1]
  BY <1>1, HeadTailProperties
<1>3. Len(q) \in Nat \ {0}
  BY <1>1, EmptySeq
<1>4. \A i \in 1 .. Len(Tail(q)) : i + 1 \in 1 .. Len(q)
  BY <1>2, <1>3
<1>5. EventOK(Head(q), M, e)
  BY <1>1, <1>3
<1> QED BY <1>1, <1>2, <1>4, <1>5 DEF StreamOK

LEMMA NoStream ==
    ASSUME NEW M, NEW e
    PROVE  StreamOK(<<>>, M, e)
BY EmptySeq DEF StreamOK

LEMMA OneEvent ==
    ASSUME NEW M, NEW e, NEW v, EventOK(v, M, e)
    PROVE  StreamOK(<<v>>, M, e)
<1>1. v \in Event
  BY DEF EventOK
<1>2. <<v>> \in Seq(Event) /\ Len(<<v>>) = 1 /\ <<v>>[1] = v
  BY <1>1
<1> QED BY <1>2 DEF StreamOK

LEMMA TwoEvents ==
    ASSUME NEW M, NEW e, NEW v, EventOK(v, M, e), NEW x, EventOK(x, M, e)
    PROVE  StreamOK(<<v, x>>, M, e)
<1>1. v \in Event /\ x \in Event
  BY DEF EventOK
<1>2. <<v, x>> \in Seq(Event) /\ Len(<<v, x>>) = 2 /\ <<v, x>>[1] = v /\ <<v, x>>[2] = x
  BY <1>1
<1> QED BY <1>2 DEF StreamOK

LEMMA OrderEventOK ==
    ASSUME NEW M, NEW e, e # "none", NEW st \in Closed \cup {"live"}, NEW n \in Nat,
           e = "live" => st # "cancelled"
    PROVE  EventOK(OrderEvent(st, n), M, e)
BY DEF EventOK, OrderEvent, Event

LEMMA TradeEventOK ==
    ASSUME NEW M, NEW e, e # "none", NEW t \in Trade, t \in M,
           NEW st \in Settlement \ {"none"}
    PROVE  EventOK(TradeEvent(t, st), M, e)
BY DEF EventOK, TradeEvent, Event

LEMMA Delivered ==
    ASSUME NEW M, NEW e, StreamOK(wsq, M, e), NEW es, StreamOK(es, M, e), Deliver(es)
    PROVE  StreamOK(wsq', M, e)
BY StreamGrows DEF Deliver

(* A step of the exchange that keeps the trades in order keeps the rest. *)
LEMMA ExchangeStep ==
    ASSUME OrderOK, ex.st # "none", TradesOK', Matched \subseteq Matched',
           ex'.st \in {ex.st} \cup Closed, ex'.vis = ex.vis,
           \A t \in Trade : t \in Matched' \ Matched => \A n \in Nat : Reached(n) => n <= t,
           NEW es, StreamOK(es, Matched', ex'.st), Deliver(es),
           UNCHANGED <<store, owned, saver, link, healthy, task, rest, cache, quar>>
    PROVE  OrderOK'
<1> DEFINE M == Matched
           N == Matched'
           e == ex.st
           f == ex'.st
<1>0. /\ UNCHANGED <<row, fill, owned, saver, link, healthy, task, pass, cursor, cache, quar>>
      /\ f \in {e} \cup Closed /\ M \subseteq N /\ e # "none"
  BY DEF store, rest
<1>1. RestOK' /\ FillOK'
  BY <1>0 DEF OrderOK, RestOK, FillOK
<1>2. RowOK(row, N, f) /\ SaverOK(saver, N, f) /\ PassOK(pass, N, f, ex.vis)
  BY <1>0, Growth DEF OrderOK
<1>3. \A a \in Actor : TaskOK(task[a], N, f)
  BY <1>0, Growth DEF OrderOK
<1>4. StreamOK(wsq, N, f)
  BY <1>0, Growth DEF OrderOK, QueueOK, StreamOK
<1>5. QueueOK'
  BY <1>4, Delivered DEF QueueOK, StreamOK
<1>6. MissOK'
  BY <1>0 DEF OrderOK, MissOK, Closed
<1>7. CursorOK'
  <2>1. cursor \in Nat /\ pass.latest \in Nat /\ Reached(cursor) /\ Reached(pass.latest)
    BY PassFields DEF OrderOK, RestOK, CursorOK, PassOK
  <2>2. Reached(cursor)' /\ Reached(pass.latest)'
    BY <1>0, <2>1 DEF Reached
  <2>3. \A t \in N : t < cursor \/ t < pass.latest => t \in M
    BY <2>1, OrderAssumption DEF Matched
  <2>4. \A t \in N : pass.pc = "each" /\ (\E x \in pass.todo : t < x[1]) => t \in M
    BY DEF OrderOK, TradesOK, PassOK, Matched
  <2>5. \A t \in N : Due(t) => t \in M
    BY <2>3, <2>4 DEF Due
  <2>6. /\ \A t \in Trade : Due(t)' <=> Due(t)
        /\ \A t \in Trade : InHand(t)' <=> InHand(t)
    BY <1>0 DEF Due, InHand
  <2>7. N \subseteq Trade
    BY DEF Matched
  <2>8. ASSUME quar' = FALSE
        PROVE  /\ \A t \in N : t < cursor => fill[t] # "none"
               /\ pass.pc \in Listed =>
                    \A t \in N : Due(t) => fill[t] # "none" \/ InHand(t)
    BY <1>0, <2>3, <2>5, <2>8 DEF OrderOK, CursorOK
  <2> QED BY <1>0, <2>2, <2>6, <2>7, <2>8 DEF CursorOK
<1> QED BY <1>0, <1>1, <1>2, <1>3, <1>5, <1>6, <1>7 DEF OrderOK

LEMMA MatchStep ==
    ASSUME OrderOK, NEW t \in Trade, MatchTrade(t)
    PROVE  OrderOK'
<1>1. TradesOK /\ ex.st = "live"
  BY DEF OrderOK, MatchTrade
<1>2. tr[t] = "none" /\ tr' = [tr EXCEPT ![t] = "MATCHED"] /\ t \notin Matched
  BY DEF MatchTrade, Matched
<1>3. Matched' = Matched \cup {t}
  BY <1>1, <1>2 DEF TradesOK, Matched
<1>4. /\ IsFiniteSet(Matched) /\ Cardinality(Matched) \in Nat
      /\ IsFiniteSet(Matched') /\ Cardinality(Matched') = Cardinality(Matched) + 1
  BY <1>1, <1>2, <1>3, FS_AddElement, FS_CardinalityType DEF TradesOK
<1>5. \A u \in Trade : u < t => u \in Matched
  BY DEF MatchTrade, Matched
<1>6. \A u \in Matched : u < t
  <2> SUFFICES ASSUME NEW u \in Matched PROVE u < t
    OBVIOUS
  <2>1. u \in Trade /\ u # t /\ u \in Nat /\ t \in Nat
    BY <1>2, OrderAssumption DEF Matched
  <2>2. ~(t < u)
    BY <1>1, <1>2 DEF TradesOK
  <2> QED BY <2>1, <2>2
<1>7. /\ ex' \in [st : Closed \cup {"none", "live"}, vis : BOOLEAN]
      /\ ex'.vis = ex.vis
      /\ ex'.st = IF Cardinality(Matched) + 1 >= Size THEN "matched" ELSE "live"
  BY <1>1 DEF TradesOK, MatchTrade, Closed
<1>8. TradesOK'
  <2>1. tr' \in [Trade -> Settlement]
    BY <1>1, <1>2 DEF TradesOK, Settlement, Pending
  <2>2. Cardinality(Matched') <= Size /\ (ex'.st = "live" => Cardinality(Matched') < Size)
    BY <1>1, <1>4, <1>7, OrderAssumption DEF TradesOK
  <2>3. \A x \in Matched', u \in Trade : u < x => u \in Matched'
    BY <1>1, <1>3, <1>5 DEF TradesOK
  <2>4. \A u \in Matched' : u <= t
    <3>1. \A u \in Matched' : u \in Nat
      BY OrderAssumption DEF Matched
    <3> QED BY <1>3, <1>6, <3>1, OrderAssumption
  <2>5. \E m \in Matched' \cup {0} : \A u \in Matched' : u <= m
    BY <1>3, <2>4
  <2>6. ex'.st # "none"
    BY <1>7
  <2> QED BY <1>4, <1>7, <2>1, <2>2, <2>3, <2>5, <2>6 DEF TradesOK
<1>9. \A n \in Nat : Reached(n) => n <= t
  BY <1>2, OrderAssumption DEF Reached
<1>10. StreamOK(<<OrderEvent(ex'.st, Cardinality(Matched) + 1), TradeEvent(t, "MATCHED")>>,
                Matched', ex'.st)
  <2>0. /\ ex'.st \in Closed \cup {"live"} /\ ex'.st # "cancelled" /\ ex'.st # "none"
        /\ Cardinality(Matched) + 1 \in Nat
    BY <1>4, <1>7 DEF Closed
  <2>1. EventOK(OrderEvent(ex'.st, Cardinality(Matched) + 1), Matched', ex'.st)
    BY <2>0, OrderEventOK
  <2>2. EventOK(TradeEvent(t, "MATCHED"), Matched', ex'.st)
    BY <1>3, <1>7, TradeEventOK DEF Settlement, Pending
  <2> QED BY <2>1, <2>2, TwoEvents
<1> QED BY <1>1, <1>3, <1>7, <1>8, <1>9, <1>10, ExchangeStep DEF MatchTrade, Closed

LEMMA SettleStep ==
    ASSUME OrderOK, NEW t \in Trade, SettleTrade(t)
    PROVE  OrderOK'
<1>1. PICK s \in Settlement \ {"none"} :
          /\ tr[t] # "none" /\ tr' = [tr EXCEPT ![t] = s] /\ Deliver(<<TradeEvent(t, s)>>)
  BY DEF SettleTrade
<1>2. TradesOK /\ ex' = ex
  BY DEF OrderOK, SettleTrade
<1>3. Matched' = Matched /\ t \in Matched
  BY <1>1, <1>2 DEF TradesOK, Matched
<1>4. ex.st # "none"
  BY <1>2, <1>3 DEF TradesOK
<1>5. TradesOK'
  BY <1>1, <1>2, <1>3 DEF TradesOK
<1>6. StreamOK(<<TradeEvent(t, s)>>, Matched', ex'.st)
  BY <1>2, <1>3, <1>4, TradeEventOK, OneEvent
<1> QED BY <1>1, <1>2, <1>3, <1>4, <1>5, <1>6, ExchangeStep DEF SettleTrade

LEMMA CancelStep ==
    ASSUME OrderOK, CancelOrder
    PROVE  OrderOK'
<1>1. TradesOK /\ ex.st = "live" /\ tr' = tr /\ Matched' = Matched
  BY DEF OrderOK, CancelOrder, Matched
<1>2. /\ ex' \in [st : Closed \cup {"none", "live"}, vis : BOOLEAN]
      /\ ex'.vis = ex.vis /\ ex'.st = "cancelled"
  BY <1>1 DEF TradesOK, CancelOrder, Closed
<1>3. TradesOK'
  BY <1>1, <1>2 DEF TradesOK
<1>4. Cardinality(Matched) \in Nat
  BY <1>1, FS_CardinalityType DEF TradesOK
<1>5. StreamOK(<<OrderEvent("cancelled", Cardinality(Matched))>>, Matched', ex'.st)
  BY <1>1, <1>2, <1>4, OrderEventOK, OneEvent DEF Closed
<1> QED BY <1>1, <1>2, <1>3, <1>5, ExchangeStep DEF CancelOrder, Closed


-----------------------------------------------------------------------------
(* Steps that leave the exchange alone *)

LEMMA SameExchange ==
    ASSUME OrderOK, ex' = ex, tr' = tr, RestOK', FillOK',
           RowOK(row', Matched, ex.st), SaverOK(saver', Matched, ex.st),
           StreamOK(wsq', Matched, ex.st),
           task' \in [Actor -> Task], \A a \in Actor : TaskOK(task'[a], Matched, ex.st),
           PassOK(pass', Matched, ex.st, ex.vis), MissOK', CursorOK'
    PROVE  OrderOK'
<1>1. Matched' = Matched
  BY DEF Matched
<1>2. TradesOK'
  BY <1>1 DEF OrderOK, TradesOK
<1> QED BY <1>1, <1>2 DEF OrderOK, QueueOK, StreamOK

LEMMA HeldStream ==
    ASSUME OrderOK
    PROVE  StreamOK(wsq, Matched, ex.st)
BY DEF OrderOK, QueueOK, StreamOK

LEMMA TaskSet ==
    ASSUME OrderOK, NEW a \in Actor, NEW k, TaskOK(k, Matched, ex.st), SetTask(a, k)
    PROVE  /\ task' \in [Actor -> Task]
           /\ \A b \in Actor : TaskOK(task'[b], Matched, ex.st)
           /\ task'[a] = k /\ \A b \in Actor \ {a} : task'[b] = task[b]
<1>1. k \in Task /\ task \in [Actor -> Task] /\ task' = [task EXCEPT ![a] = k]
  BY DEF TaskOK, OrderOK, SetTask
<1>2. task'[a] = k /\ \A b \in Actor \ {a} : task'[b] = task[b]
  BY <1>1
<1>3. \A b \in Actor : TaskOK(task'[b], Matched, ex.st)
  BY <1>2 DEF OrderOK
<1> QED BY <1>1, <1>2, <1>3

(* A missed row is found missing anew only by a pass that began later. *)
LEMMA MissKept ==
    ASSUME OrderOK, ex' = ex, row'.miss = row.miss \/ row'.miss = 0,
           pass'.pc \in {pass.pc, "idle", "pos"} \/ pass.pc \notin {"idle", "pos"}
    PROVE  MissOK'
BY DEF OrderOK, MissOK

(* The cursor stands, and what the pass has read of so far goes on. *)
LEMMA CursorKept ==
    ASSUME OrderOK, tr' = tr, cursor' = cursor, quar' = FALSE => quar = FALSE,
           \A t \in Trade : fill[t] # "none" => fill'[t] # "none",
           pass'.latest = pass.latest,
           pass'.pc \in Listed => pass.pc \in Listed,
           pass'.pc = "each" => pass.pc = "each" /\ pass'.todo = pass.todo,
           \A t \in Trade : InHand(t) => InHand(t)' \/ fill'[t] # "none"
    PROVE  CursorOK'
<1>1. Matched' = Matched /\ Matched \subseteq Trade
  BY DEF Matched
<1>2. Reached(cursor)' /\ Reached(pass.latest)'
  BY <1>1 DEF OrderOK, CursorOK, Reached
<1>3. SUFFICES ASSUME quar' = FALSE
               PROVE  /\ \A t \in Matched : t < cursor => fill'[t] # "none"
                      /\ pass'.pc \in Listed =>
                           \A t \in Matched : Due(t)' => fill'[t] # "none" \/ InHand(t)'
  BY <1>1, <1>2 DEF CursorOK
<1>4. /\ \A t \in Matched : t < cursor => fill[t] # "none"
      /\ pass.pc \in Listed =>
           \A t \in Matched : Due(t) => fill[t] # "none" \/ InHand(t)
  BY <1>3 DEF OrderOK, CursorOK
<1>5. \A t \in Trade : Due(t)' => Due(t)
  BY DEF Due
<1> QED BY <1>1, <1>4, <1>5

(* A call of one task on the store. *)
LEMMA StoreStep ==
    ASSUME OrderOK, NEW a \in Actor, NEW k, TaskOK(k, Matched, ex.st), SetTask(a, k),
           RowOK(row', Matched, ex.st), row'.miss = row.miss \/ row'.miss = 0,
           FillOK', \A t \in Trade : fill[t] # "none" => fill'[t] # "none",
           task[a].pc \in TradeCall => \/ k.pc \in TradeCall /\ k.t = task[a].t
                                       \/ fill'[task[a].t] # "none",
           UNCHANGED <<exchange, owned, saver, wsq, link, healthy, rest, cache, quar>>
    PROVE  OrderOK'
<1>0. UNCHANGED <<ex, tr, owned, saver, wsq, link, healthy, pass, cursor, cache, quar>>
  BY DEF exchange, rest
<1>1. /\ task' \in [Actor -> Task]
      /\ \A b \in Actor : TaskOK(task'[b], Matched, ex.st)
      /\ task'[a] = k /\ \A b \in Actor \ {a} : task'[b] = task[b]
  BY TaskSet
<1>2. RestOK'
  BY <1>0 DEF OrderOK, RestOK
<1>3. MissOK'
  BY <1>0, MissKept
<1>4. \A t \in Trade : InHand(t) => InHand(t)' \/ fill'[t] # "none"
  <2>1. CASE a = "rest"
    BY <1>0, <1>1, <2>1 DEF InHand
  <2>2. CASE a # "rest"
    BY <1>0, <1>1, <2>2 DEF InHand, Actor
  <2> QED BY <2>1, <2>2
<1>5. CursorOK'
  BY <1>0, <1>4, CursorKept
<1>6. SaverOK(saver', Matched, ex.st) /\ PassOK(pass', Matched, ex.st, ex.vis)
  BY <1>0 DEF OrderOK
<1>7. StreamOK(wsq', Matched, ex.st)
  BY <1>0, HeldStream
<1> QED BY <1>0, <1>1, <1>2, <1>3, <1>5, <1>6, <1>7, SameExchange

(* A step of the submission, before or after the POST. *)
LEMMA SaverStep ==
    ASSUME OrderOK, RowOK(row', Matched, ex.st), row'.miss = row.miss \/ row'.miss = 0,
           SaverOK(saver', Matched, ex.st), owned' \in BOOLEAN,
           UNCHANGED <<exchange, fill, wsq, link, healthy, task, rest, cache, quar>>
    PROVE  OrderOK'
<1>0. UNCHANGED <<ex, tr, fill, wsq, link, healthy, task, pass, cursor, cache, quar>>
  BY DEF exchange, rest
<1>1. RestOK' /\ FillOK'
  BY <1>0 DEF OrderOK, RestOK, FillOK, Matched
<1>2. MissOK'
  BY <1>0, MissKept
<1>3. CursorOK'
  <2>1. \A t \in Trade : InHand(t) => InHand(t)'
    BY <1>0 DEF InHand
  <2> QED BY <1>0, <2>1, CursorKept
<1>4. /\ PassOK(pass', Matched, ex.st, ex.vis) /\ task' \in [Actor -> Task]
      /\ \A a \in Actor : TaskOK(task'[a], Matched, ex.st)
  BY <1>0 DEF OrderOK
<1>5. StreamOK(wsq', Matched, ex.st)
  BY <1>0, HeldStream
<1> QED BY <1>0, <1>1, <1>2, <1>3, <1>4, <1>5, SameExchange

-----------------------------------------------------------------------------
(* The submission *)

LEMMA ReserveStep ==
    ASSUME OrderOK, Reserve
    PROVE  OrderOK'
<1>1. /\ saver \in Saver /\ saver.pc = "idle" /\ ex.st = "none"
      /\ saver.ids \subseteq Matched /\ RowOK(saver.data, Matched, ex.st) /\ saver.id # TRUE
  BY DEF OrderOK, SaverOK, Reserve
<1>2. RowOK(row', Matched, ex.st) /\ row'.miss = 0
  <2>1. row' \in Row /\ row'.st = "submitting" /\ row'.id = FALSE /\ row'.miss = 0 /\ row'.ids = {}
    BY NoRowOK, StatusFacts DEF Reserve, Row, NoRow
  <2> QED BY <2>1 DEF RowOK
<1>3. SaverOK(saver', Matched, ex.st)
  <2>1. /\ saver' \in Saver /\ saver'.pc = "reserved" /\ saver'.id = saver.id
        /\ saver'.ids = saver.ids /\ saver'.data = saver.data
    BY <1>1 DEF Reserve, Saver
  <2> QED BY <1>1, <2>1 DEF SaverOK
<1>4. owned' \in BOOLEAN
  BY DEF Reserve
<1> QED BY <1>2, <1>3, <1>4, SaverStep DEF Reserve

(* Until the POST nothing that the order could bring about exists. *)
LEMMA PostStep ==
    ASSUME OrderOK, Post
    PROVE  OrderOK'
<1>1. UNCHANGED <<tr, row, fill, owned, link, healthy, task, pass, cursor, cache, quar>>
  BY DEF Post, store, rest
<1>2. ex.st = "none" /\ ex'.st = "live" /\ ex' \in [st : Closed \cup {"none", "live"}, vis : BOOLEAN]
  <2>1. ex.st = "none"
    BY DEF OrderOK, SaverOK, Post
  <2>2. PICK vis \in BOOLEAN : ex' = [st |-> "live", vis |-> vis]
    BY DEF Post
  <2> QED BY <2>1, <2>2
<1>3. Matched = {} /\ Matched' = Matched
  BY <1>1, <1>2 DEF OrderOK, TradesOK, Matched
<1>4. TradesOK'
  <2>1. /\ tr' \in [Trade -> Settlement] /\ IsFiniteSet(Matched')
        /\ \E m \in Matched' \cup {0} : \A u \in Matched' : u <= m
        /\ \A t \in Matched', u \in Trade : u < t => u \in Matched'
    BY <1>1, <1>3 DEF OrderOK, TradesOK
  <2>2. Cardinality(Matched') = 0 /\ 0 < Size /\ 0 <= Size
    BY <1>3, FS_EmptySet, OrderAssumption
  <2> QED BY <1>2, <2>1, <2>2 DEF TradesOK
<1>5. RestOK' /\ FillOK'
  BY <1>1, <1>3 DEF OrderOK, RestOK, FillOK
<1>6. RowOK(row, Matched, "live")
  BY <1>2 DEF OrderOK, RowOK
<1>7. SaverOK(saver', Matched, "live")
  <2>1. /\ saver \in Saver /\ saver.ids \subseteq Matched
        /\ RowOK(saver.data, Matched, "none")
    BY <1>2 DEF OrderOK, SaverOK
  <2>2. /\ saver' \in Saver /\ saver'.pc = "posted"
        /\ saver'.ids = saver.ids /\ saver'.data = saver.data
    BY <2>1 DEF Post, Saver
  <2>3. RowOK(saver.data, Matched, "live")
    BY <2>1 DEF RowOK
  <2> QED BY <2>1, <2>2, <2>3 DEF SaverOK
<1>8. \A a \in Actor : TaskOK(task[a], Matched, "live")
  <2>1. \A a \in Actor : task[a] = NoTask
    BY <1>2 DEF OrderOK, TaskOK
  <2> QED BY <2>1, NoTaskOK
<1>9. PassOK(pass, Matched, "live", ex'.vis)
  BY <1>2 DEF OrderOK, PassOK
<1>10. QueueOK'
  <2>1. StreamOK(wsq, Matched, "live")
    BY <1>2 DEF OrderOK, QueueOK, StreamOK, EventOK
  <2>2. StreamOK(<<OrderEvent("live", 0)>>, Matched, "live")
    BY OrderEventOK, OneEvent
  <2>3. Deliver(<<OrderEvent("live", 0)>>)
    BY DEF Post
  <2>4. StreamOK(wsq', Matched, "live")
    BY <2>1, <2>2, <2>3, Delivered
  <2> QED BY <1>2, <1>3, <2>4 DEF QueueOK, StreamOK
<1>11. MissOK'
  BY <1>1, <1>2 DEF OrderOK, RowOK, MissOK
<1>12. CursorOK'
  BY <1>1, <1>3 DEF OrderOK, CursorOK, Reached
<1>13. task' \in [Actor -> Task]
  BY <1>1 DEF OrderOK
<1> QED
  <2>1. /\ RowOK(row', Matched', ex'.st) /\ SaverOK(saver', Matched', ex'.st)
        /\ \A a \in Actor : TaskOK(task'[a], Matched', ex'.st)
        /\ PassOK(pass', Matched', ex'.st, ex'.vis)
    BY <1>1, <1>2, <1>3, <1>6, <1>7, <1>8, <1>9
  <2> QED BY <1>4, <1>5, <1>10, <1>11, <1>12, <1>13, <2>1 DEF OrderOK

LEMMA RespondStep ==
    ASSUME OrderOK, Respond
    PROVE  OrderOK'
<1>1. /\ saver \in Saver /\ saver.ids \subseteq Matched /\ RowOK(saver.data, Matched, ex.st)
      /\ ex.st # "none" /\ RowOK(row, Matched, ex.st) /\ Matched \subseteq Trade
  BY DEF OrderOK, SaverOK, Respond, Matched
<1>2. /\ saver' \in Saver /\ saver'.pc = "read1" /\ saver'.data = saver.data
      /\ saver'.ids \subseteq Matched
  <2>1. CASE \E ids \in {{}, Matched} :
                saver' = [saver EXCEPT !.pc = "read1", !.st = "submitted",
                                       !.id = TRUE, !.ids = ids]
    <3>1. PICK ids \in SUBSET Trade :
             /\ ids \subseteq Matched
             /\ saver' = [saver EXCEPT !.pc = "read1", !.st = "submitted",
                                       !.id = TRUE, !.ids = ids]
      BY <1>1, <2>1
    <3> QED BY <1>1, <3>1 DEF Saver
  <2>2. CASE \E id \in BOOLEAN :
                saver' = [saver EXCEPT !.pc = "read1", !.st = "unknown",
                                       !.id = id, !.held = id]
    BY <1>1, <2>2 DEF Saver
  <2> QED BY <2>1, <2>2 DEF Respond
<1>3. SaverOK(saver', Matched, ex.st)
  BY <1>1, <1>2 DEF SaverOK
<1>4. row' = row /\ owned' \in BOOLEAN
  BY DEF Respond, store, OrderOK, RestOK
<1>5. UNCHANGED <<exchange, fill, wsq, link, healthy, task, rest, cache, quar>>
  BY DEF Respond, store
<1> QED BY <1>1, <1>3, <1>4, <1>5, SaverStep

LEMMA ReadExecutionStep ==
    ASSUME OrderOK, ReadExecution
    PROVE  OrderOK'
<1>1. /\ SaverOK(saver, Matched, ex.st) /\ saver \in Saver /\ saver.ids \subseteq Matched
      /\ ex.st # "none" /\ RowOK(row, Matched, ex.st)
  BY DEF OrderOK, SaverOK, ReadExecution
<1> DEFINE d == [SavedRow(row, saver) EXCEPT !.miss = 0]
<1>2. RowOK(d, Matched, ex.st) /\ d \in Row
  <2>1. RowOK(d, Matched, ex.st)
    BY <1>1, SavedRowOK
  <2> HIDE DEF d
  <2> QED BY <2>1 DEF RowOK
<1>3. saver' = [saver EXCEPT !.pc = IF @ = "read1" THEN "write1" ELSE "write2", !.data = d]
  BY DEF ReadExecution
<1> HIDE DEF d
<1>4. /\ saver' \in Saver /\ saver'.pc \in {"write1", "write2"} /\ saver'.data = d
      /\ saver'.ids = saver.ids
  BY <1>1, <1>2, <1>3 DEF Saver
<1>5. SaverOK(saver', Matched, ex.st)
  BY <1>1, <1>2, <1>4 DEF SaverOK
<1>6. row' = row /\ owned' \in BOOLEAN
  BY DEF ReadExecution, store, OrderOK, RestOK
<1>7. UNCHANGED <<exchange, fill, wsq, link, healthy, task, rest, cache, quar>>
  BY DEF ReadExecution, store
<1> QED BY <1>1, <1>5, <1>6, <1>7, SaverStep

LEMMA WriteExecutionStep ==
    ASSUME OrderOK, WriteExecution
    PROVE  OrderOK'
<1>1. /\ saver \in Saver /\ saver.ids \subseteq Matched /\ RowOK(saver.data, Matched, ex.st)
      /\ ex.st # "none" /\ row \in Row
  BY DEF OrderOK, SaverOK, RowOK, WriteExecution
<1>2. row.miss \in Nat /\ row' = [saver.data EXCEPT !.miss = row.miss]
  BY <1>1, RowFields DEF WriteExecution
<1>3. RowOK(row', Matched, ex.st) /\ row'.miss = row.miss
  <2>1. saver.data \in Row /\ (ex.st = "live" => saver.data.st # "cancelled")
    BY <1>1 DEF RowOK
  <2>2. /\ row' \in Row /\ row'.ids = saver.data.ids /\ row'.st = saver.data.st
        /\ row'.miss = row.miss
    BY <1>2, <2>1 DEF Row
  <2> QED BY <1>1, <2>1, <2>2, RowLike
<1>4. SaverOK(saver', Matched, ex.st)
  <2>1. CASE saver.pc = "write1"
    <3>1. /\ saver' \in Saver /\ saver'.pc = "read2" /\ saver'.data = NoRow
          /\ saver'.ids = saver.ids
      BY <1>1, <2>1, NoRowOK DEF WriteExecution, Saver
    <3> QED BY <1>1, <3>1, NoRowOK DEF SaverOK
  <2>2. CASE saver.pc # "write1"
    BY <2>2, DoneSaverOK DEF WriteExecution
  <2> QED BY <2>1, <2>2
<1>5. owned' \in BOOLEAN
  BY DEF WriteExecution, OrderOK, RestOK
<1> QED BY <1>3, <1>4, <1>5, SaverStep DEF WriteExecution

-----------------------------------------------------------------------------
(* The store calls of the reconciler *)

LEMMA HeldTask ==
    ASSUME OrderOK, NEW a \in Actor
    PROVE  /\ TaskOK(task[a], Matched, ex.st) /\ task[a] \in Task
           /\ RowOK(task[a].data, Matched, ex.st) /\ RowOK(row, Matched, ex.st)
           /\ task[a].pc # "idle" => ex.st # "none"
BY DEF OrderOK, TaskOK, NoTask

LEMMA OrderUpdateOK ==
    ASSUME NEW M, NEW e, e # "none", NEW st \in Closed \cup {"live"}, NEW n \in Nat,
           e = "live" => st # "cancelled"
    PROVE  TaskOK(OrderUpdate(st, n), M, e) /\ OrderUpdate(st, n).pc = "o1"
<1>1. /\ OrderUpdate(st, n) \in Task /\ OrderUpdate(st, n).pc = "o1"
      /\ OrderUpdate(st, n).st = st /\ OrderUpdate(st, n).data = NoRow
  BY NoTaskOK DEF OrderUpdate, Task, NoTask
<1> QED BY <1>1, NoRowOK DEF TaskOK, TradeCall

LEMMA TradeUpdateOK ==
    ASSUME NEW M, NEW e, e # "none", NEW t \in Trade, t \in M,
           NEW st \in Settlement \ {"none"}
    PROVE  /\ TaskOK(TradeUpdate(t, st), M, e)
           /\ TradeUpdate(t, st).pc \in TradeCall /\ TradeUpdate(t, st).t = t
<1>1. /\ TradeUpdate(t, st) \in Task /\ TradeUpdate(t, st).pc = "t1"
      /\ TradeUpdate(t, st).st = st /\ TradeUpdate(t, st).t = t
      /\ TradeUpdate(t, st).data = NoRow
  BY NoTaskOK DEF TradeUpdate, Task, NoTask
<1>2. st # "cancelled"
  BY DEF Settlement, Pending, Final
<1> QED BY <1>1, <1>2, NoRowOK DEF TaskOK, TradeCall

LEMMA ReadOrderStep ==
    ASSUME OrderOK, NEW a \in Actor, ReadOrder(a)
    PROVE  OrderOK'
<1>1. /\ task[a].pc = "o1" /\ TaskOK(task[a], Matched, ex.st) /\ task[a] \in Task
      /\ RowOK(row, Matched, ex.st) /\ ex.st # "none"
  BY HeldTask DEF ReadOrder
<1> DEFINE r == ReportedRow(row, task[a].st, task[a].n)
           k == IF row.id THEN [NoTask EXCEPT !.pc = "o2", !.data = r] ELSE NoTask
<1>2. /\ task[a].st \in Closed \cup {"live"} /\ task[a].n \in Nat
      /\ ex.st = "live" => task[a].st # "cancelled"
  BY <1>1, TaskFields DEF TaskOK
<1>3. RowOK(r, Matched, ex.st) /\ r.miss = 0
  BY <1>1, <1>2, ReportedRowOK
<1>4. SetTask(a, k)
  BY DEF ReadOrder
<1> HIDE DEF r
<1>5. TaskOK(k, Matched, ex.st)
  <2>1. CASE row.id
    <3>1. k \in Task /\ k.pc = "o2" /\ k.st = "none" /\ k.data = r
      BY <1>3, <2>1, NoTaskOK DEF Task, NoTask, RowOK
    <3> QED BY <1>1, <1>3, <3>1 DEF TaskOK, TradeCall
  <2>2. CASE ~row.id
    BY <2>2, NoTaskOK
  <2> QED BY <2>1, <2>2
<1>6. UNCHANGED <<exchange, row, fill, owned, saver, wsq, link, healthy, rest, cache, quar>>
  BY DEF ReadOrder, store
<1>7. FillOK' /\ row' = row /\ fill' = fill
  BY <1>6 DEF exchange, OrderOK, FillOK, Matched
<1> HIDE DEF k
<1> QED BY <1>1, <1>4, <1>5, <1>6, <1>7, StoreStep DEF TradeCall

LEMMA WriteOrderStep ==
    ASSUME OrderOK, NEW a \in Actor, WriteOrder(a)
    PROVE  OrderOK'
<1>1. /\ task[a].pc = "o2" /\ TaskOK(task[a], Matched, ex.st)
      /\ RowOK(task[a].data, Matched, ex.st)
  BY HeldTask DEF WriteOrder
<1>2. task[a].data.miss = 0
  BY <1>1 DEF TaskOK
<1>3. RowOK(row', Matched, ex.st) /\ row'.miss = 0
  BY <1>1, <1>2 DEF WriteOrder
<1>4. FillOK' /\ fill' = fill
  BY DEF WriteOrder, exchange, OrderOK, FillOK, Matched
<1>5. TaskOK(NoTask, Matched, ex.st) /\ SetTask(a, NoTask)
  BY NoTaskOK DEF WriteOrder
<1>6. UNCHANGED <<exchange, owned, saver, wsq, link, healthy, rest, cache, quar>>
  BY DEF WriteOrder
<1> QED BY <1>1, <1>3, <1>4, <1>5, <1>6, StoreStep DEF TradeCall

LEMMA ReadTradeOrderStep ==
    ASSUME OrderOK, NEW a \in Actor, ReadTradeOrder(a)
    PROVE  OrderOK'
<1>1. /\ task[a].pc = "t1" /\ TaskOK(task[a], Matched, ex.st) /\ task[a] \in Task
      /\ RowOK(task[a].data, Matched, ex.st) /\ RowOK(row, Matched, ex.st) /\ ex.st # "none"
  BY HeldTask DEF ReadTradeOrder
<1> DEFINE k == [task[a] EXCEPT !.pc = "t2", !.data.st = row.st]
<1>2. SetTask(a, k)
  BY DEF ReadTradeOrder
<1>3. /\ task[a].data \in Row /\ row \in Row /\ row.st \in RowStatus
      /\ ex.st = "live" => row.st # "cancelled"
  BY <1>1, RowFields DEF RowOK
<1>4. /\ k \in Task /\ k.pc = "t2" /\ k.st = task[a].st /\ k.t = task[a].t
      /\ k.data = [task[a].data EXCEPT !.st = row.st]
  BY <1>1, <1>3 DEF Task, Row
<1> HIDE DEF k
<1>5. k.data \in Row /\ k.data.ids = task[a].data.ids /\ k.data.st = row.st
  BY <1>3, <1>4 DEF Row
<1>6. RowOK(k.data, Matched, ex.st)
  BY <1>1, <1>3, <1>5, RowLike
<1>7. TaskOK(k, Matched, ex.st)
  BY <1>1, <1>4, <1>6 DEF TaskOK, TradeCall
<1>8. UNCHANGED <<exchange, row, fill, owned, saver, wsq, link, healthy, rest, cache, quar>>
  BY DEF ReadTradeOrder, store
<1>9. FillOK' /\ row' = row /\ fill' = fill
  BY <1>8 DEF exchange, OrderOK, FillOK, Matched
<1> QED BY <1>1, <1>2, <1>4, <1>7, <1>8, <1>9, StoreStep DEF TradeCall

LEMMA ReadFillStep ==
    ASSUME OrderOK, NEW a \in Actor, ReadFill(a)
    PROVE  OrderOK'
<1>1. /\ task[a].pc = "t2" /\ TaskOK(task[a], Matched, ex.st) /\ task[a] \in Task
      /\ RowOK(row, Matched, ex.st) /\ ex.st # "none"
      /\ RowOK(task[a].data, Matched, ex.st)
  BY HeldTask DEF ReadFill
<1>2. task[a].t \in Matched /\ task[a].st \in Settlement \ {"none"} /\ task[a].t \in Trade
  BY <1>1 DEF TaskOK, TradeCall, Matched
<1> DEFINE s == MergedFill(fill[task[a].t], task[a].st)
           k == [task[a] EXCEPT !.pc = "t3", !.st = s]
<1>3. s \in Settlement \ {"none"}
  <2>1. fill[task[a].t] \in Settlement
    BY <1>2 DEF OrderOK, FillOK
  <2> QED BY <1>2, <2>1, MergedFillIs
<1>4. SetTask(a, k)
  BY DEF ReadFill
<1> HIDE DEF s
<1>5. k \in Task /\ k.pc = "t3" /\ k.st = s /\ k.t = task[a].t /\ k.data = task[a].data
  BY <1>1, <1>3 DEF Task
<1> HIDE DEF k
<1>6. s # "cancelled"
  BY <1>3 DEF Settlement, Pending, Final
<1>7. TaskOK(k, Matched, ex.st)
  BY <1>1, <1>2, <1>3, <1>5, <1>6 DEF TaskOK, TradeCall
<1>8. UNCHANGED <<exchange, row, fill, owned, saver, wsq, link, healthy, rest, cache, quar>>
  BY DEF ReadFill, store
<1>9. FillOK' /\ row' = row /\ fill' = fill
  BY <1>8 DEF exchange, OrderOK, FillOK, Matched
<1> QED BY <1>1, <1>4, <1>5, <1>7, <1>8, <1>9, StoreStep DEF TradeCall

LEMMA UpsertFillStep ==
    ASSUME OrderOK, NEW a \in Actor, UpsertFill(a)
    PROVE  OrderOK'
<1>1. /\ task[a].pc = "t3" /\ TaskOK(task[a], Matched, ex.st) /\ task[a] \in Task
      /\ RowOK(row, Matched, ex.st) /\ ex.st # "none"
      /\ RowOK(task[a].data, Matched, ex.st)
  BY HeldTask DEF UpsertFill
<1>2. task[a].t \in Matched /\ task[a].st \in Settlement \ {"none"} /\ task[a].t \in Trade
  BY <1>1 DEF TaskOK, TradeCall, Matched
<1> DEFINE k == [NoTask EXCEPT !.pc = "t4", !.data = task[a].data]
<1>3. SetTask(a, k)
  BY DEF UpsertFill
<1>4. k \in Task /\ k.pc = "t4" /\ k.st = "none" /\ k.data = task[a].data
  BY <1>1, TaskFields, NoTaskOK DEF Task, NoTask
<1> HIDE DEF k
<1>5. TaskOK(k, Matched, ex.st)
  BY <1>1, <1>4 DEF TaskOK, TradeCall
<1>6. /\ UNCHANGED <<exchange, owned, saver, wsq, link, healthy, rest, cache, quar>>
      /\ row' = row /\ fill' = [fill EXCEPT ![task[a].t] = task[a].st]
  BY DEF UpsertFill
<1>7. Matched' = Matched /\ fill \in [Trade -> Settlement]
      /\ \A t \in Trade : fill[t] # "none" => t \in Matched
  BY <1>6 DEF exchange, OrderOK, FillOK, Matched
<1>8. /\ FillOK' /\ fill'[task[a].t] # "none"
      /\ \A t \in Trade : fill[t] # "none" => fill'[t] # "none"
  BY <1>2, <1>6, <1>7 DEF FillOK
<1> QED BY <1>1, <1>3, <1>5, <1>6, <1>8, StoreStep

LEMMA ReadFillsStep ==
    ASSUME OrderOK, NEW a \in Actor, ReadFills(a)
    PROVE  OrderOK'
<1>1. /\ task[a].pc = "t4" /\ TaskOK(task[a], Matched, ex.st) /\ task[a] \in Task
      /\ RowOK(row, Matched, ex.st) /\ ex.st # "none"
      /\ RowOK(task[a].data, Matched, ex.st)
  BY HeldTask DEF ReadFills
<1> DEFINE r == FilledRow(task[a].data.st, fill)
           k == [task[a] EXCEPT !.pc = "t5", !.data = r]
<1>2. task[a].data.st \in RowStatus /\ (ex.st = "live" => task[a].data.st # "cancelled")
  BY <1>1, RowFields DEF RowOK
<1>3. /\ IsFiniteSet(Matched) /\ Cardinality(Matched) <= Size
      /\ fill \in [Trade -> Settlement] /\ \A t \in Trade : fill[t] # "none" => t \in Matched
  BY DEF OrderOK, TradesOK, FillOK
<1>4. RowOK(r, Matched, ex.st)
  BY <1>1, <1>2, <1>3, FilledRowOK
<1>5. task' = [task EXCEPT ![a] = [task[a] EXCEPT !.pc = "t5",
                                       !.data = FilledRow(task[a].data.st, fill)]]
  BY DEF ReadFills, SetTask
<1>6. SetTask(a, k)
  BY <1>5 DEF SetTask
<1> HIDE DEF r
<1>7. k \in Task /\ k.pc = "t5" /\ k.st = task[a].st /\ k.data = r
  BY <1>1, <1>4 DEF Task, RowOK
<1> HIDE DEF k
<1>8. TaskOK(k, Matched, ex.st)
  BY <1>1, <1>4, <1>7 DEF TaskOK, TradeCall
<1>9. UNCHANGED <<exchange, row, fill, owned, saver, wsq, link, healthy, rest, cache, quar>>
  BY DEF ReadFills, store
<1>10. FillOK' /\ row' = row /\ fill' = fill
  BY <1>9 DEF exchange, OrderOK, FillOK, Matched
<1> QED BY <1>1, <1>6, <1>8, <1>9, <1>10, StoreStep DEF TradeCall

LEMMA WriteFilledStep ==
    ASSUME OrderOK, NEW a \in Actor, WriteFilled(a)
    PROVE  OrderOK'
<1>1. /\ task[a].pc = "t5" /\ RowOK(row, Matched, ex.st) /\ ex.st # "none"
      /\ RowOK(task[a].data, Matched, ex.st) /\ row \in Row
  BY HeldTask DEF WriteFilled, RowOK
<1> DEFINE st == task[a].data.st
           f == task[a].data.filled
<1>2. st \in RowStatus /\ f \in 0 .. Size /\ (ex.st = "live" => st # "cancelled")
  BY <1>1, RowFields DEF RowOK
<1>3. row' = [row EXCEPT !.st = st, !.filled = f, !.miss = 0]
  BY DEF WriteFilled
<1> HIDE DEF st, f
<1>4. row' \in Row /\ row'.ids = row.ids /\ row'.st = st /\ row'.miss = 0
  BY <1>1, <1>2, <1>3 DEF Row
<1>5. RowOK(row', Matched, ex.st)
  BY <1>1, <1>2, <1>4, RowLike
<1>6. FillOK' /\ fill' = fill
  BY DEF WriteFilled, exchange, OrderOK, FillOK, Matched
<1>7. TaskOK(NoTask, Matched, ex.st) /\ SetTask(a, NoTask)
  BY NoTaskOK DEF WriteFilled
<1>8. UNCHANGED <<exchange, owned, saver, wsq, link, healthy, rest, cache, quar>>
  BY DEF WriteFilled
<1> QED BY <1>1, <1>4, <1>5, <1>6, <1>7, <1>8, StoreStep DEF TradeCall

-----------------------------------------------------------------------------
(* The stream *)

LEMMA StreamStep ==
    ASSUME OrderOK, StreamOK(wsq', Matched, ex.st), RestOK', quar' = FALSE => quar = FALSE,
           UNCHANGED task \/ \E k : TaskOK(k, Matched, ex.st) /\ SetTask("ws", k),
           UNCHANGED <<exchange, store, owned, saver, rest>>
    PROVE  OrderOK'
<1>0. UNCHANGED <<ex, tr, row, fill, owned, saver, pass, cursor>>
  BY DEF exchange, store, rest
<1>1. /\ task' \in [Actor -> Task]
      /\ \A a \in Actor : TaskOK(task'[a], Matched, ex.st)
      /\ task'["rest"] = task["rest"]
  <2>1. CASE UNCHANGED task
    BY <2>1 DEF OrderOK
  <2>2. CASE \E k : TaskOK(k, Matched, ex.st) /\ SetTask("ws", k)
    <3>1. PICK k : TaskOK(k, Matched, ex.st) /\ SetTask("ws", k)
      BY <2>2
    <3>2. "ws" \in Actor /\ "rest" \in Actor \ {"ws"}
      BY DEF Actor
    <3> QED BY <3>1, <3>2, TaskSet
  <2> QED BY <2>1, <2>2
<1>2. FillOK'
  BY <1>0 DEF OrderOK, FillOK, Matched
<1>3. MissOK'
  BY <1>0, MissKept
<1>4. CursorOK'
  <2>1. \A t \in Trade : InHand(t) => InHand(t)'
    BY <1>0, <1>1 DEF InHand
  <2> QED BY <1>0, <2>1, CursorKept
<1>5. /\ RowOK(row', Matched, ex.st) /\ SaverOK(saver', Matched, ex.st)
      /\ PassOK(pass', Matched, ex.st, ex.vis)
  BY <1>0 DEF OrderOK
<1> QED BY <1>0, <1>1, <1>2, <1>3, <1>4, <1>5, SameExchange

LEMMA ForeignStep ==
    ASSUME OrderOK, ForeignTrade
    PROVE  OrderOK'
<1> DEFINE v == [kind |-> "foreign"]
<1>1. ex.st = "none"
  BY DEF OrderOK, SaverOK, ForeignTrade
<1>2. EventOK(v, Matched, ex.st)
  BY DEF EventOK, Event
<1>3. wsq' = <<v>>
  BY DEF ForeignTrade
<1>4. StreamOK(wsq', Matched, ex.st)
  BY <1>2, <1>3, OneEvent
<1>5. RestOK'
  BY DEF OrderOK, RestOK, ForeignTrade, rest
<1>6. UNCHANGED <<exchange, store, owned, saver, rest, task, quar>>
  BY DEF ForeignTrade
<1> QED BY <1>4, <1>5, <1>6, StreamStep

LEMMA LinkStep ==
    ASSUME OrderOK, LinkDrops
    PROVE  OrderOK'
<1>1. StreamOK(wsq', Matched, ex.st)
  BY NoStream DEF LinkDrops
<1>2. RestOK'
  BY DEF OrderOK, RestOK, LinkDrops, rest
<1>3. TaskOK(NoTask, Matched, ex.st) /\ SetTask("ws", NoTask)
  BY NoTaskOK DEF LinkDrops
<1> QED BY <1>1, <1>2, <1>3, StreamStep DEF LinkDrops

LEMMA TakeEventStep ==
    ASSUME OrderOK, TakeEvent
    PROVE  OrderOK'
<1> DEFINE v == Head(wsq)
<1>1. StreamOK(Tail(wsq), Matched, ex.st) /\ EventOK(v, Matched, ex.st)
  BY HeldStream, StreamTail DEF TakeEvent
<1>2. UNCHANGED <<exchange, store, owned, saver, rest>> /\ UNCHANGED <<owned, cursor>>
  BY DEF TakeEvent, rest
<1>3. Footprint \in {"unset", "without", "with"}
  BY DEF Footprint, OrderOK, RestOK
<1>4. CASE /\ v.kind = "order" /\ SetTask("ws", OrderUpdate(v.st, v.n)) /\ wsq' = Tail(wsq)
           /\ UNCHANGED <<link, healthy, cache, quar>>
  <2>1. /\ ex.st # "none" /\ v.st \in Closed \cup {"live"} /\ v.n \in Nat
        /\ ex.st = "live" => v.st # "cancelled"
    BY <1>1, <1>4 DEF EventOK
  <2>2. TaskOK(OrderUpdate(v.st, v.n), Matched, ex.st)
    BY <2>1, OrderUpdateOK
  <2>3. RestOK'
    BY <1>2, <1>4 DEF OrderOK, RestOK
  <2> QED BY <1>1, <1>2, <1>4, <2>2, <2>3, StreamStep
<1>5. CASE /\ v.kind = "trade" /\ SetTask("ws", TradeUpdate(v.t, v.st)) /\ wsq' = Tail(wsq)
           /\ UNCHANGED <<link, healthy, cache, quar>>
  <2>1. /\ ex.st # "none" /\ v.t \in Matched /\ v.st \in Settlement \ {"none"}
    BY <1>1, <1>5 DEF EventOK
  <2>2. TaskOK(TradeUpdate(v.t, v.st), Matched, ex.st)
    BY <2>1, TradeUpdateOK DEF Matched
  <2>3. RestOK'
    BY <1>2, <1>5 DEF OrderOK, RestOK
  <2> QED BY <1>1, <1>2, <1>5, <2>2, <2>3, StreamStep
<1>6. CASE /\ Unmapped
           /\ \/ wsq' = Tail(wsq) /\ UNCHANGED <<link, healthy>>
              \/ wsq' = <<>> /\ link' = "down" /\ healthy' = FALSE
           /\ UNCHANGED task
  <2>1. StreamOK(wsq', Matched, ex.st)
    BY <1>1, <1>6, NoStream
  <2>2. RestOK' /\ (quar' = FALSE => quar = FALSE)
    BY <1>2, <1>3, <1>6 DEF OrderOK, RestOK, Unmapped
  <2> QED BY <1>2, <1>6, <2>1, <2>2, StreamStep
<1>7. CASE /\ cache' = Footprint /\ wsq' = Tail(wsq)
           /\ UNCHANGED <<task, link, healthy, quar>>
  <2>1. RestOK'
    BY <1>2, <1>3, <1>7 DEF OrderOK, RestOK
  <2> QED BY <1>1, <1>2, <1>7, <2>1, StreamStep
<1> QED
  <2> HIDE DEF v
  <2> QED BY <1>4, <1>5, <1>6, <1>7 DEF TakeEvent, v

-----------------------------------------------------------------------------
(* The REST pass *)

LEMMA LeastExists ==
    ASSUME NEW T, T \subseteq Nat, T # {}
    PROVE  \E x \in T : \A y \in T : x <= y
<1>1. PICK x \in T : \A y \in T : ~ (<<y, x>> \in OpToRel(<, Nat))
  BY NatLessThanWellFounded, WFMin
<1>2. \A y \in T : ~ (y < x)
  BY <1>1 DEF OpToRel
<1> QED BY <1>2

(* The list is worked off in the order of matching. *)
LEMMA FirstTrade ==
    ASSUME NEW L, L \subseteq Trade \X Settlement, L # {},
           NEW u, u = CHOOSE x \in L : \A y \in L : x[1] <= y[1]
    PROVE  u \in L /\ \A y \in L : u[1] <= y[1]
<1> DEFINE T == {x[1] : x \in L}
<1>1. T \subseteq Nat /\ T # {}
  BY OrderAssumption
<1>2. PICK n \in T : \A m \in T : n <= m
  BY <1>1, LeastExists
<1>3. \E x \in L : \A y \in L : x[1] <= y[1]
  BY <1>2
<1> QED BY <1>3

LEMMA NewestIs ==
    ASSUME OrderOK
    PROVE  Newest \in Matched \cup {0} /\ Newest \in Nat /\ \A u \in Matched : u <= Newest
<1>1. Matched \subseteq Nat
  BY OrderAssumption DEF Matched
<1>2. \E m \in Matched \cup {0} : \A u \in Matched : u <= m
  BY DEF OrderOK, TradesOK
<1>3. \E m \in Matched \cup {0} : \A u \in Matched \cup {0} : m >= u
  BY <1>1, <1>2
<1>4. Newest \in Matched \cup {0} /\ \A u \in Matched \cup {0} : Newest >= u
  BY <1>3 DEF Newest, Max
<1> QED BY <1>1, <1>4

LEMMA HeldPass ==
    ASSUME OrderOK
    PROVE  /\ PassOK(pass, Matched, ex.st, ex.vis) /\ pass \in Pass
           /\ pass.todo \subseteq Trade \X Settlement /\ pass.latest \in Nat
           /\ pass.absent \in BOOLEAN
BY PassFields DEF OrderOK, PassOK

(* A step of the pass. *)
LEMMA PassOrder ==
    ASSUME OrderOK, ex' = ex, tr' = tr, fill' = fill,
           RowOK(row', Matched, ex.st), MissOK', CursorOK', RestOK',
           UNCHANGED <<owned, saver>>, wsq' = wsq \/ wsq' = <<>>,
           UNCHANGED task \/ \E k : TaskOK(k, Matched, ex.st) /\ SetTask("rest", k),
           PassOK(pass', Matched, ex.st, ex.vis)
    PROVE  OrderOK'
<1>1. /\ task' \in [Actor -> Task]
      /\ \A a \in Actor : TaskOK(task'[a], Matched, ex.st)
  <2>1. CASE UNCHANGED task
    BY <2>1 DEF OrderOK
  <2>2. CASE \E k : TaskOK(k, Matched, ex.st) /\ SetTask("rest", k)
    BY <2>2, TaskSet DEF Actor
  <2> QED BY <2>1, <2>2
<1>2. FillOK'
  BY DEF OrderOK, FillOK, Matched
<1>3. StreamOK(wsq', Matched, ex.st)
  BY HeldStream, NoStream
<1>4. SaverOK(saver', Matched, ex.st)
  BY DEF OrderOK
<1> QED BY <1>1, <1>2, <1>3, <1>4, SameExchange

(* Between two trades of the list nothing is in hand. *)
LEMMA NoneInHand ==
    ASSUME task["rest"].pc = "idle", pass.pc # "each" \/ pass.todo = {}
    PROVE  \A t \in Trade : ~ InHand(t)
BY DEF InHand, TradeCall

(* A step of the pass that neither lists nor takes a trade. *)
LEMMA PlainPassStep ==
    ASSUME OrderOK, task["rest"].pc = "idle", pass.pc # "each" \/ pass.todo = {},
           UNCHANGED <<exchange, store, owned, saver, wsq, link, healthy, cursor, cache, quar>>,
           pass.pc \notin {"idle", "pos"},
           pass'.pc # "each", pass'.pc \in Listed => pass.pc \in Listed,
           pass'.latest = pass.latest,
           UNCHANGED task \/ \E k : TaskOK(k, Matched, ex.st) /\ SetTask("rest", k),
           PassOK(pass', Matched, ex.st, ex.vis)
    PROVE  OrderOK'
<1>0. UNCHANGED <<ex, tr, row, fill, owned, saver, wsq, link, healthy, cursor, cache, quar>>
  BY DEF exchange, store
<1>1. RestOK'
  BY <1>0 DEF OrderOK, RestOK
<1>2. MissOK'
  BY <1>0, MissKept
<1>3. CursorOK'
  BY <1>0, NoneInHand, CursorKept
<1>4. RowOK(row', Matched, ex.st)
  BY <1>0 DEF OrderOK
<1> QED BY <1>0, <1>1, <1>2, <1>3, <1>4, PassOrder

LEMMA StartStep ==
    ASSUME OrderOK, StartPass
    PROVE  OrderOK'
<1>1. /\ UNCHANGED <<tr, row, fill, owned, saver, wsq, link, healthy, cursor, quar>>
      /\ cache' = "unset"
  BY DEF StartPass, store
<1>2. /\ ex'.st = ex.st /\ ex'.vis = TRUE /\ Matched' = Matched
      /\ ex' \in [st : Closed \cup {"none", "live"}, vis : BOOLEAN]
  BY <1>1 DEF OrderOK, TradesOK, StartPass, Matched
<1>3. TradesOK' /\ RestOK' /\ FillOK' /\ QueueOK'
  BY <1>1, <1>2 DEF OrderOK, TradesOK, RestOK, FillOK, QueueOK
<1>4. cursor \in Nat
  BY DEF OrderOK, RestOK
<1>5. /\ pass' \in Pass /\ pass'.pc = "snap" /\ pass'.absent = FALSE /\ pass'.todo = {}
      /\ pass'.latest = cursor
  BY <1>4 DEF StartPass, Pass, NoPass
<1>6. PassOK(pass', Matched, ex.st, TRUE)
  BY <1>5 DEF PassOK
<1>7. /\ task' \in [Actor -> Task]
      /\ \A a \in Actor : TaskOK(task'[a], Matched, ex.st)
  <2>1. CASE UNCHANGED task
    BY <2>1 DEF OrderOK
  <2>2. CASE /\ ex.st = "live"
             /\ SetTask("rest", OrderUpdate("live", Cardinality(Matched)))
    <3>1. Cardinality(Matched) \in Nat
      BY FS_CardinalityType DEF OrderOK, TradesOK
    <3>2. TaskOK(OrderUpdate("live", Cardinality(Matched)), Matched, ex.st)
      BY <2>2, <3>1, OrderUpdateOK
    <3> QED BY <2>2, <3>2, TaskSet DEF Actor
  <2> QED BY <2>1, <2>2 DEF StartPass
<1>8. MissOK'
  BY <1>2 DEF MissOK
<1>9. CursorOK'
  BY <1>1, <1>2, <1>5 DEF OrderOK, CursorOK, Reached, Listed
<1>10. RowOK(row, Matched, ex.st) /\ SaverOK(saver, Matched, ex.st)
  BY DEF OrderOK
<1> QED BY <1>1, <1>2, <1>3, <1>6, <1>7, <1>8, <1>9, <1>10 DEF OrderOK

LEMMA FindMissingStep ==
    ASSUME OrderOK, FindMissing
    PROVE  OrderOK'
<1>1. pass.pc = "snap" /\ task["rest"].pc = "idle"
  BY DEF FindMissing, At
<1>2. row.id => ex.st # "none"
  BY RowFields DEF OrderOK, RowOK
<1>3. /\ pass' \in Pass /\ pass'.pc \in {"get", "list"} /\ (pass'.pc = "get" => row.id)
      /\ pass'.absent = pass.absent /\ pass'.todo = pass.todo /\ pass'.latest = pass.latest
  BY HeldPass DEF FindMissing, Pass
<1>4. PassOK(pass', Matched, ex.st, ex.vis)
  BY <1>1, <1>2, <1>3, HeldPass DEF PassOK
<1> QED BY <1>1, <1>3, <1>4, PlainPassStep DEF FindMissing, Listed

LEMMA GetOrderStep ==
    ASSUME OrderOK, GetOrder
    PROVE  OrderOK'
<1>1. pass.pc = "get" /\ task["rest"].pc = "idle"
  BY DEF GetOrder, At
<1>2. /\ ex.st \in Closed \cup {"live"} /\ ex.vis \in BOOLEAN
      /\ ex.st # "none" /\ Cardinality(Matched) \in Nat
  BY <1>1, HeldPass, FS_CardinalityType DEF OrderOK, TradesOK, PassOK
<1>3. CASE /\ SetTask("rest", OrderUpdate(ex.st, Cardinality(Matched)))
           /\ pass' = [pass EXCEPT !.pc = "list"]
  <2>1. TaskOK(OrderUpdate(ex.st, Cardinality(Matched)), Matched, ex.st)
    BY <1>2, OrderUpdateOK
  <2>2. /\ pass' \in Pass /\ pass'.pc = "list" /\ pass'.latest = pass.latest
        /\ pass'.absent = pass.absent /\ pass'.todo = pass.todo
    BY <1>3, HeldPass DEF Pass
  <2>3. PassOK(pass', Matched, ex.st, ex.vis)
    BY <1>2, <2>2, HeldPass DEF PassOK
  <2> QED BY <1>1, <1>3, <2>1, <2>2, <2>3, PlainPassStep DEF GetOrder, Listed
<1>4. CASE /\ ~ex.vis \/ ex.st \in Closed
           /\ pass' = [pass EXCEPT !.pc = "list", !.absent = TRUE]
           /\ UNCHANGED task
  <2>1. /\ pass' \in Pass /\ pass'.pc = "list" /\ pass'.latest = pass.latest
        /\ pass'.absent = TRUE /\ pass'.todo = pass.todo
    BY <1>4, HeldPass DEF Pass
  <2>2. ~(ex.st = "live" /\ ex.vis = TRUE)
    BY <1>4 DEF Closed
  <2>3. PassOK(pass', Matched, ex.st, ex.vis)
    BY <1>2, <2>1, <2>2 DEF PassOK
  <2> QED BY <1>1, <1>4, <2>1, <2>3, PlainPassStep DEF GetOrder, Listed
<1> QED BY <1>3, <1>4 DEF GetOrder

LEMMA ListStep ==
    ASSUME OrderOK, ListTrades
    PROVE  OrderOK'
<1>1. pass.pc = "list" /\ task["rest"].pc = "idle"
  BY DEF ListTrades, At
<1>2. /\ UNCHANGED <<ex, tr, row, fill, owned, saver, wsq, link, healthy, task, cursor, quar>>
      /\ cache' \in {cache, Footprint}
  BY DEF ListTrades, exchange, store
<1>3. cursor \in Nat /\ Newest \in Nat /\ Matched \subseteq Trade /\ Trade \subseteq Nat \ {0}
  BY NewestIs, OrderAssumption DEF OrderOK, RestOK, Matched
<1> DEFINE L == {<<t, tr[t]>> : t \in {u \in Matched : pass.absent \/ u >= cursor}}
<1>4. PICK latest \in {cursor, Newest + 1} :
         pass' = [pass EXCEPT !.pc = "each", !.latest = Max({cursor, latest}), !.todo = L]
  BY DEF ListTrades
<1>5. Max({cursor, latest}) \in {cursor, Newest + 1} /\ Max({cursor, latest}) \in Nat
  <2>1. latest \in Nat
    BY <1>3, <1>4
  <2>2. Max({cursor, latest}) \in {cursor, latest} /\ Max({cursor, latest}) \in Nat
    BY <1>3, <2>1, Smallest
  <2> QED BY <1>4, <2>2
<1>6. /\ L \in SUBSET (Trade \X Settlement)
      /\ \A x \in L : x[1] \in Matched /\ x[2] # "none"
      /\ \A t \in Matched : ~(t < cursor) => \E x \in L : x[1] = t
  <2>1. \A t \in Matched : t \in Trade /\ tr[t] \in Settlement /\ tr[t] # "none"
    BY DEF OrderOK, TradesOK, Matched
  <2>2. ASSUME NEW t \in Matched, ~(t < cursor) PROVE <<t, tr[t]>> \in L
    <3>1. t \in Nat /\ t >= cursor
      BY <1>3, <2>2
    <3> QED BY <3>1
  <2>3. \A x \in L : x \in Trade \X Settlement /\ x[1] \in Matched /\ x[2] # "none"
    BY <2>1
  <2>4. \A t : <<t, tr[t]>>[1] = t
    OBVIOUS
  <2> HIDE DEF L
  <2> QED BY <2>2, <2>3, <2>4
<1> HIDE DEF L
<1>7. /\ pass' \in Pass /\ pass'.pc = "each" /\ pass'.absent = pass.absent
      /\ pass'.todo = L /\ pass'.latest \in {cursor, Newest + 1} /\ pass'.latest \in Nat
  BY <1>4, <1>5, <1>6, HeldPass DEF Pass
<1>8. PassOK(pass', Matched, ex.st, ex.vis)
  <2>1. ex.st = "none" => L = {}
    BY <1>6 DEF OrderOK, TradesOK
  <2> QED BY <1>1, <1>6, <1>7, <2>1, HeldPass DEF PassOK
<1>9. RestOK'
  BY <1>2 DEF OrderOK, RestOK, Footprint
<1>10. MissOK'
  BY <1>1, <1>2, MissKept
<1>11. Reached(pass'.latest)
  <2>1. Reached(cursor)
    BY DEF OrderOK, CursorOK
  <2>2. Reached(Newest + 1)
    <3> SUFFICES ASSUME NEW t \in Trade, t < Newest + 1 PROVE t \in Matched
      BY DEF Reached
    <3>1. t \in Nat /\ t # 0 /\ t <= Newest
      BY <1>3
    <3>2. Newest \in Matched
      BY <1>3, <3>1, NewestIs
    <3>3. CASE t = Newest
      BY <3>2, <3>3
    <3>4. CASE t < Newest
      BY <3>2, <3>4 DEF OrderOK, TradesOK
    <3> QED BY <1>3, <3>1, <3>3, <3>4
  <2> QED BY <1>7, <2>1, <2>2
<1>12. CursorOK'
  <2>1. Matched' = Matched /\ Reached(cursor)' /\ Reached(pass.latest)'
    BY <1>2, <1>11 DEF OrderOK, CursorOK, Reached, Matched
  <2>2. \A t \in Matched : ~(t < cursor) => InHand(t)'
    BY <1>6, <1>7 DEF InHand
  <2>3. quar' = FALSE => \A t \in Matched : t < cursor => fill'[t] # "none"
    BY <1>2 DEF OrderOK, CursorOK
  <2> QED BY <1>2, <2>1, <2>2, <2>3 DEF CursorOK
<1>13. RowOK(row', Matched, ex.st)
  BY <1>2 DEF OrderOK
<1> QED BY <1>2, <1>8, <1>9, <1>10, <1>12, <1>13, PassOrder

(* A pass that fails, or ends with the cursor where it was. *)
LEMMA EndedPass ==
    ASSUME OrderOK, UNCHANGED <<exchange, store, owned, saver>>,
           wsq' = wsq \/ wsq' = <<>>, pass' = NoPass, RestOK', quar' = FALSE => quar = FALSE,
           UNCHANGED task \/ SetTask("rest", NoTask), Reached(cursor'),
           quar' = FALSE => \A t \in Matched : t < cursor' => fill[t] # "none"
    PROVE  OrderOK'
<1>0. UNCHANGED <<ex, tr, row, fill, owned, saver>> /\ NoPass.pc = "idle" /\ NoPass.latest = 0
  BY DEF exchange, store, NoPass
<1>1. MissOK'
  BY <1>0 DEF MissOK
<1>2. CursorOK'
  <2>1. Reached(0)
    BY OrderAssumption DEF Reached
  <2>2. Matched' = Matched /\ Reached(cursor)' /\ Reached(pass.latest)'
    BY <1>0, <2>1 DEF Reached, Matched
  <2>3. pass'.pc \notin Listed
    BY <1>0 DEF Listed
  <2> QED BY <1>0, <2>2, <2>3 DEF CursorOK
<1>3. RowOK(row', Matched, ex.st) /\ PassOK(pass', Matched, ex.st, ex.vis)
  BY <1>0, NoPassOK DEF OrderOK
<1> QED BY <1>0, <1>1, <1>2, <1>3, NoTaskOK, PassOrder

LEMMA TakeTradeStep ==
    ASSUME OrderOK, TakeTrade
    PROVE  OrderOK'
<1>0. PICK u : u = CHOOSE x \in pass.todo : \A y \in pass.todo : x[1] <= y[1]
  OBVIOUS
<1> DEFINE t == u[1]
           n == IF pass.pc = "each" THEN Max({pass.latest, t}) ELSE pass.latest
           done == [pass EXCEPT !.todo = pass.todo \ {u}, !.seen = pass.seen \cup {t},
                                !.latest = n]
           s == IF pass.pc = "each" THEN u[2] ELSE tr[t]
<1>1. /\ pass.pc \in {"each", "poll"} /\ task["rest"].pc = "idle" /\ pass.todo # {}
  BY DEF TakeTrade, At
<1>2. /\ u \in pass.todo /\ \A y \in pass.todo : t <= y[1]
      /\ t \in Trade /\ u[2] \in Settlement
  <2>1. u \in pass.todo /\ \A y \in pass.todo : u[1] <= y[1]
    BY <1>0, <1>1, HeldPass, FirstTrade
  <2> QED BY <2>1, HeldPass
<1>3. /\ t \in Matched /\ (pass.pc = "each" => u[2] # "none")
      /\ ex.st # "none"
  BY <1>1, <1>2, HeldPass DEF PassOK
<1>4. \/ /\ SetTask("rest", TradeUpdate(t, s)) /\ pass' = done
         /\ UNCHANGED <<healthy, cache, quar>>
      \/ /\ Unmapped /\ Footprint = "without" /\ pass' = done /\ UNCHANGED <<healthy, task>>
      \/ /\ Unmapped /\ FailPass
  BY <1>0 DEF TakeTrade
<1>5. /\ UNCHANGED <<ex, tr, row, fill, owned, saver, wsq, link, cursor>>
      /\ UNCHANGED <<exchange, store, owned, saver>>
  BY DEF TakeTrade, exchange, store
<1>6. s \in Settlement \ {"none"}
  BY <1>2, <1>3 DEF OrderOK, TradesOK, Matched
<1>7. /\ n \in Nat /\ Reached(n) /\ Matched \subseteq Trade /\ Trade \subseteq Nat
      /\ pass.latest \in Nat /\ n \in {pass.latest, t}
      /\ pass.pc = "poll" => n = pass.latest
  <2>1. /\ pass.latest \in Nat /\ t \in Nat /\ Reached(pass.latest) /\ Trade \subseteq Nat
        /\ Matched \subseteq Trade
    BY <1>2, HeldPass, OrderAssumption DEF OrderOK, CursorOK, Matched
  <2>2. Reached(t)
    BY <1>3 DEF OrderOK, TradesOK, Reached
  <2>3. n \in {pass.latest, t}
    BY <2>1, Smallest
  <2> QED BY <2>1, <2>2, <2>3
<1> HIDE DEF n, s
<1>8. ASSUME pass' = done
      PROVE  /\ pass' \in Pass /\ pass'.pc = pass.pc /\ pass'.absent = pass.absent
             /\ pass'.todo = pass.todo \ {u} /\ pass'.latest = n
             /\ PassOK(pass', Matched, ex.st, ex.vis)
             /\ MissOK'
  <2>1. /\ pass' \in Pass /\ pass'.pc = pass.pc /\ pass'.absent = pass.absent
        /\ pass'.todo = pass.todo \ {u} /\ pass'.latest = n
    <3>1. t \in Trade /\ n \in Nat /\ pass \in Pass /\ pass.todo \subseteq Trade \X Settlement
      BY <1>2, <1>7, HeldPass
    <3> HIDE DEF t
    <3> QED BY <1>8, <3>1 DEF Pass
  <2>2. PassOK(pass', Matched, ex.st, ex.vis)
    BY <1>1, <1>3, <2>1, HeldPass DEF PassOK
  <2>3. MissOK'
    BY <1>1, <1>5, <2>1, MissKept
  <2> QED BY <2>1, <2>2, <2>3
<1>9. CASE /\ SetTask("rest", TradeUpdate(t, s)) /\ pass' = done
           /\ UNCHANGED <<healthy, cache, quar>>
  <2>1. /\ TaskOK(TradeUpdate(t, s), Matched, ex.st)
        /\ TradeUpdate(t, s).pc \in TradeCall /\ TradeUpdate(t, s).t = t
    BY <1>2, <1>3, <1>6, TradeUpdateOK
  <2>2. InHand(t)'
    <3>1. task'["rest"] = TradeUpdate(t, s)
      BY <1>9, <2>1, TaskSet DEF Actor
    <3> QED BY <2>1, <3>1 DEF InHand
  <2>3. RestOK'
    BY <1>5, <1>9 DEF OrderOK, RestOK
  <2>4. CursorOK'
    <3>1. Matched' = Matched /\ Reached(cursor)' /\ Reached(pass.latest)'
      BY <1>5, <1>7, <1>8, <1>9 DEF OrderOK, CursorOK, Reached, Matched
    <3>2. ASSUME quar' = FALSE, NEW v \in Matched, Due(v)'
          PROVE  fill'[v] # "none" \/ InHand(v)'
      <4>1. v \in Nat /\ t \in Nat
        BY <1>2, <1>7
      <4>2. CASE pass.pc = "poll"
        <5>1. v < pass.latest
          BY <1>7, <1>8, <1>9, <3>2, <4>2 DEF Due
        <5>2. ~ InHand(v)
          BY <1>1, <4>2 DEF InHand, TradeCall
        <5>3. Due(v) /\ pass.pc \in Listed
          BY <4>2, <5>1 DEF Due, Listed
        <5>4. quar = FALSE
          BY <1>9, <3>2
        <5>5. fill[v] # "none"
          BY <3>2, <5>2, <5>3, <5>4 DEF OrderOK, CursorOK
        <5> QED BY <1>5, <5>5
      <4>3. CASE pass.pc = "each" /\ v = t
        BY <2>2, <4>3
      <4>4. CASE pass.pc = "each" /\ v # t
        <5>1. Due(v)
          <6>1. v < n \/ \E x \in pass.todo : v < x[1]
            BY <1>8, <1>9, <3>2 DEF Due
          <6> QED BY <1>2, <1>7, <4>4, <6>1 DEF Due
        <5>2. fill[v] # "none" \/ InHand(v)
          BY <1>9, <3>2, <4>4, <5>1 DEF OrderOK, CursorOK, Listed
        <5>3. InHand(v) => InHand(v)'
          <6>1. ASSUME NEW x \in pass.todo, x[1] = v PROVE x \in pass'.todo
            BY <1>8, <1>9, <4>4, <6>1
          <6> QED BY <1>1, <1>8, <1>9, <6>1 DEF InHand, TradeCall
        <5> QED BY <1>5, <5>2, <5>3
      <4> QED BY <1>1, <4>2, <4>3, <4>4
    <3>3. quar' = FALSE => \A v \in Matched : v < cursor' => fill'[v] # "none"
      BY <1>5, <1>9 DEF OrderOK, CursorOK
    <3> QED BY <3>1, <3>2, <3>3 DEF CursorOK
  <2>5. RowOK(row', Matched, ex.st)
    BY <1>5 DEF OrderOK
  <2> HIDE DEF done, t
  <2> QED BY <1>5, <1>8, <1>9, <2>1, <2>3, <2>4, <2>5, PassOrder
<1>10. CASE Unmapped /\ Footprint = "without" /\ pass' = done /\ UNCHANGED <<healthy, task>>
  <2>1. quar' = TRUE /\ cache' = "without"
    BY <1>10 DEF Unmapped, OrderOK, RestOK
  <2>2. RestOK'
    BY <1>5, <1>10, <2>1 DEF OrderOK, RestOK
  <2>3. CursorOK'
    BY <1>5, <1>7, <1>8, <1>10, <2>1 DEF OrderOK, CursorOK, Reached, Matched
  <2>4. RowOK(row', Matched, ex.st)
    BY <1>5 DEF OrderOK
  <2> HIDE DEF done, t
  <2> QED BY <1>5, <1>8, <1>10, <2>2, <2>3, <2>4, PassOrder
<1>11. CASE Unmapped /\ FailPass
  <2>1. Footprint \in {"unset", "without", "with"}
    BY DEF Footprint, OrderOK, RestOK
  <2>2. RestOK' /\ (quar' = FALSE => quar = FALSE)
    BY <1>5, <1>11, <2>1 DEF Unmapped, FailPass, OrderOK, RestOK
  <2>3. Reached(cursor') /\ (quar' = FALSE => \A v \in Matched : v < cursor' => fill[v] # "none")
    BY <1>5, <2>2 DEF OrderOK, CursorOK
  <2> QED BY <1>5, <1>11, <2>2, <2>3, EndedPass DEF FailPass
<1> HIDE DEF done, t
<1> QED BY <1>4, <1>9, <1>10, <1>11

LEMMA FindPendingStep ==
    ASSUME OrderOK, FindPending
    PROVE  OrderOK'
<1>1. pass.pc = "each" /\ pass.todo = {} /\ task["rest"].pc = "idle"
  BY DEF FindPending, At
<1> DEFINE L == {<<t, "none">> : t \in PendingTrades \ pass.seen}
<1>2. PendingTrades \subseteq Matched /\ Matched \subseteq Trade
  BY DEF PendingTrades, OrderOK, FillOK, RowOK, Pending, Matched
<1>3. /\ L \in SUBSET (Trade \X Settlement) /\ \A x \in L : x[1] \in Matched
      /\ Matched = {} => L = {}
  BY <1>2 DEF Settlement
<1>4. pass' = [pass EXCEPT !.pc = "poll", !.todo = L]
  BY DEF FindPending
<1> HIDE DEF L
<1>5. /\ pass' \in Pass /\ pass'.pc = "poll" /\ pass'.latest = pass.latest
      /\ pass'.absent = pass.absent /\ pass'.todo = L
  BY <1>3, <1>4, HeldPass DEF Pass
<1>6. ex.st = "none" => Matched = {}
  BY DEF OrderOK, TradesOK
<1>7. PassOK(pass', Matched, ex.st, ex.vis)
  BY <1>1, <1>3, <1>5, <1>6, HeldPass DEF PassOK
<1> QED BY <1>1, <1>5, <1>7, PlainPassStep DEF FindPending, Listed

LEMMA CheckPendingStep ==
    ASSUME OrderOK, CheckPending
    PROVE  OrderOK'
<1>1. pass.pc = "poll" /\ pass.todo = {} /\ task["rest"].pc = "idle"
  BY DEF CheckPending, At
<1>2. /\ pass' \in Pass /\ pass'.pc \in {"confirm", "pos"}
      /\ pass'.pc = "confirm" => pass.absent = TRUE
      /\ pass'.latest = pass.latest /\ pass'.absent = pass.absent /\ pass'.todo = pass.todo
  BY HeldPass DEF CheckPending, Pass
<1>3. PassOK(pass', Matched, ex.st, ex.vis)
  BY <1>1, <1>2, HeldPass DEF PassOK
<1> QED BY <1>1, <1>2, <1>3, PlainPassStep DEF CheckPending, Listed

(* An open order that is confirmed absent is missed for the first time. *)
LEMMA ReadAbsentStep ==
    ASSUME OrderOK, ReadAbsent
    PROVE  OrderOK'
<1>1. pass.pc = "confirm" /\ task["rest"].pc = "idle"
  BY DEF ReadAbsent, At
<1>2. /\ pass.absent = TRUE /\ ex.st # "none" /\ ex.vis \in BOOLEAN
      /\ RowOK(row, Matched, ex.st)
  BY <1>1, HeldPass DEF PassOK, OrderOK, TradesOK
<1>3. ex.st = "live" => row.miss = 0
  BY <1>1, <1>2, HeldPass DEF PassOK, OrderOK, MissOK
<1>4. pass'.pc \in {"write", "pos"} /\ pass' = [pass EXCEPT !.pc = pass'.pc]
  BY HeldPass DEF ReadAbsent, Pass
<1>5. /\ pass' \in Pass /\ pass'.latest = pass.latest /\ pass'.absent = TRUE
      /\ pass'.todo = pass.todo
  BY <1>2, <1>4, HeldPass DEF Pass
<1>6. PassOK(pass', Matched, ex.st, ex.vis)
  BY <1>1, <1>2, <1>4, <1>5, HeldPass DEF PassOK
<1>7. UNCHANGED task \/ \E k : TaskOK(k, Matched, ex.st) /\ SetTask("rest", k)
  <2> DEFINE r == AbsentRow(row)
             k == [NoTask EXCEPT !.data = r]
  <2>1. RowOK(r, Matched, ex.st)
    BY <1>2, <1>3, AbsentRowOK
  <2>2. UNCHANGED task \/ SetTask("rest", k)
    BY DEF ReadAbsent
  <2> HIDE DEF r
  <2>3. k \in Task /\ k.pc = "idle" /\ k.st = "none" /\ k.data = r
    BY <2>1, NoTaskOK DEF Task, NoTask, RowOK
  <2> HIDE DEF k
  <2>4. TaskOK(k, Matched, ex.st)
    BY <1>2, <2>1, <2>3 DEF TaskOK, TradeCall
  <2> QED BY <2>2, <2>4
<1> QED BY <1>1, <1>4, <1>5, <1>6, <1>7, PlainPassStep DEF ReadAbsent, Listed

LEMMA WriteAbsentStep ==
    ASSUME OrderOK, WriteAbsent
    PROVE  OrderOK'
<1>1. pass.pc = "write" /\ task["rest"].pc = "idle"
  BY DEF WriteAbsent, At
<1>2. /\ UNCHANGED <<ex, tr, fill, owned, saver, wsq, link, healthy, cursor, cache, quar>>
      /\ SetTask("rest", NoTask)
  BY DEF WriteAbsent, exchange
<1>3. /\ ex.st # "none" /\ RowOK(row, Matched, ex.st) /\ row \in Row
      /\ RowOK(task["rest"].data, Matched, ex.st)
  BY <1>1, HeldPass, HeldTask DEF PassOK, RowOK, Actor
<1> DEFINE st == task["rest"].data.st
           m == task["rest"].data.miss
<1>4. st \in RowStatus /\ m \in Nat /\ (ex.st = "live" => st # "cancelled")
  BY <1>3, RowFields DEF RowOK
<1>5. row' = [row EXCEPT !.st = st, !.miss = m]
  BY DEF WriteAbsent
<1> HIDE DEF st, m
<1>6. row' \in Row /\ row'.ids = row.ids /\ row'.st = st
  BY <1>3, <1>4, <1>5 DEF Row
<1>7. RowOK(row', Matched, ex.st)
  BY <1>3, <1>4, <1>6, RowLike
<1>8. /\ pass' \in Pass /\ pass'.pc = "pos" /\ pass'.latest = pass.latest
      /\ pass'.absent = pass.absent /\ pass'.todo = pass.todo
  BY HeldPass DEF WriteAbsent, Pass
<1>9. PassOK(pass', Matched, ex.st, ex.vis)
  BY <1>1, <1>8, HeldPass DEF PassOK
<1>10. MissOK'
  BY <1>8 DEF MissOK
<1>11. RestOK'
  BY <1>2 DEF OrderOK, RestOK
<1>12. CursorOK'
  BY <1>1, <1>2, <1>8, NoneInHand, CursorKept DEF Listed
<1> QED BY <1>2, <1>7, <1>9, <1>10, <1>11, <1>12, NoTaskOK, PassOrder

(* The cursor moves last: every trade below its new place is stored. *)
LEMMA PositionsStep ==
    ASSUME OrderOK, CheckPositions
    PROVE  OrderOK'
<1>1. pass.pc = "pos" /\ task["rest"].pc = "idle"
  BY DEF CheckPositions, At
<1>2. /\ UNCHANGED <<exchange, store, owned, saver, wsq>> /\ pass' = NoPass
      /\ UNCHANGED task \/ SetTask("rest", NoTask)
      /\ cursor' = cursor \/ cursor' = pass.latest
      /\ link' \in {link, "up"} /\ healthy' \in BOOLEAN
      /\ cache' \in {cache, Footprint} /\ quar' \in BOOLEAN
      /\ quar' = FALSE => quar = FALSE
  BY DEF CheckPositions, FailPass, NextCursor, OrderOK, RestOK
<1>3. Reached(cursor) /\ Reached(pass.latest) /\ pass.latest \in Nat
  BY HeldPass DEF OrderOK, CursorOK
<1>4. RestOK'
  BY <1>2, <1>3 DEF OrderOK, RestOK, Footprint
<1>5. quar' = FALSE => \A t \in Matched : t < cursor' => fill[t] # "none"
  <2>1. \A t \in Trade : ~ InHand(t)
    BY <1>1, NoneInHand
  <2>2. \A t \in Matched : t \in Trade /\ (t < pass.latest => Due(t))
    BY DEF Matched, Due
  <2> QED BY <1>1, <1>2, <2>1, <2>2 DEF OrderOK, CursorOK, Listed
<1> QED BY <1>2, <1>3, <1>4, <1>5, EndedPass

LEMMA RaiseStep ==
    ASSUME OrderOK, PassRaises
    PROVE  OrderOK'
<1>1. /\ UNCHANGED <<exchange, store, owned, saver, wsq, link, cursor, cache, quar>>
      /\ pass' = NoPass /\ healthy' = FALSE /\ SetTask("rest", NoTask)
  BY DEF PassRaises, FailPass
<1>2. RestOK'
  BY <1>1 DEF OrderOK, RestOK
<1>3. Reached(cursor') /\ (quar' = FALSE => \A t \in Matched : t < cursor' => fill[t] # "none")
  BY <1>1 DEF OrderOK, CursorOK
<1> QED BY <1>1, <1>2, <1>3, EndedPass

(* After a restart history is read again from the beginning. *)
LEMMA RestartStep ==
    ASSUME OrderOK, Restart
    PROVE  OrderOK'
<1>1. /\ UNCHANGED <<ex, tr, row, fill, owned>>
      /\ wsq' = <<>> /\ link' = "down" /\ healthy' = FALSE
      /\ task' = [a \in Actor |-> NoTask]
      /\ pass' = NoPass /\ cursor' = 0 /\ cache' = "unset" /\ quar' = FALSE
  BY DEF Restart, exchange, store
<1>2. RestOK' /\ FillOK'
  BY <1>1 DEF OrderOK, RestOK, FillOK, Matched
<1>3. SaverOK(saver', Matched, ex.st) /\ RowOK(row', Matched, ex.st)
  BY <1>1, DoneSaverOK DEF Restart, OrderOK
<1>4. StreamOK(wsq', Matched, ex.st) /\ PassOK(pass', Matched, ex.st, ex.vis)
  BY <1>1, NoStream, NoPassOK
<1>5. task' \in [Actor -> Task] /\ \A a \in Actor : TaskOK(task'[a], Matched, ex.st)
  BY <1>1, NoTaskOK
<1>6. MissOK'
  BY <1>1 DEF MissOK, NoPass
<1>7. CursorOK'
  <2>1. \A t \in Trade : ~(t < 0)
    BY OrderAssumption
  <2>2. pass'.pc = "idle" /\ pass'.latest = 0
    BY <1>1 DEF NoPass
  <2> QED BY <1>1, <2>1, <2>2 DEF CursorOK, Reached, Listed, Matched
<1> QED BY <1>1, <1>2, <1>3, <1>4, <1>5, <1>6, <1>7, SameExchange

-----------------------------------------------------------------------------
(* Theorems *)

LEMMA InitOrder == Init => OrderOK
<1> SUFFICES ASSUME Init PROVE OrderOK
  OBVIOUS
<1>1. Matched = {}
  BY DEF Init, Matched, NoFills
<1>2. ex.st = "none" /\ ex \in [st : Closed \cup {"none", "live"}, vis : BOOLEAN]
  BY DEF Init
<1>3. TradesOK
  <2>1. Cardinality({}) = 0 /\ IsFiniteSet({}) /\ 0 <= Size /\ 0 < Size
    BY FS_EmptySet, OrderAssumption
  <2>2. tr \in [Trade -> Settlement]
    BY DEF Init, NoFills, Settlement
  <2> QED BY <1>1, <1>2, <2>1, <2>2 DEF TradesOK
<1>4. RestOK
  BY DEF Init, RestOK
<1>5. FillOK
  BY DEF Init, FillOK, NoFills, Settlement
<1>6. QueueOK
  BY NoStream DEF Init, QueueOK, StreamOK
<1>7. RowOK(row, Matched, ex.st) /\ PassOK(pass, Matched, ex.st, ex.vis)
  BY NoRowOK, NoPassOK DEF Init
<1>8. SaverOK(saver, Matched, ex.st)
  BY <1>2, NoSaverOK DEF Init
<1>9. task \in [Actor -> Task] /\ \A a \in Actor : TaskOK(task[a], Matched, ex.st)
  BY NoTaskOK DEF Init
<1>10. MissOK
  BY <1>2 DEF MissOK
<1>11. CursorOK
  <2>1. \A t \in Trade : ~(t < 0)
    BY OrderAssumption
  <2>2. pass.pc = "idle" /\ pass.latest = 0 /\ cursor = 0
    BY DEF Init, NoPass
  <2> QED BY <1>1, <2>1, <2>2 DEF CursorOK, Reached, Listed
<1> QED BY <1>3, <1>4, <1>5, <1>6, <1>7, <1>8, <1>9, <1>10, <1>11 DEF OrderOK

LEMMA StutterStep ==
    ASSUME OrderOK, UNCHANGED vars
    PROVE  OrderOK'
<1>1. UNCHANGED <<ex, tr, row, fill, owned, saver, wsq, link, healthy, task, pass,
                  cursor, cache, quar>>
  BY DEF vars
<1>2. RestOK' /\ FillOK'
  BY <1>1 DEF OrderOK, RestOK, FillOK, Matched
<1>3. MissOK' /\ (\A t \in Trade : InHand(t) => InHand(t)')
  BY <1>1 DEF OrderOK, MissOK, InHand
<1>4. CursorOK'
  BY <1>1, <1>3, CursorKept
<1>5. StreamOK(wsq', Matched, ex.st)
  BY <1>1, HeldStream
<1>6. /\ RowOK(row', Matched, ex.st) /\ SaverOK(saver', Matched, ex.st)
      /\ PassOK(pass', Matched, ex.st, ex.vis) /\ task' \in [Actor -> Task]
      /\ \A a \in Actor : TaskOK(task'[a], Matched, ex.st)
  BY <1>1 DEF OrderOK
<1> QED BY <1>1, <1>2, <1>3, <1>4, <1>5, <1>6, SameExchange

LEMMA NextOrder ==
    ASSUME OrderOK, [Next]_vars
    PROVE  OrderOK'
<1>1. ASSUME NEW t \in Trade, MatchTrade(t) PROVE OrderOK'
  BY <1>1, MatchStep
<1>2. ASSUME NEW t \in Trade, SettleTrade(t) PROVE OrderOK'
  BY <1>2, SettleStep
<1>3. CASE CancelOrder
  BY <1>3, CancelStep
<1>4. CASE ForeignTrade
  BY <1>4, ForeignStep
<1>5. CASE Submission
  BY <1>5, ReserveStep, PostStep, RespondStep, ReadExecutionStep, WriteExecutionStep
     DEF Submission
<1>6. ASSUME NEW a \in Actor, StoreCall(a) PROVE OrderOK'
  BY <1>6, ReadOrderStep, WriteOrderStep, ReadTradeOrderStep, ReadFillStep,
     UpsertFillStep, ReadFillsStep, WriteFilledStep DEF StoreCall
<1>7. CASE TakeEvent
  BY <1>7, TakeEventStep
<1>8. CASE LinkDrops
  BY <1>8, LinkStep
<1>9. CASE PassStep
  BY <1>9, StartStep, FindMissingStep, GetOrderStep, ListStep, TakeTradeStep,
     FindPendingStep, CheckPendingStep, ReadAbsentStep, WriteAbsentStep, PositionsStep
     DEF PassStep
<1>10. CASE PassRaises
  BY <1>10, RaiseStep
<1>11. CASE Restart
  BY <1>11, RestartStep
<1>12. CASE UNCHANGED vars
  BY <1>12, StutterStep
<1> QED BY <1>1, <1>2, <1>3, <1>4, <1>5, <1>6, <1>7, <1>8, <1>9, <1>10, <1>11, <1>12 DEF Next

(* OrderOK holds in every reachable state of the model.                      *)
THEOREM OrderInvariant == Spec => []OrderOK
BY InitOrder, NextOrder, PTL DEF Spec

(* Every variable keeps its type: what rows, payloads, events and passes     *)
(* hold, for any number of trades (reconcile.py, supabase_reconcile.py).     *)
THEOREM OrderTypes == Spec => []TypeOK
<1>1. OrderOK => TypeOK
  BY DEF OrderOK, TypeOK, TradesOK, RestOK, FillOK, QueueOK, RowOK, SaverOK, PassOK
<1> QED BY <1>1, OrderInvariant, PTL

(* A row reads cancelled only when the order is no longer open at the        *)
(* exchange, whatever was read before it was written                         *)
(* (confirm_orders_absent, reconcile_order, save_execution).                 *)
THEOREM CancellationTheorem == Spec => []CancelledIsGone
<1>1. OrderOK => CancelledIsGone
  BY DEF OrderOK, RowOK, CancelledIsGone
<1> QED BY <1>1, OrderInvariant, PTL

(* Unless the token is quarantined, every matched trade behind the cursor    *)
(* has a fills row: _reconcile_rest_once stores what it lists before it      *)
(* moves _trade_after, and starts again from 0 after a restart.              *)
THEOREM CursorTheorem == Spec => []NoTradeLost
<1>1. OrderOK => NoTradeLost
  BY DEF OrderOK, CursorOK, RestOK, NoTradeLost
<1> QED BY <1>1, OrderInvariant, PTL
=============================================================================
