------------------------- MODULE CycleRequestsProofs -------------------------
(* The registry of manual cycles for any modes, keys, handlers, capacity    *)
(* and faults.                                                              *)
EXTENDS CycleRequests, SequenceTheorems, FiniteSetTheorems, TLAPS

-----------------------------------------------------------------------------
(* Entries *)

LEMMA EntryFields ==
    ASSUME NEW e \in Entry
    PROVE  /\ e.key \in Key /\ e.id \in 1..MaxRequests /\ e.mode \in Mode
           /\ e.st \in {"queued", "running", "succeeded", "failed"}
           /\ e.cyc \in 0..MaxCycles /\ e.why \in Reason /\ e.unknown \in BOOLEAN
           /\ e.born \in 0..MaxCycles
BY DEF Entry, Active

LEMMA CycleFields ==
    ASSUME NEW c \in Cycle
    PROVE  c.mode \in Mode /\ c.st \in {"running", "succeeded", "failed", "aborted"}
BY DEF Cycle

LEMMA FailedEntry ==
    ASSUME NEW e \in Entry, NEW why \in Reason, NEW u \in BOOLEAN
    PROVE  LET d == Failed(e, why, u) IN
           /\ d \in Entry /\ d.st = "failed" /\ d.why = why /\ d.unknown = u
           /\ d.id = e.id /\ d.key = e.key /\ d.mode = e.mode /\ d.cyc = e.cyc /\ d.born = e.born
BY DEF Entry, Failed

LEMMA BoundEntry ==
    ASSUME NEW e \in Entry, NEW n \in 0..MaxCycles
    PROVE  LET d == [e EXCEPT !.st = "running", !.cyc = n] IN
           /\ d \in Entry /\ d.st = "running" /\ d.cyc = n
           /\ d.id = e.id /\ d.key = e.key /\ d.mode = e.mode /\ d.why = e.why
           /\ d.unknown = e.unknown /\ d.born = e.born
BY DEF Entry, Active

LEMMA ClosedEntry ==
    ASSUME NEW e \in Entry, NEW st \in {"succeeded", "failed"}
    PROVE  LET d == [e EXCEPT !.st = st, !.why = "cycle"] IN
           /\ d \in Entry /\ d.st = st /\ d.cyc = e.cyc /\ d.why = "cycle"
           /\ d.id = e.id /\ d.key = e.key /\ d.mode = e.mode
           /\ d.unknown = e.unknown /\ d.born = e.born
BY DEF Entry, Active, Reason

(* What an entry says, against the cycles so far and the worker's place.    *)
EntryOK(e, cs, pc) ==
    /\ e \in Entry
    /\ e.born <= Len(cs) /\ e.cyc <= Len(cs)
    /\ e.cyc # 0 => e.cyc > e.born /\ cs[e.cyc].mode = e.mode
    /\ e.st = "queued" => e.cyc = 0
    /\ e.st = "running" =>
          /\ e.cyc # 0
          /\ \/ cs[e.cyc].st = "running"
             \/ cs[e.cyc].st = "aborted" /\ pc \in {"stopping", "done"}
    /\ e.st \in Active => e.why = "none"
    /\ e.why = "cycle" => e.cyc # 0 /\ cs[e.cyc].st = e.st /\ e.st \notin Active
    /\ e.why \notin {"none", "cycle"} => (e.unknown = TRUE <=> e.cyc # 0)

Timeouts == {"queue_timeout", "result_timeout", "mode_superseded", "worker_stopped"}

(* A request that has not ended may fail, with the mark that fits it. *)
LEMMA FailOK ==
    ASSUME NEW e, NEW cs, NEW pc, EntryOK(e, cs, pc), e.st \in Active,
           NEW why \in Timeouts, NEW u \in BOOLEAN, u = TRUE <=> e.st = "running"
    PROVE  /\ EntryOK(Failed(e, why, u), cs, pc)
           /\ Failed(e, why, u).id = e.id /\ Failed(e, why, u).key = e.key
           /\ Failed(e, why, u).st = "failed"
<1>1. e \in Entry /\ why \in Reason /\ why \notin {"none", "cycle"}
  BY DEF EntryOK, Timeouts, Reason
<1> DEFINE d == Failed(e, why, u)
<1>2. /\ d \in Entry /\ d.st = "failed" /\ d.why = why /\ d.unknown = u
      /\ d.id = e.id /\ d.key = e.key /\ d.mode = e.mode /\ d.cyc = e.cyc /\ d.born = e.born
  BY <1>1, FailedEntry
<1> HIDE DEF d
<1>3. e.cyc # 0 <=> e.st = "running"
  BY DEF EntryOK, Active
<1>4. EntryOK(d, cs, pc)
  BY <1>1, <1>2, <1>3 DEF EntryOK, Active
<1> QED BY <1>2, <1>4 DEF d

-----------------------------------------------------------------------------
(* Sequences of entries *)

(* A list of entries, all of them as the cycles say, with their own ids up  *)
(* to n.                                                                    *)
ListOK(es, cs, pc, n) ==
    /\ es \in Seq(Entry) /\ Len(es) <= MaxEntries
    /\ \A i \in 1..Len(es) : EntryOK(es[i], cs, pc) /\ es[i].id <= n
    /\ \A i, j \in 1..Len(es) : es[i].id = es[j].id => i = j

LEMMA ListDomain ==
    ASSUME NEW es \in Seq(Entry)
    PROVE  /\ DOMAIN es = 1..Len(es) /\ Len(es) \in Nat
           /\ \A i \in 1..Len(es) : es[i] \in Entry
BY LenProperties, ElementOfSeq

(* An entry by entry change that keeps the ids. *)
LEMMA EntryByEntry ==
    ASSUME NEW es, NEW cs, NEW pc, NEW n, ListOK(es, cs, pc, n),
           NEW cs2, NEW pc2, NEW ds \in [1..Len(es) -> Entry],
           \A i \in 1..Len(es) : EntryOK(ds[i], cs2, pc2) /\ ds[i].id = es[i].id
    PROVE  ListOK(ds, cs2, pc2, n) /\ Len(ds) = Len(es) /\ DOMAIN ds = DOMAIN es
<1>1. es \in Seq(Entry) /\ Len(es) \in Nat /\ DOMAIN es = 1..Len(es)
  BY ListDomain DEF ListOK
<1>2. ds \in Seq(Entry)
  BY <1>1, SeqDef
<1>3. Len(ds) = Len(es) /\ DOMAIN ds = DOMAIN es
  <2>1. DOMAIN ds = 1..Len(es)
    OBVIOUS
  <2>2. DOMAIN ds = 1..Len(ds) /\ Len(ds) \in Nat
    BY <1>2, LenProperties
  <2> QED BY <1>1, <2>1, <2>2
<1>4. Len(es) <= MaxEntries /\ \A i \in 1..Len(es) : EntryOK(ds[i], cs2, pc2) /\ ds[i].id <= n
  BY DEF ListOK
<1>5. \A i, j \in 1..Len(es) : ds[i].id = ds[j].id => i = j
  BY DEF ListOK
<1> QED BY <1>2, <1>3, <1>4, <1>5 DEF ListOK

(* Where the entries of a list come from when the one at i was taken out,   *)
(* and when it was moved to the end.                                        *)
Skip(i, j) == IF j < i THEN j ELSE j + 1

Pos(n, i, j) == IF j = n THEN i ELSE Skip(i, j)

LEMMA SkipOnto ==
    ASSUME NEW n \in Nat, NEW i \in 1..n
    PROVE  /\ \A j \in 1..(n - 1) : Skip(i, j) \in 1..n /\ Skip(i, j) # i
           /\ \A j, l \in 1..(n - 1) : Skip(i, j) = Skip(i, l) => j = l
           /\ \A l \in 1..n : l # i => \E j \in 1..(n - 1) : Skip(i, j) = l
<1>1. \A j \in 1..(n - 1) : Skip(i, j) \in 1..n /\ Skip(i, j) # i
  BY DEF Skip
<1>2. \A j, l \in 1..(n - 1) : Skip(i, j) = Skip(i, l) => j = l
  BY DEF Skip
<1>3. ASSUME NEW l \in 1..n, l # i
      PROVE  \E j \in 1..(n - 1) : Skip(i, j) = l
  <2>1. CASE l < i
    <3>1. l \in 1..(n - 1) /\ Skip(i, l) = l
      BY <2>1 DEF Skip
    <3> QED BY <3>1
  <2>2. CASE l > i
    <3>1. l - 1 \in 1..(n - 1) /\ Skip(i, l - 1) = l
      BY <2>2 DEF Skip
    <3> QED BY <3>1
  <2> QED BY <1>3, <2>1, <2>2
<1> QED BY <1>1, <1>2, <1>3

LEMMA PosOnto ==
    ASSUME NEW n \in Nat, NEW i \in 1..n
    PROVE  /\ \A j \in 1..n : Pos(n, i, j) \in 1..n
           /\ \A j, l \in 1..n : Pos(n, i, j) = Pos(n, i, l) => j = l
           /\ \A l \in 1..n : \E j \in 1..n : Pos(n, i, j) = l
<1>1. \A j \in 1..n : j # n => j \in 1..(n - 1) /\ Pos(n, i, j) = Skip(i, j)
  BY DEF Pos
<1>2. Pos(n, i, n) = i /\ n \in 1..n /\ \A j \in 1..(n - 1) : j \in 1..n /\ j # n
  BY DEF Pos
<1>3. \A j \in 1..n : Pos(n, i, j) \in 1..n
  <2>1. \A j \in 1..(n - 1) : Skip(i, j) \in 1..n
    BY SkipOnto
  <2> QED BY <1>1, <1>2, <2>1
<1>4. ASSUME NEW j \in 1..n, NEW l \in 1..n, Pos(n, i, j) = Pos(n, i, l)
      PROVE  j = l
  <2>1. CASE j = n \/ l = n
    <3>1. \A k \in 1..(n - 1) : Skip(i, k) # i
      BY SkipOnto
    <3>2. \A k \in 1..n : k # n => Pos(n, i, k) # i
      BY <1>1, <3>1
    <3> QED BY <1>2, <1>4, <2>1, <3>2
  <2>2. CASE j # n /\ l # n
    BY <1>1, <1>4, <2>2, SkipOnto
  <2> QED BY <2>1, <2>2
<1>5. ASSUME NEW l \in 1..n
      PROVE  \E j \in 1..n : Pos(n, i, j) = l
  <2>1. CASE l = i
    BY <1>2, <2>1
  <2>2. CASE l # i
    <3>1. PICK j \in 1..(n - 1) : Skip(i, j) = l
      BY <2>2, SkipOnto
    <3> QED BY <1>1, <1>2, <3>1
  <2> QED BY <2>1, <2>2
<1> QED BY <1>3, <1>4, <1>5

LEMMA Removed ==
    ASSUME NEW es \in Seq(Entry), NEW i \in 1..Len(es)
    PROVE  LET r == RemoveAt(es, i) IN
           /\ r \in Seq(Entry) /\ Len(r) = Len(es) - 1
           /\ \A j \in 1..Len(r) : r[j] = es[Skip(i, j)]
<1> DEFINE a == SubSeq(es, 1, i - 1)  b == SubSeq(es, i + 1, Len(es))
<1>1. Len(es) \in Nat /\ \A j \in 1..Len(es) : es[j] \in Entry
  BY ListDomain
<1>2. /\ a \in Seq(Entry) /\ Len(a) = i - 1
      /\ \A j \in 1..(i - 1) : a[j] = es[j]
  <2>1. \A j \in 1..(i - 1) : es[j] \in Entry
    BY <1>1
  <2> QED BY <1>1, <2>1, SubSeqProperties
<1>3. /\ b \in Seq(Entry) /\ Len(b) = Len(es) - i
      /\ \A j \in 1..(Len(es) - i) : b[j] = es[i + j]
  <2>1. \A j \in (i + 1)..Len(es) : es[j] \in Entry
    BY <1>1
  <2>2. /\ SubSeq(es, i + 1, Len(es)) \in Seq(Entry)
        /\ Len(b) = IF i + 1 <= Len(es) THEN Len(es) - (i + 1) + 1 ELSE 0
        /\ \A j \in 1..(Len(es) - (i + 1) + 1) : b[j] = es[(i + 1) + j - 1]
    BY <1>1, <2>1, SubSeqProperties
  <2> HIDE DEF b
  <2> QED BY <1>1, <2>2 DEF b
<1> HIDE DEF a, b
<1>4. /\ a \o b \in Seq(Entry) /\ Len(a \o b) = Len(a) + Len(b)
      /\ \A j \in 1..(Len(a) + Len(b)) :
            (a \o b)[j] = IF j <= Len(a) THEN a[j] ELSE b[j - Len(a)]
  BY <1>2, <1>3, ConcatProperties
<1>5. ASSUME NEW j \in 1..(Len(es) - 1)
      PROVE  (a \o b)[j] = es[Skip(i, j)]
  <2>1. CASE j < i
    BY <1>1, <1>2, <1>3, <1>4, <2>1 DEF Skip
  <2>2. CASE ~(j < i)
    <3>1. (a \o b)[j] = b[j - (i - 1)]
      BY <1>1, <1>2, <1>3, <1>4, <2>2
    <3>2. j - (i - 1) \in 1..(Len(es) - i) /\ i + (j - (i - 1)) = j + 1
      BY <1>1, <2>2
    <3>3. b[j - (i - 1)] = es[i + (j - (i - 1))]
      BY <1>3, <3>2
    <3> QED BY <2>2, <3>1, <3>2, <3>3 DEF Skip
  <2> QED BY <2>1, <2>2
<1>6. RemoveAt(es, i) = a \o b
  BY DEF RemoveAt, a, b
<1>7. Len(a \o b) = Len(es) - 1
  BY <1>1, <1>2, <1>3, <1>4
<1> HIDE DEF EntryOK
<1> QED BY <1>1, <1>4, <1>5, <1>6, <1>7

(* Touched moves one entry to the end. *)
LEMMA TouchedOK ==
    ASSUME NEW es, NEW cs, NEW pc, NEW n, ListOK(es, cs, pc, n),
           NEW k, \E i \in DOMAIN es : es[i].key = k
    PROVE  LET ts == Touched(es, k) IN
           /\ ListOK(ts, cs, pc, n)
           /\ \A j \in DOMAIN ts : \E l \in DOMAIN es : ts[j] = es[l]
           /\ \A l \in DOMAIN es : \E j \in DOMAIN ts : ts[j] = es[l]
<1>1. /\ es \in Seq(Entry) /\ DOMAIN es = 1..Len(es) /\ Len(es) \in Nat
      /\ \A i \in 1..Len(es) : es[i] \in Entry
  BY ListDomain DEF ListOK
<1> DEFINE i == CHOOSE j \in DOMAIN es : es[j].key = k
<1>2. i \in 1..Len(es)
  BY <1>1
<1> DEFINE r == RemoveAt(es, i)  ts == Append(r, es[i])
<1>3. Touched(es, k) = ts
  BY DEF Touched
<1> HIDE DEF i
<1>4. /\ r \in Seq(Entry) /\ Len(r) = Len(es) - 1
      /\ \A j \in 1..Len(r) : r[j] = es[Skip(i, j)]
  BY <1>1, <1>2, Removed
<1> HIDE DEF r
<1>5. /\ ts \in Seq(Entry) /\ Len(ts) = Len(r) + 1 /\ ts[Len(r) + 1] = es[i]
      /\ \A j \in 1..Len(r) : ts[j] = r[j]
  <2>1. es[i] \in Entry
    BY <1>1, <1>2
  <2> QED BY <1>4, <2>1, AppendProperties
<1> HIDE DEF ts
<1>6. Len(ts) = Len(es) /\ \A j \in 1..Len(es) : ts[j] = es[Pos(Len(es), i, j)]
  <2>1. Len(ts) = Len(es) /\ ts[Len(es)] = es[i]
    BY <1>1, <1>4, <1>5
  <2>2. \A j \in 1..Len(es) : j # Len(es) => j \in 1..Len(r) /\ Pos(Len(es), i, j) = Skip(i, j)
    BY <1>1, <1>4 DEF Pos
  <2>3. Pos(Len(es), i, Len(es)) = i
    BY DEF Pos
  <2> QED BY <1>4, <1>5, <2>1, <2>2, <2>3
<1> DEFINE p(j) == Pos(Len(es), i, j)
<1>7. /\ \A j \in 1..Len(es) : ts[j] = es[p(j)] /\ p(j) \in 1..Len(es)
      /\ \A j, l \in 1..Len(es) : p(j) = p(l) => j = l
      /\ \A l \in 1..Len(es) : \E j \in 1..Len(es) : p(j) = l
  BY <1>1, <1>2, <1>6, PosOnto
<1> HIDE DEF p
<1>8. DOMAIN ts = 1..Len(es)
  BY <1>5, <1>6, ListDomain
<1>9. ListOK(ts, cs, pc, n)
  <2>1. \A j \in 1..Len(es) : EntryOK(ts[j], cs, pc) /\ ts[j].id <= n
    BY <1>7 DEF ListOK
  <2>2. ASSUME NEW j \in 1..Len(es), NEW l \in 1..Len(es), ts[j].id = ts[l].id
        PROVE  j = l
    <3>1. p(j) \in 1..Len(es) /\ p(l) \in 1..Len(es) /\ es[p(j)].id = es[p(l)].id
      BY <1>7, <2>2
    <3>2. p(j) = p(l)
      BY <3>1 DEF ListOK
    <3> QED BY <1>7, <3>2
  <2> QED BY <1>5, <1>6, <2>1, <2>2 DEF ListOK
<1>10. /\ \A j \in 1..Len(es) : \E l \in 1..Len(es) : ts[j] = es[l]
       /\ \A l \in 1..Len(es) : \E j \in 1..Len(es) : ts[j] = es[l]
  BY <1>7
<1> QED BY <1>1, <1>3, <1>8, <1>9, <1>10

(* The slot of a new request: there is room, or an ended entry makes some. *)
LEMMA EvictableSlot ==
    ASSUME NEW es \in Seq(Entry), Len(es) <= MaxEntries, NEW slot \in Evictable(es)
    PROVE  \/ slot = 0 /\ Len(es) < MaxEntries
           \/ slot \in 1..Len(es) /\ es[slot].st \notin Active
BY ListDomain DEF Evictable

NewEntry(k, m) ==
    [key |-> k, id |-> issued + 1, mode |-> m, st |-> "queued", cyc |-> 0,
     why |-> "none", unknown |-> FALSE, born |-> Len(cycles)]

LEMMA InsertedOK ==
    ASSUME NEW es, NEW pc, ListOK(es, cycles, pc, issued), issued \in Nat,
           NEW slot \in Evictable(es), NEW k \in Key, NEW m \in Mode,
           issued < MaxRequests, cycles \in Seq(Cycle), Len(cycles) <= MaxCycles
    PROVE  LET ts == Inserted(es, slot, k, m) IN
           /\ ListOK(ts, cycles, pc, issued + 1)
           /\ \A j \in DOMAIN ts : ts[j].id = issued + 1 \/ \E l \in DOMAIN es : ts[j] = es[l]
           /\ \A l \in DOMAIN es : es[l].st \in Active => \E j \in DOMAIN ts : ts[j] = es[l]
<1>1. /\ es \in Seq(Entry) /\ DOMAIN es = 1..Len(es) /\ Len(es) \in Nat /\ Len(es) <= MaxEntries
      /\ \A i \in 1..Len(es) : es[i] \in Entry
  BY ListDomain DEF ListOK
<1> DEFINE e == NewEntry(k, m)
<1>2. /\ e \in Entry /\ e.id = issued + 1 /\ e.st = "queued" /\ e.cyc = 0 /\ e.why = "none"
      /\ e.born = Len(cycles)
  <2>1. /\ issued + 1 \in 1..MaxRequests /\ Len(cycles) \in 0..MaxCycles /\ 0 \in 0..MaxCycles
        /\ "none" \in Reason
    BY CycleRequestsAssumption, LenProperties DEF Reason
  <2> QED BY <2>1 DEF NewEntry, Entry, Active
<1>3. EntryOK(e, cycles, pc)
  <2>1. Len(cycles) \in Nat
    BY LenProperties
  <2> HIDE DEF e
  <2> QED BY <1>2, <2>1 DEF EntryOK, Active
<1>4. PICK r \in Seq(Entry) :
        /\ Inserted(es, slot, k, m) = Append(r, e)
        /\ Len(r) < MaxEntries
        /\ \/ r = es
           \/ /\ slot \in 1..Len(es) /\ es[slot].st \notin Active
              /\ Len(r) = Len(es) - 1
              /\ \A j \in 1..Len(r) : r[j] = es[Skip(slot, j)]
  <2>1. CASE slot = 0 /\ Len(es) < MaxEntries
    BY <1>1, <2>1 DEF Inserted, NewEntry
  <2>2. CASE slot \in 1..Len(es) /\ es[slot].st \notin Active
    <3>1. slot # 0
      BY <2>2
    <3>2. Inserted(es, slot, k, m) = Append(RemoveAt(es, slot), e)
      BY <3>1 DEF Inserted, NewEntry
    <3>3. /\ RemoveAt(es, slot) \in Seq(Entry) /\ Len(RemoveAt(es, slot)) = Len(es) - 1
          /\ \A j \in 1..Len(RemoveAt(es, slot)) :
                RemoveAt(es, slot)[j] = es[Skip(slot, j)]
      BY <1>1, <2>2, Removed
    <3>4. Len(RemoveAt(es, slot)) < MaxEntries
      BY <1>1, <3>3, CycleRequestsAssumption
    <3> HIDE DEF e
    <3> QED BY <2>2, <3>2, <3>3, <3>4
  <2> QED BY <1>1, <2>1, <2>2, EvictableSlot
<1> DEFINE ts == Append(r, e)
<1>5. /\ ts \in Seq(Entry) /\ Len(ts) = Len(r) + 1 /\ ts[Len(r) + 1] = e
      /\ \A j \in 1..Len(r) : ts[j] = r[j]
      /\ Len(r) \in Nat /\ DOMAIN ts = 1..(Len(r) + 1)
  <2> HIDE DEF e
  <2>1. /\ ts \in Seq(Entry) /\ Len(ts) = Len(r) + 1 /\ ts[Len(r) + 1] = e
        /\ \A j \in 1..Len(r) : ts[j] = r[j]
    BY <1>2, AppendProperties
  <2> QED BY <2>1, LenProperties
<1> HIDE DEF ts, e
<1>6. /\ \A j \in 1..Len(r) : \E l \in 1..Len(es) : r[j] = es[l]
      /\ \A i, j \in 1..Len(r) : r[i].id = r[j].id => i = j
      /\ \A l \in 1..Len(es) : es[l].st \in Active => \E j \in 1..Len(r) : r[j] = es[l]
  <2>1. CASE r = es
    BY <2>1 DEF ListOK
  <2>2. CASE /\ slot \in 1..Len(es) /\ es[slot].st \notin Active
             /\ Len(r) = Len(es) - 1
             /\ \A j \in 1..Len(r) : r[j] = es[Skip(slot, j)]
    <3> DEFINE p(j) == Skip(slot, j)
    <3>1. /\ \A j \in 1..Len(r) : r[j] = es[p(j)] /\ p(j) \in 1..Len(es)
          /\ \A i, j \in 1..Len(r) : p(i) = p(j) => i = j
          /\ \A l \in 1..Len(es) : l # slot => \E j \in 1..Len(r) : p(j) = l
      <4>1. 1..Len(r) = 1..(Len(es) - 1)
        BY <2>2
      <4>2. /\ \A j \in 1..(Len(es) - 1) : p(j) \in 1..Len(es)
            /\ \A i, j \in 1..(Len(es) - 1) : p(i) = p(j) => i = j
            /\ \A l \in 1..Len(es) : l # slot => \E j \in 1..(Len(es) - 1) : p(j) = l
        BY <1>1, <2>2, SkipOnto
      <4>3. \A j \in 1..Len(r) : r[j] = es[p(j)]
        BY <2>2
      <4> HIDE DEF p
      <4> QED BY <4>1, <4>2, <4>3
    <3> HIDE DEF p
    <3>2. ASSUME NEW i \in 1..Len(r), NEW j \in 1..Len(r), r[i].id = r[j].id
          PROVE  i = j
      <4>1. p(i) \in 1..Len(es) /\ p(j) \in 1..Len(es) /\ es[p(i)].id = es[p(j)].id
        BY <3>1, <3>2
      <4>2. p(i) = p(j)
        BY <4>1 DEF ListOK
      <4> QED BY <3>1, <4>2
    <3>3. \A l \in 1..Len(es) : es[l].st \in Active => \E j \in 1..Len(r) : r[j] = es[l]
      BY <2>2, <3>1
    <3> QED BY <3>1, <3>2, <3>3
  <2> QED BY <1>4, <2>1, <2>2
<1>7. \A j \in 1..Len(r) : EntryOK(r[j], cycles, pc) /\ r[j].id <= issued /\ r[j].id \in Nat
  <2>1. \A l \in 1..Len(es) : es[l].id \in Nat
    BY <1>1, EntryFields
  <2> QED BY <1>6, <2>1 DEF ListOK
<1>8. \A j \in 1..(Len(r) + 1) : j \in 1..Len(r) \/ j = Len(r) + 1
  BY <1>5
<1>9. \A j \in 1..(Len(r) + 1) : EntryOK(ts[j], cycles, pc) /\ ts[j].id <= issued + 1
  BY <1>2, <1>3, <1>5, <1>7, <1>8
<1>10. \A i, j \in 1..(Len(r) + 1) : ts[i].id = ts[j].id => i = j
  <2>1. \A j \in 1..Len(r) : ts[j].id # issued + 1
    <3>1. ASSUME NEW j \in 1..Len(r) PROVE r[j].id # issued + 1
      <4>1. r[j].id \in Nat /\ r[j].id <= issued
        BY <1>7
      <4> HIDE DEF ListOK, EntryOK
      <4> QED BY <4>1
    <3> QED BY <1>5, <3>1
  <2>2. \A i, j \in 1..Len(r) : ts[i].id = ts[j].id => i = j
    BY <1>5, <1>6
  <2>3. ts[Len(r) + 1].id = issued + 1
    BY <1>2, <1>5
  <2> QED BY <1>8, <2>1, <2>2, <2>3
<1>11. ListOK(ts, cycles, pc, issued + 1)
  <2>1. Len(ts) <= MaxEntries
    BY <1>4, <1>5, CycleRequestsAssumption
  <2> QED BY <1>5, <1>9, <1>10, <2>1 DEF ListOK
<1>12. \A j \in 1..(Len(r) + 1) : ts[j].id = issued + 1 \/ \E l \in 1..Len(es) : ts[j] = es[l]
  BY SMTT(60), <1>2, <1>5, <1>6, <1>8
<1>13. \A l \in 1..Len(es) : es[l].st \in Active => \E j \in 1..(Len(r) + 1) : ts[j] = es[l]
  <2>1. \A j \in 1..Len(r) : j \in 1..(Len(r) + 1)
    BY <1>5
  <2> QED BY <1>5, <1>6, <2>1
<1>14. Inserted(es, slot, k, m) = ts
  BY <1>4 DEF ts
<1> QED BY ZenonT(60), <1>1, <1>5, <1>11, <1>12, <1>13, <1>14
-----------------------------------------------------------------------------
(* The registry's operations on a list *)

(* Entries that have ended stay as they are. *)
Keeps(es, ds) ==
    \A i \in 1..Len(es) : es[i].st \notin Active => ds[i] = es[i]

LEMMA ExpiredOK ==
    ASSUME NEW es, NEW cs, NEW pc, NEW n, ListOK(es, cs, pc, n), NEW lapse
    PROVE  LET ds == Expired(es, lapse) IN
           /\ ListOK(ds, cs, pc, n) /\ Len(ds) = Len(es) /\ DOMAIN ds = DOMAIN es
           /\ \A i \in 1..Len(es) : ds[i].id = es[i].id /\ ds[i].key = es[i].key
           /\ Keeps(es, ds)
           /\ (\A i \in 1..Len(es) : es[i].st \notin Active)
                 => \A i \in 1..Len(es) : ds[i].st \notin Active
<1> DEFINE ds == Expired(es, lapse)
<1>1. es \in Seq(Entry) /\ DOMAIN es = 1..Len(es)
  BY ListDomain DEF ListOK
<1>2. ASSUME NEW i \in 1..Len(es)
      PROVE  /\ EntryOK(ds[i], cs, pc) /\ ds[i].id = es[i].id /\ ds[i].key = es[i].key
             /\ es[i].st \notin Active => ds[i] = es[i]
  <2>1. EntryOK(es[i], cs, pc)
    BY DEF ListOK
  <2>2. /\ "queue_timeout" \in Timeouts /\ "result_timeout" \in Timeouts
    BY DEF Timeouts
  <2>3. CASE es[i].st = "queued" /\ es[i].id <= lapse.queued
    <3>1. ds[i] = Failed(es[i], "queue_timeout", FALSE)
      BY <1>1, <2>3 DEF Expired
    <3>2. es[i].st \in Active
      BY <2>3 DEF Active
    <3> QED BY ZenonT(60), <2>1, <2>2, <2>3, <3>1, <3>2, FailOK
  <2>4. CASE es[i].st = "running" /\ es[i].cyc <= lapse.running
    <3>1. ds[i] = Failed(es[i], "result_timeout", TRUE)
      BY <1>1, <2>4 DEF Expired
    <3>2. es[i].st \in Active
      BY <2>4 DEF Active
    <3> QED BY ZenonT(60), <2>1, <2>2, <2>4, <3>1, <3>2, FailOK
  <2>5. CASE /\ ~(es[i].st = "queued" /\ es[i].id <= lapse.queued)
             /\ ~(es[i].st = "running" /\ es[i].cyc <= lapse.running)
    <3>1. ds[i] = es[i]
      BY <1>1, <2>5 DEF Expired
    <3> QED BY <2>1, <3>1
  <2> QED BY <2>3, <2>4, <2>5
<1>3. ds \in [1..Len(es) -> Entry]
  <2>1. \A i \in 1..Len(es) : ds[i] \in Entry
    BY <1>2 DEF EntryOK
  <2> QED BY <1>1, <2>1 DEF Expired
<1> HIDE DEF ds
<1>4. ListOK(ds, cs, pc, n) /\ Len(ds) = Len(es) /\ DOMAIN ds = DOMAIN es
  BY <1>2, <1>3, EntryByEntry
<1> QED BY <1>2, <1>4 DEF ds, Keeps

LEMMA SupersededOK ==
    ASSUME NEW es, NEW cs, NEW pc, NEW n, ListOK(es, cs, pc, n), NEW m
    PROVE  LET ds == Superseded(es, m) IN
           /\ ListOK(ds, cs, pc, n) /\ Len(ds) = Len(es) /\ DOMAIN ds = DOMAIN es
           /\ \A i \in 1..Len(es) : ds[i].id = es[i].id
           /\ Keeps(es, ds)
           /\ (\A i \in 1..Len(es) : es[i].st \notin Active)
                 => \A i \in 1..Len(es) : ds[i].st \notin Active
<1> DEFINE ds == Superseded(es, m)
<1>1. es \in Seq(Entry) /\ DOMAIN es = 1..Len(es)
  BY ListDomain DEF ListOK
<1>2. ASSUME NEW i \in 1..Len(es)
      PROVE  /\ EntryOK(ds[i], cs, pc) /\ ds[i].id = es[i].id
             /\ es[i].st \notin Active => ds[i] = es[i]
  <2>1. EntryOK(es[i], cs, pc)
    BY DEF ListOK
  <2>2. CASE es[i].st = "queued" /\ es[i].mode # m
    <3>1. ds[i] = Failed(es[i], "mode_superseded", FALSE)
      BY <1>1, <2>2 DEF Superseded
    <3>2. es[i].st \in Active /\ "mode_superseded" \in Timeouts
      BY <2>2 DEF Active, Timeouts
    <3> QED BY <2>1, <2>2, <3>1, <3>2, FailOK
  <2>3. CASE ~(es[i].st = "queued" /\ es[i].mode # m)
    <3>1. ds[i] = es[i]
      BY <1>1, <2>3 DEF Superseded
    <3> QED BY <2>1, <3>1
  <2> QED BY <2>2, <2>3
<1>3. ds \in [1..Len(es) -> Entry]
  <2>1. \A i \in 1..Len(es) : ds[i] \in Entry
    BY <1>2 DEF EntryOK
  <2> QED BY <1>1, <2>1 DEF Superseded
<1> HIDE DEF ds
<1>4. ListOK(ds, cs, pc, n) /\ Len(ds) = Len(es) /\ DOMAIN ds = DOMAIN es
  BY <1>2, <1>3, EntryByEntry
<1> QED BY <1>2, <1>4 DEF ds, Keeps

(* fail_active leaves nothing active, whatever the worker's place. *)
LEMMA StoppedOK ==
    ASSUME NEW es, NEW cs, NEW pc, NEW n, ListOK(es, cs, pc, n), NEW pc2
    PROVE  LET ds == Stopped(es) IN
           /\ ListOK(ds, cs, pc2, n) /\ Len(ds) = Len(es) /\ DOMAIN ds = DOMAIN es
           /\ \A i \in 1..Len(es) : ds[i].id = es[i].id /\ ds[i].st \notin Active
           /\ Keeps(es, ds)
<1> DEFINE ds == Stopped(es)
<1>1. es \in Seq(Entry) /\ DOMAIN es = 1..Len(es)
  BY ListDomain DEF ListOK
<1>2. ASSUME NEW i \in 1..Len(es)
      PROVE  /\ EntryOK(ds[i], cs, pc2) /\ ds[i].id = es[i].id /\ ds[i].st \notin Active
             /\ es[i].st \notin Active => ds[i] = es[i]
  <2>1. EntryOK(es[i], cs, pc)
    BY DEF ListOK
  <2>2. CASE es[i].st \in Active
    <3>1. "worker_stopped" \in Timeouts
      BY DEF Timeouts
    <3>2. PICK u \in BOOLEAN : /\ u = TRUE <=> es[i].st = "running"
                               /\ ds[i] = Failed(es[i], "worker_stopped", u)
      <4>1. ds[i] = Failed(es[i], "worker_stopped", es[i].st = "running")
        BY <1>1, <2>2 DEF Stopped
      <4>2. (es[i].st = "running") \in BOOLEAN
        OBVIOUS
      <4> QED BY <4>1, <4>2, Zenon
    <3> HIDE DEF ds
    <3>3. /\ EntryOK(Failed(es[i], "worker_stopped", u), cs, pc)
          /\ Failed(es[i], "worker_stopped", u).id = es[i].id
          /\ Failed(es[i], "worker_stopped", u).st = "failed"
      BY <2>1, <2>2, <3>1, <3>2, FailOK
    <3>4. EntryOK(ds[i], cs, pc) /\ ds[i].id = es[i].id /\ ds[i].st = "failed"
      BY <3>2, <3>3
    <3> QED BY <2>2, <3>4 DEF EntryOK, Active
  <2>3. CASE es[i].st \notin Active
    <3>1. ds[i] = es[i]
      BY <1>1, <2>3 DEF Stopped
    <3> QED BY <2>1, <2>3, <3>1 DEF EntryOK, Active
  <2> QED BY <2>2, <2>3
<1>3. ds \in [1..Len(es) -> Entry]
  <2>1. \A i \in 1..Len(es) : ds[i] \in Entry
    BY <1>2 DEF EntryOK
  <2> QED BY <1>1, <2>1 DEF Stopped
<1> HIDE DEF ds
<1>4. ListOK(ds, cs, pc2, n) /\ Len(ds) = Len(es) /\ DOMAIN ds = DOMAIN es
  BY <1>2, <1>3, EntryByEntry
<1> QED BY <1>2, <1>4 DEF ds, Keeps

(* The worker may go anywhere while it is not on its way out. *)
LEMMA PlaceMoves ==
    ASSUME NEW es, NEW cs, NEW pc, NEW n, ListOK(es, cs, pc, n),
           NEW pc2, pc \in {"stopping", "done"} => pc2 \in {"stopping", "done"}
    PROVE  ListOK(es, cs, pc2, n)
BY DEF ListOK, EntryOK

-----------------------------------------------------------------------------
(* Cycles *)

(* At most the last cycle is running, and only while the worker is in it.   *)
CyclesOK(cs, pc) ==
    /\ cs \in Seq(Cycle) /\ Len(cs) <= MaxCycles
    /\ \A i \in 1..Len(cs) : cs[i].st = "running" => i = Len(cs) /\ pc = "running"
    /\ pc = "running" => Len(cs) > 0 /\ cs[Len(cs)].st = "running"

LEMMA CycleDomain ==
    ASSUME NEW cs \in Seq(Cycle)
    PROVE  /\ DOMAIN cs = 1..Len(cs) /\ Len(cs) \in Nat
           /\ \A i \in 1..Len(cs) : cs[i] \in Cycle
BY LenProperties, ElementOfSeq

LEMMA CycleBegins ==
    ASSUME NEW pc, CyclesOK(cycles, pc), pc # "running", Len(cycles) < MaxCycles,
           NEW m \in Mode
    PROVE  LET cs == Append(cycles, [mode |-> m, st |-> "running"]) IN
           /\ CyclesOK(cs, "running") /\ Len(cs) = Len(cycles) + 1
           /\ cs[Len(cs)].mode = m /\ cs[Len(cs)].st = "running"
           /\ \A i \in 1..Len(cycles) : cs[i] = cycles[i]
<1> DEFINE c == [mode |-> m, st |-> "running"]  cs == Append(cycles, c)
<1>1. c \in Cycle /\ c.mode = m /\ c.st = "running"
  BY DEF Cycle
<1>2. cycles \in Seq(Cycle) /\ Len(cycles) \in Nat
  BY CycleDomain DEF CyclesOK
<1> HIDE DEF c
<1>3. /\ cs \in Seq(Cycle) /\ Len(cs) = Len(cycles) + 1 /\ cs[Len(cycles) + 1] = c
      /\ \A i \in 1..Len(cycles) : cs[i] = cycles[i]
  BY <1>1, <1>2, AppendProperties
<1> HIDE DEF cs
<1>4. Len(cs) <= MaxCycles /\ Len(cs) > 0
  BY <1>2, <1>3, CycleRequestsAssumption
<1>5. \A i \in 1..Len(cycles) : cycles[i].st # "running"
  BY DEF CyclesOK
<1>6. \A i \in 1..Len(cs) : cs[i].st = "running" => i = Len(cs)
  <2>1. \A i \in 1..Len(cs) : i \in 1..Len(cycles) \/ i = Len(cs)
    BY <1>2, <1>3
  <2> QED BY <1>3, <1>5, <2>1
<1>7. CyclesOK(cs, "running")
  BY <1>1, <1>3, <1>4, <1>6 DEF CyclesOK
<1> QED BY <1>1, <1>3, <1>7 DEF cs, c

LEMMA CycleCloses ==
    ASSUME CyclesOK(cycles, "running"), NEW st \in {"succeeded", "failed", "aborted"},
           NEW pc, pc # "running"
    PROVE  LET cs == [cycles EXCEPT ![Len(cycles)].st = st] IN
           /\ CyclesOK(cs, pc) /\ Len(cs) = Len(cycles) /\ Len(cycles) \in 1..Len(cycles)
           /\ cs[Len(cs)].st = st /\ cs[Len(cs)].mode = cycles[Len(cycles)].mode
           /\ \A i \in 1..Len(cycles) : i # Len(cycles) => cs[i] = cycles[i]
<1> DEFINE n == Len(cycles)  c == [cycles[n] EXCEPT !.st = st]
           cs == [cycles EXCEPT ![n] = c]
<1>1. cycles \in Seq(Cycle) /\ n \in Nat /\ n > 0 /\ n \in 1..n
  BY CycleDomain DEF CyclesOK
<1>2. cycles[n] \in Cycle
  BY <1>1, CycleDomain
<1>3. c \in Cycle /\ c.st = st /\ c.mode = cycles[n].mode
  BY <1>2 DEF Cycle
<1>4. [cycles EXCEPT ![Len(cycles)].st = st] = cs
  OBVIOUS
<1> HIDE DEF c
<1>5. /\ cs \in Seq(Cycle) /\ Len(cs) = Len(cycles)
      /\ \A i \in 1..Len(cycles) : cs[i] = IF i = n THEN c ELSE cycles[i]
  BY <1>1, <1>3, ExceptSeq
<1> HIDE DEF cs
<1>6. \A i \in 1..Len(cycles) : cs[i].st # "running"
  BY <1>1, <1>3, <1>5 DEF CyclesOK
<1>7. CyclesOK(cs, pc)
  BY <1>5, <1>6 DEF CyclesOK
<1> QED BY <1>1, <1>3, <1>4, <1>5, <1>7
(* Without time limits nothing expires. *)
LEMMA NothingExpires ==
    ASSUME NEW es, NEW cs, NEW pc, NEW n, ListOK(es, cs, pc, n), "lapse" \notin Fault,
           NEW lapse \in Lapse
    PROVE  \A i \in 1..Len(es) : Expired(es, lapse)[i] = es[i]
<1>1. lapse.queued = 0 /\ lapse.running = 0
  BY DEF Lapse
<1>2. es \in Seq(Entry) /\ DOMAIN es = 1..Len(es)
  BY ListDomain DEF ListOK
<1>3. ASSUME NEW i \in 1..Len(es)
      PROVE  Expired(es, lapse)[i] = es[i]
  <2>1. EntryOK(es[i], cs, pc) /\ es[i] \in Entry
    BY DEF ListOK, EntryOK
  <2>2. es[i].id \in 1..MaxRequests /\ es[i].cyc \in 0..MaxCycles
    BY <2>1, EntryFields
  <2>3. ~(es[i].id <= 0) /\ (es[i].st = "running" => ~(es[i].cyc <= 0))
    BY <2>1, <2>2, CycleRequestsAssumption DEF EntryOK
  <2> QED BY <1>1, <1>2, <2>3 DEF Expired
<1> QED BY <1>3

-----------------------------------------------------------------------------
(* What a cycle's reports do to the list *)

LEMMA StartObserved ==
    ASSUME NEW es, NEW pc, NEW n, NEW m \in Mode, NEW cs,
           ListOK(es, cycles, pc, n), CyclesOK(cycles, pc),
           pc \notin {"running", "stopping", "done"}, Len(cycles) < MaxCycles,
           cs = Append(cycles, [mode |-> m, st |-> "running"])
    PROVE  LET ds == Observed(es, [id |-> Len(cycles) + 1, mode |-> m, st |-> "running"]) IN
           /\ ListOK(ds, cs, "running", n) /\ Len(ds) = Len(es) /\ DOMAIN ds = DOMAIN es
           /\ \A i \in 1..Len(es) : ds[i].id = es[i].id
           /\ Keeps(es, ds)
<1> DEFINE k == Len(cycles) + 1
           ds == Observed(es, [id |-> Len(cycles) + 1, mode |-> m, st |-> "running"])
<1>1. es \in Seq(Entry) /\ DOMAIN es = 1..Len(es)
  BY ListDomain DEF ListOK
<1>2. /\ Len(cycles) \in Nat /\ k \in 0..MaxCycles /\ k # 0 /\ Len(cs) = k
      /\ cs[k].mode = m /\ cs[k].st = "running"
      /\ \A j \in 1..Len(cycles) : cs[j] = cycles[j]
  BY CycleBegins, CycleDomain, CycleRequestsAssumption DEF CyclesOK
<1>3. ASSUME NEW e, EntryOK(e, cycles, pc), e.st # "running"
      PROVE  EntryOK(e, cs, "running")
  <2>1. e.cyc \in 0..MaxCycles /\ e.born \in 0..MaxCycles
    BY <1>3, EntryFields DEF EntryOK
  <2>2. e.cyc # 0 => e.cyc \in 1..Len(cycles)
    BY <1>2, <1>3, <2>1 DEF EntryOK
  <2>3. e.born <= Len(cs) /\ e.cyc <= Len(cs)
    BY <1>2, <1>3, <2>1 DEF EntryOK
  <2> QED BY <1>2, <1>3, <2>2, <2>3 DEF EntryOK
<1>4. ASSUME NEW i \in 1..Len(es)
      PROVE  /\ EntryOK(ds[i], cs, "running") /\ ds[i].id = es[i].id
             /\ es[i].st \notin Active => ds[i] = es[i]
  <2>1. EntryOK(es[i], cycles, pc) /\ es[i] \in Entry
    BY DEF ListOK, EntryOK
  <2>2. es[i].st # "running"
    <3>1. es[i].cyc \in 0..MaxCycles
      BY <2>1, EntryFields
    <3>2. es[i].cyc # 0 => es[i].cyc \in 1..Len(cycles)
      BY <1>2, <2>1, <3>1 DEF EntryOK
    <3> QED BY <2>1, <3>2 DEF EntryOK, CyclesOK
  <2>3. CASE es[i].st = "queued" /\ m = es[i].mode
    <3> DEFINE d == [es[i] EXCEPT !.st = "running", !.cyc = k]
    <3>1. ds[i] = d
      BY <1>1, <2>3 DEF Observed
    <3>2. /\ d \in Entry /\ d.st = "running" /\ d.cyc = k /\ d.id = es[i].id
          /\ d.mode = es[i].mode /\ d.why = es[i].why /\ d.born = es[i].born
      BY ZenonT(60), <1>2, <2>1, BoundEntry
    <3>3. es[i].born \in 0..MaxCycles /\ es[i].born <= Len(cycles) /\ es[i].why = "none"
      BY <2>1, <2>3, EntryFields DEF EntryOK, Active
    <3> HIDE DEF d
    <3>4. EntryOK(d, cs, "running")
      BY <1>2, <2>3, <3>2, <3>3 DEF EntryOK, Active
    <3> QED BY <2>3, <3>1, <3>2, <3>4 DEF Active
  <2>4. CASE es[i].st = "queued" /\ m # es[i].mode
    <3>1. ds[i] = Failed(es[i], "mode_superseded", FALSE)
      BY <1>1, <2>4 DEF Observed
    <3>2. es[i].st \in Active /\ "mode_superseded" \in Timeouts
      BY <2>4 DEF Active, Timeouts
    <3> DEFINE d == Failed(es[i], "mode_superseded", FALSE)
    <3>3. EntryOK(d, cycles, pc) /\ d.id = es[i].id /\ d.st = "failed"
      <4> HIDE DEF ds
      <4> QED BY <2>1, <2>4, <3>2, FailOK
    <3>4. EntryOK(d, cs, "running")
      <4> HIDE DEF d
      <4> QED BY <1>3, <3>3
    <3> QED BY <3>1, <3>2, <3>3, <3>4
  <2>5. CASE es[i].st # "queued"
    <3>1. ds[i] = es[i]
      BY <1>1, <2>2, <2>5 DEF Observed
    <3> QED BY <1>3, <2>1, <2>2, <3>1
  <2> QED BY <2>3, <2>4, <2>5
<1>5. ds \in [1..Len(es) -> Entry]
  <2>1. \A i \in 1..Len(es) : ds[i] \in Entry
    BY <1>4 DEF EntryOK
  <2> QED BY <1>1, <2>1 DEF Observed
<1> HIDE DEF ds
<1>6. ListOK(ds, cs, "running", n) /\ Len(ds) = Len(es) /\ DOMAIN ds = DOMAIN es
  BY <1>4, <1>5, EntryByEntry
<1> QED BY <1>4, <1>6 DEF ds, Keeps

(* An entry that is not running is right about the cycles after one closed. *)
LEMMA CloseMoves ==
    ASSUME NEW e, EntryOK(e, cycles, "running"), e.st # "running",
           CyclesOK(cycles, "running"), NEW st \in {"succeeded", "failed", "aborted"},
           NEW pc, pc # "running"
    PROVE  EntryOK(e, [cycles EXCEPT ![Len(cycles)].st = st], pc)
<1> DEFINE cs == [cycles EXCEPT ![Len(cycles)].st = st]
<1>1. /\ Len(cs) = Len(cycles) /\ Len(cycles) \in 1..Len(cycles)
      /\ cs[Len(cycles)].mode = cycles[Len(cycles)].mode
      /\ \A i \in 1..Len(cycles) : i # Len(cycles) => cs[i] = cycles[i]
  BY CycleCloses
<1> HIDE DEF cs
<1>2. e.cyc \in 0..MaxCycles /\ (e.cyc # 0 => e.cyc \in 1..Len(cycles))
  BY <1>1, EntryFields DEF EntryOK
<1>3. e.cyc # 0 => cs[e.cyc].mode = cycles[e.cyc].mode
  BY <1>1, <1>2
<1>4. e.why = "cycle" => cs[e.cyc].st = e.st
  BY <1>1, <1>2 DEF EntryOK, CyclesOK, Active
<1>5. EntryOK(e, cs, pc)
  BY <1>1, <1>3, <1>4 DEF EntryOK
<1> QED BY <1>5 DEF cs

(* While a cycle runs, the running requests are those bound to it. *)
LEMMA RunningIsBound ==
    ASSUME NEW e, EntryOK(e, cycles, "running"), e.st = "running",
           CyclesOK(cycles, "running")
    PROVE  e.cyc = Len(cycles) /\ e.cyc # 0
<1>1. e.cyc \in 0..MaxCycles /\ Len(cycles) \in Nat
  BY EntryFields, CycleDomain DEF EntryOK, CyclesOK
<1>2. e.cyc # 0 /\ e.cyc \in 1..Len(cycles) /\ cycles[e.cyc].st = "running"
  BY <1>1 DEF EntryOK
<1> QED BY <1>2 DEF CyclesOK

EndReport(m, st) == [id |-> Len(cycles), mode |-> m, st |-> st]

Closed(st) == [cycles EXCEPT ![Len(cycles)].st = st]

LEMMA EndObserved ==
    ASSUME NEW es, NEW n, NEW m, NEW st \in {"succeeded", "failed"},
           ListOK(es, cycles, "running", n), CyclesOK(cycles, "running")
    PROVE  LET ds == Observed(es, EndReport(m, st))  cs == Closed(st) IN
           /\ ListOK(ds, cs, "wait", n) /\ Len(ds) = Len(es) /\ DOMAIN ds = DOMAIN es
           /\ \A i \in 1..Len(es) : ds[i].id = es[i].id
           /\ Keeps(es, ds)
<1> DEFINE ds == Observed(es, EndReport(m, st))  cs == Closed(st)
<1>1. es \in Seq(Entry) /\ DOMAIN es = 1..Len(es)
  BY ListDomain DEF ListOK
<1>2. /\ Len(cs) = Len(cycles) /\ Len(cycles) \in 1..Len(cycles)
      /\ cs[Len(cycles)].mode = cycles[Len(cycles)].mode
      /\ cs[Len(cycles)].st = st
  BY CycleCloses DEF Closed
<1>3. \A e : EntryOK(e, cycles, "running") /\ e.st # "running" => EntryOK(e, cs, "wait")
  BY CloseMoves DEF Closed
<1> HIDE DEF cs
<1>4. ASSUME NEW i \in 1..Len(es)
      PROVE  /\ EntryOK(ds[i], cs, "wait") /\ ds[i].id = es[i].id
             /\ es[i].st \notin Active => ds[i] = es[i]
  <2>1. EntryOK(es[i], cycles, "running") /\ es[i] \in Entry
    BY DEF ListOK, EntryOK
  <2>2. CASE es[i].st = "running"
    <3>1. es[i].cyc = Len(cycles) /\ es[i].cyc # 0
      BY <2>1, <2>2, RunningIsBound
    <3> DEFINE d == [es[i] EXCEPT !.st = st, !.why = "cycle"]
    <3>2. ds[i] = d
      BY <1>1, <2>2, <3>1 DEF Observed, EndReport
    <3>3. /\ d \in Entry /\ d.st = st /\ d.cyc = es[i].cyc /\ d.why = "cycle"
          /\ d.id = es[i].id /\ d.mode = es[i].mode /\ d.born = es[i].born
      BY ZenonT(60), <2>1, ClosedEntry
    <3> HIDE DEF d
    <3>4. EntryOK(d, cs, "wait")
      BY <1>2, <2>1, <3>1, <3>3 DEF EntryOK, Active
    <3> QED BY <2>2, <3>2, <3>3, <3>4 DEF Active
  <2>3. CASE es[i].st # "running"
    <3>1. ds[i] = es[i]
      BY <1>1, <2>3 DEF Observed, EndReport
    <3> QED BY <1>3, <2>1, <2>3, <3>1
  <2> QED BY <2>2, <2>3
<1>5. ds \in [1..Len(es) -> Entry]
  <2>1. \A i \in 1..Len(es) : ds[i] \in Entry
    BY <1>4 DEF EntryOK
  <2> QED BY <1>1, <2>1 DEF Observed, EndReport
<1> HIDE DEF ds
<1>6. ListOK(ds, cs, "wait", n) /\ Len(ds) = Len(es) /\ DOMAIN ds = DOMAIN es
  BY <1>4, <1>5, EntryByEntry
<1> QED BY <1>4, <1>6 DEF ds, cs, Keeps

LEMMA AbortObserved ==
    ASSUME NEW es, NEW n, ListOK(es, cycles, "running", n), CyclesOK(cycles, "running")
    PROVE  ListOK(es, [cycles EXCEPT ![Len(cycles)].st = "aborted"], "stopping", n)
<1> DEFINE cs == [cycles EXCEPT ![Len(cycles)].st = "aborted"]
<1>1. /\ CyclesOK(cs, "stopping") /\ Len(cs) = Len(cycles) /\ Len(cycles) \in 1..Len(cycles)
      /\ cs[Len(cycles)].mode = cycles[Len(cycles)].mode
      /\ cs[Len(cycles)].st = "aborted"
  <2>1. "aborted" \in {"succeeded", "failed", "aborted"} /\ "stopping" # "running"
    OBVIOUS
  <2> QED BY <2>1, CycleCloses, Zenon
<1>2. \A e : EntryOK(e, cycles, "running") /\ e.st # "running" => EntryOK(e, cs, "stopping")
  BY CloseMoves
<1> HIDE DEF cs
<1>3. ASSUME NEW e, EntryOK(e, cycles, "running"), e.st = "running"
      PROVE  EntryOK(e, cs, "stopping")
  <2>1. e.cyc = Len(cycles) /\ e.cyc # 0
    BY <1>3, RunningIsBound
  <2> QED BY <1>1, <1>3, <2>1 DEF EntryOK, Active
<1>4. \A i \in 1..Len(es) : EntryOK(es[i], cs, "stopping")
  BY <1>2, <1>3 DEF ListOK
<1>5. ListOK(es, cs, "stopping", n)
  BY <1>4 DEF ListOK
<1> QED BY <1>5 DEF cs

-----------------------------------------------------------------------------
(* How a list may follow another: an entry that had ended and is still held *)
(* is the same, new entries have ids above n; and everything is held.       *)
Follows(es, ds, n) ==
    \A j \in DOMAIN ds :
        \/ ds[j].id = n + 1
        \/ \E l \in DOMAIN es : /\ ds[j].id = es[l].id
                                /\ es[l].st \notin Active => ds[j] = es[l]

Holds(es, ds) ==
    \A l \in DOMAIN es : \E j \in DOMAIN ds : ds[j].id = es[l].id

LEMMA SameIds ==
    ASSUME NEW es, NEW ds, NEW n, DOMAIN es = 1..Len(es), DOMAIN ds = DOMAIN es,
           \A i \in 1..Len(es) : ds[i].id = es[i].id, Keeps(es, ds)
    PROVE  Follows(es, ds, n) /\ Holds(es, ds)
BY DEF Follows, Holds, Keeps

LEMMA FollowsOn ==
    ASSUME NEW es, NEW ds, NEW ts, NEW n, Follows(es, ds, n), Follows(ds, ts, n)
    PROVE  Follows(es, ts, n)
<1>1. ASSUME NEW j \in DOMAIN ts, ts[j].id # n + 1
      PROVE  \E l \in DOMAIN es : /\ ts[j].id = es[l].id
                                  /\ es[l].st \notin Active => ts[j] = es[l]
  <2>1. PICK k \in DOMAIN ds : /\ ts[j].id = ds[k].id
                               /\ ds[k].st \notin Active => ts[j] = ds[k]
    BY <1>1 DEF Follows
  <2>2. PICK l \in DOMAIN es : /\ ds[k].id = es[l].id
                               /\ es[l].st \notin Active => ds[k] = es[l]
    BY <1>1, <2>1 DEF Follows
  <2> QED BY <2>1, <2>2
<1> QED BY <1>1 DEF Follows

LEMMA HoldsOn ==
    ASSUME NEW es, NEW ds, NEW ts, Holds(es, ds), Holds(ds, ts)
    PROVE  Holds(es, ts)
BY DEF Holds

LEMMA ExpiredFollows ==
    ASSUME NEW es, NEW cs, NEW pc, NEW n, ListOK(es, cs, pc, n), NEW lapse
    PROVE  Follows(es, Expired(es, lapse), n) /\ Holds(es, Expired(es, lapse))
<1>1. DOMAIN es = 1..Len(es)
  BY ListDomain DEF ListOK
<1> QED BY <1>1, ExpiredOK, SameIds

-----------------------------------------------------------------------------
(* The invariant *)

Place == {"loop", "aligning", "gates", "running", "wait", "skipped", "stopping",
          "done", "over"}

SideOK ==
    /\ desired \in Mode /\ trigger \in BOOLEAN
    /\ caller \in [Caller -> {Idle} \cup [pc : {"read", "bound"}, key : Key, mode : Mode]]
    /\ saver \in [Saver -> Mode \cup {NoMode}]

WorkerOK ==
    /\ mode \in Mode
    /\ worker \in [pc : Place, read : Mode \cup {NoMode}]
    /\ worker.pc = "aligning" => worker.read \in Mode

AllEnded(es) == \A i \in 1..Len(es) : es[i].st \notin Active

RegistryOK ==
    /\ issued \in 0..MaxRequests
    /\ ListOK(entries, cycles, worker.pc, issued)
    /\ CyclesOK(cycles, worker.pc)
    /\ worker.pc = "over" => AllEnded(entries)

(* The cycles that ended with a report. *)
Reported(cs) == {i \in DOMAIN cs : cs[i].st \in {"succeeded", "failed"}}

CountOK ==
    /\ last \in [id : 0..MaxCycles, st : {"none", "running", "succeeded", "failed"}]
    /\ count \in Nat /\ count = Cardinality(Reported(cycles))
    /\ worker.pc = "running" => last.id = Len(cycles) /\ last.st = "running"

RequestsOK == SideOK /\ WorkerOK /\ RegistryOK /\ CountOK

LEMMA CallerFields ==
    ASSUME SideOK, NEW c \in Caller, caller[c].pc # "idle"
    PROVE  /\ caller[c] \in [pc : {"read", "bound"}, key : Key, mode : Mode]
           /\ caller[c].key \in Key /\ caller[c].mode \in Mode
BY DEF SideOK, Idle

-----------------------------------------------------------------------------
(* The registry's actions *)

LEMMA AcceptStep ==
    ASSUME RegistryOK, SideOK, NEW c \in Caller, Accept(c)
    PROVE  /\ RegistryOK' /\ Follows(entries, entries', issued)
           /\ "lapse" \notin Fault => \A i \in DOMAIN entries : entries[i].st \in Active =>
                 \E j \in DOMAIN entries' : entries'[j].id = entries[i].id
<1>1. PICK lapse \in Lapse : \E slot \in Evictable(Expired(entries, lapse)) :
        entries' = Inserted(Expired(entries, lapse), slot, caller[c].key, caller[c].mode)
  BY DEF Accept
<1> DEFINE es == Expired(entries, lapse)
<1>2. PICK slot \in Evictable(es) :
        entries' = Inserted(es, slot, caller[c].key, caller[c].mode)
  BY <1>1
<1>3. caller[c].key \in Key /\ caller[c].mode \in Mode
  BY CallerFields DEF Accept, Acceptable
<1>4. /\ issued < MaxRequests /\ issued \in Nat /\ issued' = issued + 1
      /\ cycles' = cycles /\ worker' = worker /\ worker.pc # "over"
      /\ issued' \in 0..MaxRequests
  BY CycleRequestsAssumption DEF Accept, Ready, RegistryOK
<1>5. /\ ListOK(es, cycles, worker.pc, issued) /\ DOMAIN es = DOMAIN entries
      /\ Follows(entries, es, issued)
  BY ExpiredOK, ExpiredFollows DEF RegistryOK
<1>6. "lapse" \notin Fault => \A i \in 1..Len(entries) : es[i] = entries[i]
  BY NothingExpires DEF RegistryOK
<1> HIDE DEF es
<1>7. cycles \in Seq(Cycle) /\ Len(cycles) <= MaxCycles
  BY DEF RegistryOK, CyclesOK
<1>8. /\ ListOK(entries', cycles, worker.pc, issued + 1)
      /\ \A j \in DOMAIN entries' :
            entries'[j].id = issued + 1 \/ \E l \in DOMAIN es : entries'[j] = es[l]
      /\ \A l \in DOMAIN es : es[l].st \in Active => \E j \in DOMAIN entries' : entries'[j] = es[l]
  BY <1>2, <1>3, <1>4, <1>5, <1>7, InsertedOK
<1>9. Follows(es, entries', issued)
  BY <1>8 DEF Follows
<1>10. Follows(entries, entries', issued)
  BY <1>5, <1>9, FollowsOn
<1>11. RegistryOK'
  BY <1>4, <1>8 DEF RegistryOK
<1>12. DOMAIN entries = 1..Len(entries)
  BY ListDomain DEF RegistryOK, ListOK
<1>13. ASSUME "lapse" \notin Fault, NEW i \in DOMAIN entries, entries[i].st \in Active
       PROVE  \E j \in DOMAIN entries' : entries'[j].id = entries[i].id
  <2>1. es[i] = entries[i] /\ i \in DOMAIN es
    BY <1>5, <1>6, <1>12, <1>13
  <2> QED BY <1>8, <1>13, <2>1
<1> QED BY <1>10, <1>11, <1>13

(* A change of the list alone. *)
LEMMA ListChanges ==
    ASSUME RegistryOK, ListOK(entries', cycles, worker.pc, issued),
           worker.pc = "over" => AllEnded(entries'),
           UNCHANGED <<issued, cycles, worker>>
    PROVE  RegistryOK'
BY DEF RegistryOK

LEMMA ReplayStep ==
    ASSUME RegistryOK, NEW c \in Caller, Replay(c)
    PROVE  RegistryOK' /\ Follows(entries, entries', issued) /\ Holds(entries, entries')
<1>1. PICK lapse \in Lapse :
        \/ /\ Held(Expired(entries, lapse), caller[c].key)
           /\ entries' = Touched(Expired(entries, lapse), caller[c].key)
        \/ entries' = Expired(entries, lapse)
  BY DEF Replay
<1> DEFINE es == Expired(entries, lapse)
<1>2. /\ ListOK(es, cycles, worker.pc, issued) /\ DOMAIN es = DOMAIN entries
      /\ Follows(entries, es, issued) /\ Holds(entries, es)
  BY ExpiredOK, ExpiredFollows DEF RegistryOK
<1> HIDE DEF es
<1>3. ListOK(entries', cycles, worker.pc, issued) /\ Follows(es, entries', issued) /\ Holds(es, entries')
  <2>1. CASE Held(es, caller[c].key) /\ entries' = Touched(es, caller[c].key)
    <3>1. /\ ListOK(entries', cycles, worker.pc, issued)
          /\ \A j \in DOMAIN entries' : \E l \in DOMAIN es : entries'[j] = es[l]
          /\ \A l \in DOMAIN es : \E j \in DOMAIN entries' : entries'[j] = es[l]
      BY <1>2, <2>1, TouchedOK DEF Held
    <3> QED BY <3>1 DEF Follows, Holds
  <2>2. CASE entries' = es
    BY <1>2, <2>2 DEF Follows, Holds
  <2> QED BY <1>1, <2>1, <2>2 DEF es
<1>4. worker.pc # "over" /\ UNCHANGED <<issued, cycles, worker>>
  BY DEF Replay, Ready
<1> QED BY <1>2, <1>3, <1>4, ListChanges, FollowsOn, HoldsOn

LEMMA PollStep ==
    ASSUME RegistryOK, Poll
    PROVE  RegistryOK' /\ Follows(entries, entries', issued) /\ Holds(entries, entries')
<1>1. PICK lapse \in Lapse : entries' = Expired(entries, lapse)
  BY DEF Poll
<1> DEFINE es == Expired(entries, lapse)
<1>2. /\ ListOK(es, cycles, worker.pc, issued) /\ Len(es) = Len(entries)
      /\ Follows(entries, es, issued) /\ Holds(entries, es)
      /\ AllEnded(entries) => \A i \in 1..Len(entries) : es[i].st \notin Active
  BY ExpiredOK, ExpiredFollows DEF RegistryOK, AllEnded
<1> HIDE DEF es
<1>3. worker.pc = "over" => AllEnded(es)
  BY <1>2 DEF AllEnded, RegistryOK
<1>4. UNCHANGED <<issued, cycles, worker>> /\ entries' = es
  BY <1>1 DEF Poll, es
<1> QED BY <1>2, <1>3, <1>4, ListChanges

LEMMA SweepStep ==
    ASSUME RegistryOK, NEW s \in Saver, Sweep(s)
    PROVE  RegistryOK' /\ Follows(entries, entries', issued) /\ Holds(entries, entries')
<1>1. PICK lapse \in Lapse : entries' = Superseded(Expired(entries, lapse), saver[s])
  BY DEF Sweep
<1> DEFINE es == Expired(entries, lapse)
<1>2. /\ ListOK(es, cycles, worker.pc, issued) /\ Len(es) = Len(entries)
      /\ Follows(entries, es, issued) /\ Holds(entries, es)
      /\ AllEnded(entries) => \A i \in 1..Len(entries) : es[i].st \notin Active
  BY ExpiredOK, ExpiredFollows DEF RegistryOK, AllEnded
<1> HIDE DEF es
<1>3. worker.pc = "over" => AllEnded(es)
  BY <1>2 DEF AllEnded, RegistryOK
<1> DEFINE ds == Superseded(es, saver[s])
<1>4. /\ ListOK(ds, cycles, worker.pc, issued) /\ Len(ds) = Len(es) /\ DOMAIN ds = DOMAIN es
      /\ \A i \in 1..Len(es) : ds[i].id = es[i].id
      /\ Keeps(es, ds)
      /\ AllEnded(es) => \A i \in 1..Len(es) : ds[i].st \notin Active
  BY <1>2, SupersededOK DEF AllEnded
<1> HIDE DEF ds
<1>5. DOMAIN es = 1..Len(es)
  BY <1>2, ListDomain DEF ListOK
<1>6. Follows(es, ds, issued) /\ Holds(es, ds)
  BY <1>4, <1>5, SameIds
<1>7. worker.pc = "over" => AllEnded(ds)
  BY <1>3, <1>4 DEF AllEnded
<1>8. UNCHANGED <<issued, cycles, worker>> /\ entries' = ds
  BY <1>1 DEF Sweep, ds, es
<1> QED BY <1>2, <1>4, <1>6, <1>7, <1>8, ListChanges, FollowsOn, HoldsOn

LEMMA CallbackStep ==
    ASSUME RegistryOK, DoneCallback
    PROVE  RegistryOK' /\ Follows(entries, entries', issued) /\ Holds(entries, entries')
<1> DEFINE ds == Stopped(entries)
<1>1. /\ ListOK(ds, cycles, "over", issued) /\ Len(ds) = Len(entries) /\ DOMAIN ds = DOMAIN entries
      /\ \A i \in 1..Len(entries) : ds[i].id = entries[i].id /\ ds[i].st \notin Active
      /\ Keeps(entries, ds)
  BY StoppedOK DEF RegistryOK
<1>2. DOMAIN entries = 1..Len(entries)
  BY ListDomain DEF RegistryOK, ListOK
<1> HIDE DEF ds
<1>3. Follows(entries, ds, issued) /\ Holds(entries, ds)
  BY <1>1, <1>2, SameIds
<1>4. AllEnded(ds)
  BY <1>1 DEF AllEnded
<1>5. entries' = ds /\ worker'.pc = "over" /\ UNCHANGED <<issued, cycles>> /\ worker.pc = "done"
  BY DEF DoneCallback, Goto, ds
<1>6. CyclesOK(cycles, "over")
  BY <1>5 DEF RegistryOK, CyclesOK
<1>7. RegistryOK'
  BY <1>1, <1>4, <1>5, <1>6 DEF RegistryOK
<1> QED BY <1>3, <1>5, <1>7

-----------------------------------------------------------------------------
(* The worker's actions *)

LEMMA StartStep ==
    ASSUME RegistryOK, WorkerOK, CountOK, StartCycle
    PROVE  /\ RegistryOK' /\ CountOK'
           /\ Follows(entries, entries', issued) /\ Holds(entries, entries')
<1> DEFINE snap == [id |-> Len(cycles) + 1, mode |-> mode, st |-> "running"]
           cs == Append(cycles, [mode |-> mode, st |-> "running"])
<1>1. PICK lapse \in Lapse : entries' = Observed(Expired(entries, lapse), snap)
  BY DEF StartCycle, Record
<1> DEFINE es == Expired(entries, lapse)  ds == Observed(es, snap)
<1>2. /\ worker.pc = "gates" /\ Len(cycles) < MaxCycles /\ cycles' = cs
      /\ worker'.pc = "running" /\ issued' = issued /\ mode \in Mode
      /\ entries' = ds
  BY <1>1 DEF StartCycle, Goto, WorkerOK
<1>3. /\ ListOK(es, cycles, "gates", issued)
      /\ Follows(entries, es, issued) /\ Holds(entries, es)
  BY <1>2, ExpiredOK, ExpiredFollows DEF RegistryOK
<1> HIDE DEF es
<1>4. CyclesOK(cycles, "gates")
  BY <1>2 DEF RegistryOK
<1>5. /\ ListOK(ds, cs, "running", issued) /\ Len(ds) = Len(es) /\ DOMAIN ds = DOMAIN es
      /\ \A i \in 1..Len(es) : ds[i].id = es[i].id
      /\ Keeps(es, ds)
  BY <1>2, <1>3, <1>4, StartObserved
<1>6. /\ CyclesOK(cs, "running") /\ Len(cs) = Len(cycles) + 1 /\ cs[Len(cs)].st = "running"
      /\ \A i \in 1..Len(cycles) : cs[i] = cycles[i]
  BY <1>2, <1>4, CycleBegins
<1>7. snap.id = Len(cycles) + 1 /\ snap.st = "running"
  OBVIOUS
<1>8. /\ count' = IF /\ snap.st \in {"succeeded", "failed"}
                     /\ last.id # snap.id \/ last.st = "running"
                  THEN count + 1 ELSE count
      /\ last' = [id |-> snap.id, st |-> snap.st]
  BY DEF StartCycle, Record
<1> HIDE DEF ds, cs, snap
<1>9. DOMAIN es = 1..Len(es)
  BY <1>3, ListDomain DEF ListOK
<1>10. Follows(es, ds, issued) /\ Holds(es, ds)
  BY <1>5, <1>9, SameIds
<1>11. RegistryOK'
  BY <1>2, <1>5, <1>6 DEF RegistryOK
<1>12. Len(cycles) \in Nat /\ DOMAIN cycles = 1..Len(cycles) /\ DOMAIN cs = 1..(Len(cycles) + 1)
  BY <1>4, <1>6, CycleDomain DEF CyclesOK
<1>13. Reported(cs) = Reported(cycles)
  <2>1. \A i \in 1..(Len(cycles) + 1) : i \in 1..Len(cycles) \/ i = Len(cs)
    BY <1>6, <1>12
  <2>2. \A i \in 1..Len(cycles) : i \in 1..(Len(cycles) + 1)
    BY <1>12
  <2> QED BY <1>6, <1>12, <2>1, <2>2 DEF Reported
<1>14. count' = count /\ last' = [id |-> Len(cycles) + 1, st |-> "running"]
  BY <1>7, <1>8
<1>15. Len(cycles) + 1 \in 0..MaxCycles
  BY <1>2, <1>12, CycleRequestsAssumption
<1>16. CountOK'
  BY <1>2, <1>6, <1>13, <1>14, <1>15 DEF CountOK
<1> QED BY <1>2, <1>3, <1>10, <1>11, <1>16, FollowsOn, HoldsOn

(* The reported cycles are finitely many. *)
LEMMA ReportedFinite ==
    ASSUME NEW cs \in Seq(Cycle)
    PROVE  IsFiniteSet(Reported(cs)) /\ Cardinality(Reported(cs)) <= Len(cs)
<1>1. Len(cs) \in Nat /\ DOMAIN cs = 1..Len(cs)
  BY CycleDomain
<1>2. Reported(cs) \subseteq 1..Len(cs)
  BY <1>1 DEF Reported
<1>3. IsFiniteSet(1..Len(cs)) /\ Cardinality(1..Len(cs)) = Len(cs)
  BY <1>1, FS_Interval
<1> QED BY <1>2, <1>3, FS_Subset

LEMMA EndStep ==
    ASSUME RegistryOK, CountOK, NEW st \in {"succeeded", "failed"}, EndCycle(st)
    PROVE  /\ RegistryOK' /\ CountOK'
           /\ Follows(entries, entries', issued) /\ Holds(entries, entries')
<1> DEFINE snap == EndReport(mode, st)
           cs == Closed(st)
<1>1. PICK lapse \in Lapse : entries' = Observed(Expired(entries, lapse), snap)
  BY DEF EndCycle, Record, EndReport
<1> DEFINE es == Expired(entries, lapse)  ds == Observed(es, snap)
<1>2. /\ worker.pc = "running" /\ cycles' = cs /\ worker'.pc = "wait" /\ issued' = issued
      /\ entries' = ds
  BY <1>1 DEF EndCycle, Goto, Closed
<1>3. /\ ListOK(es, cycles, "running", issued)
      /\ Follows(entries, es, issued) /\ Holds(entries, es)
  BY <1>2, ExpiredOK, ExpiredFollows DEF RegistryOK
<1> HIDE DEF es
<1>4. CyclesOK(cycles, "running")
  BY <1>2 DEF RegistryOK
<1>5. /\ ListOK(ds, cs, "wait", issued) /\ Len(ds) = Len(es) /\ DOMAIN ds = DOMAIN es
      /\ \A i \in 1..Len(es) : ds[i].id = es[i].id
      /\ Keeps(es, ds)
  BY <1>3, <1>4, EndObserved
<1>6. /\ CyclesOK(cs, "wait") /\ Len(cs) = Len(cycles) /\ Len(cycles) \in 1..Len(cycles)
      /\ cs[Len(cycles)].st = st
      /\ \A i \in 1..Len(cycles) : i # Len(cycles) => cs[i] = cycles[i]
  <2>1. "wait" # "running" /\ st \in {"succeeded", "failed", "aborted"}
    OBVIOUS
  <2> QED BY <1>4, <2>1, CycleCloses DEF Closed
<1>7. snap.id = Len(cycles) /\ snap.st = st
  BY DEF EndReport
<1>8. /\ count' = IF /\ snap.st \in {"succeeded", "failed"}
                     /\ last.id # snap.id \/ last.st = "running"
                  THEN count + 1 ELSE count
      /\ last' = [id |-> snap.id, st |-> snap.st]
  BY DEF EndCycle, Record, EndReport
<1> HIDE DEF ds, cs, snap
<1>9. DOMAIN es = 1..Len(es)
  BY <1>3, ListDomain DEF ListOK
<1>10. Follows(es, ds, issued) /\ Holds(es, ds)
  BY <1>5, <1>9, SameIds
<1>11. RegistryOK'
  BY <1>2, <1>5, <1>6 DEF RegistryOK
<1>12. /\ cycles \in Seq(Cycle) /\ Len(cycles) \in Nat /\ Len(cycles) <= MaxCycles
       /\ DOMAIN cycles = 1..Len(cycles) /\ DOMAIN cs = 1..Len(cycles)
       /\ cycles[Len(cycles)].st = "running"
  BY <1>4, <1>6, CycleDomain DEF CyclesOK
<1>13. /\ Reported(cs) = Reported(cycles) \cup {Len(cycles)}
       /\ Len(cycles) \notin Reported(cycles)
  BY <1>6, <1>12 DEF Reported
<1>14. Cardinality(Reported(cs)) = Cardinality(Reported(cycles)) + 1
  <2>1. IsFiniteSet(Reported(cycles))
    BY <1>12, ReportedFinite
  <2> QED BY <1>13, <2>1, FS_AddElement
<1>15. count' = count + 1 /\ last' = [id |-> Len(cycles), st |-> st]
  BY <1>2, <1>7, <1>8 DEF CountOK
<1>16. Len(cycles) \in 0..MaxCycles
  BY <1>12, CycleRequestsAssumption
<1>17. CountOK'
  BY <1>2, <1>14, <1>15, <1>16 DEF CountOK
<1> QED BY <1>2, <1>3, <1>10, <1>11, <1>17, FollowsOn, HoldsOn

LEMMA AbortStep ==
    ASSUME RegistryOK, CountOK, Abort
    PROVE  RegistryOK' /\ CountOK'
<1> DEFINE cs == [cycles EXCEPT ![Len(cycles)].st = "aborted"]
<1>1. /\ worker.pc = "running" /\ cycles' = cs /\ worker'.pc = "stopping"
      /\ UNCHANGED <<issued, entries, count, last>>
  BY DEF Abort, Goto
<1>2. CyclesOK(cycles, "running") /\ ListOK(entries, cycles, "running", issued)
  BY <1>1 DEF RegistryOK
<1>3. /\ CyclesOK(cs, "stopping") /\ Len(cs) = Len(cycles) /\ Len(cycles) \in 1..Len(cycles)
      /\ cs[Len(cs)].st = "aborted"
      /\ \A i \in 1..Len(cycles) : i # Len(cycles) => cs[i] = cycles[i]
  <2>1. "aborted" \in {"succeeded", "failed", "aborted"} /\ "stopping" # "running"
    OBVIOUS
  <2> QED BY <1>2, <2>1, CycleCloses, Zenon
<1>4. ListOK(entries, cs, "stopping", issued)
  BY <1>2, AbortObserved
<1> HIDE DEF cs
<1>5. RegistryOK'
  BY <1>1, <1>3, <1>4 DEF RegistryOK
<1>6. /\ DOMAIN cycles = 1..Len(cycles) /\ DOMAIN cs = 1..Len(cycles)
      /\ cycles[Len(cycles)].st = "running"
  BY <1>2, <1>3, CycleDomain DEF CyclesOK
<1>7. Reported(cs) = Reported(cycles)
  BY <1>3, <1>6 DEF Reported
<1>8. CountOK'
  BY <1>1, <1>7 DEF CountOK
<1> QED BY <1>5, <1>8

(* Any other step of the worker: it moves, and nothing else of these. *)
LEMMA MoveStep ==
    ASSUME RegistryOK, CountOK, worker.pc \notin {"running", "over"},
           worker'.pc \notin {"running", "over"},
           worker.pc \in {"stopping", "done"} => worker'.pc \in {"stopping", "done"},
           UNCHANGED <<entries, issued, cycles, count, last>>
    PROVE  RegistryOK' /\ CountOK'
<1>1. ListOK(entries, cycles, worker'.pc, issued)
  BY PlaceMoves DEF RegistryOK
<1>2. CyclesOK(cycles, worker'.pc)
  BY DEF RegistryOK, CyclesOK
<1> QED BY <1>1, <1>2 DEF RegistryOK, CountOK

LEMMA WorkerStep ==
    ASSUME WorkerOK, SideOK,
           \/ ReadProfile \/ ApplyMode \/ StartCycle \/ WakeUp
           \/ (\E st \in {"succeeded", "failed"} : EndCycle(st))
           \/ TaskDone \/ DoneCallback \/ SkipCycle \/ ScanInterval \/ LeaveLoop \/ Abort
    PROVE  WorkerOK'
<1>1. CASE ReadProfile
  BY <1>1 DEF ReadProfile, WorkerOK, SideOK, Place
<1>2. CASE ApplyMode
  <2>1. mode' \in Mode /\ worker' = [pc |-> "gates", read |-> NoMode]
    BY <1>2 DEF ApplyMode, WorkerOK, Goto
  <2> QED BY <2>1 DEF WorkerOK, Place
<1>3. ASSUME ~ReadProfile, ~ApplyMode
      PROVE  WorkerOK'
  <2>1. \E pc \in Place \ {"aligning"} : worker' = [pc |-> pc, read |-> NoMode]
    BY <1>3 DEF StartCycle, WakeUp, EndCycle, TaskDone, DoneCallback, SkipCycle, ScanInterval,
                LeaveLoop, Abort, Goto, Place
  <2>2. mode' = mode
    BY <1>3 DEF StartCycle, WakeUp, EndCycle, TaskDone, DoneCallback, SkipCycle, ScanInterval,
                LeaveLoop, Abort
  <2> QED BY <2>1, <2>2 DEF WorkerOK
<1> QED BY <1>1, <1>2, <1>3

-----------------------------------------------------------------------------
(* The invariant is kept *)

Followed == /\ Follows(entries, entries', issued)
            /\ "lapse" \notin Fault =>
                  \A i \in DOMAIN entries : entries[i].st \in Active =>
                      \E j \in DOMAIN entries' : entries'[j].id = entries[i].id

LEMMA InitOK == Init => RequestsOK
<1> SUFFICES ASSUME Init PROVE RequestsOK
  OBVIOUS
<1>1. SideOK
  BY CycleRequestsAssumption DEF Init, SideOK
<1>2. WorkerOK
  BY CycleRequestsAssumption DEF Init, WorkerOK, Place
<1>3. /\ entries = <<>> /\ <<>> \in Seq(Entry) /\ Len(entries) = 0 /\ DOMAIN entries = {}
      /\ cycles = <<>> /\ <<>> \in Seq(Cycle) /\ Len(cycles) = 0 /\ DOMAIN cycles = {}
  BY EmptySeq, LenProperties DEF Init
<1>4. RegistryOK
  BY <1>3, CycleRequestsAssumption DEF Init, RegistryOK, ListOK, CyclesOK, AllEnded
<1>5. CountOK
  <2>1. Reported(cycles) = {}
    BY <1>3 DEF Reported
  <2>2. Cardinality({}) = 0
    BY FS_EmptySet
  <2>3. last = [id |-> 0, st |-> "none"] /\ count = 0 /\ worker.pc = "loop" /\ 0 \in 0..MaxCycles
    BY CycleRequestsAssumption DEF Init, NoCycle
  <2> QED BY <2>1, <2>2, <2>3 DEF CountOK
<1> QED BY <1>1, <1>2, <1>4, <1>5 DEF RequestsOK

(* The handlers and the wake-ups keep what surrounds the registry typed. *)
LEMMA SideStep ==
    ASSUME SideOK, WorkerOK, Next
    PROVE  SideOK'
<1>1. ASSUME NEW c \in Caller, NEW k \in Key, ReadDesired(c, k) PROVE SideOK'
  BY <1>1 DEF ReadDesired, SideOK
<1>2. ASSUME NEW c \in Caller, CheckReal(c) PROVE SideOK'
  <2>1. caller[c] \in [pc : {"read", "bound"}, key : Key, mode : Mode]
    BY <1>2, CallerFields DEF CheckReal
  <2> QED BY <1>2, <2>1 DEF CheckReal, SideOK
<1>3. ASSUME NEW c \in Caller, Refuse(c) \/ Accept(c) \/ Replay(c) PROVE SideOK'
  <2>1. /\ caller' = [caller EXCEPT ![c] = Idle]
        /\ UNCHANGED <<desired, saver>> /\ trigger' \in {trigger, TRUE}
    BY <1>3 DEF Refuse, Accept, Replay
  <2> QED BY <2>1 DEF SideOK
<1>4. ASSUME NEW s \in Saver, NEW m \in Mode, Save(s, m) PROVE SideOK'
  BY <1>4 DEF Save, SideOK
<1>5. ASSUME NEW s \in Saver, Sweep(s) PROVE SideOK'
  BY <1>5 DEF Sweep, SideOK
<1>6. CASE Poll \/ Nudge
  BY <1>6 DEF Poll, Nudge, SideOK
<1>7. CASE Work \/ SkipCycle \/ ScanInterval \/ LeaveLoop \/ Abort
  <2>1. UNCHANGED <<desired, caller, saver>> /\ trigger' \in {trigger, FALSE}
    BY <1>7 DEF Work, ReadProfile, ApplyMode, StartCycle, WakeUp, EndCycle, TaskDone,
                DoneCallback, SkipCycle, ScanInterval, LeaveLoop, Abort
  <2> QED BY <2>1 DEF SideOK
<1> QED BY <1>1, <1>2, <1>3, <1>4, <1>5, <1>6, <1>7 DEF Next

(* Nothing of the registry, the worker or the count moves. *)
LEMMA Elsewhere ==
    ASSUME RegistryOK, CountOK, WorkerOK,
           UNCHANGED <<mode, worker, entries, issued, cycles, count, last>>
    PROVE  RegistryOK' /\ CountOK' /\ WorkerOK' /\ Followed
BY DEF RegistryOK, CountOK, WorkerOK, Followed, Follows

LEMMA HeldFollowed ==
    ASSUME Follows(entries, entries', issued), Holds(entries, entries')
    PROVE  Followed
BY DEF Followed, Holds

LEMMA NextOK == RequestsOK /\ [Next]_vars => RequestsOK' /\ Followed
<1> SUFFICES ASSUME RequestsOK, [Next]_vars PROVE RequestsOK' /\ Followed
  OBVIOUS
<1> USE DEF RequestsOK
<1>1. ASSUME UNCHANGED vars PROVE RequestsOK' /\ Followed
  BY <1>1, Elsewhere DEF vars, SideOK
<1>2. ASSUME Next PROVE RequestsOK' /\ Followed
  <2>1. SideOK'
    BY <1>2, SideStep
  <2>2. SUFFICES RegistryOK' /\ CountOK' /\ WorkerOK' /\ Followed
    BY <2>1
  <2>3. CASE \/ \E c \in Caller, k \in Key : ReadDesired(c, k)
             \/ \E c \in Caller : CheckReal(c) \/ Refuse(c)
             \/ \E s \in Saver, m \in Mode : Save(s, m)
             \/ Nudge
    <3>1. UNCHANGED <<mode, worker, entries, issued, cycles, count, last>>
      BY <2>3 DEF ReadDesired, CheckReal, Refuse, Save, Nudge
    <3> QED BY <3>1, Elsewhere
  <2>4. ASSUME NEW c \in Caller, Accept(c) PROVE RegistryOK' /\ CountOK' /\ WorkerOK' /\ Followed
    <3>1. UNCHANGED <<mode, worker, cycles, count, last>>
      BY <2>4 DEF Accept
    <3>2. CountOK' /\ WorkerOK'
      BY <3>1 DEF CountOK, WorkerOK
    <3>3. RegistryOK' /\ Followed
      BY <2>4, AcceptStep DEF Followed
    <3> QED BY <3>2, <3>3
  <2>5. ASSUME NEW c \in Caller, Replay(c) PROVE RegistryOK' /\ CountOK' /\ WorkerOK' /\ Followed
    <3>1. UNCHANGED <<mode, worker, cycles, count, last>>
      BY <2>5 DEF Replay
    <3>2. CountOK' /\ WorkerOK'
      BY <3>1 DEF CountOK, WorkerOK
    <3> QED BY <2>5, <3>2, ReplayStep, HeldFollowed
  <2>6. CASE Poll
    <3>1. UNCHANGED <<mode, worker, cycles, count, last>>
      BY <2>6 DEF Poll
    <3>2. CountOK' /\ WorkerOK'
      BY <3>1 DEF CountOK, WorkerOK
    <3> QED BY <2>6, <3>2, PollStep, HeldFollowed
  <2>7. ASSUME NEW s \in Saver, Sweep(s) PROVE RegistryOK' /\ CountOK' /\ WorkerOK' /\ Followed
    <3>1. UNCHANGED <<mode, worker, cycles, count, last>>
      BY <2>7 DEF Sweep
    <3>2. CountOK' /\ WorkerOK'
      BY <3>1 DEF CountOK, WorkerOK
    <3> QED BY <2>7, <3>2, SweepStep, HeldFollowed
  <2>8. CASE Work \/ SkipCycle \/ ScanInterval \/ LeaveLoop \/ Abort
    <3>1. WorkerOK'
      BY <2>8, WorkerStep DEF Work
    <3>2. CASE StartCycle
      BY <3>1, <3>2, StartStep, HeldFollowed
    <3>3. ASSUME NEW st \in {"succeeded", "failed"}, EndCycle(st)
          PROVE  RegistryOK' /\ CountOK' /\ Followed
      BY <3>3, EndStep, HeldFollowed
    <3>4. CASE Abort
      <4>1. entries' = entries
        BY <3>4 DEF Abort
      <4>2. Followed
        BY <4>1 DEF Followed, Follows
      <4> QED BY <3>1, <3>4, <4>2, AbortStep
    <3>5. CASE DoneCallback
      <4>1. UNCHANGED <<cycles, count, last>> /\ worker'.pc = "over"
        BY <3>5 DEF DoneCallback, Goto
      <4>2. CountOK'
        BY <4>1 DEF CountOK
      <4> QED BY <3>1, <3>5, <4>2, CallbackStep, HeldFollowed
    <3>6. CASE ReadProfile \/ ApplyMode \/ WakeUp \/ TaskDone \/ SkipCycle \/ ScanInterval \/ LeaveLoop
      <4>1. UNCHANGED <<entries, issued, cycles, count, last>>
        BY <3>6 DEF ReadProfile, ApplyMode, WakeUp, TaskDone, SkipCycle, ScanInterval, LeaveLoop
      <4>2. /\ worker.pc \notin {"running", "over"} /\ worker'.pc \notin {"running", "over"}
            /\ worker.pc \in {"stopping", "done"} => worker'.pc \in {"stopping", "done"}
        BY <3>6 DEF ReadProfile, ApplyMode, WakeUp, TaskDone, SkipCycle, ScanInterval, LeaveLoop,
                    Goto, Waits
      <4>3. Followed
        BY <4>1 DEF Followed, Follows
      <4> QED BY <3>1, <4>1, <4>2, <4>3, MoveStep
    <3> QED BY <2>8, <3>1, <3>2, <3>3, <3>4, <3>5, <3>6 DEF Work
  <2> QED BY <1>2, <2>3, <2>4, <2>5, <2>6, <2>7, <2>8 DEF Next
<1> QED BY <1>1, <1>2

LEMMA RequestsInvariant == Spec => []RequestsOK
<1>1. RequestsOK /\ [Next]_vars => RequestsOK'
  BY NextOK
<1> QED BY InitOK, <1>1, PTL DEF Spec

-----------------------------------------------------------------------------
(* The properties *)

(* Type correctness of the registry, the worker and their counters. *)
THEOREM RequestTypes == Spec => []TypeOK
<1>1. RequestsOK => TypeOK
  <2> SUFFICES ASSUME RequestsOK PROVE TypeOK
    OBVIOUS
  <2>1. count \in 0..MaxCycles
    <3>1. cycles \in Seq(Cycle) /\ Len(cycles) \in Nat /\ Len(cycles) <= MaxCycles
      BY CycleDomain DEF RequestsOK, RegistryOK, CyclesOK
    <3>2. Cardinality(Reported(cycles)) <= Len(cycles)
      BY <3>1, ReportedFinite
    <3> QED BY <3>1, <3>2, CycleRequestsAssumption DEF RequestsOK, CountOK
  <2>2. entries \in Seq(Entry) /\ Len(entries) <= MaxEntries /\ issued \in 0..MaxRequests
    BY DEF RequestsOK, RegistryOK, ListOK
  <2>3. cycles \in Seq(Cycle) /\ Len(cycles) <= MaxCycles
    BY DEF RequestsOK, RegistryOK, CyclesOK
  <2>4. mode \in Mode /\ worker \in [pc : Place, read : Mode \cup {NoMode}]
    BY DEF RequestsOK, WorkerOK
  <2>5. last \in [id : 0..MaxCycles, st : {"none", "running", "succeeded", "failed"}]
    BY DEF RequestsOK, CountOK
  <2> QED BY <2>1, <2>2, <2>3, <2>4, <2>5 DEF RequestsOK, SideOK, TypeOK, Place
<1> QED BY <1>1, RequestsInvariant, PTL

LEMMA SameBoolean ==
    ASSUME NEW u \in BOOLEAN, NEW x \in BOOLEAN, u = TRUE <=> x
    PROVE  u = x
<1>1. CASE x
  <2>1. x = TRUE
    BY <1>1
  <2> QED BY <1>1, <2>1
<1>2. CASE ~x
  <2>1. x = FALSE /\ u # TRUE
    BY <1>2
  <2>2. u = FALSE
    BY <2>1
  <2> QED BY <2>1, <2>2
<1> QED BY <1>1, <1>2

(* observe_cycle, supersede_queued, fail_active and the time limits: what   *)
(* the registry says of a request is what happened to it.                   *)
THEOREM ReportTheorem == Spec => []ReportIsTrue
<1>1. RequestsOK => ReportIsTrue
  <2> SUFFICES ASSUME RequestsOK, NEW i \in DOMAIN entries
               PROVE  LET e == entries[i] IN
                      /\ e.cyc # 0 => e.cyc > e.born /\ cycles[e.cyc].mode = e.mode
                      /\ e.st = "running" =>
                            \/ cycles[e.cyc].st = "running"
                            \/ cycles[e.cyc].st = "aborted" /\ worker.pc \in {"stopping", "done"}
                      /\ e.why = "cycle" => e.cyc # 0 /\ cycles[e.cyc].st = e.st
                      /\ e.why \notin {"none", "cycle"} => e.unknown = (e.cyc # 0)
    BY DEF ReportIsTrue
  <2>1. DOMAIN entries = 1..Len(entries)
    BY ListDomain DEF RequestsOK, RegistryOK, ListOK
  <2>2. EntryOK(entries[i], cycles, worker.pc)
    BY <2>1 DEF RequestsOK, RegistryOK, ListOK
  <2>3. entries[i].unknown \in BOOLEAN
    BY <2>2, EntryFields DEF EntryOK
  <2>4. entries[i].why \notin {"none", "cycle"} => entries[i].unknown = (entries[i].cyc # 0)
    <3> DEFINE u == entries[i].unknown  x == entries[i].cyc # 0
    <3>1. entries[i].why \notin {"none", "cycle"} => (u = TRUE <=> x)
      BY <2>2 DEF EntryOK
    <3>2. u \in BOOLEAN
      BY <2>3
    <3>3. x \in BOOLEAN
      OBVIOUS
    <3> HIDE DEF u, x
    <3>4. (u = TRUE <=> x) => u = x
      BY <3>2, <3>3, SameBoolean
    <3>5. entries[i].why \notin {"none", "cycle"} => u = x
      BY <3>1, <3>4
    <3> QED BY <3>5 DEF u, x
  <2> QED BY <2>2, <2>4 DEF EntryOK
<1> QED BY <1>1, RequestsInvariant, PTL

(* observe_personal_worker and the readiness check of the handlers: nothing *)
(* is left waiting for a worker that is gone.                               *)
THEOREM OrphanTheorem == Spec => []NoOrphans
<1>1. RequestsOK => NoOrphans
  <2> SUFFICES ASSUME RequestsOK PROVE NoOrphans
    OBVIOUS
  <2>1. DOMAIN entries = 1..Len(entries)
    BY ListDomain DEF RequestsOK, RegistryOK, ListOK
  <2> QED BY <2>1 DEF RequestsOK, RegistryOK, AllEnded, NoOrphans
<1> QED BY <1>1, RequestsInvariant, PTL

(* _record_personal_cycle: the count is that of the cycles reported as      *)
(* ended, though the record of the last one is all it looks at.             *)
THEOREM CountTheorem == Spec => []CountIsExact
<1>1. RequestsOK => CountIsExact
  BY DEF RequestsOK, CountOK, CountIsExact, Reported
<1> QED BY <1>1, RequestsInvariant, PTL

(* The outcome of a request that has ended never changes while it is held.  *)
THEOREM OutcomeTheorem == Spec => OutcomeIsFinal
<1>1. RequestsOK /\ RequestsOK' /\ [Next]_vars =>
        [\A i \in DOMAIN entries, j \in DOMAIN entries' :
            entries[i].id = entries'[j].id /\ entries[i].st \notin Active
                => entries'[j] = entries[i]]_vars
  <2> SUFFICES ASSUME RequestsOK, [Next]_vars, NEW i \in DOMAIN entries, NEW j \in DOMAIN entries',
                      entries[i].id = entries'[j].id, entries[i].st \notin Active
               PROVE  entries'[j] = entries[i]
    OBVIOUS
  <2>1. DOMAIN entries = 1..Len(entries) /\ \A l \in 1..Len(entries) : entries[l] \in Entry
    BY ListDomain DEF RequestsOK, RegistryOK, ListOK
  <2>2. /\ entries[i].id <= issued /\ issued \in Nat
        /\ \A k, l \in DOMAIN entries : entries[k].id = entries[l].id => k = l
    BY <2>1, CycleRequestsAssumption DEF RequestsOK, RegistryOK, ListOK
  <2>3. entries[i].id \in Nat
    BY <2>1, EntryFields
  <2>4. Follows(entries, entries', issued)
    BY NextOK DEF Followed
  <2>5. entries'[j].id # issued + 1
    BY <2>2, <2>3
  <2>6. PICK l \in DOMAIN entries : /\ entries'[j].id = entries[l].id
                                    /\ entries[l].st \notin Active => entries'[j] = entries[l]
    BY <2>4, <2>5 DEF Follows
  <2>7. l = i
    BY <2>2, <2>6
  <2> QED BY <2>6, <2>7
<1> QED BY <1>1, RequestsInvariant, PTL DEF Spec, OutcomeIsFinal

(* _reserve_slot: without time limits a request that was accepted is held   *)
(* until it has ended, however full the registry is.                        *)
THEOREM HeldTheorem ==
    ASSUME "lapse" \notin Fault
    PROVE  Spec => ActiveIsHeld
<1>1. RequestsOK /\ [Next]_vars =>
        [\A i \in DOMAIN entries : entries[i].st \in Active =>
            \E j \in DOMAIN entries' : entries'[j].id = entries[i].id]_vars
  BY NextOK DEF Followed
<1> QED BY <1>1, RequestsInvariant, PTL DEF Spec, ActiveIsHeld
=============================================================================
