---------------------------- MODULE MemprofProofs ----------------------------
(* The profiler's table of tracked blocks is exact: the proof of             *)
(* TrackingExact, for any number of threads, samples and starts.             *)
(*                                                                           *)
(* The invariant relates the entries of the table to the blocks and to the   *)
(* calls made for them (Table, Blocks), the t_idx of each thread to the entry*)
(* that it has in hand and back (Threads, Owners), and says what the three   *)
(* positions stand for: pointers into the minor heap are from young on       *)
(* (Remembered), callbacks still to come are from callback on or in hand     *)
(* (NoneLost).  Most steps change one entry, that of the thread that runs:   *)
(* EntryUpdate says once what such a change must keep.  The others add       *)
(* entries (AddTracks), squeeze them (FlushKeeps), drop all (DiscardTracks)  *)
(* or are collections, which touch each entry where it is (CollectionTracks).*)
EXTENDS Memprof, FiniteSetTheorems, SequenceTheorems, WellFoundedInduction, NaturalsInduction, TLAPS

-----------------------------------------------------------------------------
(* The inductive invariant *)

CallbackSet == {"alloc", "promote", "dealloc"}
DataSet == [of : Nat, from : {"stack", "unit"} \union CallbackSet, at : {"young", "old", "unit"}]
EntrySet ==
    [id : Nat, block : {"placeholder", "young", "old", "unit"}, user_data : DataSet, alloc_young : BOOLEAN,
     promoted : BOOLEAN, deallocated : BOOLEAN, called : SUBSET CallbackSet, deleted : BOOLEAN,
     running : BOOLEAN, idx_ptr : Workers \union {0}]
PlaceSet == [at : {"none", "young", "old", "dead", "dropped"}, minor : BOOLEAN, promoted : BOOLEAN]
FrameSet ==
    [fn : {"none", "young", "postponed", "stop"},
     pc : {"run", "loop", "entry", "call", "callback", "raised", "sampled", "place"},
     cb : {"none"} \union CallbackSet, id : Nat]
TrackSet == [entries : Seq(EntrySet), young : Nat, callback : Nat, delete : Nat, idx : [Workers -> Nat]]

Types ==
    /\ Samples \in Nat /\ used \in Nat /\ used <= Samples
    /\ trackst \in TrackSet
    /\ cur \in Workers /\ suspended \in BOOLEAN /\ pending \in BOOLEAN /\ ctx \in [Workers -> BOOLEAN]
    /\ frame \in [Workers -> FrameSet]
    /\ place \in [1..Samples -> PlaceSet] /\ DOMAIN calls = 1..Samples

\* The positions are in the table or right after it.
Position(p, n) == 1 <= p /\ p <= n + 1
Positions(s) ==
    /\ Position(s.young, Len(s.entries)) /\ Position(s.callback, Len(s.entries))
    /\ Position(s.delete, Len(s.entries))

\* The last of the callbacks called.
LastOf(C) ==
    IF "dealloc" \in C THEN "dealloc" ELSE IF "promote" \in C THEN "promote"
    ELSE IF "alloc" \in C THEN "alloc" ELSE "stack"

\* What the callbacks made were told.
AllocCall(e) == <<IF e.alloc_young THEN "alloc_minor" ELSE "alloc_major", e.id, "stack">>
PromoteCall(e) == <<"promote", e.id, "alloc">>
DeallocCall(e) ==
    <<IF e.promoted \/ ~e.alloc_young THEN "dealloc_major" ELSE "dealloc_minor", e.id,
      IF e.promoted THEN "promote" ELSE "alloc">>
History(e, made) ==
    IF "dealloc" \in made
    THEN IF e.promoted THEN <<AllocCall(e), PromoteCall(e), DeallocCall(e)>> ELSE <<AllocCall(e), DeallocCall(e)>>
    ELSE IF "promote" \in made THEN <<AllocCall(e), PromoteCall(e)>>
    ELSE IF "alloc" \in made THEN <<AllocCall(e)>> ELSE <<>>

\* The entry of a block, against where the block really is.
PlaceOK(p) ==
    /\ p.at \in {"none", "young"} => p.minor /\ ~p.promoted
    /\ p.at = "old" => p.minor = p.promoted
    /\ p.promoted => p.minor
BlockOf(at) ==
    IF at = "none" THEN "placeholder" ELSE IF at = "dead" THEN "unit" ELSE at
Agrees(e, p) ==
    /\ PlaceOK(p) /\ p.at # "dropped"
    /\ e.alloc_young = p.minor /\ e.promoted = p.promoted /\ e.deallocated = (p.at = "dead")
    /\ e.block = BlockOf(p.at)

\* Callbacks are called in order, and for a reason.
CalledOK(e) ==
    /\ "promote" \in e.called => "alloc" \in e.called /\ e.promoted
    /\ "dealloc" \in e.called => "alloc" \in e.called /\ e.deallocated /\ (e.promoted => "promote" \in e.called)

\* The argument of the next callback is what the last one made returned; hand is the callback
\* that has been chosen and not yet been made.
DataOK(e, hand) ==
    ~e.running => e.user_data.of = e.id /\ e.user_data.from = LastOf(e.called \ {hand})
                    /\ e.user_data.at \in {"young", "old"}

Tracked(e, p, c, hand) ==
    /\ Agrees(e, p) /\ CalledOK(e) /\ DataOK(e, hand) /\ c = History(e, e.called \ {hand})
Deleted(e, p) ==
    /\ e.block = "unit" /\ e.user_data = Unit /\ ~e.running /\ e.idx_ptr = 0 /\ p.at = "dropped"

Hand(s, u, f, i) == IF f[u].pc = "call" /\ s.idx[u] = i THEN f[u].cb ELSE "none"

\* Pointers into the minor heap are from young on.
Remembered(e, i, young) == e.block = "young" \/ e.user_data.at = "young" => i >= young

EntryOK(e, p, c, hand) == IF e.deleted THEN Deleted(e, p) ELSE Tracked(e, p, c, hand)

Table(s, u, f, n, pl, ca) ==
    /\ \A i, j \in DOMAIN s.entries : s.entries[i].id = s.entries[j].id => i = j
    /\ \A i \in DOMAIN s.entries :
         /\ s.entries[i].id \in 1..n
         /\ EntryOK(s.entries[i], pl[s.entries[i].id], ca[s.entries[i].id], Hand(s, u, f, i))
         /\ Remembered(s.entries[i], i, s.young)

HasEntry(s, id) == \E i \in DOMAIN s.entries : s.entries[i].id = id /\ ~s.entries[i].deleted
Blocks(s, n, pl, ca) ==
    \A id \in DOMAIN pl :
      /\ id > n => pl[id] = Nowhere /\ ca[id] = <<>>
      /\ id <= n => IF pl[id].at = "dropped" THEN ca[id] = <<>> ELSE HasEntry(s, id)

\* What a thread is doing, and the entry it has in hand.
Idle(f) == f.fn = "none" \/ f.pc = "callback"
Shape(f) ==
    /\ f.fn = "none" <=> f.pc = "run"
    /\ f.pc \in {"sampled", "place"} => f.fn = "young"
    /\ f.pc = "loop" => f.fn # "young" /\ f.cb = "none"
Free(e) == ~e.deleted /\ ~e.running /\ e.idx_ptr = 0
Holds(w, f, e) ==
    /\ e.id = f.id
    /\ f.pc # "entry" => ~e.deleted
    /\ f.pc \in {"call", "callback"} => f.cb = LastOf(e.called) /\ f.cb \in CallbackSet
    /\ f.pc = "callback" => e.running /\ e.idx_ptr = w
    /\ f.pc = "place" => ~e.running /\ e.idx_ptr = w
    /\ f.pc \in {"sampled", "call"} => Free(e)
    /\ f.pc = "entry" /\ (f.fn = "young" \/ f.cb # "none") => Free(e)
    /\ f.fn = "young" => e.block = "placeholder"
ThreadOK(s, w, f, n, pl) ==
    /\ Shape(f)
    /\ f.pc \in {"run", "loop", "raised"} => s.idx[w] = 0
    /\ f.pc \in {"entry", "call"} => s.idx[w] # 0
    /\ f.pc = "callback" => f.id \in 1..n
    /\ f.pc = "callback" /\ s.idx[w] = 0 => pl[f.id].at = "dropped"
    /\ s.idx[w] # 0 => s.idx[w] \in DOMAIN s.entries /\ Holds(w, f, s.entries[s.idx[w]])
Threads(s, u, f, n, pl) ==
    \A w \in Workers : ThreadOK(s, w, f[w], n, pl) /\ (w # u => Idle(f[w]))

\* An entry that names a thread's t_idx is the one in it.
Owned(e, i, s, f) ==
    /\ e.idx_ptr # 0 => s.idx[e.idx_ptr] = i /\ f[e.idx_ptr].pc \in {"callback", "place"}
    /\ e.running => e.idx_ptr # 0 /\ f[e.idx_ptr].pc = "callback"
Owners(s, f) == \A i \in DOMAIN s.entries : Owned(s.entries[i], i, s, f)

\* The flag of the thread that runs, and those that the others have saved.
Suspension(u, f, su, cx) ==
    /\ su <=> f[u].fn # "none" /\ f[u].pc # "place"
    /\ \A w \in Workers : w # u => (cx[w] <=> f[w].fn # "none")

\* Callbacks still to come are of entries from callback on, or in hand.
Held(s, f, i) == \E w \in Workers : s.idx[w] = i /\ f[w].pc \in {"entry", "call", "callback"}
NoneLost(s, f) ==
    \A i \in DOMAIN s.entries :
      i < s.callback /\ ~s.entries[i].deleted => Due(s.entries[i]) = "none" \/ Held(s, f, i)

Alert(s, su, pe) == ~su /\ s.callback <= Len(s.entries) => pe

\* What relates the table, the frames of the threads, and the blocks: s, f, pl and ca, with thread u
\* running and n blocks sampled so far.
Tracking(s, u, f, n, pl, ca) ==
    /\ Positions(s) /\ Table(s, u, f, n, pl, ca) /\ Blocks(s, n, pl, ca) /\ Threads(s, u, f, n, pl)
    /\ Owners(s, f) /\ NoneLost(s, f)

IInv ==
    /\ Types /\ Tracking(trackst, cur, frame, used, place, calls)
    /\ Suspension(cur, frame, suspended, ctx) /\ Alert(trackst, suspended, pending)

-----------------------------------------------------------------------------
(* flush_deleted *)

\* A set of numbers that is not empty has a least one: induction over the naturals, as the provers
\* can use it.
LEMMA LeastNat ==
    ASSUME NEW T \in SUBSET Nat, T # {}
    PROVE  \E x \in T : \A y \in T : x <= y
<1> DEFINE R == OpToRel(<, Nat)
<1>1. IsWellFoundedOn(R, Nat)
  BY NatLessThanWellFounded
<1>2. PICK x \in T : \A y \in T : ~ (<<y, x>> \in R)
  <2> HIDE DEF R
  <2> QED BY <1>1, WFMin
<1>3. \A y \in T : ~(y < x)
  BY <1>2 DEF OpToRel
<1> QED BY <1>3

KeptBefore(s, p) == {i \in 1..p - 1 : Kept(s, i)}

\* There are finitely many entries before a position.
LEMMA KeptFinite ==
    ASSUME NEW s, NEW p \in Nat
    PROVE  IsFiniteSet(KeptBefore(s, p)) /\ Cardinality(KeptBefore(s, p)) \in Nat
<1>1. IsFiniteSet(1..p - 1)
  <2>1. 1 \in Int /\ p - 1 \in Int
    OBVIOUS
  <2> QED BY <2>1, FS_Interval
<1>2. KeptBefore(s, p) \subseteq 1..p - 1
  BY DEF KeptBefore
<1> QED BY <1>1, <1>2, FS_Subset, FS_CardinalityType

\* Where an entry moves to is a position.
LEMMA MovedIs ==
    ASSUME NEW s, NEW p \in Nat
    PROVE  Moved(s, p) = Cardinality(KeptBefore(s, p)) + 1 /\ Moved(s, p) \in Nat /\ Moved(s, p) >= 1
<1>1. Moved(s, p) = Cardinality(KeptBefore(s, p)) + 1
  BY DEF Moved, KeptBefore
<1> QED BY <1>1, KeptFinite

\* Going on by one position adds one when the entry there is kept.
LEMMA MovedNext ==
    ASSUME NEW s, NEW p \in Nat, p >= 1
    PROVE  Moved(s, p + 1) = IF Kept(s, p) THEN Moved(s, p) + 1 ELSE Moved(s, p)
<1>1. KeptBefore(s, p + 1) = IF Kept(s, p) THEN KeptBefore(s, p) \union {p} ELSE KeptBefore(s, p)
  <2>1. \A i : i \in 1..(p + 1) - 1 <=> i \in 1..p - 1 \/ i = p
    OBVIOUS
  <2> QED BY <2>1 DEF KeptBefore
<1>2. p \notin KeptBefore(s, p)
  BY DEF KeptBefore
<1>3. IsFiniteSet(KeptBefore(s, p)) /\ Cardinality(KeptBefore(s, p)) \in Nat
  BY KeptFinite
<1>4. Cardinality(KeptBefore(s, p) \union {p}) = Cardinality(KeptBefore(s, p)) + 1
  BY <1>2, <1>3, FS_AddElement
<1>5. p + 1 \in Nat
  OBVIOUS
<1> QED BY <1>1, <1>3, <1>4, <1>5, MovedIs

\* The first position stays.
LEMMA MovedStart ==
    ASSUME NEW s
    PROVE  Moved(s, 1) = 1
<1>1. KeptBefore(s, 1) = {}
  BY DEF KeptBefore
<1> QED BY <1>1, MovedIs, FS_EmptySet

\* The order of positions is kept.
LEMMA MovedMonotone ==
    ASSUME NEW s, NEW p \in Nat, NEW q \in Nat, p <= q
    PROVE  Moved(s, p) <= Moved(s, q) /\ (Kept(s, p) /\ p < q /\ p >= 1 => Moved(s, p) < Moved(s, q))
<1>1. KeptBefore(s, p) \subseteq KeptBefore(s, q)
  BY DEF KeptBefore
<1>2. IsFiniteSet(KeptBefore(s, q)) /\ Cardinality(KeptBefore(s, q)) \in Nat /\ Cardinality(KeptBefore(s, p)) \in Nat
  BY KeptFinite
<1>3. Cardinality(KeptBefore(s, p)) <= Cardinality(KeptBefore(s, q))
  BY <1>1, <1>2, FS_Subset
<1>4. ASSUME Kept(s, p), p < q, p >= 1 PROVE Cardinality(KeptBefore(s, p)) < Cardinality(KeptBefore(s, q))
  <2>1. p \in KeptBefore(s, q) /\ p \notin KeptBefore(s, p)
    BY <1>4 DEF KeptBefore
  <2>2. KeptBefore(s, p) # KeptBefore(s, q)
    BY <2>1
  <2> QED BY <2>2, <1>1, <1>2, FS_Subset
<1> QED BY <1>2, <1>3, <1>4, MovedIs

\* No two entries that are kept are moved to one place.
LEMMA MovedInjective ==
    ASSUME NEW s, NEW i \in Nat, NEW k \in Nat, i >= 1, k >= 1, Kept(s, i), Kept(s, k), Moved(s, i) = Moved(s, k)
    PROVE  i = k
<1>1. Moved(s, i) \in Nat /\ Moved(s, k) \in Nat
  BY MovedIs
<1>2. ASSUME k < i PROVE FALSE
  <2>1. Moved(s, k) < Moved(s, i)
    BY <1>2, MovedMonotone
  <2> QED BY <2>1, <1>1
<1>3. ASSUME i < k PROVE FALSE
  <2>1. Moved(s, i) < Moved(s, k)
    BY <1>3, MovedMonotone
  <2> QED BY <2>1, <1>1
<1> QED BY <1>2, <1>3

\* Positions before delete stay.
LEMMA MovedBefore ==
    ASSUME NEW s, s.delete \in Nat, NEW p \in Nat, p >= 1, p <= s.delete
    PROVE  Moved(s, p) = p
<1>1. KeptBefore(s, p) = 1..p - 1
  BY DEF KeptBefore, Kept
<1>2. Cardinality(1..p - 1) = p - 1
  <2>1. 1 \in Int /\ p - 1 \in Int
    OBVIOUS
  <2>2. Cardinality(1..p - 1) = IF 1 > p - 1 THEN 0 ELSE (p - 1) - 1 + 1
    BY ONLY <2>1, FS_Interval
  <2> QED BY <2>2
<1> QED BY <1>1, <1>2, MovedIs

\* Every position of the table that is left is where some entry was moved to.
LEMMA MovedOnto ==
    ASSUME NEW s, NEW n \in Nat, NEW j \in 1..Moved(s, n + 1) - 1
    PROVE  \E i \in 1..n : Kept(s, i) /\ Moved(s, i) = j
<1> DEFINE T == {p \in Nat : p >= 1 /\ Moved(s, p) > j}
<1>0. n + 1 \in Nat /\ j \in Nat /\ j >= 1 /\ Moved(s, n + 1) \in Nat
  BY MovedIs
<1>1. n + 1 \in T
  BY <1>0
<1>2. PICK p \in T : \A y \in T : p <= y
  BY <1>1, LeastNat
<1>3. p # 1
  BY <1>0, <1>2, MovedStart
<1>4. PICK i \in Nat : i >= 1 /\ p = i + 1 /\ i <= n
  <2>1. p - 1 \in Nat /\ p - 1 >= 1 /\ p = (p - 1) + 1 /\ p - 1 <= n
    BY <1>1, <1>2, <1>3
  <2> QED BY <2>1
<1>5. i \notin T
  BY <1>2, <1>4
<1>6. Moved(s, i) <= j /\ Moved(s, i) \in Nat
  BY <1>0, <1>4, <1>5, MovedIs
<1>7. Moved(s, i + 1) = IF Kept(s, i) THEN Moved(s, i) + 1 ELSE Moved(s, i)
  BY <1>4, MovedNext
<1>8. Moved(s, i + 1) > j
  BY <1>2, <1>4
<1>9. Kept(s, i) /\ Moved(s, i) = j
  BY <1>0, <1>6, <1>7, <1>8
<1> QED BY <1>4, <1>9

\* The parts of the table.
LEMMA TrackFacts ==
    ASSUME NEW s \in TrackSet
    PROVE  /\ s.entries \in Seq(EntrySet) /\ Len(s.entries) \in Nat /\ DOMAIN s.entries = 1..Len(s.entries)
           /\ s.young \in Nat /\ s.callback \in Nat /\ s.delete \in Nat /\ s.idx \in [Workers -> Nat]
           /\ \A i \in 1..Len(s.entries) : s.entries[i] \in EntrySet
  BY DEF TrackSet

\* The table after flush_deleted: the entries that are kept, in their order.
Flushes(s, t) ==
    /\ DOMAIN t.entries = 1..Moved(s, Len(s.entries) + 1) - 1
    /\ Len(t.entries) = Moved(s, Len(s.entries) + 1) - 1
    /\ \A j \in DOMAIN t.entries :
         \E i \in DOMAIN s.entries : Kept(s, i) /\ Moved(s, i) = j /\ t.entries[j] = s.entries[i]
    /\ \A i \in DOMAIN s.entries :
         Kept(s, i) => Moved(s, i) \in DOMAIN t.entries /\ t.entries[Moved(s, i)] = s.entries[i]
    /\ t.young = Moved(s, s.young) /\ t.callback = Moved(s, s.callback) /\ t.delete = Len(t.entries) + 1

\* The entries after flush_deleted are those that are kept, each where Moved says.
LEMMA SqueezedIs ==
    ASSUME NEW s \in TrackSet, NEW q, q = Squeezed(s)
    PROVE  /\ q \in Seq(EntrySet) /\ DOMAIN q = 1..Moved(s, Len(s.entries) + 1) - 1
           /\ Len(q) = Moved(s, Len(s.entries) + 1) - 1
           /\ \A j \in DOMAIN q : \E i \in DOMAIN s.entries : Kept(s, i) /\ Moved(s, i) = j /\ q[j] = s.entries[i]
           /\ \A i \in DOMAIN s.entries :
                Kept(s, i) => Moved(s, i) \in DOMAIN q /\ q[Moved(s, i)] = s.entries[i]
<1>1. PICK n \in Nat : n = Len(s.entries) /\ DOMAIN s.entries = 1..n /\ \A i \in 1..n : s.entries[i] \in EntrySet
  BY TrackFacts
<1>2. PICK m \in Nat : m = Moved(s, n + 1) - 1
  <2>1. n + 1 \in Nat
    OBVIOUS
  <2> QED BY <2>1, MovedIs
<1>3. q = [j \in 1..m |-> s.entries[CHOOSE i \in 1..n : Kept(s, i) /\ Moved(s, i) = j]]
  BY <1>1, <1>2 DEF Squeezed
<1>4. ASSUME NEW j \in 1..m PROVE \E i \in 1..n : Kept(s, i) /\ Moved(s, i) = j /\ q[j] = s.entries[i]
  <2>1. \E i \in 1..n : Kept(s, i) /\ Moved(s, i) = j
    BY <1>2, MovedOnto
  <2>2. PICK i : i = CHOOSE k \in 1..n : Kept(s, k) /\ Moved(s, k) = j
    OBVIOUS
  <2>3. i \in 1..n /\ Kept(s, i) /\ Moved(s, i) = j
    BY <2>1, <2>2
  <2>4. q[j] = s.entries[i]
    BY <1>3, <2>2
  <2> QED BY <2>3, <2>4
<1>5. q \in Seq(EntrySet) /\ DOMAIN q = 1..m /\ Len(q) = m
  <2>1. \A j \in 1..m : q[j] \in EntrySet
    BY <1>1, <1>4
  <2>2. q \in [1..m -> EntrySet]
    BY <1>3, <2>1
  <2> QED BY <2>2
<1>6. ASSUME NEW i \in 1..n, Kept(s, i) PROVE Moved(s, i) \in 1..m /\ q[Moved(s, i)] = s.entries[i]
  <2>1. i \in Nat /\ n + 1 \in Nat /\ i >= 1 /\ i < n + 1
    OBVIOUS
  <2>2. Moved(s, i) < Moved(s, n + 1) /\ Moved(s, i) \in Nat /\ Moved(s, i) >= 1
    BY <1>6, <2>1, MovedMonotone, MovedIs
  <2>3. Moved(s, i) \in 1..m
    <3>1. Moved(s, n + 1) \in Nat
      BY <2>1, MovedIs
    <3> QED BY <3>1, <1>2, <2>2
  <2>4. PICK k \in 1..n : Kept(s, k) /\ Moved(s, k) = Moved(s, i) /\ q[Moved(s, i)] = s.entries[k]
    BY <2>3, <1>4
  <2>5. k = i
    BY <1>6, <2>1, <2>4, MovedInjective
  <2> QED BY <2>3, <2>4, <2>5
<1>7. PICK h : h = s.entries /\ DOMAIN h = 1..n /\ Len(h) = n
  BY ONLY <1>1
<1>8. \A j \in DOMAIN q : \E i \in DOMAIN h : Kept(s, i) /\ Moved(s, i) = j /\ q[j] = h[i]
  BY ONLY <1>4, <1>5, <1>7
<1>9. \A i \in DOMAIN h : Kept(s, i) => Moved(s, i) \in DOMAIN q /\ q[Moved(s, i)] = h[i]
  BY ONLY <1>5, <1>6, <1>7
<1>10. DOMAIN q = 1..Moved(s, Len(h) + 1) - 1 /\ Len(q) = Moved(s, Len(h) + 1) - 1
  BY ONLY <1>2, <1>5, <1>7
<1> QED BY ONLY <1>5, <1>7, <1>8, <1>9, <1>10

\* flush_deleted squeezes the entries, and moves the positions along.
LEMMA FlushedIs ==
    ASSUME NEW s \in TrackSet, NEW t, t = flush_deleted(s)
    PROVE  /\ Flushes(s, t) /\ t.entries \in Seq(EntrySet)
           /\ t.idx = [w \in Workers |-> IF Pointing(s, w) = {} THEN s.idx[w]
                                         ELSE Moved(s, CHOOSE i \in Pointing(s, w) : TRUE)]
<1>1. PICK q : q = Squeezed(s)
  OBVIOUS
<1>2. t = [s EXCEPT !.entries = q, !.delete = Len(q) + 1, !.young = Moved(s, @), !.callback = Moved(s, @),
                  !.idx = [w \in Workers |-> IF Pointing(s, w) = {} THEN @[w]
                                             ELSE Moved(s, CHOOSE i \in Pointing(s, w) : TRUE)]]
  BY <1>1 DEF flush_deleted
<1>3. /\ t.entries = q /\ t.delete = Len(q) + 1 /\ t.young = Moved(s, s.young) /\ t.callback = Moved(s, s.callback)
      /\ t.idx = [w \in Workers |-> IF Pointing(s, w) = {} THEN s.idx[w]
                                     ELSE Moved(s, CHOOSE i \in Pointing(s, w) : TRUE)]
  BY <1>2 DEF TrackSet
<1>4. Flushes(s, t) /\ q \in Seq(EntrySet)
  BY <1>1, <1>3, SqueezedIs DEF Flushes
<1> QED BY <1>3, <1>4

\* What is known of an entry that is in the t_idx of a thread that does not run.
LEMMA OwnedByWaiting ==
    ASSUME NEW s \in TrackSet, NEW u \in Workers, NEW f, NEW n, NEW pl, NEW ca, Tracking(s, u, f, n, pl, ca),
           NEW w \in Workers, s.idx[w] # 0, w # u \/ f[w].pc = "callback"
    PROVE  /\ f[w].pc = "callback" /\ s.idx[w] \in 1..Len(s.entries) /\ f[w].fn # "none"
           /\ Holds(w, f[w], s.entries[s.idx[w]])
           /\ s.entries[s.idx[w]].idx_ptr = w /\ ~s.entries[s.idx[w]].deleted /\ s.entries[s.idx[w]].running
<1>1. ThreadOK(s, w, f[w], n, pl) /\ (w # u => Idle(f[w]))
  BY DEF Tracking, Threads
<1>2. f[w].pc = "callback" /\ f[w].fn # "none"
  BY <1>1 DEF ThreadOK, Shape, Idle
<1>3. s.idx[w] \in DOMAIN s.entries /\ Holds(w, f[w], s.entries[s.idx[w]])
  BY <1>1 DEF ThreadOK
<1> QED BY <1>2, <1>3, TrackFacts DEF Holds

\* The t_idx of the threads follow their entries.
IdxMoved(s, t) == \A w \in Workers : t.idx[w] = IF s.idx[w] = 0 THEN 0 ELSE Moved(s, s.idx[w])

\* The t_idx of each thread follows its entry: each thread's own entry is the one that points back
\* to it.
LEMMA FlushMovesIdx ==
    ASSUME NEW s \in TrackSet, NEW u \in Workers, NEW f, NEW n, NEW pl, NEW ca, Tracking(s, u, f, n, pl, ca),
           s.idx[u] = 0, 0 \notin Workers, NEW t, t = flush_deleted(s)
    PROVE  IdxMoved(s, t)
<1> SUFFICES ASSUME NEW w \in Workers PROVE t.idx[w] = IF s.idx[w] = 0 THEN 0 ELSE Moved(s, s.idx[w])
  BY DEF IdxMoved
<1>1. t.idx[w] = IF Pointing(s, w) = {} THEN s.idx[w] ELSE Moved(s, CHOOSE i \in Pointing(s, w) : TRUE)
  <2>1. t.idx = [x \in Workers |-> IF Pointing(s, x) = {} THEN s.idx[x]
                                  ELSE Moved(s, CHOOSE i \in Pointing(s, x) : TRUE)]
    BY FlushedIs
  <2> QED BY ONLY <2>1, w \in Workers
<1>2. PICK m \in Nat : m = Len(s.entries) /\ DOMAIN s.entries = 1..m
  BY TrackFacts
<1>3. s.delete \in Nat /\ s.delete >= 1 /\ s.idx[w] \in Nat
  BY TrackFacts DEF Tracking, Positions, Position
<1>4. ASSUME NEW i \in Pointing(s, w) PROVE s.idx[w] = i /\ i >= s.delete /\ i \in 1..m
  <2>1. i \in s.delete..m /\ s.entries[i].idx_ptr = w
    BY <1>2, <1>4 DEF Pointing
  <2>2. i \in 1..m /\ i >= s.delete
    BY <2>1, <1>3
  <2>3. Owned(s.entries[i], i, s, f)
    BY <2>2, <1>2 DEF Tracking, Owners
  <2> QED BY <2>1, <2>2, <2>3 DEF Owned
<1>5. CASE s.idx[w] = 0
  <2>1. Pointing(s, w) = {}
    BY <1>4, <1>5
  <2> QED BY <2>1, <1>1, <1>5
<1>6. CASE s.idx[w] # 0
  <2>1. s.idx[w] \in 1..m /\ s.entries[s.idx[w]].idx_ptr = w /\ ~s.entries[s.idx[w]].deleted
    BY <1>2, <1>6, OwnedByWaiting
  <2>2. CASE s.idx[w] < s.delete
    <3>1. Pointing(s, w) = {}
      BY <1>3, <1>4, <2>2
    <3>2. Moved(s, s.idx[w]) = s.idx[w]
      BY <1>3, <2>1, <2>2, MovedBefore
    <3> QED BY <3>1, <3>2, <1>1, <1>6
  <2>3. CASE ~(s.idx[w] < s.delete)
    <3>1. s.idx[w] \in Pointing(s, w)
      BY <1>2, <1>3, <2>1, <2>3 DEF Pointing, Kept
    <3>2. (CHOOSE i \in Pointing(s, w) : TRUE) = s.idx[w]
      BY <3>1, <1>4
    <3> QED BY <3>1, <3>2, <1>1, <1>6
  <2> QED BY <2>2, <2>3
<1> QED BY <1>5, <1>6

\* flush_deleted keeps everything, when the thread that calls it has no entry in hand.
LEMMA FlushKeeps ==
    ASSUME NEW s \in TrackSet, NEW u \in Workers, NEW f, NEW n, NEW pl, NEW ca, Tracking(s, u, f, n, pl, ca),
           s.idx[u] = 0, 0 \notin Workers, NEW t, t = flush_deleted(s)
    PROVE  /\ t \in TrackSet /\ Tracking(t, u, f, n, pl, ca) /\ t.idx[u] = 0
           /\ t.callback <= Len(t.entries) => s.callback <= Len(s.entries)
<1>1. Flushes(s, t) /\ t.entries \in Seq(EntrySet) /\ IdxMoved(s, t)
  BY FlushedIs, FlushMovesIdx
<1>2. PICK m \in Nat : m = Len(s.entries) /\ DOMAIN s.entries = 1..m
  BY TrackFacts
<1>3. PICK k \in Nat : k = Moved(s, m + 1) - 1 /\ k = Len(t.entries) /\ DOMAIN t.entries = 1..k
  <2>1. m + 1 \in Nat
    OBVIOUS
  <2> QED BY <2>1, <1>1, <1>2, MovedIs DEF Flushes
<1>4. /\ s.young \in Nat /\ s.callback \in Nat /\ s.delete \in Nat /\ s.young >= 1 /\ s.callback >= 1
      /\ s.young <= m + 1 /\ s.callback <= m + 1 /\ s.idx \in [Workers -> Nat]
  BY <1>2, TrackFacts DEF Tracking, Positions, Position
<1>5. /\ t.young = Moved(s, s.young) /\ t.callback = Moved(s, s.callback) /\ t.delete = k + 1
  BY <1>1, <1>3 DEF Flushes
<1>6. t.young \in Nat /\ t.callback \in Nat /\ t.young >= 1 /\ t.callback >= 1 /\ Moved(s, m + 1) = k + 1
  <2>1. m + 1 \in Nat /\ Moved(s, m + 1) \in Nat
    BY MovedIs
  <2> QED BY <2>1, <1>3, <1>4, <1>5, MovedIs
<1>7. t.young <= k + 1 /\ t.callback <= k + 1
  <2>1. m + 1 \in Nat
    OBVIOUS
  <2> QED BY <2>1, <1>4, <1>5, <1>6, MovedMonotone
<1>8. ASSUME t.callback <= Len(t.entries) PROVE s.callback <= Len(s.entries)
  <2>1. s.callback # m + 1
    BY <1>3, <1>5, <1>6, <1>8
  <2> QED BY <2>1, <1>2, <1>4
<1>9. t \in TrackSet /\ t.idx[u] = 0
  <2>1. \A w \in Workers : t.idx[w] \in Nat
    BY <1>1, <1>4, MovedIs DEF IdxMoved
  <2>2. t.idx \in [Workers -> Nat]
    BY <2>1, FlushedIs
  <2>3. t = [entries |-> t.entries, young |-> t.young, callback |-> t.callback, delete |-> t.delete, idx |-> t.idx]
    BY DEF flush_deleted, TrackSet
  <2>4. t.delete \in Nat
    BY <1>5
  <2>5. t.idx[u] = 0
    BY <1>1 DEF IdxMoved
  <2> QED BY <2>2, <2>3, <2>4, <2>5, <1>1, <1>6 DEF TrackSet
<1>10. Positions(t)
  BY <1>3, <1>5, <1>6, <1>7 DEF Positions, Position
<1>11. ASSUME NEW j \in 1..k PROVE \E i \in 1..m : Kept(s, i) /\ Moved(s, i) = j /\ t.entries[j] = s.entries[i]
  BY <1>1, <1>2, <1>3 DEF Flushes
<1>12. ASSUME NEW i \in 1..m, Kept(s, i) PROVE Moved(s, i) \in 1..k /\ t.entries[Moved(s, i)] = s.entries[i]
  BY <1>1, <1>2, <1>3, <1>12 DEF Flushes
<1>13. \A i \in 1..m : Hand(s, u, f, i) = "none" /\ \A j \in 1..k : Hand(t, u, f, j) = "none"
  BY <1>9 DEF Hand
<1>14. ASSUME NEW w \in Workers, s.idx[w] # 0
       PROVE  /\ s.idx[w] \in 1..m /\ Kept(s, s.idx[w]) /\ t.idx[w] = Moved(s, s.idx[w]) /\ t.idx[w] # 0
              /\ t.idx[w] \in 1..k /\ t.entries[t.idx[w]] = s.entries[s.idx[w]]
  <2>1. s.idx[w] \in 1..m /\ ~s.entries[s.idx[w]].deleted
    BY <1>2, <1>14, OwnedByWaiting
  <2>2. Kept(s, s.idx[w])
    BY <2>1 DEF Kept
  <2>3. t.idx[w] = Moved(s, s.idx[w])
    BY <1>1, <1>14 DEF IdxMoved
  <2> QED BY <2>1, <2>2, <2>3, <1>12
<1>15. Table(t, u, f, n, pl, ca)
  <2>1. ASSUME NEW i \in 1..k, NEW j \in 1..k, t.entries[i].id = t.entries[j].id PROVE i = j
    <3>1. PICK a \in 1..m : Moved(s, a) = i /\ t.entries[i] = s.entries[a]
      BY <1>11
    <3>2. PICK b \in 1..m : Moved(s, b) = j /\ t.entries[j] = s.entries[b]
      BY <1>11
    <3>3. a = b
      BY <3>1, <3>2, <2>1, <1>2 DEF Tracking, Table
    <3> QED BY <3>1, <3>2, <3>3
  <2>2. ASSUME NEW j \in 1..k
        PROVE  /\ t.entries[j].id \in 1..n
               /\ EntryOK(t.entries[j], pl[t.entries[j].id], ca[t.entries[j].id], Hand(t, u, f, j))
               /\ Remembered(t.entries[j], j, t.young)
    <3>1. PICK i \in 1..m : Kept(s, i) /\ Moved(s, i) = j /\ t.entries[j] = s.entries[i]
      BY <1>11
    <3>2. /\ s.entries[i].id \in 1..n /\ Remembered(s.entries[i], i, s.young)
          /\ EntryOK(s.entries[i], pl[s.entries[i].id], ca[s.entries[i].id], Hand(s, u, f, i))
      BY <1>2 DEF Tracking, Table
    <3>3. i >= s.young => j >= t.young
      <4>1. ASSUME i >= s.young PROVE Moved(s, s.young) <= Moved(s, i)
        BY <4>1, <1>4, MovedMonotone
      <4> QED BY <4>1, <3>1, <1>4, <1>5, <1>6
    <3>4. Hand(t, u, f, j) = Hand(s, u, f, i)
      BY <1>13
    <3> QED BY <3>1, <3>2, <3>3, <3>4 DEF Remembered
  <2> QED BY <2>1, <2>2, <1>3 DEF Table
<1>16. Blocks(t, n, pl, ca)
  <2>1. ASSUME NEW id, HasEntry(s, id) PROVE HasEntry(t, id)
    <3>1. PICK i \in 1..m : s.entries[i].id = id /\ ~s.entries[i].deleted
      BY <2>1, <1>2 DEF HasEntry
    <3>2. Moved(s, i) \in 1..k /\ t.entries[Moved(s, i)] = s.entries[i]
      BY <3>1, <1>12 DEF Kept
    <3> QED BY <3>1, <3>2, <1>3 DEF HasEntry
  <2> QED BY <2>1 DEF Tracking, Blocks
<1>17. Threads(t, u, f, n, pl)
  <2> SUFFICES ASSUME NEW w \in Workers PROVE ThreadOK(t, w, f[w], n, pl) /\ (w # u => Idle(f[w]))
    BY DEF Threads
  <2>1. ThreadOK(s, w, f[w], n, pl) /\ (w # u => Idle(f[w]))
    BY DEF Tracking, Threads
  <2>2. CASE s.idx[w] = 0
    <3>1. t.idx[w] = 0
      BY <2>2, <1>1 DEF IdxMoved
    <3> QED BY <3>1, <2>1, <2>2 DEF ThreadOK
  <2>3. CASE s.idx[w] # 0
    BY <2>1, <2>3, <1>3, <1>14 DEF ThreadOK
  <2> QED BY <2>2, <2>3
<1>18. Owners(t, f)
  <2> SUFFICES ASSUME NEW j \in 1..k PROVE Owned(t.entries[j], j, t, f)
    BY <1>3 DEF Owners
  <2>1. PICK i \in 1..m : Moved(s, i) = j /\ t.entries[j] = s.entries[i]
    BY <1>11
  <2>2. Owned(s.entries[i], i, s, f)
    BY <1>2 DEF Tracking, Owners
  <2>3. ASSUME s.entries[i].idx_ptr # 0 PROVE t.idx[s.entries[i].idx_ptr] = j
    <3>1. PICK w \in Workers : w = s.entries[i].idx_ptr
      BY <2>3, <1>2, TrackFacts DEF EntrySet
    <3>2. s.idx[w] = i
      BY <3>1, <2>2, <2>3 DEF Owned
    <3>3. t.idx[w] = j
      BY <3>2, <1>14, <2>1
    <3> QED BY <3>1, <3>3
  <2> QED BY <2>1, <2>2, <2>3 DEF Owned
<1>19. NoneLost(t, f)
  <2> SUFFICES ASSUME NEW j \in 1..k, j < t.callback, ~t.entries[j].deleted
               PROVE  Due(t.entries[j]) = "none" \/ Held(t, f, j)
    BY <1>3 DEF NoneLost
  <2>1. PICK i \in 1..m : Moved(s, i) = j /\ t.entries[j] = s.entries[i]
    BY <1>11
  <2>2. i < s.callback
    <3>1. ASSUME s.callback <= i PROVE Moved(s, s.callback) <= Moved(s, i)
      BY <3>1, <1>4, MovedMonotone
    <3> QED BY <3>1, <2>1, <1>4, <1>5, <1>6
  <2>3. Due(s.entries[i]) = "none" \/ Held(s, f, i)
    BY <2>1, <2>2, <1>2 DEF Tracking, NoneLost
  <2>4. ASSUME Held(s, f, i) PROVE Held(t, f, j)
    <3>1. PICK w \in Workers : s.idx[w] = i /\ f[w].pc \in {"entry", "call", "callback"}
      BY <2>4 DEF Held
    <3>2. t.idx[w] = j
      BY <3>1, <1>14, <2>1
    <3> QED BY <3>1, <3>2 DEF Held
  <2> QED BY <2>1, <2>3, <2>4
<1> QED BY <1>8, <1>9, <1>10, <1>15, <1>16, <1>17, <1>18, <1>19 DEF Tracking

-----------------------------------------------------------------------------
(* Steps of one thread *)

\* Only the frame of thread u changes.
OnlyFrame(f, g, u) == \A w \in Workers : w # u => g[w] = f[w]

\* Nothing changes but what is recorded of blocks that were discarded before.
SamePlaces(pl, ca, ql, da) ==
    /\ DOMAIN ql = DOMAIN pl
    /\ \A id \in DOMAIN pl :
         (ql[id] = pl[id] /\ da[id] = ca[id]) \/ (pl[id].at = "dropped" /\ ql[id].at = "dropped" /\ da[id] = <<>>)

\* A step of a thread with no entry in hand.
LEMMA FrameFree ==
    ASSUME NEW s \in TrackSet, NEW u \in Workers, NEW f, NEW g, NEW n \in Nat, NEW pl, NEW ca, NEW ql, NEW da,
           Tracking(s, u, f, n, pl, ca), s.idx[u] = 0, OnlyFrame(f, g, u), Shape(g[u]),
           g[u].pc \notin {"entry", "call", "callback"}, SamePlaces(pl, ca, ql, da), 1..n \subseteq DOMAIN pl
    PROVE  Tracking(s, u, g, n, ql, da)
<1>1. PICK m \in Nat : m = Len(s.entries) /\ DOMAIN s.entries = 1..m
  BY TrackFacts
<1>2. \A i \in 1..m : Hand(s, u, f, i) = "none" /\ Hand(s, u, g, i) = "none"
  BY DEF Hand
<1>3. Table(s, u, g, n, ql, da)
  <2>1. ASSUME NEW i \in 1..m
        PROVE  /\ s.entries[i].id \in 1..n /\ Remembered(s.entries[i], i, s.young)
               /\ EntryOK(s.entries[i], ql[s.entries[i].id], da[s.entries[i].id], Hand(s, u, g, i))
    <3>1. PICK id \in 1..n : id = s.entries[i].id
      BY <1>1 DEF Tracking, Table
    <3>2. EntryOK(s.entries[i], pl[id], ca[id], "none") /\ Remembered(s.entries[i], i, s.young)
      BY <3>1, <1>1, <1>2 DEF Tracking, Table
    <3>3. (ql[id] = pl[id] /\ da[id] = ca[id]) \/ (pl[id].at = "dropped" /\ ql[id].at = "dropped")
      BY DEF SamePlaces
    <3>4. EntryOK(s.entries[i], ql[id], da[id], "none")
      BY <3>2, <3>3 DEF EntryOK, Tracked, Agrees, Deleted
    <3> QED BY <3>1, <3>2, <3>4, <1>2
  <2>2. \A i, j \in 1..m : s.entries[i].id = s.entries[j].id => i = j
    BY <1>1 DEF Tracking, Table
  <2> QED BY <2>1, <2>2, <1>1 DEF Table
<1>4. Blocks(s, n, ql, da)
  <2> SUFFICES ASSUME NEW id \in DOMAIN ql
               PROVE  /\ id > n => ql[id] = Nowhere /\ da[id] = <<>>
                      /\ id <= n => IF ql[id].at = "dropped" THEN da[id] = <<>> ELSE HasEntry(s, id)
    BY DEF Blocks
  <2>1. id \in DOMAIN pl
    BY DEF SamePlaces
  <2>2. /\ id > n => pl[id] = Nowhere /\ ca[id] = <<>>
        /\ id <= n => IF pl[id].at = "dropped" THEN ca[id] = <<>> ELSE HasEntry(s, id)
    BY <2>1 DEF Tracking, Blocks
  <2>3. (ql[id] = pl[id] /\ da[id] = ca[id]) \/ (pl[id].at = "dropped" /\ ql[id].at = "dropped" /\ da[id] = <<>>)
    BY <2>1 DEF SamePlaces
  <2>4. id > n => pl[id].at # "dropped"
    BY <2>2 DEF Nowhere
  <2> QED BY <2>2, <2>3, <2>4
<1>5. Threads(s, u, g, n, ql)
  <2> SUFFICES ASSUME NEW w \in Workers PROVE ThreadOK(s, w, g[w], n, ql) /\ (w # u => Idle(g[w]))
    BY DEF Threads
  <2>1. ThreadOK(s, w, f[w], n, pl) /\ (w # u => Idle(f[w]))
    BY DEF Tracking, Threads
  <2>2. CASE w = u
    BY <2>2 DEF ThreadOK
  <2>3. CASE w # u
    <3>1. g[w] = f[w]
      BY <2>3 DEF OnlyFrame
    <3>2. ASSUME f[w].pc = "callback", s.idx[w] = 0 PROVE ql[f[w].id].at = "dropped"
      <4>1. PICK id \in 1..n : id = f[w].id /\ pl[id].at = "dropped"
        BY <2>1, <3>2 DEF ThreadOK
      <4> QED BY <4>1 DEF SamePlaces
    <3> QED BY <3>1, <3>2, <2>1, <2>3 DEF ThreadOK
  <2> QED BY <2>2, <2>3
<1>6. Owners(s, g)
  <2> SUFFICES ASSUME NEW i \in 1..m PROVE Owned(s.entries[i], i, s, g)
    BY <1>1 DEF Owners
  <2>1. Owned(s.entries[i], i, s, f)
    BY <1>1 DEF Tracking, Owners
  <2>2. ASSUME s.entries[i].idx_ptr # 0 PROVE g[s.entries[i].idx_ptr] = f[s.entries[i].idx_ptr]
    <3>1. PICK w \in Workers : w = s.entries[i].idx_ptr
      BY <2>2, <1>1, TrackFacts DEF EntrySet
    <3>2. s.idx[w] = i
      BY <3>1, <2>1, <2>2 DEF Owned
    <3> QED BY <3>1, <3>2 DEF OnlyFrame
  <2> QED BY <2>1, <2>2 DEF Owned
<1>7. NoneLost(s, g)
  <2>1. ASSUME NEW i \in 1..m, Held(s, f, i) PROVE Held(s, g, i)
    <3>1. PICK w \in Workers : s.idx[w] = i /\ f[w].pc \in {"entry", "call", "callback"}
      BY <2>1 DEF Held
    <3>2. g[w] = f[w]
      BY <3>1 DEF OnlyFrame
    <3> QED BY <3>1, <3>2 DEF Held
  <2> QED BY <2>1, <1>1 DEF Tracking, NoneLost
<1> QED BY <1>3, <1>4, <1>5, <1>6, <1>7 DEF Tracking

\* The table with only entry i, and what thread u has in hand, changed.
OnlyEntry(s, t, u, i) ==
    /\ DOMAIN t.entries = DOMAIN s.entries /\ Len(t.entries) = Len(s.entries)
    /\ \A k \in DOMAIN s.entries : k # i => t.entries[k] = s.entries[k]
    /\ t.entries[i].id = s.entries[i].id
    /\ \A w \in Workers : w # u => t.idx[w] = s.idx[w]
    /\ t.idx[u] \in {0, i}
    /\ t.young <= s.young
    /\ \A k \in DOMAIN s.entries : k # i /\ k < t.callback => k < s.callback

OnlyPlace(pl, ca, ql, da, x) ==
    /\ DOMAIN ql = DOMAIN pl
    /\ \A id \in DOMAIN pl : id # x => ql[id] = pl[id] /\ da[id] = ca[id]

\* What has to be shown of entry i, e before and d after the step.
EntryStep(s, t, u, g, n, ql, da, i) ==
    /\ EntryOK(t.entries[i], ql[t.entries[i].id], da[t.entries[i].id], Hand(t, u, g, i))
    /\ Remembered(t.entries[i], i, t.young)
    /\ Owned(t.entries[i], i, t, g)
    /\ i < t.callback /\ ~t.entries[i].deleted => Due(t.entries[i]) = "none" \/ Held(t, g, i)
    /\ ql[t.entries[i].id].at = "dropped" => da[t.entries[i].id] = <<>>
    /\ ql[t.entries[i].id].at # "dropped" => ~t.entries[i].deleted

\* A step of a thread that has entry i in hand, or takes it: nobody else has, unless the step leaves the
\* entries alone.
LEMMA OneEntry ==
    ASSUME NEW s \in TrackSet, NEW t \in TrackSet, NEW u \in Workers, NEW f, NEW g, NEW n \in Nat,
           NEW pl, NEW ca, NEW ql, NEW da, Tracking(s, u, f, n, pl, ca), NEW i \in DOMAIN s.entries, s.idx[u] \in {0, i},
           OnlyEntry(s, t, u, i), OnlyFrame(f, g, u), 1..n \subseteq DOMAIN pl, Positions(t),
           t.entries = s.entries \/ s.entries[i].idx_ptr \in {0, u},
           OnlyPlace(pl, ca, ql, da, s.entries[i].id),
           pl[s.entries[i].id].at = "dropped" => ql[s.entries[i].id].at = "dropped",
           EntryStep(s, t, u, g, n, ql, da, i), ThreadOK(t, u, g[u], n, ql)
    PROVE  Tracking(t, u, g, n, ql, da)
<1>1. PICK m \in Nat : m = Len(s.entries) /\ DOMAIN s.entries = 1..m /\ DOMAIN t.entries = 1..m
  BY TrackFacts DEF OnlyEntry
<1>2. /\ s.young \in Nat /\ t.young \in Nat /\ t.young <= s.young /\ t.entries[i].id = s.entries[i].id
      /\ \A k \in 1..m : k # i => t.entries[k] = s.entries[k] /\ (k < t.callback => k < s.callback)
      /\ t.idx[u] \in {0, i} /\ \A w \in Workers : w # u => t.idx[w] = s.idx[w] /\ g[w] = f[w]
  BY <1>1, TrackFacts DEF OnlyEntry, OnlyFrame
<1>3. \A k \in 1..m : t.entries[k].id = s.entries[k].id
  BY <1>1, <1>2
<1>4. \A k \in 1..m : k # i => Hand(s, u, f, k) = "none" /\ Hand(t, u, g, k) = "none"
  BY <1>1, <1>2 DEF Hand
<1>5. PICK x \in 1..n : x = s.entries[i].id /\ x \in DOMAIN pl
  BY <1>1 DEF Tracking, Table
<1>6. \A j, k \in 1..m : s.entries[j].id = s.entries[k].id => j = k
  BY <1>1 DEF Tracking, Table
<1>7. Table(t, u, g, n, ql, da)
  <2>1. ASSUME NEW k \in 1..m
        PROVE  /\ t.entries[k].id \in 1..n /\ Remembered(t.entries[k], k, t.young)
               /\ EntryOK(t.entries[k], ql[t.entries[k].id], da[t.entries[k].id], Hand(t, u, g, k))
    <3>1. CASE k = i
      BY <3>1, <1>2, <1>5 DEF EntryStep
    <3>2. CASE k # i
      <4>1. PICK y \in 1..n : y = s.entries[k].id
        BY <1>1 DEF Tracking, Table
      <4>2. EntryOK(s.entries[k], pl[y], ca[y], "none") /\ Remembered(s.entries[k], k, s.young)
        BY <4>1, <3>2, <1>1, <1>4 DEF Tracking, Table
      <4>3. y # x
        BY <4>1, <3>2, <1>1, <1>5, <1>6
      <4>4. ql[y] = pl[y] /\ da[y] = ca[y]
        BY <4>3, <1>5 DEF OnlyPlace
      <4>5. Remembered(s.entries[k], k, t.young)
        BY <4>2, <1>2 DEF Remembered
      <4> QED BY <4>1, <4>2, <4>4, <4>5, <3>2, <1>2, <1>4
    <3> QED BY <3>1, <3>2
  <2>2. \A j, k \in 1..m : t.entries[j].id = t.entries[k].id => j = k
    BY <1>3, <1>6
  <2> QED BY <2>1, <2>2, <1>1 DEF Table
<1>8. Blocks(t, n, ql, da)
  <2> SUFFICES ASSUME NEW id \in DOMAIN ql
               PROVE  /\ id > n => ql[id] = Nowhere /\ da[id] = <<>>
                      /\ id <= n => IF ql[id].at = "dropped" THEN da[id] = <<>> ELSE HasEntry(t, id)
    BY DEF Blocks
  <2>1. id \in DOMAIN pl
    BY DEF OnlyPlace
  <2>2. /\ id > n => pl[id] = Nowhere /\ ca[id] = <<>>
        /\ id <= n => IF pl[id].at = "dropped" THEN ca[id] = <<>> ELSE HasEntry(s, id)
    BY <2>1 DEF Tracking, Blocks
  <2>3. CASE id = x
    <3>1. ~(id > n)
      BY <2>3
    <3>2. ql[id].at = "dropped" => da[id] = <<>>
      BY <2>3, <1>2, <1>5 DEF EntryStep
    <3>3. ql[id].at # "dropped" => HasEntry(t, id)
      BY <2>3, <1>1, <1>2, <1>5 DEF EntryStep, HasEntry
    <3> QED BY <3>1, <3>2, <3>3
  <2>4. CASE id # x
    <3>1. ql[id] = pl[id] /\ da[id] = ca[id]
      BY <2>1, <2>4, <1>5 DEF OnlyPlace
    <3>2. ASSUME HasEntry(s, id) PROVE HasEntry(t, id)
      <4>1. PICK k \in 1..m : s.entries[k].id = id /\ ~s.entries[k].deleted
        BY <3>2, <1>1 DEF HasEntry
      <4>2. k # i
        BY <4>1, <2>4, <1>5
      <4> QED BY <4>1, <4>2, <1>1, <1>2 DEF HasEntry
    <3> QED BY <3>1, <3>2, <2>2
  <2> QED BY <2>3, <2>4
<1>9. ASSUME NEW w \in Workers, w # u, s.idx[w] # 0
      PROVE  s.idx[w] \in 1..m /\ t.entries[s.idx[w]] = s.entries[s.idx[w]]
  <2>1. s.idx[w] \in 1..m /\ s.entries[s.idx[w]].idx_ptr = w
    BY <1>1, <1>9, OwnedByWaiting
  <2>2. s.idx[w] \in Nat /\ s.idx[w] # 0
    BY <1>9, TrackFacts
  <2>3. CASE s.idx[w] # i
    BY <2>1, <2>3, <1>2
  <2>4. CASE s.idx[w] = i
    <3>1. w \notin {0, u} => t.entries = s.entries
      BY <2>1, <2>4
    <3>2. s.entries[i].idx_ptr = w /\ w # u
      BY <2>1, <2>4, <1>9
    <3>3. CASE w = 0
      <4>1. Owned(s.entries[i], i, s, f) /\ s.entries[i].running
        BY <1>1, <1>9, <2>4, OwnedByWaiting DEF Tracking, Owners
      <4> QED BY <4>1, <3>2, <3>3 DEF Owned
    <3> QED BY <3>1, <3>2, <3>3, <2>1
  <2> QED BY <2>3, <2>4
<1>10. Threads(t, u, g, n, ql)
  <2> SUFFICES ASSUME NEW w \in Workers PROVE ThreadOK(t, w, g[w], n, ql) /\ (w # u => Idle(g[w]))
    BY DEF Threads
  <2>1. ThreadOK(s, w, f[w], n, pl) /\ (w # u => Idle(f[w]))
    BY DEF Tracking, Threads
  <2>2. CASE w = u
    BY <2>2
  <2>3. CASE w # u
    <3>1. g[w] = f[w] /\ t.idx[w] = s.idx[w]
      BY <2>3, <1>2
    <3>2. ASSUME f[w].pc = "callback", s.idx[w] = 0 PROVE ql[f[w].id].at = "dropped"
      <4>1. PICK id \in 1..n : id = f[w].id /\ pl[id].at = "dropped"
        BY <2>1, <3>2 DEF ThreadOK
      <4>2. CASE id = x
        BY <4>1, <4>2, <1>5
      <4>3. CASE id # x
        BY <4>1, <4>3, <1>5 DEF OnlyPlace
      <4> QED BY <4>2, <4>3
    <3>3. ASSUME s.idx[w] # 0 PROVE s.idx[w] \in 1..m /\ Holds(w, f[w], t.entries[s.idx[w]])
      BY <3>3, <2>1, <2>3, <1>9 DEF ThreadOK
    <3> QED BY <3>1, <3>2, <3>3, <2>1, <2>3, <1>1 DEF ThreadOK
  <2> QED BY <2>2, <2>3
<1>11. Owners(t, g)
  <2> SUFFICES ASSUME NEW k \in 1..m PROVE Owned(t.entries[k], k, t, g)
    BY <1>1 DEF Owners
  <2>1. CASE k = i
    BY <2>1 DEF EntryStep
  <2>2. CASE k # i
    <3>1. Owned(s.entries[k], k, s, f) /\ t.entries[k] = s.entries[k]
      BY <2>2, <1>1, <1>2 DEF Tracking, Owners
    <3>2. ASSUME s.entries[k].idx_ptr # 0
          PROVE  /\ g[s.entries[k].idx_ptr] = f[s.entries[k].idx_ptr]
                 /\ t.idx[s.entries[k].idx_ptr] = s.idx[s.entries[k].idx_ptr]
      <4>1. PICK w \in Workers : w = s.entries[k].idx_ptr
        BY <3>2, <1>1, TrackFacts DEF EntrySet
      <4>2. s.idx[w] = k
        BY <4>1, <3>1, <3>2 DEF Owned
      <4> QED BY <4>1, <4>2, <2>2, <1>2
    <3> QED BY <3>1, <3>2 DEF Owned
  <2> QED BY <2>1, <2>2
<1>12. NoneLost(t, g)
  <2> SUFFICES ASSUME NEW k \in 1..m, k < t.callback, ~t.entries[k].deleted
               PROVE  Due(t.entries[k]) = "none" \/ Held(t, g, k)
    BY <1>1 DEF NoneLost
  <2>1. CASE k = i
    BY <2>1 DEF EntryStep
  <2>2. CASE k # i
    <3>1. k < s.callback /\ t.entries[k] = s.entries[k]
      BY <2>2, <1>2
    <3>2. Due(s.entries[k]) = "none" \/ Held(s, f, k)
      BY <3>1, <1>1 DEF Tracking, NoneLost
    <3>3. ASSUME Held(s, f, k) PROVE Held(t, g, k)
      <4>1. PICK w \in Workers : s.idx[w] = k /\ f[w].pc \in {"entry", "call", "callback"}
        BY <3>3 DEF Held
      <4>2. g[w] = f[w] /\ t.idx[w] = s.idx[w]
        BY <4>1, <2>2, <1>2
      <4> QED BY <4>1, <4>2 DEF Held
    <3> QED BY <3>1, <3>2, <3>3
  <2> QED BY <2>1, <2>2
<1> QED BY <1>7, <1>8, <1>10, <1>11, <1>12 DEF Tracking

-----------------------------------------------------------------------------
(* The steps of a thread in memprof.c *)

\* The invariant, opened.
LEMMA Setup ==
    ASSUME IInv
    PROVE  /\ Samples \in Nat /\ used \in Nat /\ used <= Samples
           /\ trackst \in TrackSet /\ cur \in Workers /\ frame \in [Workers -> FrameSet]
           /\ suspended \in BOOLEAN /\ pending \in BOOLEAN /\ ctx \in [Workers -> BOOLEAN]
           /\ place \in [1..Samples -> PlaceSet] /\ DOMAIN place = 1..Samples /\ DOMAIN calls = 1..Samples
           /\ 1..used \subseteq DOMAIN place
           /\ Tracking(trackst, cur, frame, used, place, calls)
           /\ ThreadOK(trackst, cur, frame[cur], used, place) /\ Shape(frame[cur])
           /\ Suspension(cur, frame, suspended, ctx) /\ Alert(trackst, suspended, pending)
<1>1. Types /\ Tracking(trackst, cur, frame, used, place, calls)
  BY DEF IInv
<1>2. ThreadOK(trackst, cur, frame[cur], used, place)
  BY <1>1 DEF Types, Tracking, Threads
<1> QED BY <1>1, <1>2 DEF IInv, Types, ThreadOK

\* The entry in hand.
LEMMA EntryFacts ==
    ASSUME NEW s \in TrackSet, NEW u \in Workers, NEW f, NEW n, NEW pl, NEW ca, Tracking(s, u, f, n, pl, ca),
           NEW i \in DOMAIN s.entries
    PROVE  /\ s.entries[i] \in EntrySet /\ s.entries[i].id \in 1..n /\ i \in Nat /\ i >= 1 /\ i \in 1..Len(s.entries)
           /\ EntryOK(s.entries[i], pl[s.entries[i].id], ca[s.entries[i].id], Hand(s, u, f, i))
           /\ Remembered(s.entries[i], i, s.young) /\ Owned(s.entries[i], i, s, f)
           /\ i < s.callback /\ ~s.entries[i].deleted => Due(s.entries[i]) = "none" \/ Held(s, f, i)
           /\ pl[s.entries[i].id].at = "dropped" <=> s.entries[i].deleted
<1>1. s.entries[i] \in EntrySet /\ i \in Nat /\ i >= 1 /\ i \in 1..Len(s.entries)
  BY TrackFacts
<1>2. /\ s.entries[i].id \in 1..n /\ Remembered(s.entries[i], i, s.young) /\ Owned(s.entries[i], i, s, f)
      /\ EntryOK(s.entries[i], pl[s.entries[i].id], ca[s.entries[i].id], Hand(s, u, f, i))
      /\ i < s.callback /\ ~s.entries[i].deleted => Due(s.entries[i]) = "none" \/ Held(s, f, i)
  BY DEF Tracking, Table, Owners, NoneLost
<1>3. pl[s.entries[i].id].at = "dropped" <=> s.entries[i].deleted
  BY <1>1, <1>2 DEF EntryOK, Tracked, Agrees, Deleted, EntrySet
<1> QED BY <1>1, <1>2, <1>3

\* A thread that goes on inside a callback or around one stays suspended.
LEMMA SuspensionKept ==
    ASSUME NEW u \in Workers, NEW f, NEW g, NEW su, NEW cx, Suspension(u, f, su, cx), OnlyFrame(f, g, u),
           f[u].fn # "none", f[u].pc # "place", g[u].fn # "none", g[u].pc # "place"
    PROVE  Suspension(u, g, su, cx) /\ su
  BY DEF Suspension, OnlyFrame

\* What a step of the thread that runs leaves to show.
LEMMA StepKeeps ==
    ASSUME IInv, bound' = bound, cur' = cur, suspended' = suspended, ctx' = ctx, used' = used, pending' \in BOOLEAN,
           trackst' \in TrackSet, frame' \in [Workers -> FrameSet], OnlyFrame(frame, frame', cur),
           place' \in [1..Samples -> PlaceSet], DOMAIN calls' = 1..Samples,
           frame[cur].fn # "none", frame[cur].pc # "place", frame'[cur].fn # "none", frame'[cur].pc # "place",
           Tracking(trackst', cur, frame', used, place', calls')
    PROVE  IInv'
<1>1. Types'
  BY Setup DEF Types, Samples
<1>2. Suspension(cur, frame', suspended, ctx) /\ suspended
  BY Setup, SuspensionKept
<1>3. Alert(trackst', suspended', pending')
  BY <1>2 DEF Alert
<1> QED BY <1>1, <1>2, <1>3 DEF IInv

\* Only the frame of the thread that runs changes.
LEMMA FrameUpdated ==
    ASSUME NEW f \in [Workers -> FrameSet], NEW w \in Workers, NEW x \in FrameSet, NEW g, g = [f EXCEPT ![w] = x]
    PROVE  g \in [Workers -> FrameSet] /\ g[w] = x /\ OnlyFrame(f, g, w)
  BY DEF OnlyFrame

\* The loop of caml_memprof_handle_postponed_exn takes up the entry at callback.
LEMMA NextEntryKeeps ==
    ASSUME IInv, NEW w \in Workers, NextEntry(w), bound' = bound
    PROVE  IInv'
<1> USE Setup
<1>1. /\ cur = w /\ frame[w].fn # "none" /\ frame[w].pc = "loop" /\ trackst.callback <= Len(trackst.entries)
      /\ trackst' = [trackst EXCEPT !.idx[w] = trackst.callback]
      /\ frame' = [frame EXCEPT ![w].pc = "entry", ![w].id = trackst.entries[trackst.callback].id]
      /\ UNCHANGED <<started, starts, cur, suspended, ctx, pending, used, place, calls>>
  BY DEF NextEntry, Step
<1>2. PICK i \in DOMAIN trackst.entries : i = trackst.callback
  BY <1>1, TrackFacts DEF Tracking, Positions, Position
<1>3. /\ trackst.idx[w] = 0 /\ frame[w].cb = "none" /\ frame[w].fn # "young"
  BY <1>1 DEF ThreadOK, Shape
<1>4. PICK e \in EntrySet : e = trackst.entries[i] /\ e.id \in 1..used
  BY EntryFacts
<1>5. /\ trackst' \in TrackSet /\ trackst'.entries = trackst.entries /\ trackst'.young = trackst.young
      /\ trackst'.callback = trackst.callback /\ trackst'.delete = trackst.delete /\ trackst'.idx[w] = i
      /\ \A x \in Workers : x # w => trackst'.idx[x] = trackst.idx[x]
  BY <1>1, <1>2, TrackFacts DEF TrackSet
<1>6. /\ frame' \in [Workers -> FrameSet] /\ frame'[w].pc = "entry" /\ frame'[w].id = e.id
      /\ frame'[w].fn = frame[w].fn /\ frame'[w].cb = "none" /\ OnlyFrame(frame, frame', w)
  <2>1. PICK x : x = [frame[w] EXCEPT !.pc = "entry", !.id = e.id]
    OBVIOUS
  <2>2. frame[w] \in FrameSet
    BY <1>1
  <2>3. x \in FrameSet /\ x.pc = "entry" /\ x.id = e.id /\ x.fn = frame[w].fn /\ x.cb = "none"
    BY <2>1, <2>2, <1>3 DEF FrameSet, EntrySet
  <2>4. frame' = [frame EXCEPT ![w] = x]
    BY <1>1, <1>2, <1>4, <2>1
  <2> QED BY <2>3, <2>4, FrameUpdated
<1>7. OnlyEntry(trackst, trackst', w, i) /\ Positions(trackst')
  BY <1>5, TrackFacts DEF OnlyEntry, Tracking, Positions
<1>8. EntryStep(trackst, trackst', w, frame', used, place, calls, i)
  <2>1. EntryOK(e, place[e.id], calls[e.id], "none")
    BY <1>1, <1>4, EntryFacts DEF Hand
  <2>2. Owned(e, i, trackst', frame')
    <3>1. Owned(e, i, trackst, frame)
      BY <1>4, EntryFacts
    <3>2. ASSUME e.idx_ptr # 0 PROVE e.idx_ptr \in Workers /\ e.idx_ptr # w
      BY <3>1, <3>2, <1>3, EntryFacts DEF Owned, EntrySet
    <3> QED BY <3>1, <3>2, <1>5, <1>6 DEF Owned, OnlyFrame
  <2>3. Held(trackst', frame', i)
    BY <1>5, <1>6 DEF Held
  <2>4. Hand(trackst', w, frame', i) = "none"
    BY <1>6 DEF Hand
  <2>5. Remembered(e, i, trackst.young) /\ (place[e.id].at = "dropped" <=> e.deleted)
    BY <1>4, EntryFacts
  <2>6. place[e.id].at = "dropped" => calls[e.id] = <<>>
    BY <1>4 DEF Tracking, Blocks
  <2> QED BY <2>1, <2>2, <2>3, <2>4, <2>5, <2>6, <1>4, <1>5 DEF EntryStep
<1>9. ThreadOK(trackst', w, frame'[w], used, place)
  BY <1>1, <1>2, <1>3, <1>4, <1>5, <1>6 DEF ThreadOK, Shape, Holds
<1>10. Tracking(trackst', w, frame', used, place, calls)
  BY <1>1, <1>2, <1>3, <1>4, <1>5, <1>6, <1>7, <1>8, <1>9, OneEntry DEF OnlyPlace
<1> QED BY <1>1, <1>5, <1>6, <1>10, StepKeeps

\* A table with one entry replaced.
LEMMA EntriesUpdated ==
    ASSUME NEW q \in Seq(EntrySet), NEW i \in DOMAIN q, NEW d \in EntrySet, NEW r, r = [q EXCEPT ![i] = d]
    PROVE  /\ r \in Seq(EntrySet) /\ DOMAIN r = DOMAIN q /\ Len(r) = Len(q) /\ r[i] = d
           /\ \A k \in DOMAIN q : k # i => r[k] = q[k]
  OBVIOUS

\* The entry in hand that has no callback running is free.
LEMMA NotRunningFree ==
    ASSUME NEW s \in TrackSet, NEW u \in Workers, NEW f, NEW n, NEW pl, NEW ca, Tracking(s, u, f, n, pl, ca),
           NEW i \in DOMAIN s.entries, f[u].pc = "entry"
    PROVE  /\ s.entries[i].idx_ptr # 0 => s.entries[i].idx_ptr \in Workers /\ s.entries[i].idx_ptr # u
           /\ ~s.entries[i].running => s.entries[i].idx_ptr = 0
<1>1. Owned(s.entries[i], i, s, f) /\ i >= 1 /\ i \in Nat /\ s.entries[i] \in EntrySet
  BY EntryFacts
<1>2. ASSUME s.entries[i].idx_ptr # 0 PROVE s.entries[i].idx_ptr \in Workers /\ s.entries[i].idx_ptr # u
  BY <1>1, <1>2 DEF Owned, EntrySet
<1>3. ASSUME ~s.entries[i].running, s.entries[i].idx_ptr # 0 PROVE FALSE
  <2>1. PICK w \in Workers : w = s.entries[i].idx_ptr /\ w # u
    BY <1>2, <1>3
  <2>2. s.idx[w] = i
    BY <2>1, <1>1, <1>3 DEF Owned
  <2>3. s.idx[w] # 0
    BY <2>2, <1>1
  <2> QED BY <2>1, <2>2, <2>3, <1>3, OwnedByWaiting
<1> QED BY <1>2, <1>3

\* handle_entry_callbacks_exn chooses the next callback, in the right order.
ChosenCall(e, due, d) == due = Due(e) /\ due # "none" /\ d = [e EXCEPT !.called = @ \union {due}]

\* Choosing the callback that is due leaves the entry tracked, with that callback in hand.
LEMMA CallDue ==
    ASSUME NEW e \in EntrySet, NEW p, NEW c, Tracked(e, p, c, "none"), NEW due, NEW d, ChosenCall(e, due, d)
    PROVE  /\ d \in EntrySet /\ Tracked(d, p, c, due) /\ LastOf(d.called) = due /\ due \in CallbackSet
           /\ d.id = e.id /\ d.block = e.block /\ d.user_data = e.user_data /\ d.deleted = e.deleted
           /\ d.running = e.running /\ d.idx_ptr = e.idx_ptr
<1> USE DEF ChosenCall
<1>1. due \in CallbackSet /\ due \notin e.called /\ e.called \subseteq CallbackSet
  BY DEF Due, CallbackSet, EntrySet
<1>2. /\ d \in EntrySet /\ d.called = e.called \union {due} /\ d.id = e.id /\ d.block = e.block
      /\ d.user_data = e.user_data /\ d.deleted = e.deleted /\ d.running = e.running /\ d.idx_ptr = e.idx_ptr
      /\ d.alloc_young = e.alloc_young /\ d.promoted = e.promoted /\ d.deallocated = e.deallocated
  BY <1>1 DEF EntrySet
<1>3. e.called \ {"none"} = e.called /\ d.called \ {due} = e.called
  BY <1>1, <1>2 DEF CallbackSet
<1>4. CalledOK(e)
  BY DEF Tracked
<1>5. CalledOK(d) /\ LastOf(d.called) = due
  <2>1. CASE due = "alloc"
    BY <2>1, <1>1, <1>2, <1>4 DEF CalledOK, LastOf
  <2>2. CASE due = "promote"
    BY <2>2, <1>1, <1>2, <1>4 DEF CalledOK, LastOf, Due
  <2>3. CASE due = "dealloc"
    BY <2>3, <1>1, <1>2, <1>4 DEF CalledOK, LastOf, Due
  <2> QED BY <2>1, <2>2, <2>3, <1>1 DEF CallbackSet
<1>6. Agrees(d, p) /\ DataOK(d, due)
  BY <1>2, <1>3 DEF Tracked, Agrees, DataOK
<1>7. c = History(d, e.called)
  BY <1>2, <1>3 DEF Tracked, History, AllocCall, PromoteCall, DeallocCall
<1> QED BY <1>1, <1>2, <1>3, <1>5, <1>6, <1>7 DEF Tracked

\* The table with entry i replaced by d, and the positions and the t_idx of u by the ones given.
Updated(s, t, u, i, d, y, c, l, x) ==
    t = [entries |-> [s.entries EXCEPT ![i] = d], young |-> y, callback |-> c, delete |-> l,
         idx |-> [s.idx EXCEPT ![u] = x]]

IsUpdated(s, t, u, i, d, y, c, l, x) ==
    /\ t \in TrackSet /\ t.young = y /\ t.callback = c /\ t.delete = l /\ t.idx[u] = x /\ t.entries[i] = d
    /\ DOMAIN t.entries = DOMAIN s.entries /\ Len(t.entries) = Len(s.entries)
    /\ \A k \in DOMAIN s.entries : k # i => t.entries[k] = s.entries[k]
    /\ \A w \in Workers : w # u => t.idx[w] = s.idx[w]

\* The parts of the table with entry i replaced.
LEMMA UpdatedIs ==
    ASSUME NEW s \in TrackSet, NEW u \in Workers, NEW i \in DOMAIN s.entries, NEW d \in EntrySet, NEW y \in Nat,
           NEW c \in Nat, NEW l \in Nat, NEW x \in Nat, NEW t, Updated(s, t, u, i, d, y, c, l, x)
    PROVE  IsUpdated(s, t, u, i, d, y, c, l, x)
<1>1. PICK q : q = [s.entries EXCEPT ![i] = d]
  OBVIOUS
<1>2. PICK r : r = [s.idx EXCEPT ![u] = x]
  OBVIOUS
<1>3. /\ q \in Seq(EntrySet) /\ DOMAIN q = DOMAIN s.entries /\ Len(q) = Len(s.entries) /\ q[i] = d
      /\ \A k \in DOMAIN s.entries : k # i => q[k] = s.entries[k]
  BY <1>1, TrackFacts, EntriesUpdated
<1>4. r \in [Workers -> Nat] /\ r[u] = x /\ \A w \in Workers : w # u => r[w] = s.idx[w]
  BY <1>2, TrackFacts
<1>5. t = [entries |-> q, young |-> y, callback |-> c, delete |-> l, idx |-> r]
  BY <1>1, <1>2 DEF Updated
<1> QED BY <1>3, <1>4, <1>5 DEF TrackSet, IsUpdated

\* What the new entry d has to satisfy, against e, the one before: p is where the block is, and h the callbacks made.
NewEntry(u, fr, i, e, d, x, c, y, p, h) ==
    /\ d.id = e.id /\ EntryOK(d, p, h, IF fr.pc = "call" /\ x # 0 THEN fr.cb ELSE "none")
    /\ Remembered(d, i, y)
    /\ d = e \/ e.idx_ptr \in {0, u}
    /\ d.idx_ptr # 0 => \/ d.idx_ptr = u /\ x # 0 /\ fr.pc \in {"callback", "place"}
                        \/ d = e /\ e.idx_ptr # u
    /\ d.running => d.idx_ptr # 0 /\ (d.idx_ptr = u => fr.pc = "callback")
    /\ i < c /\ ~d.deleted => \/ Due(d) = "none"
                              \/ x # 0 /\ fr.pc \in {"entry", "call", "callback"}
                              \/ d = e /\ e.running
    /\ p.at = "dropped" => h = <<>>
    /\ p.at # "dropped" => ~d.deleted

\* What the new frame of the thread has to satisfy.
NewFrame(u, fr, d, x, n, ql) ==
    /\ Shape(fr)
    /\ fr.pc \in {"run", "loop", "raised"} => x = 0
    /\ fr.pc \in {"entry", "call"} => x # 0
    /\ fr.pc = "callback" => fr.id \in 1..n
    /\ fr.pc = "callback" /\ x = 0 => ql[fr.id].at = "dropped"
    /\ x # 0 => Holds(u, fr, d)

NewPositions(s, i, y, c, l) ==
    /\ 1 <= y /\ y <= s.young
    /\ c = s.callback \/ (c = i + 1 /\ s.callback = i)
    /\ Position(l, Len(s.entries))

Replaces(s, u, f, n, pl, ca, t, g, ql, da, i, d, y, c, l, x) ==
    /\ s \in TrackSet /\ u \in Workers /\ n \in Nat /\ Tracking(s, u, f, n, pl, ca)
    /\ i \in DOMAIN s.entries /\ s.idx[u] \in {0, i}
    /\ d \in EntrySet /\ y \in Nat /\ c \in Nat /\ l \in Nat /\ x \in {0, i}
    /\ Updated(s, t, u, i, d, y, c, l, x) /\ NewPositions(s, i, y, c, l)
    /\ OnlyFrame(f, g, u) /\ 1..n \subseteq DOMAIN pl /\ OnlyPlace(pl, ca, ql, da, s.entries[i].id)
    /\ pl[s.entries[i].id].at = "dropped" => ql[s.entries[i].id].at = "dropped"
    /\ NewEntry(u, g[u], i, s.entries[i], d, x, c, y, ql[s.entries[i].id], da[s.entries[i].id])
    /\ NewFrame(u, g[u], d, x, n, ql)

\* Replacing the entry in hand by one that is right keeps the table, the threads and the blocks in
\* step.
LEMMA EntryUpdate ==
    ASSUME NEW s, NEW u, NEW f, NEW g, NEW n, NEW pl, NEW ca, NEW ql, NEW da, NEW i, NEW d, NEW y, NEW c, NEW l, NEW x,
           NEW t, Replaces(s, u, f, n, pl, ca, t, g, ql, da, i, d, y, c, l, x)
    PROVE  t \in TrackSet /\ Tracking(t, u, g, n, ql, da)
<1>0. /\ s \in TrackSet /\ u \in Workers /\ n \in Nat /\ Tracking(s, u, f, n, pl, ca)
      /\ i \in DOMAIN s.entries /\ s.idx[u] \in {0, i}
      /\ d \in EntrySet /\ y \in Nat /\ c \in Nat /\ l \in Nat /\ x \in {0, i}
      /\ Updated(s, t, u, i, d, y, c, l, x) /\ NewPositions(s, i, y, c, l)
      /\ OnlyFrame(f, g, u) /\ 1..n \subseteq DOMAIN pl /\ OnlyPlace(pl, ca, ql, da, s.entries[i].id)
      /\ pl[s.entries[i].id].at = "dropped" => ql[s.entries[i].id].at = "dropped"
      /\ NewEntry(u, g[u], i, s.entries[i], d, x, c, y, ql[s.entries[i].id], da[s.entries[i].id])
      /\ NewFrame(u, g[u], d, x, n, ql)
  BY DEF Replaces
<1> USE <1>0
<1>1. /\ i \in Nat /\ i >= 1 /\ i <= Len(s.entries) /\ x \in Nat /\ Len(s.entries) \in Nat
      /\ DOMAIN s.entries = 1..Len(s.entries) /\ s.young \in Nat /\ s.callback \in Nat /\ s.delete \in Nat
  BY TrackFacts
<1>2. /\ t \in TrackSet /\ t.young = y /\ t.callback = c /\ t.delete = l /\ t.idx[u] = x /\ t.entries[i] = d
      /\ DOMAIN t.entries = DOMAIN s.entries /\ Len(t.entries) = Len(s.entries)
      /\ \A k \in DOMAIN s.entries : k # i => t.entries[k] = s.entries[k]
      /\ \A w \in Workers : w # u => t.idx[w] = s.idx[w]
  <2>1. IsUpdated(s, t, u, i, d, y, c, l, x)
    BY <1>1, UpdatedIs
  <2> QED BY ONLY <2>1 DEF IsUpdated
<1>3. PICK e \in EntrySet : e = s.entries[i] /\ d.id = e.id
  <2>1. s.entries[i] \in EntrySet
    BY EntryFacts
  <2>2. d.id = s.entries[i].id
    BY DEF NewEntry
  <2> QED BY <2>1, <2>2
<1>4. OnlyEntry(s, t, u, i)
  <2>1. \A k \in DOMAIN s.entries : k # i /\ k < c => k < s.callback
    BY <1>1 DEF NewPositions
  <2> QED BY <2>1, <1>2, <1>3 DEF OnlyEntry, NewPositions
<1>5. Positions(t)
  <2>1. Position(s.young, Len(s.entries)) /\ Position(s.callback, Len(s.entries))
    BY DEF Tracking, Positions
  <2>2. Position(y, Len(s.entries)) /\ Position(c, Len(s.entries)) /\ Position(l, Len(s.entries))
    <3>1. y \in Nat /\ c \in Nat /\ NewPositions(s, i, y, c, l)
      OBVIOUS
    <3> QED BY ONLY <2>1, <3>1, <1>1 DEF Position, NewPositions
  <2> QED BY ONLY <2>2, <1>2 DEF Positions
<1>6. s.entries[i].idx_ptr \in {0, u} \/ t.entries = s.entries
  <2>1. ASSUME d = e PROVE t.entries = s.entries
    <3>1. PICK r : r = [s.entries EXCEPT ![i] = d]
      OBVIOUS
    <3>2. r = s.entries
      <4>1. s.entries \in Seq(EntrySet) /\ s.entries[i] = d /\ i \in DOMAIN s.entries
        BY <2>1, <1>3, TrackFacts
      <4> QED BY ONLY <3>1, <4>1
    <3>3. t.entries = r
      BY <3>1 DEF Updated
    <3> QED BY <3>2, <3>3
  <2> QED BY <2>1, <1>3 DEF NewEntry
<1>7. Hand(t, u, g, i) = IF g[u].pc = "call" /\ x # 0 THEN g[u].cb ELSE "none"
  BY <1>1, <1>2 DEF Hand
<1>8. Owned(e, i, s, f)
  BY <1>3, EntryFacts
<1>9. ASSUME e.idx_ptr # 0, e.idx_ptr # u
      PROVE  t.idx[e.idx_ptr] = i /\ g[e.idx_ptr].pc = "callback" /\ e.idx_ptr \in Workers
  <2>1. PICK w \in Workers : w = e.idx_ptr
    BY <1>9 DEF EntrySet
  <2>2. s.idx[w] = i
    BY <2>1, <1>8, <1>9 DEF Owned
  <2>3. f[w].pc = "callback"
    BY <2>1, <2>2, <1>1, <1>9, OwnedByWaiting
  <2> QED BY <2>1, <2>2, <2>3, <1>2, <1>9 DEF OnlyFrame
<1>10. Owned(d, i, t, g)
  BY <1>1, <1>2, <1>3, <1>8, <1>9 DEF NewEntry, Owned
<1>11. x # 0 /\ g[u].pc \in {"entry", "call", "callback"} => Held(t, g, i)
  BY <1>2 DEF Held
<1>12. d = e /\ e.running => Held(t, g, i)
  <2> HAVE d = e /\ e.running
  <2>1. CASE e.idx_ptr = u
    BY <2>1, <1>2, <1>3, <1>8, <1>10 DEF Owned, Held
  <2>2. CASE e.idx_ptr # u
    BY <2>2, <1>8, <1>9 DEF Owned, Held
  <2> QED BY <2>1, <2>2
<1>13. EntryStep(s, t, u, g, n, ql, da, i)
  BY <1>2, <1>3, <1>7, <1>10, <1>11, <1>12 DEF EntryStep, NewEntry
<1>14. ThreadOK(t, u, g[u], n, ql)
  BY <1>1, <1>2 DEF ThreadOK, NewFrame
<1>15. Tracking(t, u, g, n, ql, da)
  BY <1>2, <1>4, <1>5, <1>6, <1>13, <1>14, OneEntry
<1> QED BY <1>2, <1>15

\* What is known of the entry in hand.
LEMMA InHandFacts ==
    ASSUME IInv, NEW i, i = trackst.idx[cur], i # 0
    PROVE  /\ i \in DOMAIN trackst.entries /\ i \in Nat /\ i >= 1 /\ i <= Len(trackst.entries)
           /\ trackst.entries[i] \in EntrySet /\ Holds(cur, frame[cur], trackst.entries[i])
           /\ trackst.entries[i].id \in 1..used /\ trackst.entries[i].id = frame[cur].id
           /\ Remembered(trackst.entries[i], i, trackst.young) /\ Owned(trackst.entries[i], i, trackst, frame)
           /\ EntryOK(trackst.entries[i], place[trackst.entries[i].id], calls[trackst.entries[i].id],
                      Hand(trackst, cur, frame, i))
           /\ i < trackst.callback /\ ~trackst.entries[i].deleted
                => Due(trackst.entries[i]) = "none" \/ Held(trackst, frame, i)
           /\ place[trackst.entries[i].id].at = "dropped" <=> trackst.entries[i].deleted
           /\ place[trackst.entries[i].id].at = "dropped" => calls[trackst.entries[i].id] = <<>>
<1> USE Setup
<1>1. i \in DOMAIN trackst.entries /\ Holds(cur, frame[cur], trackst.entries[i])
  BY DEF ThreadOK
<1>2. trackst.entries[i].id \in 1..used
  BY <1>1, EntryFacts
<1>3. place[trackst.entries[i].id].at = "dropped" => calls[trackst.entries[i].id] = <<>>
  BY <1>2 DEF Tracking, Blocks
<1>4. trackst \in TrackSet /\ cur \in Workers /\ Tracking(trackst, cur, frame, used, place, calls)
  OBVIOUS
<1>5. /\ trackst.entries[i] \in EntrySet /\ i \in Nat /\ i >= 1 /\ i \in 1..Len(trackst.entries)
      /\ Remembered(trackst.entries[i], i, trackst.young) /\ Owned(trackst.entries[i], i, trackst, frame)
      /\ EntryOK(trackst.entries[i], place[trackst.entries[i].id], calls[trackst.entries[i].id],
                 Hand(trackst, cur, frame, i))
      /\ i < trackst.callback /\ ~trackst.entries[i].deleted
           => Due(trackst.entries[i]) = "none" \/ Held(trackst, frame, i)
      /\ place[trackst.entries[i].id].at = "dropped" <=> trackst.entries[i].deleted
  BY ONLY <1>1, <1>4, EntryFacts
<1>6. Len(trackst.entries) \in Nat
  BY ONLY <1>4, TrackFacts
<1>7. i <= Len(trackst.entries)
  BY ONLY <1>5, <1>6
<1>8. trackst.entries[i].id = frame[cur].id
  BY ONLY <1>1 DEF Holds
<1> QED BY ONLY <1>1, <1>2, <1>3, <1>5, <1>7, <1>8

\* The positions, for the provers.
LEMMA PositionFacts ==
    ASSUME IInv
    PROVE  /\ trackst.young \in Nat /\ trackst.callback \in Nat /\ trackst.delete \in Nat /\ Len(trackst.entries) \in Nat
           /\ 1 <= trackst.young /\ 1 <= trackst.callback /\ 1 <= trackst.delete
           /\ trackst.young <= Len(trackst.entries) + 1 /\ trackst.callback <= Len(trackst.entries) + 1
           /\ trackst.delete <= Len(trackst.entries) + 1
  BY Setup, TrackFacts DEF Tracking, Positions, Position

\* A step of the thread that runs, with entry i in hand.
EntryAct(i, d, y, c, l, x, fr) ==
    /\ i = trackst.idx[cur] /\ i # 0
    /\ d \in EntrySet /\ y \in Nat /\ c \in Nat /\ l \in Nat /\ x \in {0, i} /\ fr \in FrameSet
    /\ Updated(trackst, trackst', cur, i, d, y, c, l, x) /\ NewPositions(trackst, i, y, c, l)
    /\ frame' = [frame EXCEPT ![cur] = fr]
    /\ OnlyPlace(place, calls, place', calls', trackst.entries[i].id)
    /\ place[trackst.entries[i].id].at = "dropped" => place'[trackst.entries[i].id].at = "dropped"
    /\ NewEntry(cur, fr, i, trackst.entries[i], d, x, c, y, place'[trackst.entries[i].id], calls'[trackst.entries[i].id])
    /\ NewFrame(cur, fr, d, x, used, place')

\* What EntryUpdate says, for a step of the thread that runs.
LEMMA EntryTracks ==
    ASSUME IInv, NEW i, NEW d, NEW y, NEW c, NEW l, NEW x, NEW fr, EntryAct(i, d, y, c, l, x, fr)
    PROVE  /\ trackst' \in TrackSet /\ Tracking(trackst', cur, frame', used, place', calls')
           /\ frame' \in [Workers -> FrameSet] /\ frame'[cur] = fr /\ OnlyFrame(frame, frame', cur)
<1>1. frame' \in [Workers -> FrameSet] /\ frame'[cur] = fr /\ OnlyFrame(frame, frame', cur)
  <2>1. cur \in Workers /\ frame \in [Workers -> FrameSet]
    BY Setup
  <2>2. frame' = [frame EXCEPT ![cur] = fr] /\ fr \in FrameSet
    BY DEF EntryAct
  <2> QED BY ONLY <2>1, <2>2, FrameUpdated
<1>2. /\ trackst \in TrackSet /\ cur \in Workers /\ used \in Nat /\ 1..used \subseteq DOMAIN place
      /\ Tracking(trackst, cur, frame, used, place, calls)
  BY Setup
<1>3. i \in DOMAIN trackst.entries /\ trackst.idx[cur] \in {0, i}
  BY InHandFacts DEF EntryAct
<1>4. Replaces(trackst, cur, frame, used, place, calls, trackst', frame', place', calls', i, d, y, c, l, x)
  BY ONLY <1>1, <1>2, <1>3, EntryAct(i, d, y, c, l, x, fr) DEF EntryAct, Replaces
<1> QED BY ONLY <1>1, <1>4, EntryUpdate

\* Such a step keeps the whole invariant, when the flags do not change.
LEMMA EntryAction ==
    ASSUME IInv, bound' = bound, cur' = cur, suspended' = suspended, ctx' = ctx, used' = used, pending' = pending,
           NEW i, NEW d, NEW y, NEW c, NEW l, NEW x, NEW fr, EntryAct(i, d, y, c, l, x, fr),
           place' \in [1..Samples -> PlaceSet], DOMAIN calls' = 1..Samples,
           frame[cur].fn # "none", frame[cur].pc # "place", fr.fn # "none", fr.pc # "place"
    PROVE  IInv'
<1>1. /\ trackst' \in TrackSet /\ Tracking(trackst', cur, frame', used, place', calls')
      /\ frame' \in [Workers -> FrameSet] /\ frame'[cur] = fr /\ OnlyFrame(frame, frame', cur)
  BY ONLY IInv, EntryAct(i, d, y, c, l, x, fr), EntryTracks
<1>2. pending' \in BOOLEAN
  BY Setup
<1> QED BY <1>1, <1>2, StepKeeps

\* handle_entry_callbacks_exn, when it finds something to call.
LEMMA CallKeeps ==
    ASSUME IInv, NEW w \in Workers, handle_entry(w), bound' = bound,
           NEW i, i = trackst.idx[w], NEW e, e = trackst.entries[i],
           ~(e.deleted \/ e.running \/ Due(e) = "none")
    PROVE  IInv'
<1> USE Setup
<1>1. /\ cur = w /\ frame[w].fn # "none" /\ frame[w].pc = "entry"
      /\ UNCHANGED <<started, starts, cur, suspended, ctx, pending, used, place, calls>>
  BY DEF handle_entry, Step
<1>2. i # 0
  BY <1>1 DEF ThreadOK
<1>3. /\ e \in EntrySet /\ e.id \in 1..used /\ Remembered(e, i, trackst.young) /\ i \in Nat /\ i >= 1
      /\ i <= Len(trackst.entries) /\ Tracked(e, place[e.id], calls[e.id], "none") /\ Holds(w, frame[w], e)
      /\ place[e.id].at # "dropped" /\ i \in DOMAIN trackst.entries
  BY <1>1, <1>2, InHandFacts DEF EntryOK, Hand
<1>4. e.idx_ptr = 0 /\ ~e.running /\ ~e.deleted
  <2>1. trackst \in TrackSet /\ Tracking(trackst, w, frame, used, place, calls)
    BY <1>1
  <2>2. ~e.running => e.idx_ptr = 0
    BY ONLY <2>1, <1>1, <1>3, w \in Workers, e = trackst.entries[i], NotRunningFree
  <2> QED BY <2>2
<1>5. PICK due : due = Due(e) /\ due # "none"
  OBVIOUS
<1>6. PICK d \in EntrySet : d = [e EXCEPT !.called = @ \union {due}]
  BY <1>3, <1>5 DEF EntrySet, Due, CallbackSet
<1>7. /\ Tracked(d, place[e.id], calls[e.id], due) /\ LastOf(d.called) = due /\ due \in CallbackSet
      /\ d.id = e.id /\ d.block = e.block /\ d.user_data = e.user_data /\ ~d.deleted /\ ~d.running /\ d.idx_ptr = 0
  <2>1. ChosenCall(e, due, d)
    BY ONLY <1>5, <1>6 DEF ChosenCall
  <2>2. /\ d \in EntrySet /\ Tracked(d, place[e.id], calls[e.id], due) /\ LastOf(d.called) = due /\ due \in CallbackSet
        /\ d.id = e.id /\ d.block = e.block /\ d.user_data = e.user_data /\ d.deleted = e.deleted
        /\ d.running = e.running /\ d.idx_ptr = e.idx_ptr
    <3>1. e \in EntrySet /\ Tracked(e, place[e.id], calls[e.id], "none")
      BY <1>3
    <3> QED BY ONLY <3>1, <2>1, CallDue
  <2>3. ~d.deleted /\ ~d.running
    BY ONLY <2>2, <1>4, Zenon
  <2>4. d.idx_ptr = 0
    BY ONLY <2>2, <1>4
  <2> QED BY ONLY <2>2, <2>3, <2>4
<1>8. PICK c \in Nat : c = IF frame[w].cb = "none" /\ i = trackst.callback THEN i + 1 ELSE trackst.callback
  <2>1. i + 1 \in Nat /\ trackst.callback \in Nat
    BY ONLY <1>3, IInv, PositionFacts
  <2> QED BY ONLY <2>1
<1>9. Updated(trackst, trackst', w, i, d, trackst.young, c, trackst.delete, i)
  <2>1. trackst' = [[trackst EXCEPT !.callback = c] EXCEPT !.entries[i].called = @ \union {due}]
    BY <1>5, <1>8 DEF handle_entry
  <2>2. [trackst.idx EXCEPT ![w] = i] = trackst.idx
    BY TrackFacts
  <2>3. trackst' = [entries |-> [trackst.entries EXCEPT ![i] = d], young |-> trackst.young, callback |-> c,
                    delete |-> trackst.delete, idx |-> trackst.idx]
    BY ONLY <2>1, <1>6, trackst \in TrackSet, e = trackst.entries[i] DEF TrackSet
  <2> QED BY <2>2, <2>3 DEF Updated
<1>10. NewPositions(trackst, i, trackst.young, c, trackst.delete)
  BY ONLY <1>8, IInv, PositionFacts DEF NewPositions, Position
<1>11. PICK fr \in FrameSet : /\ fr = [frame[w] EXCEPT !.pc = "call", !.cb = due] /\ fr.pc = "call" /\ fr.id = frame[w].id
                              /\ fr.fn = frame[w].fn /\ fr.cb = due
  <2>1. frame[w] \in FrameSet
    OBVIOUS
  <2>2. PICK x : x = [frame[w] EXCEPT !.pc = "call", !.cb = due]
    OBVIOUS
  <2>3. x \in FrameSet /\ x.pc = "call" /\ x.id = frame[w].id /\ x.fn = frame[w].fn /\ x.cb = due
    BY ONLY <2>1, <2>2, <1>7 DEF FrameSet
  <2> QED BY ONLY <2>2, <2>3
<1>12. frame' = [frame EXCEPT ![w] = fr]
  BY <1>5, <1>11 DEF handle_entry
<1>13. NewEntry(w, fr, i, e, d, i, c, trackst.young, place[e.id], calls[e.id])
  <2>1. EntryOK(d, place[e.id], calls[e.id], due)
    BY <1>7 DEF EntryOK
  <2> QED BY <2>1, <1>2, <1>3, <1>4, <1>7, <1>11 DEF NewEntry, Remembered
<1>14. NewFrame(w, fr, d, i, used, place)
  BY <1>1, <1>2, <1>3, <1>4, <1>7, <1>11 DEF NewFrame, Shape, Holds, Free
<1>15. OnlyPlace(place, calls, place', calls', e.id)
  BY <1>1 DEF OnlyPlace
<1>16. EntryAct(i, d, trackst.young, c, trackst.delete, i, fr)
  <2>1. trackst.young \in Nat /\ trackst.delete \in Nat
    BY PositionFacts
  <2> QED BY ONLY <2>1, <1>1, <1>2, <1>3, <1>9, <1>10, <1>12, <1>13, <1>14, <1>15, c \in Nat, d \in EntrySet, fr \in FrameSet,
                  i = trackst.idx[w], e = trackst.entries[i] DEF EntryAct
<1> QED BY <1>1, <1>11, <1>16, EntryAction

\* The frame when handle_entry_callbacks_exn returns.
Returned(f, fr) ==
    /\ fr \in FrameSet /\ fr.fn = f.fn /\ fr.cb = "none"
    /\ f.fn = "young" => fr.pc = "sampled" /\ fr.id = f.id
    /\ f.fn # "young" => fr.pc = "loop"

\* Where the end of handle_entry_callbacks_exn returns to.
LEMMA ReturnIs ==
    ASSUME IInv, NEW w \in Workers, Return(w)
    PROVE  \E fr : Returned(frame[w], fr) /\ frame' = [frame EXCEPT ![w] = fr]
<1>1. frame \in [Workers -> FrameSet] /\ frame[w] \in FrameSet
  BY Setup
<1>2. PICK x : x = IF frame[w].fn = "young" THEN [frame[w] EXCEPT !.pc = "sampled", !.cb = "none"]
                   ELSE [None EXCEPT !.fn = frame[w].fn, !.pc = "loop"]
  OBVIOUS
<1>3. frame' = [frame EXCEPT ![w] = x]
  BY ONLY <1>1, <1>2, Return(w) DEF Return
<1>4. Returned(frame[w], x)
  <2>1. CASE frame[w].fn = "young"
    <3>1. x = [frame[w] EXCEPT !.pc = "sampled", !.cb = "none"]
      BY <1>2, <2>1
    <3> QED BY ONLY <3>1, <2>1, <1>1 DEF Returned, FrameSet
  <2>2. CASE frame[w].fn # "young"
    <3>1. x = [fn |-> frame[w].fn, pc |-> "loop", cb |-> "none", id |-> 0]
      BY <1>2, <2>2 DEF None
    <3> QED BY ONLY <3>1, <2>2, <1>1 DEF Returned, FrameSet
  <2> QED BY <2>1, <2>2
<1> QED BY <1>3, <1>4

\* handle_entry_callbacks_exn, when it finds nothing to call.
LEMMA NoCallKeeps ==
    ASSUME IInv, NEW w \in Workers, handle_entry(w), bound' = bound,
           NEW i, i = trackst.idx[w], NEW e, e = trackst.entries[i], e.deleted \/ e.running \/ Due(e) = "none"
    PROVE  IInv'
<1>1. /\ cur = w /\ frame[w].fn # "none" /\ frame[w].pc = "entry"
      /\ UNCHANGED <<started, starts, cur, suspended, ctx, pending, used, place, calls>>
  BY DEF handle_entry, Step
<1>2. i # 0 /\ Shape(frame[w]) /\ trackst \in TrackSet /\ Tracking(trackst, w, frame, used, place, calls)
  BY <1>1, Setup DEF ThreadOK
<1>3. /\ e \in EntrySet /\ e.id \in 1..used /\ Remembered(e, i, trackst.young) /\ i \in Nat /\ i >= 1
      /\ i <= Len(trackst.entries) /\ Holds(w, frame[w], e) /\ Owned(e, i, trackst, frame)
      /\ EntryOK(e, place[e.id], calls[e.id], Hand(trackst, w, frame, i))
      /\ (place[e.id].at = "dropped" <=> e.deleted) /\ (place[e.id].at = "dropped" => calls[e.id] = <<>>)
      /\ i \in DOMAIN trackst.entries
  BY <1>1, <1>2, InHandFacts
<1>4. EntryOK(e, place[e.id], calls[e.id], "none")
  BY ONLY <1>1, <1>3 DEF Hand
<1>5. (e.idx_ptr # 0 => e.idx_ptr # w) /\ (e.running => e.idx_ptr # 0)
  <2>1. e.idx_ptr # 0 => e.idx_ptr # w
    BY ONLY <1>1, <1>2, <1>3, w \in Workers, e = trackst.entries[i], NotRunningFree
  <2>2. e.running => e.idx_ptr # 0
    BY ONLY <1>3 DEF Owned
  <2> QED BY <2>1, <2>2
<1>6. PICK c \in Nat : c = IF frame[w].cb = "none" /\ i = trackst.callback THEN i + 1 ELSE trackst.callback
  <2>1. i + 1 \in Nat /\ trackst.callback \in Nat
    BY ONLY <1>3, IInv, PositionFacts
  <2> QED BY ONLY <2>1
<1>7. PICK x \in {0, i} : x = IF frame[w].fn = "young" THEN i ELSE 0
  OBVIOUS
<1>8. trackst' = Left([trackst EXCEPT !.callback = c], w) /\ Return(w)
  BY ONLY <1>6, handle_entry(w), i = trackst.idx[w], e = trackst.entries[i], e.deleted \/ e.running \/ Due(e) = "none"
     DEF handle_entry
<1>9. Updated(trackst, trackst', w, i, e, trackst.young, c, trackst.delete, x)
  <2>1. [trackst.entries EXCEPT ![i] = e] = trackst.entries
    BY ONLY <1>2, <1>3, e = trackst.entries[i], TrackFacts
  <2>2. trackst' = [entries |-> trackst.entries, young |-> trackst.young, callback |-> c, delete |-> trackst.delete,
                    idx |-> [trackst.idx EXCEPT ![w] = x]]
    <3>1. CASE frame[w].fn = "young"
      <4>1. [trackst.idx EXCEPT ![w] = i] = trackst.idx
        BY ONLY <1>2, i = trackst.idx[w], TrackFacts, w \in Workers
      <4>2. trackst' = [trackst EXCEPT !.callback = c]
        BY ONLY <1>8, <3>1 DEF Left
      <4>3. trackst' = [entries |-> trackst.entries, young |-> trackst.young, callback |-> c, delete |-> trackst.delete,
                        idx |-> trackst.idx]
        BY ONLY <4>2, <1>2 DEF TrackSet
      <4> QED BY ONLY <4>1, <4>3, <3>1, <1>7
    <3>2. CASE frame[w].fn # "young"
      <4>1. trackst' = [[trackst EXCEPT !.callback = c] EXCEPT !.idx[w] = 0]
        BY ONLY <1>8, <3>2 DEF Left, Invalid
      <4> QED BY ONLY <4>1, <3>2, <1>2, <1>7 DEF TrackSet
    <3> QED BY <3>1, <3>2
  <2> QED BY ONLY <2>1, <2>2 DEF Updated
<1>10. NewPositions(trackst, i, trackst.young, c, trackst.delete)
  BY ONLY <1>6, IInv, PositionFacts DEF NewPositions, Position
<1>11. PICK fr : Returned(frame[w], fr) /\ frame' = [frame EXCEPT ![w] = fr]
  BY <1>8, ReturnIs
<1>12. /\ fr \in FrameSet /\ fr.fn = frame[w].fn /\ fr.cb = "none" /\ fr.pc \in {"sampled", "loop"}
       /\ frame[w].fn = "young" => fr.pc = "sampled" /\ fr.id = frame[w].id
       /\ frame[w].fn # "young" => fr.pc = "loop"
  BY ONLY <1>11 DEF Returned
<1>13. NewEntry(w, fr, i, e, e, x, c, trackst.young, place[e.id], calls[e.id])
  BY ONLY <1>3, <1>4, <1>5, <1>12, e.deleted \/ e.running \/ Due(e) = "none" DEF NewEntry
<1>14. NewFrame(w, fr, e, x, used, place)
  BY ONLY <1>1, <1>2, <1>3, <1>7, <1>12 DEF NewFrame, Shape, Holds, Free
<1>15. OnlyPlace(place, calls, place', calls', e.id)
  BY <1>1 DEF OnlyPlace
<1>16. EntryAct(i, e, trackst.young, c, trackst.delete, x, fr)
  <2>1. trackst.young \in Nat /\ trackst.delete \in Nat
    BY PositionFacts
  <2> QED BY ONLY <2>1, <1>1, <1>2, <1>3, <1>9, <1>10, <1>11, <1>12, <1>13, <1>14, <1>15, c \in Nat, x \in {0, i},
                  i = trackst.idx[w], e = trackst.entries[i] DEF EntryAct
<1> QED BY <1>1, <1>12, <1>16, Setup, EntryAction

\* handle_entry_callbacks_exn, up to the call of a callback or to its end.
LEMMA HandleEntryKeeps ==
    ASSUME IInv, NEW w \in Workers, handle_entry(w), bound' = bound
    PROVE  IInv'
<1>1. PICK i : i = trackst.idx[w]
  OBVIOUS
<1>2. PICK e : e = trackst.entries[i]
  OBVIOUS
<1>3. CASE e.deleted \/ e.running \/ Due(e) = "none"
  BY ONLY <1>1, <1>2, <1>3, IInv, w \in Workers, handle_entry(w), bound' = bound, NoCallKeeps
<1>4. CASE ~(e.deleted \/ e.running \/ Due(e) = "none")
  BY ONLY <1>1, <1>2, <1>4, IInv, w \in Workers, handle_entry(w), bound' = bound, CallKeeps
<1> QED BY <1>3, <1>4

\* The entry whose callback runs.
RunningEntry(e, d, w) == d = [e EXCEPT !.user_data = Unit, !.running = TRUE, !.idx_ptr = w]

\* Sequences of two and three, one by one.
LEMMA AppendOne ==
    ASSUME NEW a, NEW b
    PROVE  Append(<<a>>, b) = <<a, b>>
<1> DEFINE T == {a, b}
<1>1. <<a>> \in Seq(T) /\ b \in T /\ <<a, b>> \in Seq(T)
  OBVIOUS
<1> HIDE DEF T
<1>2. PICK r : r = Append(<<a>>, b)
  OBVIOUS
<1>3. r \in Seq(T) /\ Len(r) = 2 /\ r[1] = a /\ r[2] = b
  BY <1>1, <1>2
<1>4. PICK q : q = <<a, b>>
  OBVIOUS
<1>5. q \in Seq(T) /\ Len(q) = 2 /\ q[1] = a /\ q[2] = b
  BY <1>1, <1>4
<1>6. r = q
  BY <1>3, <1>5, SeqEqual
<1> QED BY <1>2, <1>4, <1>6

\* A third is added to a sequence of two.
LEMMA AppendTwo ==
    ASSUME NEW a, NEW b, NEW c
    PROVE  Append(<<a, b>>, c) = <<a, b, c>>
<1> DEFINE T == {a, b, c}
<1>1. <<a, b>> \in Seq(T) /\ c \in T /\ <<a, b, c>> \in Seq(T)
  OBVIOUS
<1> HIDE DEF T
<1>2. PICK r : r = Append(<<a, b>>, c)
  OBVIOUS
<1>3. r \in Seq(T) /\ Len(r) = 3 /\ r[1] = a /\ r[2] = b /\ r[3] = c
  BY <1>1, <1>2
<1>4. PICK q : q = <<a, b, c>>
  OBVIOUS
<1>5. q \in Seq(T) /\ Len(q) = 3 /\ q[1] = a /\ q[2] = b /\ q[3] = c
  BY <1>1, <1>4
<1>6. r = q
  BY <1>3, <1>5, SeqEqual
<1> QED BY <1>2, <1>4, <1>6

\* run_callback_exn makes the call that was chosen, with the value that the entry kept.
MakesCall(w, e, p, c, cb, d, h) ==
    /\ w \in Workers /\ e \in EntrySet /\ cb \in CallbackSet /\ cb = LastOf(e.called) /\ ~e.running
    /\ Tracked(e, p, c, cb) /\ RunningEntry(e, d, w)
    /\ h = Append(c, <<Callback(e, cb), e.user_data.of, e.user_data.from>>)

\* The entry whose callback was just called, and the history of its calls.
LEMMA CallMade ==
    ASSUME NEW w, NEW e, NEW p, NEW c, NEW cb, NEW d, NEW h, MakesCall(w, e, p, c, cb, d, h)
    PROVE  /\ d \in EntrySet /\ Tracked(d, p, h, "none") /\ d.id = e.id /\ d.block = e.block /\ d.user_data = Unit
           /\ d.called = e.called /\ d.deleted = e.deleted /\ d.running /\ d.idx_ptr = w
<1>0. /\ w \in Workers /\ e \in EntrySet /\ cb \in CallbackSet /\ cb = LastOf(e.called) /\ ~e.running
      /\ Tracked(e, p, c, cb) /\ RunningEntry(e, d, w)
      /\ h = Append(c, <<Callback(e, cb), e.user_data.of, e.user_data.from>>)
  BY DEF MakesCall
<1> USE <1>0
<1>1. /\ d \in EntrySet /\ d.id = e.id /\ d.block = e.block /\ d.user_data = Unit /\ d.called = e.called
      /\ d.deleted = e.deleted /\ d.running = TRUE /\ d.idx_ptr = w
      /\ d.alloc_young = e.alloc_young /\ d.promoted = e.promoted /\ d.deallocated = e.deallocated
  BY DEF RunningEntry, EntrySet, DataSet, Unit
<1>2. Agrees(d, p) /\ CalledOK(d) /\ DataOK(d, "none")
  BY <1>1 DEF Tracked, Agrees, CalledOK, DataOK
<1>3. e.called \subseteq CallbackSet /\ e.called \ {"none"} = e.called /\ CalledOK(e) /\ cb \in e.called
  BY DEF EntrySet, CallbackSet, Tracked, LastOf
<1>4. e.user_data.of = e.id /\ e.user_data.from = LastOf(e.called \ {cb}) /\ c = History(e, e.called \ {cb})
  BY DEF Tracked, DataOK
<1>5. h = History(e, e.called)
  <2>1. h = Append(c, <<Callback(e, cb), e.id, LastOf(e.called \ {cb})>>)
    BY <1>4
  <2>2. CASE cb = "alloc"
    <3>1. "dealloc" \notin e.called /\ "promote" \notin e.called
      BY ONLY <2>2, cb = LastOf(e.called) DEF LastOf
    <3>2. c = <<>> /\ LastOf(e.called \ {cb}) = "stack"
      BY ONLY <3>1, <1>4, <2>2 DEF History, LastOf
    <3>3. Callback(e, cb) = IF e.alloc_young THEN "alloc_minor" ELSE "alloc_major"
      BY ONLY <2>2 DEF Callback
    <3>4. h = <<AllocCall(e)>>
      BY ONLY <2>1, <3>2, <3>3 DEF AllocCall
    <3> QED BY ONLY <3>1, <3>4, <1>3, <2>2 DEF History
  <2>3. CASE cb = "promote"
    <3>1. "dealloc" \notin e.called /\ "alloc" \in e.called /\ "promote" \in e.called
      BY ONLY <2>3, cb = LastOf(e.called), <1>3 DEF LastOf, CalledOK
    <3>2. c = <<AllocCall(e)>> /\ LastOf(e.called \ {cb}) = "alloc"
      BY ONLY <3>1, <1>4, <2>3 DEF History, LastOf
    <3>3. Callback(e, cb) = "promote"
      BY ONLY <2>3 DEF Callback
    <3>4. h = <<AllocCall(e), PromoteCall(e)>>
      <4>1. PICK a : a = AllocCall(e)
        OBVIOUS
      <4>2. PICK b : b = PromoteCall(e)
        OBVIOUS
      <4>3. h = Append(<<a>>, b)
        BY ONLY <2>1, <3>2, <3>3, <4>1, <4>2 DEF PromoteCall
      <4>4. h = <<a, b>>
        BY ONLY <4>3, AppendOne
      <4> QED BY ONLY <4>1, <4>2, <4>4
    <3> QED BY ONLY <3>1, <3>4 DEF History
  <2>4. CASE cb = "dealloc"
    <3>1. "dealloc" \in e.called /\ "alloc" \in e.called /\ (e.promoted => "promote" \in e.called)
             /\ ("promote" \in e.called => e.promoted)
      BY ONLY <2>4, <1>3 DEF CalledOK
    <3>2. Callback(e, cb) = IF e.promoted \/ ~e.alloc_young THEN "dealloc_major" ELSE "dealloc_minor"
      BY ONLY <2>4 DEF Callback
    <3>3. PICK a : a = AllocCall(e)
      OBVIOUS
    <3>4. PICK b : b = PromoteCall(e)
      OBVIOUS
    <3>5. PICK z : z = DeallocCall(e)
      OBVIOUS
    <3>6. CASE e.promoted
      <4>1. c = <<a, b>> /\ LastOf(e.called \ {cb}) = "promote"
        BY ONLY <3>1, <3>3, <3>4, <3>6, <1>4, <2>4 DEF History, LastOf
      <4>2. h = Append(<<a, b>>, z)
        BY ONLY <2>1, <4>1, <3>2, <3>5, <3>6 DEF DeallocCall
      <4>3. h = <<a, b, z>>
        BY ONLY <4>2, AppendTwo
      <4> QED BY ONLY <4>3, <3>1, <3>3, <3>4, <3>5, <3>6 DEF History
    <3>7. CASE ~e.promoted
      <4>1. c = <<a>> /\ LastOf(e.called \ {cb}) = "alloc"
        BY ONLY <3>1, <3>3, <3>4, <3>7, <1>4, <2>4 DEF History, LastOf
      <4>2. h = Append(<<a>>, z)
        BY ONLY <2>1, <4>1, <3>2, <3>5, <3>7 DEF DeallocCall
      <4>3. h = <<a, z>>
        BY ONLY <4>2, AppendOne
      <4> QED BY ONLY <4>3, <3>1, <3>3, <3>4, <3>5, <3>7 DEF History
    <3> QED BY <3>6, <3>7
  <2> QED BY <2>2, <2>3, <2>4 DEF CallbackSet
<1>6. h = History(d, d.called \ {"none"})
  BY ONLY <1>1, <1>3, <1>5 DEF History, AllocCall, PromoteCall, DeallocCall
<1> QED BY <1>1, <1>2, <1>6 DEF Tracked

\* run_callback_exn, up to the callback.
LEMMA RunCallbackKeeps ==
    ASSUME IInv, NEW w \in Workers, run_callback(w), bound' = bound, 0 \notin Workers
    PROVE  IInv'
<1>1. /\ cur = w /\ frame[w].fn # "none" /\ frame[w].pc = "call"
      /\ UNCHANGED <<started, starts, cur, suspended, ctx, pending, used, place>>
  BY DEF run_callback, Step
<1>2. PICK i : i = trackst.idx[w]
  OBVIOUS
<1>3. /\ i # 0 /\ Shape(frame[w]) /\ trackst \in TrackSet /\ frame[w] \in FrameSet
      /\ 1..used \subseteq 1..Samples /\ DOMAIN calls = 1..Samples
  BY <1>1, <1>2, Setup DEF ThreadOK
<1>4. PICK e \in EntrySet : e = trackst.entries[i]
  BY <1>1, <1>2, <1>3, InHandFacts
<1>5. /\ e.id \in 1..used /\ Remembered(e, i, trackst.young) /\ i \in Nat /\ i >= 1 /\ e.id = frame[w].id
      /\ i <= Len(trackst.entries) /\ Holds(w, frame[w], e)
      /\ EntryOK(e, place[e.id], calls[e.id], Hand(trackst, w, frame, i))
      /\ (place[e.id].at = "dropped" <=> e.deleted) /\ i \in DOMAIN trackst.entries
  BY <1>1, <1>2, <1>3, <1>4, InHandFacts
<1>6. PICK cb \in CallbackSet : /\ cb = frame[w].cb /\ cb = LastOf(e.called) /\ ~e.running /\ ~e.deleted /\ e.idx_ptr = 0
                                /\ (frame[w].fn = "young" => e.block = "placeholder")
  BY ONLY <1>1, <1>5 DEF Holds, Free
<1>7. Tracked(e, place[e.id], calls[e.id], cb)
  BY ONLY <1>1, <1>2, <1>5, <1>6 DEF EntryOK, Hand
<1>8. PICK h : h = Append(calls[e.id], <<Callback(e, cb), e.user_data.of, e.user_data.from>>)
  OBVIOUS
<1>9. PICK d : RunningEntry(e, d, w)
  BY DEF RunningEntry
<1>10. /\ d \in EntrySet /\ Tracked(d, place[e.id], h, "none") /\ d.id = e.id /\ d.block = e.block /\ d.user_data = Unit
       /\ d.called = e.called /\ d.deleted = e.deleted /\ d.running /\ d.idx_ptr = w
  <2>1. MakesCall(w, e, place[e.id], calls[e.id], cb, d, h)
    BY ONLY <1>6, <1>7, <1>8, <1>9, w \in Workers, e \in EntrySet, cb \in CallbackSet DEF MakesCall
  <2> QED BY ONLY <2>1, CallMade
<1>11. ~d.deleted
  BY ONLY <1>6, <1>10, Zenon
<1>12. Updated(trackst, trackst', w, i, d, trackst.young, trackst.callback, trackst.delete, i)
  <2>1. trackst' = [trackst EXCEPT !.entries[i] = [@ EXCEPT !.user_data = Unit, !.running = TRUE, !.idx_ptr = w]]
    BY ONLY <1>2, run_callback(w) DEF run_callback
  <2>2. [trackst.idx EXCEPT ![w] = i] = trackst.idx
    BY ONLY <1>2, <1>3, w \in Workers, TrackFacts
  <2>3. trackst' = [trackst EXCEPT !.entries[i] = d]
    BY ONLY <2>1, <1>4, <1>9 DEF RunningEntry
  <2>4. trackst' = [entries |-> [trackst.entries EXCEPT ![i] = d], young |-> trackst.young, callback |-> trackst.callback,
                    delete |-> trackst.delete, idx |-> trackst.idx]
    BY ONLY <2>3, <1>3 DEF TrackSet
  <2> QED BY ONLY <2>2, <2>4 DEF Updated
<1>13. NewPositions(trackst, i, trackst.young, trackst.callback, trackst.delete)
  BY ONLY IInv, PositionFacts DEF NewPositions, Position
<1>14. PICK fr : fr = [frame[w] EXCEPT !.pc = "callback"]
  OBVIOUS
<1>15. /\ fr \in FrameSet /\ fr.pc = "callback" /\ fr.fn = frame[w].fn /\ fr.id = frame[w].id /\ fr.cb = cb
  BY ONLY <1>3, <1>6, <1>14 DEF FrameSet
<1>16. frame' = [frame EXCEPT ![w] = fr]
  BY ONLY <1>14, run_callback(w) DEF run_callback, Goto
<1>17. /\ calls' = [calls EXCEPT ![e.id] = h] /\ DOMAIN calls' = 1..Samples /\ calls'[e.id] = h
       /\ OnlyPlace(place, calls, place', calls', e.id)
  <2>1. calls' = [calls EXCEPT ![e.id] = h]
    BY ONLY <1>2, <1>4, <1>5, <1>6, <1>8, run_callback(w) DEF run_callback
  <2>2. e.id \in DOMAIN calls /\ DOMAIN calls = 1..Samples
    BY ONLY <1>3, <1>5
  <2>3. DOMAIN place = 1..Samples
    BY Setup
  <2> QED BY ONLY <2>1, <2>2, <2>3, <1>1 DEF OnlyPlace
<1>18. NewEntry(w, fr, i, e, d, i, trackst.callback, trackst.young, place[e.id], h)
  <2>1. EntryOK(d, place[e.id], h, "none")
    BY ONLY <1>10, <1>11 DEF EntryOK
  <2>2. Remembered(d, i, trackst.young)
    BY ONLY <1>5, <1>10 DEF Remembered, Unit
  <2>3. place[e.id].at # "dropped"
    BY ONLY <1>5, <1>6, Zenon
  <2>4. e.idx_ptr \in {0, w} /\ d.id = e.id /\ d.idx_ptr = w /\ i # 0 /\ w # 0
    BY ONLY <1>3, <1>6, <1>10, w \in Workers, 0 \notin Workers
  <2> QED BY ONLY <2>1, <2>2, <2>3, <2>4, <1>11, <1>15 DEF NewEntry
<1>19. NewFrame(w, fr, d, i, used, place)
  BY ONLY <1>1, <1>3, <1>5, <1>6, <1>10, <1>11, <1>15 DEF NewFrame, Shape, Holds, Free
<1>20. EntryAct(i, d, trackst.young, trackst.callback, trackst.delete, i, fr)
  <2>1. trackst.young \in Nat /\ trackst.delete \in Nat /\ trackst.callback \in Nat
    BY PositionFacts
  <2>2. /\ i = trackst.idx[cur] /\ i # 0 /\ d \in EntrySet /\ i \in {0, i} /\ fr \in FrameSet
        /\ Updated(trackst, trackst', cur, i, d, trackst.young, trackst.callback, trackst.delete, i)
        /\ frame' = [frame EXCEPT ![cur] = fr]
    BY ONLY <1>1, <1>2, <1>3, <1>10, <1>12, <1>15, <1>16
  <2>3. /\ OnlyPlace(place, calls, place', calls', trackst.entries[i].id)
        /\ place[trackst.entries[i].id].at = "dropped" => place'[trackst.entries[i].id].at = "dropped"
        /\ NewEntry(cur, fr, i, trackst.entries[i], d, i, trackst.callback, trackst.young,
                    place'[trackst.entries[i].id], calls'[trackst.entries[i].id])
        /\ NewFrame(cur, fr, d, i, used, place')
    <3>1. place' = place /\ cur = w
      BY ONLY <1>1
    <3> QED BY ONLY <3>1, <1>4, <1>17, <1>18, <1>19
  <2> QED BY ONLY <2>1, <2>2, <2>3, <1>13 DEF EntryAct
<1>21. place' \in [1..Samples -> PlaceSet]
  BY <1>1, Setup
<1> QED BY ONLY <1>1, <1>15, <1>17, <1>20, <1>21, IInv, bound' = bound, EntryAction

\* What Discard does.
LEMMA DiscardIs ==
    ASSUME IInv, NEW ids, Discard(ids)
    PROVE  /\ place' \in [1..Samples -> PlaceSet] /\ DOMAIN place' = 1..Samples /\ DOMAIN calls' = 1..Samples
           /\ \A id \in 1..Samples : id \in ids => place'[id].at = "dropped" /\ calls'[id] = <<>>
           /\ \A id \in 1..Samples : id \notin ids => place'[id] = place[id] /\ calls'[id] = calls[id]
<1>1. place \in [1..Samples -> PlaceSet]
  BY Setup
<1>2. PICK z : z = [Nowhere EXCEPT !.at = "dropped"]
  OBVIOUS
<1>3. z \in PlaceSet /\ z.at = "dropped"
  BY ONLY <1>2 DEF Nowhere, PlaceSet
<1>4. /\ place' = [id \in 1..Samples |-> IF id \in ids THEN z ELSE place[id]]
      /\ calls' = [id \in 1..Samples |-> IF id \in ids THEN <<>> ELSE calls[id]]
  BY ONLY <1>2, Discard(ids) DEF Discard
<1> QED BY ONLY <1>1, <1>3, <1>4

\* What a thread knows when the callback it made returns.
LEMMA ReturnFacts ==
    ASSUME IInv, NEW w \in Workers, NEW res, CallbackReturns(w, res)
    PROVE  /\ cur = w /\ frame[w].fn # "none" /\ frame[w].pc = "callback" /\ frame[w] \in FrameSet
           /\ cur' = cur /\ suspended' = suspended /\ ctx' = ctx /\ pending' = pending /\ used' = used
           /\ (frame[w].cb = "dealloc" => res # "some")
           /\ Discard(IF res = "some" THEN {} ELSE {frame[w].id})
           /\ frame[w].id \in 1..used /\ 1..used \subseteq 1..Samples
           /\ trackst.idx[w] = 0 => place[frame[w].id].at = "dropped"
           /\ Shape(frame[w]) /\ trackst \in TrackSet /\ trackst.idx[w] \in Nat
<1>1. /\ cur = w /\ frame[w].fn # "none" /\ frame[w].pc = "callback"
      /\ cur' = cur /\ suspended' = suspended /\ ctx' = ctx /\ pending' = pending /\ used' = used
      /\ (frame[w].cb = "dealloc" => res # "some")
      /\ Discard(IF res = "some" THEN {} ELSE {frame[w].id})
  BY ONLY CallbackReturns(w, res) DEF CallbackReturns, Step
<1>2. ThreadOK(trackst, w, frame[w], used, place) /\ frame[w] \in FrameSet /\ trackst \in TrackSet
      /\ 1..used \subseteq 1..Samples /\ Shape(frame[w])
  BY <1>1, Setup
<1>3. frame[w].id \in 1..used /\ (trackst.idx[w] = 0 => place[frame[w].id].at = "dropped")
  BY ONLY <1>1, <1>2 DEF ThreadOK
<1>4. trackst.idx[w] \in Nat
  BY ONLY <1>2, w \in Workers, TrackFacts
<1> QED BY ONLY <1>1, <1>2, <1>3, <1>4

\* The profiler was stopped while the callback ran.
LEMMA LateReturnKeeps ==
    ASSUME IInv, NEW w \in Workers, NEW res, CallbackReturns(w, res), bound' = bound, trackst.idx[w] = 0
    PROVE  IInv'
<1>1. /\ cur = w /\ frame[w].fn # "none" /\ frame[w].pc = "callback" /\ frame[w] \in FrameSet
      /\ cur' = cur /\ suspended' = suspended /\ ctx' = ctx /\ pending' = pending /\ used' = used
      /\ Discard(IF res = "some" THEN {} ELSE {frame[w].id})
      /\ frame[w].id \in 1..used /\ 1..used \subseteq 1..Samples /\ place[frame[w].id].at = "dropped"
      /\ Shape(frame[w]) /\ trackst \in TrackSet
  BY ReturnFacts
<1>2. trackst' = trackst /\ Return(w)
  BY ONLY trackst.idx[w] = 0, CallbackReturns(w, res) DEF CallbackReturns, Invalid
<1>3. PICK fr : Returned(frame[w], fr) /\ frame' = [frame EXCEPT ![w] = fr]
  BY ONLY <1>2, IInv, w \in Workers, ReturnIs
<1>4. fr \in FrameSet /\ fr.fn = frame[w].fn /\ fr.cb = "none" /\ fr.pc \in {"sampled", "loop"} /\ Shape(fr)
  BY ONLY <1>1, <1>3 DEF Returned, Shape
<1>5. PICK ids : ids = (IF res = "some" THEN {} ELSE {frame[w].id}) /\ Discard(ids) /\ ids \subseteq {frame[w].id}
  BY ONLY <1>1
<1>6. /\ place' \in [1..Samples -> PlaceSet] /\ DOMAIN place' = 1..Samples /\ DOMAIN calls' = 1..Samples
      /\ \A id \in 1..Samples : id \in ids => place'[id].at = "dropped" /\ calls'[id] = <<>>
      /\ \A id \in 1..Samples : id \notin ids => place'[id] = place[id] /\ calls'[id] = calls[id]
  BY ONLY <1>5, IInv, DiscardIs
<1>7. SamePlaces(place, calls, place', calls') /\ 1..used \subseteq DOMAIN place
  <2>1. DOMAIN place = 1..Samples
    BY Setup
  <2> QED BY ONLY <2>1, <1>1, <1>5, <1>6 DEF SamePlaces
<1>8. /\ frame' \in [Workers -> FrameSet] /\ frame'[w] = fr /\ OnlyFrame(frame, frame', w)
  <2>1. frame \in [Workers -> FrameSet]
    BY Setup
  <2> QED BY ONLY <2>1, <1>3, <1>4, w \in Workers, FrameUpdated
<1>9. Tracking(trackst, w, frame', used, place', calls')
  <2>1. Tracking(trackst, w, frame, used, place, calls) /\ used \in Nat
    BY <1>1, Setup
  <2>2. Shape(frame'[w]) /\ frame'[w].pc \notin {"entry", "call", "callback"}
    BY ONLY <1>4, <1>8
  <2> QED BY ONLY <2>1, <2>2, <1>1, <1>7, <1>8, w \in Workers, trackst.idx[w] = 0, FrameFree
<1>10. pending' \in BOOLEAN
  BY <1>1, Setup
<1>11. frame'[w].fn # "none" /\ frame'[w].pc # "place"
  BY ONLY <1>1, <1>4, <1>8
<1> QED BY ONLY <1>1, <1>2, <1>6, <1>8, <1>9, <1>10, <1>11, IInv, bound' = bound, StepKeeps

\* The callback returned a value, which the entry keeps.
KeepsValue(e, d, cb, at) ==
    d = [e EXCEPT !.running = FALSE, !.idx_ptr = 0, !.user_data = UserData(e.id, cb, at)]

\* The entry whose callback has returned Some of a value.
LEMMA ValueKept ==
    ASSUME NEW e \in EntrySet, NEW p, NEW c, NEW cb \in CallbackSet, cb = LastOf(e.called), NEW at \in {"young", "old"},
           Tracked(e, p, c, "none"), NEW d, KeepsValue(e, d, cb, at), ~e.deleted
    PROVE  /\ d \in EntrySet /\ Tracked(d, p, c, "none") /\ d.id = e.id /\ d.block = e.block /\ d.user_data.at = at
           /\ d.called = e.called /\ Free(d)
<1>1. UserData(e.id, cb, at) \in DataSet
  BY DEF UserData, DataSet, EntrySet
<1>2. /\ d \in EntrySet /\ d.id = e.id /\ d.block = e.block /\ d.user_data = UserData(e.id, cb, at) /\ d.called = e.called
      /\ d.deleted = e.deleted /\ d.running = FALSE /\ d.idx_ptr = 0
      /\ d.alloc_young = e.alloc_young /\ d.promoted = e.promoted /\ d.deallocated = e.deallocated
  BY <1>1 DEF KeepsValue, EntrySet
<1>3. d.user_data.of = d.id /\ d.user_data.from = cb /\ d.user_data.at = at
  BY ONLY <1>2 DEF UserData
<1>4. e.called \ {"none"} = e.called
  BY DEF EntrySet, CallbackSet
<1>5. Agrees(d, p) /\ CalledOK(d)
  BY ONLY <1>2, Tracked(e, p, c, "none") DEF Tracked, Agrees, CalledOK
<1>6. DataOK(d, "none")
  BY ONLY <1>2, <1>3, <1>4, cb = LastOf(e.called), at \in {"young", "old"} DEF DataOK
<1>7. c = History(d, d.called \ {"none"})
  BY ONLY <1>2, Tracked(e, p, c, "none") DEF Tracked, History, AllocCall, PromoteCall, DeallocCall
<1>8. Free(d)
  BY ONLY <1>2, ~e.deleted DEF Free
<1> QED BY ONLY <1>2, <1>3, <1>5, <1>6, <1>7, <1>8 DEF Tracked

\* A callback returns a value, which the entry keeps; young is moved back for one in the minor
\* heap.
LEMMA ValueReturnKeeps ==
    ASSUME IInv, NEW w \in Workers, CallbackReturns(w, "some"), bound' = bound, trackst.idx[w] # 0
    PROVE  IInv'
<1>1. /\ cur = w /\ frame[w].fn # "none" /\ frame[w].pc = "callback" /\ frame[w] \in FrameSet
      /\ cur' = cur /\ suspended' = suspended /\ ctx' = ctx /\ pending' = pending /\ used' = used
      /\ Discard({}) /\ frame[w].id \in 1..used /\ 1..used \subseteq 1..Samples
      /\ Shape(frame[w]) /\ trackst \in TrackSet
  <2>1. Discard(IF "some" = "some" THEN {} ELSE {frame[w].id})
    BY ReturnFacts
  <2> QED BY <2>1, ReturnFacts
<1>2. PICK i : i = trackst.idx[w] /\ i # 0
  OBVIOUS
<1>3. PICK e \in EntrySet : e = trackst.entries[i]
  BY <1>1, <1>2, InHandFacts
<1>4. /\ e.id \in 1..used /\ Remembered(e, i, trackst.young) /\ i \in Nat /\ i >= 1 /\ e.id = frame[w].id
      /\ i <= Len(trackst.entries) /\ Holds(w, frame[w], e)
      /\ EntryOK(e, place[e.id], calls[e.id], Hand(trackst, w, frame, i))
      /\ (place[e.id].at = "dropped" <=> e.deleted) /\ i \in DOMAIN trackst.entries
  BY <1>1, <1>2, <1>3, InHandFacts
<1>5. PICK cb \in CallbackSet : /\ cb = frame[w].cb /\ cb = LastOf(e.called) /\ ~e.deleted /\ e.idx_ptr = w
                                /\ (frame[w].fn = "young" => e.block = "placeholder")
  BY ONLY <1>1, <1>4 DEF Holds
<1>6. Tracked(e, place[e.id], calls[e.id], "none") /\ place[e.id].at # "dropped"
  BY ONLY <1>1, <1>4, <1>5 DEF EntryOK, Hand
<1>7. PICK at \in {"young", "old"} :
        trackst' = [[trackst EXCEPT !.entries[i] = [@ EXCEPT !.running = FALSE, !.idx_ptr = 0]]
                      EXCEPT !.entries[i].user_data = UserData(frame[w].id, cb, at),
                             !.young = IF at = "young" /\ i < @ THEN i ELSE @]
  BY ONLY <1>2, <1>5, CallbackReturns(w, "some") DEF CallbackReturns, Invalid
<1>8. PICK d : KeepsValue(e, d, cb, at)
  BY DEF KeepsValue
<1>9. /\ d \in EntrySet /\ Tracked(d, place[e.id], calls[e.id], "none") /\ d.id = e.id /\ d.block = e.block
      /\ d.user_data.at = at /\ d.called = e.called /\ Free(d)
  BY ONLY <1>5, <1>6, <1>8, e \in EntrySet, cb \in CallbackSet, at \in {"young", "old"}, ValueKept
<1>10. PICK y \in Nat : y = IF at = "young" /\ i < trackst.young THEN i ELSE trackst.young
  <2>1. trackst.young \in Nat
    BY PositionFacts
  <2> QED BY ONLY <2>1, <1>4
<1>11. Updated(trackst, trackst', w, i, d, y, trackst.callback, trackst.delete, i)
  <2>1. [trackst.idx EXCEPT ![w] = i] = trackst.idx
    BY ONLY <1>1, <1>2, w \in Workers, TrackFacts
  <2>2. PICK a : a = [e EXCEPT !.running = FALSE, !.idx_ptr = 0]
    OBVIOUS
  <2>3. d = [a EXCEPT !.user_data = UserData(frame[w].id, cb, at)]
    BY ONLY <1>4, <1>8, <2>2, e \in EntrySet DEF KeepsValue, EntrySet
  <2>4. PICK s : s = [trackst EXCEPT !.entries[i] = a]
    OBVIOUS
  <2>5. PICK q : q = [trackst.entries EXCEPT ![i] = a]
    OBVIOUS
  <2>6. s = [entries |-> q, young |-> trackst.young, callback |-> trackst.callback, delete |-> trackst.delete, idx |-> trackst.idx]
    BY ONLY <2>4, <2>5, <1>1 DEF TrackSet
  <2>7. trackst' = [s EXCEPT !.entries[i].user_data = UserData(frame[w].id, cb, at), !.young = y]
    BY ONLY <1>3, <1>7, <1>10, <2>2, <2>4, <2>6
  <2>8. trackst' = [entries |-> [q EXCEPT ![i] = [q[i] EXCEPT !.user_data = UserData(frame[w].id, cb, at)]], young |-> y,
                    callback |-> trackst.callback, delete |-> trackst.delete, idx |-> trackst.idx]
    BY ONLY <2>6, <2>7
  <2>9. q[i] = a /\ [q EXCEPT ![i] = d] = [trackst.entries EXCEPT ![i] = d]
    BY ONLY <2>5, <1>1, <1>4, TrackFacts
  <2> QED BY ONLY <2>1, <2>3, <2>8, <2>9 DEF Updated
<1>12. NewPositions(trackst, i, y, trackst.callback, trackst.delete)
  BY ONLY <1>4, <1>10, IInv, PositionFacts DEF NewPositions, Position
<1>13. PICK fr : fr = [frame[w] EXCEPT !.pc = "entry"]
  OBVIOUS
<1>14. fr \in FrameSet /\ fr.pc = "entry" /\ fr.fn = frame[w].fn /\ fr.id = frame[w].id /\ fr.cb = cb
  BY ONLY <1>1, <1>5, <1>13 DEF FrameSet
<1>15. frame' = [frame EXCEPT ![w] = fr]
  BY ONLY <1>2, <1>13, CallbackReturns(w, "some") DEF CallbackReturns, Invalid, Goto
<1>16. /\ place' \in [1..Samples -> PlaceSet] /\ DOMAIN calls' = 1..Samples
       /\ OnlyPlace(place, calls, place', calls', e.id) /\ place'[e.id] = place[e.id] /\ calls'[e.id] = calls[e.id]
  <2>1. /\ place' \in [1..Samples -> PlaceSet] /\ DOMAIN place' = 1..Samples /\ DOMAIN calls' = 1..Samples
        /\ \A id \in 1..Samples : id \notin {} => place'[id] = place[id] /\ calls'[id] = calls[id]
    BY ONLY <1>1, IInv, DiscardIs
  <2>2. DOMAIN place = 1..Samples
    BY Setup
  <2>3. e.id \in 1..Samples
    BY ONLY <1>1, <1>4
  <2> QED BY ONLY <2>1, <2>2, <2>3 DEF OnlyPlace
<1>17. NewEntry(w, fr, i, e, d, i, trackst.callback, y, place'[e.id], calls'[e.id])
  <2>1. EntryOK(d, place'[e.id], calls'[e.id], "none") /\ ~d.deleted /\ ~d.running /\ d.idx_ptr = 0
    BY ONLY <1>9, <1>16 DEF EntryOK, Free
  <2>2. Remembered(d, i, y)
    BY ONLY <1>4, <1>9, <1>10, IInv, PositionFacts DEF Remembered
  <2>3. place'[e.id].at # "dropped" /\ e.idx_ptr \in {0, w}
    BY ONLY <1>5, <1>6, <1>16
  <2> QED BY ONLY <2>1, <2>2, <2>3, <1>2, <1>9, <1>14 DEF NewEntry
<1>18. NewFrame(w, fr, d, i, used, place')
  BY ONLY <1>1, <1>2, <1>4, <1>5, <1>9, <1>14 DEF NewFrame, Shape, Holds
<1>19. EntryAct(i, d, y, trackst.callback, trackst.delete, i, fr)
  <2>1. trackst.delete \in Nat /\ trackst.callback \in Nat
    BY PositionFacts
  <2> QED BY ONLY <2>1, <1>1, <1>2, <1>3, <1>6, <1>9, <1>11, <1>12, <1>14, <1>15, <1>16, <1>17, <1>18, y \in Nat DEF EntryAct
<1>20. fr.fn # "none" /\ fr.pc # "place" /\ frame[cur].fn # "none" /\ frame[cur].pc # "place"
  BY ONLY <1>1, <1>14
<1> QED BY ONLY <1>1, <1>16, <1>19, <1>20, IInv, bound' = bound, EntryAction

\* The callback returned None or unit, or raised: the entry is deleted.
LEMMA DropReturnKeeps ==
    ASSUME IInv, NEW w \in Workers, NEW res, res # "some", CallbackReturns(w, res), bound' = bound, trackst.idx[w] # 0
    PROVE  IInv'
<1>1. /\ cur = w /\ frame[w].fn # "none" /\ frame[w].pc = "callback" /\ frame[w] \in FrameSet
      /\ cur' = cur /\ suspended' = suspended /\ ctx' = ctx /\ pending' = pending /\ used' = used
      /\ Discard({frame[w].id}) /\ frame[w].id \in 1..used /\ 1..used \subseteq 1..Samples
      /\ Shape(frame[w]) /\ trackst \in TrackSet
  <2>1. Discard(IF res = "some" THEN {} ELSE {frame[w].id})
    BY ReturnFacts
  <2> QED BY <2>1, ReturnFacts
<1>2. PICK i : i = trackst.idx[w] /\ i # 0
  OBVIOUS
<1>3. PICK e \in EntrySet : e = trackst.entries[i]
  BY <1>1, <1>2, InHandFacts
<1>4. /\ e.id \in 1..used /\ i \in Nat /\ i >= 1 /\ e.id = frame[w].id
      /\ i <= Len(trackst.entries) /\ Holds(w, frame[w], e) /\ i \in DOMAIN trackst.entries
  BY <1>1, <1>2, <1>3, InHandFacts
<1>5. e.idx_ptr = w
  BY ONLY <1>1, <1>4 DEF Holds
<1>6. PICK a : a = [e EXCEPT !.running = FALSE, !.idx_ptr = 0]
  OBVIOUS
<1>7. PICK d : d = [a EXCEPT !.deleted = TRUE, !.user_data = Unit, !.block = "unit"]
  OBVIOUS
<1>8. /\ d \in EntrySet /\ d.id = e.id /\ d.deleted = TRUE /\ d.running = FALSE /\ d.idx_ptr = 0 /\ d.user_data = Unit
      /\ d.block = "unit"
  <2>1. Unit \in DataSet
    BY DEF Unit, DataSet
  <2> QED BY ONLY <2>1, <1>6, <1>7, e \in EntrySet DEF EntrySet
<1>9. PICK l \in Nat : l = IF i < trackst.delete THEN i ELSE trackst.delete
  <2>1. trackst.delete \in Nat
    BY PositionFacts
  <2> QED BY ONLY <2>1, <1>4
<1>10. Updated(trackst, trackst', w, i, d, trackst.young, trackst.callback, l, 0)
  <2>1. PICK q : q = [trackst.entries EXCEPT ![i] = a]
    OBVIOUS
  <2>2. PICK s : s = [trackst EXCEPT !.entries[i] = a]
    OBVIOUS
  <2>3. s = [entries |-> q, young |-> trackst.young, callback |-> trackst.callback, delete |-> trackst.delete, idx |-> trackst.idx]
    BY ONLY <2>1, <2>2, <1>1 DEF TrackSet
  <2>4. trackst' = [mark_deleted(s, i) EXCEPT !.idx[w] = 0]
    <3>1. s = [trackst EXCEPT !.entries[i] = [@ EXCEPT !.running = FALSE, !.idx_ptr = 0]]
      BY ONLY <2>2, <1>3, <1>6
    <3> QED BY ONLY <3>1, <1>2, res # "some", CallbackReturns(w, res) DEF CallbackReturns, Invalid
  <2>5. q[i] = a /\ [q EXCEPT ![i] = d] = [trackst.entries EXCEPT ![i] = d]
    BY ONLY <2>1, <1>1, <1>4, TrackFacts
  <2>6. PICK r : r = mark_deleted(s, i)
    OBVIOUS
  <2>7. r = [entries |-> [q EXCEPT ![i] = d], young |-> trackst.young, callback |-> trackst.callback, delete |-> l,
             idx |-> trackst.idx]
    BY ONLY <2>3, <2>5, <2>6, <1>7, <1>9 DEF mark_deleted
  <2>8. trackst' = [r EXCEPT !.idx[w] = 0]
    BY ONLY <2>4, <2>6
  <2> QED BY ONLY <2>5, <2>7, <2>8 DEF Updated
<1>11. NewPositions(trackst, i, trackst.young, trackst.callback, l)
  BY ONLY <1>4, <1>9, IInv, PositionFacts DEF NewPositions, Position
<1>12. PICK fr \in FrameSet : /\ frame' = [frame EXCEPT ![w] = fr] /\ fr.fn = frame[w].fn
                              /\ fr.pc \in {"raised", "sampled", "loop"} /\ Shape(fr)
  <2>1. CASE res = "raise"
    <3>1. PICK x : x = [frame[w] EXCEPT !.pc = "raised"]
      OBVIOUS
    <3>2. x \in FrameSet /\ x.fn = frame[w].fn /\ x.pc = "raised" /\ Shape(x)
      BY ONLY <3>1, <1>1 DEF FrameSet, Shape
    <3>3. frame' = [frame EXCEPT ![w] = x]
      BY ONLY <3>1, <2>1, <1>2, CallbackReturns(w, res) DEF CallbackReturns, Invalid, Goto
    <3> QED BY ONLY <3>2, <3>3
  <2>2. CASE res # "raise"
    <3>1. Return(w)
      BY ONLY <2>2, <1>2, res # "some", CallbackReturns(w, res) DEF CallbackReturns, Invalid
    <3>2. PICK x : Returned(frame[w], x) /\ frame' = [frame EXCEPT ![w] = x]
      BY ONLY <3>1, IInv, w \in Workers, ReturnIs
    <3> QED BY ONLY <3>2, <1>1 DEF Returned, Shape
  <2> QED BY <2>1, <2>2
<1>13. /\ place' \in [1..Samples -> PlaceSet] /\ DOMAIN calls' = 1..Samples
       /\ OnlyPlace(place, calls, place', calls', e.id) /\ place'[e.id].at = "dropped" /\ calls'[e.id] = <<>>
  <2>1. /\ place' \in [1..Samples -> PlaceSet] /\ DOMAIN place' = 1..Samples /\ DOMAIN calls' = 1..Samples
        /\ \A id \in 1..Samples : id \in {frame[w].id} => place'[id].at = "dropped" /\ calls'[id] = <<>>
        /\ \A id \in 1..Samples : id \notin {frame[w].id} => place'[id] = place[id] /\ calls'[id] = calls[id]
    BY ONLY <1>1, IInv, DiscardIs
  <2>2. DOMAIN place = 1..Samples
    BY Setup
  <2>3. e.id \in 1..Samples
    BY ONLY <1>1, <1>4
  <2> QED BY ONLY <2>1, <2>2, <2>3, <1>4 DEF OnlyPlace
<1>14. NewEntry(w, fr, i, e, d, 0, trackst.callback, trackst.young, place'[e.id], calls'[e.id])
  <2>1. EntryOK(d, place'[e.id], calls'[e.id], "none") /\ d.deleted /\ ~d.running
    BY ONLY <1>8, <1>13 DEF EntryOK, Deleted
  <2>2. Remembered(d, i, trackst.young)
    BY ONLY <1>8 DEF Remembered, Unit
  <2> QED BY ONLY <2>1, <2>2, <1>5, <1>8, <1>12, <1>13 DEF NewEntry
<1>15. NewFrame(w, fr, d, 0, used, place')
  BY ONLY <1>12 DEF NewFrame
<1>16. EntryAct(i, d, trackst.young, trackst.callback, l, 0, fr)
  <2>1. trackst.young \in Nat /\ trackst.callback \in Nat /\ 0 \in {0, i}
    BY PositionFacts
  <2> QED BY ONLY <2>1, <1>1, <1>2, <1>3, <1>8, <1>10, <1>11, <1>12, <1>13, <1>14, <1>15, l \in Nat, fr \in FrameSet DEF EntryAct
<1>17. fr.fn # "none" /\ fr.pc # "place" /\ frame[cur].fn # "none" /\ frame[cur].pc # "place"
  BY ONLY <1>1, <1>12
<1> QED BY ONLY <1>1, <1>13, <1>16, <1>17, IInv, bound' = bound, EntryAction

\* run_callback_exn, after the callback.
LEMMA CallbackReturnsKeeps ==
    ASSUME IInv, NEW w \in Workers, NEW res, CallbackReturns(w, res), bound' = bound
    PROVE  IInv'
  BY LateReturnKeeps, ValueReturnKeeps, DropReturnKeeps

\* What is left to show when the thread that runs is not suspended any more.
LEMMA ReleaseKeeps ==
    ASSUME IInv, bound' = bound, cur' = cur, suspended' = FALSE, ctx' = ctx, used' = used, pending' \in BOOLEAN,
           trackst' \in TrackSet, frame' \in [Workers -> FrameSet], OnlyFrame(frame, frame', cur),
           place' \in [1..Samples -> PlaceSet], DOMAIN calls' = 1..Samples,
           frame'[cur].fn = "none" \/ frame'[cur].pc = "place",
           trackst'.callback <= Len(trackst'.entries) => pending',
           Tracking(trackst', cur, frame', used, place', calls')
    PROVE  IInv'
<1>1. Types'
  BY Setup DEF Types, Samples
<1>2. Suspension(cur, frame', FALSE, ctx)
  BY Setup DEF Suspension, OnlyFrame
<1>3. Alert(trackst', suspended', pending')
  BY DEF Alert
<1> QED BY <1>1, <1>2, <1>3 DEF IInv

\* An entry with no callback to come, or in other hands.
LEMMA NothingDue ==
    ASSUME NEW s \in TrackSet, NEW u \in Workers, NEW f, NEW n, NEW pl, NEW ca, Tracking(s, u, f, n, pl, ca), 0 \notin Workers,
           NEW i \in DOMAIN s.entries, f[u].pc \notin {"entry", "call", "callback"}, s.entries[i].idx_ptr \in {0, u},
           i < s.callback, ~s.entries[i].deleted
    PROVE  Due(s.entries[i]) = "none"
<1>1. SUFFICES ASSUME Held(s, f, i) PROVE FALSE
  BY EntryFacts
<1>2. PICK w \in Workers : s.idx[w] = i /\ f[w].pc \in {"entry", "call", "callback"}
  BY <1>1 DEF Held
<1>3. w # u /\ s.idx[w] # 0
  BY <1>2, EntryFacts
<1>4. s.entries[i].idx_ptr = w
  BY <1>2, <1>3, OwnedByWaiting
<1> QED BY <1>3, <1>4

\* What does not change with the thread that an entry names.
LEMMA SameTracked ==
    ASSUME NEW e \in EntrySet, NEW p, NEW c, NEW hand, Tracked(e, p, c, hand), NEW x \in Workers \union {0},
           NEW d, d = [e EXCEPT !.idx_ptr = x]
    PROVE  /\ d \in EntrySet /\ Tracked(d, p, c, hand) /\ d.id = e.id /\ d.block = e.block /\ d.user_data = e.user_data
           /\ d.called = e.called /\ d.deleted = e.deleted /\ d.running = e.running /\ d.idx_ptr = x /\ Due(d) = Due(e)
<1>1. /\ d \in EntrySet /\ d.id = e.id /\ d.block = e.block /\ d.user_data = e.user_data /\ d.called = e.called
      /\ d.deleted = e.deleted /\ d.running = e.running /\ d.idx_ptr = x
      /\ d.alloc_young = e.alloc_young /\ d.promoted = e.promoted /\ d.deallocated = e.deallocated
  BY DEF EntrySet
<1>2. Tracked(d, p, c, hand)
  BY ONLY <1>1, Tracked(e, p, c, hand)
     DEF Tracked, Agrees, CalledOK, DataOK, History, AllocCall, PromoteCall, DeallocCall
<1>3. Due(d) = Due(e)
  BY ONLY <1>1 DEF Due
<1> QED BY ONLY <1>1, <1>2, <1>3

\* caml_memprof_track_young has the entry still in hand after the callbacks.
LEMMA SampledInHand ==
    ASSUME IInv, NEW w \in Workers, Sampled(w), bound' = bound, 0 \notin Workers, trackst.idx[w] # 0
    PROVE  IInv'
<1>1. /\ cur = w /\ frame[w].fn = "young" /\ frame[w].pc \in {"sampled", "raised"} /\ suspended' = FALSE
      /\ pending' = check_action_pending(trackst, FALSE)
      /\ UNCHANGED <<started, starts, cur, ctx, used, place, calls>>
  BY ONLY Sampled(w) DEF Sampled
<1>2. PICK i : i = trackst.idx[w] /\ i # 0
  OBVIOUS
<1>3. /\ Shape(frame[w]) /\ trackst \in TrackSet /\ frame[w] \in FrameSet
      /\ 1..used \subseteq 1..Samples /\ Tracking(trackst, w, frame, used, place, calls)
  BY <1>1, Setup
<1>4. frame[w].pc = "sampled"
  BY <1>1, <1>2, Setup DEF ThreadOK
<1>5. PICK e \in EntrySet : e = trackst.entries[i]
  BY <1>1, <1>2, InHandFacts
<1>6. /\ e.id \in 1..used /\ Remembered(e, i, trackst.young) /\ i \in Nat /\ i >= 1 /\ e.id = frame[w].id
      /\ i <= Len(trackst.entries) /\ Holds(w, frame[w], e)
      /\ EntryOK(e, place[e.id], calls[e.id], Hand(trackst, w, frame, i))
      /\ (place[e.id].at = "dropped" <=> e.deleted) /\ i \in DOMAIN trackst.entries
  BY <1>1, <1>2, <1>5, InHandFacts
<1>7. ~e.deleted /\ ~e.running /\ e.idx_ptr = 0 /\ e.block = "placeholder"
  BY ONLY <1>1, <1>4, <1>6 DEF Holds, Free
<1>8. Tracked(e, place[e.id], calls[e.id], "none") /\ place[e.id].at # "dropped"
  BY ONLY <1>4, <1>6, <1>7 DEF EntryOK, Hand
<1>9. PICK d : d = [e EXCEPT !.idx_ptr = w]
  OBVIOUS
<1>10. /\ d \in EntrySet /\ Tracked(d, place[e.id], calls[e.id], "none") /\ d.id = e.id /\ d.block = e.block
       /\ d.user_data = e.user_data /\ d.deleted = e.deleted /\ d.running = e.running /\ d.idx_ptr = w /\ Due(d) = Due(e)
  <2>1. w \in Workers \union {0}
    OBVIOUS
  <2> QED BY ONLY <2>1, <1>8, <1>9, e \in EntrySet, SameTracked
<1>11. ~d.deleted /\ ~d.running
  BY ONLY <1>7, <1>10, Zenon
<1>12. Updated(trackst, trackst', w, i, d, trackst.young, trackst.callback, trackst.delete, i)
  <2>1. trackst' = [trackst EXCEPT !.entries[i].idx_ptr = w]
    BY ONLY <1>2, Sampled(w) DEF Sampled, Invalid
  <2>2. [trackst.idx EXCEPT ![w] = i] = trackst.idx
    BY ONLY <1>2, <1>3, w \in Workers, TrackFacts
  <2>3. trackst' = [trackst EXCEPT !.entries[i] = d]
    BY ONLY <2>1, <1>5, <1>9
  <2>4. trackst' = [entries |-> [trackst.entries EXCEPT ![i] = d], young |-> trackst.young, callback |-> trackst.callback,
                    delete |-> trackst.delete, idx |-> trackst.idx]
    BY ONLY <2>3, <1>3 DEF TrackSet
  <2> QED BY ONLY <2>2, <2>4 DEF Updated
<1>13. NewPositions(trackst, i, trackst.young, trackst.callback, trackst.delete)
  BY ONLY IInv, PositionFacts DEF NewPositions, Position
<1>14. PICK fr : fr = [frame[w] EXCEPT !.pc = "place"]
  OBVIOUS
<1>15. fr \in FrameSet /\ fr.pc = "place" /\ fr.fn = "young" /\ fr.id = frame[w].id
  BY ONLY <1>1, <1>3, <1>14 DEF FrameSet
<1>16. frame' = [frame EXCEPT ![w] = fr]
  BY ONLY <1>4, <1>14, Sampled(w) DEF Sampled
<1>17. i < trackst.callback => Due(e) = "none"
  BY ONLY <1>3, <1>4, <1>5, <1>6, <1>7, w \in Workers, 0 \notin Workers, NothingDue
<1>18. NewEntry(w, fr, i, e, d, i, trackst.callback, trackst.young, place[e.id], calls[e.id])
  <2>1. EntryOK(d, place[e.id], calls[e.id], "none") /\ Remembered(d, i, trackst.young)
    BY ONLY <1>6, <1>10, <1>11 DEF EntryOK, Remembered
  <2>2. e.idx_ptr \in {0, w}
    BY ONLY <1>7
  <2> QED BY ONLY <2>1, <2>2, <1>2, <1>8, <1>10, <1>11, <1>15, <1>17 DEF NewEntry
<1>19. NewFrame(w, fr, d, i, used, place)
  BY ONLY <1>2, <1>6, <1>7, <1>10, <1>11, <1>15 DEF NewFrame, Shape, Holds
<1>20. EntryAct(i, d, trackst.young, trackst.callback, trackst.delete, i, fr)
  <2>1. trackst.young \in Nat /\ trackst.callback \in Nat /\ trackst.delete \in Nat
    BY PositionFacts
  <2>2. OnlyPlace(place, calls, place', calls', e.id)
    BY ONLY <1>1 DEF OnlyPlace
  <2> QED BY ONLY <2>1, <2>2, <1>1, <1>2, <1>5, <1>8, <1>10, <1>12, <1>13, <1>15, <1>16, <1>18, <1>19 DEF EntryAct
<1>21. /\ trackst' \in TrackSet /\ Tracking(trackst', w, frame', used, place', calls')
       /\ frame' \in [Workers -> FrameSet] /\ frame'[w] = fr /\ OnlyFrame(frame, frame', w)
  BY ONLY <1>1, <1>20, IInv, EntryTracks
<1>22. pending' \in BOOLEAN /\ (trackst'.callback <= Len(trackst'.entries) => pending')
  <2>1. trackst'.callback = trackst.callback /\ Len(trackst'.entries) = Len(trackst.entries)
    <3>1. IsUpdated(trackst, trackst', w, i, d, trackst.young, trackst.callback, trackst.delete, i)
      BY ONLY <1>3, <1>6, <1>10, <1>12, w \in Workers, IInv, PositionFacts, UpdatedIs
    <3> QED BY ONLY <3>1 DEF IsUpdated
  <2>2. pending \in BOOLEAN
    BY Setup
  <2> QED BY ONLY <2>1, <2>2, <1>1 DEF check_action_pending
<1>23. place' \in [1..Samples -> PlaceSet] /\ DOMAIN calls' = 1..Samples
  BY <1>1, Setup
<1> QED BY ONLY <1>1, <1>15, <1>21, <1>22, <1>23, IInv, bound' = bound, ReleaseKeeps

\* The end of the callbacks of a thread with no entry in hand.
LEMMA FlushReleases ==
    ASSUME IInv, bound' = bound, NEW w \in Workers, cur = w, 0 \notin Workers, trackst.idx[w] = 0,
           trackst' = flush_deleted(trackst), suspended' = FALSE, pending' \in BOOLEAN,
           trackst.callback <= Len(trackst.entries) => pending',
           NEW fr \in FrameSet, frame' = [frame EXCEPT ![w] = fr], Shape(fr), fr.fn = "none" \/ fr.pc = "place",
           UNCHANGED <<cur, ctx, used, place, calls>>
    PROVE  IInv'
<1>1. /\ trackst \in TrackSet /\ Tracking(trackst, w, frame, used, place, calls) /\ used \in Nat
      /\ frame \in [Workers -> FrameSet] /\ place \in [1..Samples -> PlaceSet] /\ DOMAIN calls = 1..Samples
      /\ 1..used \subseteq DOMAIN place
  BY Setup
<1>2. PICK t : t = flush_deleted(trackst)
  OBVIOUS
<1>3. /\ t \in TrackSet /\ Tracking(t, w, frame, used, place, calls) /\ t.idx[w] = 0
      /\ t.callback <= Len(t.entries) => trackst.callback <= Len(trackst.entries)
  BY ONLY <1>1, <1>2, w \in Workers, 0 \notin Workers, trackst.idx[w] = 0, FlushKeeps
<1>4. frame' \in [Workers -> FrameSet] /\ frame'[w] = fr /\ OnlyFrame(frame, frame', w)
  BY ONLY <1>1, frame' = [frame EXCEPT ![w] = fr], fr \in FrameSet, w \in Workers, FrameUpdated
<1>5. Shape(frame'[w]) /\ frame'[w].pc \notin {"entry", "call", "callback"}
  BY ONLY <1>4, Shape(fr), fr.fn = "none" \/ fr.pc = "place" DEF Shape
<1>6. SamePlaces(place, calls, place', calls')
  BY DEF SamePlaces
<1>7. Tracking(t, w, frame', used, place', calls')
  BY ONLY <1>1, <1>3, <1>4, <1>5, <1>6, w \in Workers, FrameFree
<1>8. trackst' = t
  BY <1>2
<1>9. place' \in [1..Samples -> PlaceSet] /\ DOMAIN calls' = 1..Samples
  BY <1>1
<1>10. trackst'.callback <= Len(trackst'.entries) => pending'
  BY ONLY <1>3, <1>8, trackst.callback <= Len(trackst.entries) => pending'
<1>11. cur' = cur /\ ctx' = ctx /\ used' = used
  OBVIOUS
<1>12. trackst' \in TrackSet /\ Tracking(trackst', cur, frame', used, place', calls') /\ OnlyFrame(frame, frame', cur)
       /\ (frame'[cur].fn = "none" \/ frame'[cur].pc = "place")
  BY ONLY <1>3, <1>4, <1>7, <1>8, cur = w, fr.fn = "none" \/ fr.pc = "place"
<1> QED BY ONLY <1>4, <1>9, <1>10, <1>11, <1>12, IInv, bound' = bound, suspended' = FALSE, pending' \in BOOLEAN, ReleaseKeeps

\* The frame of a thread that is not in memprof.c.
LEMMA NoneIs == None \in FrameSet /\ Shape(None) /\ None.fn = "none" /\ None.pc = "run"
  BY DEF None, FrameSet, Shape

\* caml_memprof_track_young after its callback.
LEMMA SampledKeeps ==
    ASSUME IInv, NEW w \in Workers, Sampled(w), bound' = bound, 0 \notin Workers
    PROVE  IInv'
<1>1. /\ cur = w /\ frame[w].fn = "young" /\ frame[w].pc \in {"sampled", "raised"} /\ suspended' = FALSE
      /\ pending' = check_action_pending(trackst, FALSE)
      /\ UNCHANGED <<cur, ctx, used, place, calls>>
  BY ONLY Sampled(w) DEF Sampled
<1>2. CASE trackst.idx[w] # 0
  BY ONLY <1>2, IInv, w \in Workers, Sampled(w), bound' = bound, 0 \notin Workers, SampledInHand
<1>3. CASE trackst.idx[w] = 0
  <2>1. trackst' = flush_deleted(trackst)
    BY ONLY <1>3, Sampled(w) DEF Sampled, Invalid
  <2>2. pending' \in BOOLEAN /\ (trackst.callback <= Len(trackst.entries) => pending')
    BY <1>1, Setup DEF check_action_pending
  <2>3. PICK fr \in FrameSet : frame' = [frame EXCEPT ![w] = fr] /\ Shape(fr) /\ (fr.fn = "none" \/ fr.pc = "place")
    <3>1. CASE frame[w].pc = "raised"
      <4>1. frame' = [frame EXCEPT ![w] = None]
        BY ONLY <3>1, Sampled(w) DEF Sampled, Clear
      <4> QED BY ONLY <4>1, NoneIs
    <3>2. CASE frame[w].pc # "raised"
      <4>1. PICK x : x = [frame[w] EXCEPT !.pc = "place"]
        OBVIOUS
      <4>2. frame' = [frame EXCEPT ![w] = x]
        BY ONLY <4>1, <3>2, Sampled(w) DEF Sampled
      <4>3. frame[w] \in FrameSet
        BY Setup
      <4>4. x \in FrameSet /\ x.pc = "place" /\ x.fn = "young"
        BY ONLY <4>1, <4>3, <1>1 DEF FrameSet
      <4> QED BY ONLY <4>2, <4>4 DEF Shape
    <3> QED BY <3>1, <3>2
  <2> QED BY ONLY <1>1, <1>3, <2>1, <2>2, <2>3, fr \in FrameSet, IInv, w \in Workers, bound' = bound, 0 \notin Workers, FlushReleases
<1> QED BY <1>2, <1>3

\* The block is allocated at last.
LEMMA AllocatedBlock ==
    ASSUME NEW e \in EntrySet, NEW p \in PlaceSet, NEW c, Tracked(e, p, c, "none"), e.block = "placeholder", ~e.deleted, ~e.running,
           NEW d, d = [e EXCEPT !.block = "young", !.idx_ptr = 0], NEW r, r = [p EXCEPT !.at = "young"]
    PROVE  /\ d \in EntrySet /\ r \in PlaceSet /\ r.at = "young" /\ Tracked(d, r, c, "none") /\ d.id = e.id /\ d.block = "young"
           /\ Free(d) /\ Due(d) = Due(e)
<1>1. /\ d \in EntrySet /\ d.id = e.id /\ d.block = "young" /\ d.user_data = e.user_data /\ d.called = e.called
      /\ d.deleted = e.deleted /\ d.running = e.running /\ d.idx_ptr = 0
      /\ d.alloc_young = e.alloc_young /\ d.promoted = e.promoted /\ d.deallocated = e.deallocated
  BY DEF EntrySet
<1>2. r \in PlaceSet /\ r.at = "young" /\ r.minor = p.minor /\ r.promoted = p.promoted
  BY DEF PlaceSet
<1>3. p.at = "none"
  BY DEF Tracked, Agrees, BlockOf, PlaceSet
<1>4. Agrees(e, p)
  BY DEF Tracked
<1>5. Agrees(d, r)
  BY ONLY <1>1, <1>2, <1>3, <1>4 DEF Agrees, PlaceOK, BlockOf
<1>6. Tracked(d, r, c, "none")
  BY ONLY <1>1, <1>5, Tracked(e, p, c, "none")
     DEF Tracked, CalledOK, DataOK, History, AllocCall, PromoteCall, DeallocCall
<1>7. Due(d) = Due(e) /\ Free(d)
  BY ONLY <1>1, ~e.deleted, ~e.running DEF Due, Free
<1> QED BY ONLY <1>1, <1>2, <1>6, <1>7

\* The block of a sampled allocation is put into its entry.
LEMMA AllocatedInHand ==
    ASSUME IInv, NEW w \in Workers, Allocated(w), bound' = bound, 0 \notin Workers, trackst.idx[w] # 0
    PROVE  IInv'
<1>1. /\ cur = w /\ frame[w].fn # "none" /\ frame[w].pc = "place"
      /\ UNCHANGED <<started, starts, cur, suspended, ctx, pending, used, calls>>
  BY ONLY Allocated(w) DEF Allocated, Step
<1>2. PICK i : i = trackst.idx[w] /\ i # 0
  OBVIOUS
<1>3. /\ Shape(frame[w]) /\ trackst \in TrackSet /\ frame[w].fn = "young"
      /\ 1..used \subseteq 1..Samples /\ Tracking(trackst, w, frame, used, place, calls)
      /\ place \in [1..Samples -> PlaceSet] /\ DOMAIN place = 1..Samples /\ DOMAIN calls = 1..Samples
  BY <1>1, Setup DEF Shape
<1>4. PICK e \in EntrySet : e = trackst.entries[i]
  BY <1>1, <1>2, InHandFacts
<1>5. /\ e.id \in 1..used /\ i \in Nat /\ i >= 1 /\ e.id = frame[w].id
      /\ i <= Len(trackst.entries) /\ Holds(w, frame[w], e)
      /\ EntryOK(e, place[e.id], calls[e.id], Hand(trackst, w, frame, i))
      /\ (place[e.id].at = "dropped" <=> e.deleted) /\ i \in DOMAIN trackst.entries
  BY <1>1, <1>2, <1>4, InHandFacts
<1>6. ~e.deleted /\ ~e.running /\ e.idx_ptr = w /\ e.block = "placeholder"
  BY ONLY <1>1, <1>3, <1>5 DEF Holds
<1>7. Tracked(e, place[e.id], calls[e.id], "none") /\ place[e.id].at # "dropped" /\ place[e.id] \in PlaceSet
      /\ e.id \in 1..Samples
  BY ONLY <1>1, <1>3, <1>5, <1>6 DEF EntryOK, Hand
<1>8. PICK d : d = [e EXCEPT !.block = "young", !.idx_ptr = 0]
  OBVIOUS
<1>9. PICK r : r = [place[e.id] EXCEPT !.at = "young"]
  OBVIOUS
<1>10. /\ d \in EntrySet /\ r \in PlaceSet /\ r.at = "young" /\ Tracked(d, r, calls[e.id], "none") /\ d.id = e.id
       /\ d.block = "young" /\ Free(d) /\ Due(d) = Due(e)
  BY ONLY <1>6, <1>7, <1>8, <1>9, e \in EntrySet, AllocatedBlock
<1>11. PICK y \in Nat : y = IF i < trackst.young THEN i ELSE trackst.young
  <2>1. trackst.young \in Nat
    BY PositionFacts
  <2> QED BY ONLY <2>1, <1>5
<1>12. Updated(trackst, trackst', w, i, d, y, trackst.callback, trackst.delete, 0)
  <2>1. trackst' = [trackst EXCEPT !.entries[i].block = "young", !.entries[i].idx_ptr = 0,
                                   !.young = IF i < @ THEN i ELSE @, !.idx[w] = 0]
    BY ONLY <1>2, Allocated(w) DEF Allocated, Invalid
  <2>2. PICK a : a = [e EXCEPT !.block = "young"]
    OBVIOUS
  <2>3. PICK q : q = [trackst.entries EXCEPT ![i] = a]
    OBVIOUS
  <2>4. q[i] = a /\ [q EXCEPT ![i] = d] = [trackst.entries EXCEPT ![i] = d]
    BY ONLY <2>3, <1>3, <1>5, TrackFacts
  <2>5. d = [a EXCEPT !.idx_ptr = 0]
    BY ONLY <2>2, <1>8, e \in EntrySet DEF EntrySet
  <2>6. trackst' = [entries |-> [q EXCEPT ![i] = d], young |-> y, callback |-> trackst.callback,
                    delete |-> trackst.delete, idx |-> [trackst.idx EXCEPT ![w] = 0]]
    <3>1. PICK s : s = [trackst EXCEPT !.entries[i].block = "young"]
      OBVIOUS
    <3>2. s = [entries |-> q, young |-> trackst.young, callback |-> trackst.callback, delete |-> trackst.delete, idx |-> trackst.idx]
      BY ONLY <3>1, <2>2, <2>3, <1>3, <1>4 DEF TrackSet
    <3>3. trackst' = [s EXCEPT !.entries[i].idx_ptr = 0, !.young = y, !.idx[w] = 0]
      BY ONLY <2>1, <3>1, <1>11, <1>3 DEF TrackSet
    <3> QED BY ONLY <3>2, <3>3, <2>4, <2>5
  <2> QED BY ONLY <2>4, <2>6 DEF Updated
<1>13. NewPositions(trackst, i, y, trackst.callback, trackst.delete)
  BY ONLY <1>5, <1>11, IInv, PositionFacts DEF NewPositions, Position
<1>14. frame' = [frame EXCEPT ![w] = None]
  BY ONLY Allocated(w) DEF Allocated, Clear
<1>15. i < trackst.callback => Due(e) = "none"
  <2>1. e.idx_ptr \in {0, w}
    BY ONLY <1>6
  <2> QED BY ONLY <2>1, <1>1, <1>3, <1>4, <1>5, <1>6, w \in Workers, 0 \notin Workers, NothingDue
<1>16. /\ place' = [place EXCEPT ![e.id] = r] /\ place'[e.id] = r /\ place' \in [1..Samples -> PlaceSet]
       /\ OnlyPlace(place, calls, place', calls', e.id) /\ DOMAIN calls' = 1..Samples /\ calls'[e.id] = calls[e.id]
  <2>1. place' = [place EXCEPT ![e.id] = r]
    BY ONLY <1>2, <1>5, <1>9, Allocated(w) DEF Allocated, Invalid
  <2> QED BY ONLY <2>1, <1>1, <1>3, <1>7, <1>10 DEF OnlyPlace
<1>17. NewEntry(w, None, i, e, d, 0, trackst.callback, y, r, calls[e.id])
  <2>1. EntryOK(d, r, calls[e.id], "none") /\ ~d.deleted /\ ~d.running /\ d.idx_ptr = 0
    BY ONLY <1>10 DEF EntryOK, Free
  <2>2. Remembered(d, i, y)
    BY ONLY <1>5, <1>11, IInv, PositionFacts DEF Remembered
  <2>3. e.idx_ptr \in {0, w}
    BY ONLY <1>6
  <2> QED BY ONLY <2>1, <2>2, <2>3, <1>10, <1>15, NoneIs DEF NewEntry
<1>18. NewFrame(w, None, d, 0, used, place')
  BY ONLY NoneIs DEF NewFrame
<1>19. EntryAct(i, d, y, trackst.callback, trackst.delete, 0, None)
  <2>1. trackst.callback \in Nat /\ trackst.delete \in Nat /\ 0 \in {0, i}
    BY PositionFacts
  <2> QED BY ONLY <2>1, <1>1, <1>2, <1>4, <1>7, <1>10, <1>12, <1>13, <1>14, <1>16, <1>17, <1>18, y \in Nat, NoneIs DEF EntryAct
<1>20. /\ trackst' \in TrackSet /\ Tracking(trackst', w, frame', used, place', calls')
       /\ frame' \in [Workers -> FrameSet] /\ frame'[w] = None /\ OnlyFrame(frame, frame', w)
  BY ONLY <1>1, <1>19, IInv, EntryTracks
<1>21. suspended' = FALSE
  BY <1>1, Setup DEF Suspension
<1>22. pending' \in BOOLEAN /\ (trackst'.callback <= Len(trackst'.entries) => pending')
  <2>1. trackst'.callback = trackst.callback /\ Len(trackst'.entries) = Len(trackst.entries)
    <3>1. IsUpdated(trackst, trackst', w, i, d, y, trackst.callback, trackst.delete, 0)
      BY ONLY <1>3, <1>5, <1>10, <1>12, w \in Workers, y \in Nat, IInv, PositionFacts, UpdatedIs
    <3> QED BY ONLY <3>1 DEF IsUpdated
  <2>2. pending \in BOOLEAN /\ Alert(trackst, suspended, pending)
    BY Setup
  <2> QED BY ONLY <2>1, <2>2, <1>1, <1>21 DEF Alert
<1> QED BY ONLY <1>1, <1>16, <1>20, <1>21, <1>22, NoneIs, IInv, bound' = bound, ReleaseKeeps

\* The end of caml_memprof_track_young.
LEMMA AllocatedKeeps ==
    ASSUME IInv, NEW w \in Workers, Allocated(w), bound' = bound, 0 \notin Workers
    PROVE  IInv'
<1>1. /\ cur = w /\ frame[w].fn # "none" /\ frame[w].pc = "place" /\ frame' = [frame EXCEPT ![w] = None]
      /\ UNCHANGED <<cur, suspended, ctx, pending, used, calls>>
  BY ONLY Allocated(w) DEF Allocated, Step, Clear
<1>2. CASE trackst.idx[w] # 0
  BY ONLY <1>2, IInv, w \in Workers, Allocated(w), bound' = bound, 0 \notin Workers, AllocatedInHand
<1>3. CASE trackst.idx[w] = 0
  <2>1. trackst' = trackst /\ place' = place
    BY ONLY <1>3, Allocated(w) DEF Allocated, Invalid
  <2>2. /\ trackst \in TrackSet /\ Tracking(trackst, w, frame, used, place, calls) /\ used \in Nat
        /\ frame \in [Workers -> FrameSet] /\ place \in [1..Samples -> PlaceSet] /\ DOMAIN calls = 1..Samples
        /\ 1..used \subseteq DOMAIN place /\ pending \in BOOLEAN /\ Alert(trackst, suspended, pending)
        /\ Suspension(w, frame, suspended, ctx) /\ suspended \in BOOLEAN
    BY <1>1, Setup
  <2>3. frame' \in [Workers -> FrameSet] /\ frame'[w] = None /\ OnlyFrame(frame, frame', w)
    BY ONLY <1>1, <2>2, NoneIs, w \in Workers, FrameUpdated
  <2>4. SamePlaces(place, calls, place', calls')
    BY ONLY <1>1, <2>1 DEF SamePlaces
  <2>5. Tracking(trackst, w, frame', used, place', calls')
    <3>1. Shape(frame'[w]) /\ frame'[w].pc \notin {"entry", "call", "callback"}
      BY ONLY <2>3, NoneIs
    <3> QED BY ONLY <3>1, <1>3, <2>2, <2>3, <2>4, w \in Workers, FrameFree
  <2>6. suspended = FALSE /\ suspended' = FALSE
    BY ONLY <1>1, <2>2 DEF Suspension
  <2>7. trackst'.callback <= Len(trackst'.entries) => pending'
    BY ONLY <2>1, <2>2, <2>6, <1>1 DEF Alert
  <2>8. pending' \in BOOLEAN /\ place' \in [1..Samples -> PlaceSet] /\ DOMAIN calls' = 1..Samples
    BY ONLY <1>1, <2>1, <2>2
  <2>9. trackst' \in TrackSet /\ Tracking(trackst', cur, frame', used, place', calls') /\ OnlyFrame(frame, frame', cur)
        /\ frame'[cur].fn = "none"
    BY ONLY <1>1, <2>1, <2>2, <2>3, <2>5, NoneIs
  <2> QED BY ONLY <1>1, <2>3, <2>6, <2>7, <2>8, <2>9, IInv, bound' = bound, ReleaseKeeps
<1> QED BY <1>2, <1>3

-----------------------------------------------------------------------------
(* The end of the profiler *)

\* All entries are dropped, and the threads in a callback learn of it.
Discards(s, t) ==
    t = Empty([w \in Workers |-> IF w \in {s.entries[i].idx_ptr : i \in DOMAIN s.entries} THEN Invalid ELSE s.idx[w]])
Dropped(n, N, pl, ca, ql, da) ==
    /\ DOMAIN pl = 1..N /\ DOMAIN ql = 1..N
    /\ \A id \in 1..N : id \in 1..n => ql[id].at = "dropped" /\ da[id] = <<>>
    /\ \A id \in 1..N : id \notin 1..n => ql[id] = pl[id] /\ da[id] = ca[id]

Stops(s, u, f, n, N, pl, ca, t, g, ql, da) ==
    /\ s \in TrackSet /\ u \in Workers /\ n \in Nat /\ N \in Nat /\ n <= N /\ Tracking(s, u, f, n, pl, ca)
    /\ s.idx[u] = 0 \/ f[u].pc = "callback"
    /\ Discards(s, t) /\ OnlyFrame(f, g, u)
    /\ Shape(g[u]) /\ g[u].pc \notin {"entry", "call"} /\ (g[u].pc = "callback" => g[u].id \in 1..n)
    /\ Dropped(n, N, pl, ca, ql, da)

\* Discarding all entries leaves no thread with an index.
LEMMA DiscardTracks ==
    ASSUME NEW s, NEW u, NEW f, NEW g, NEW n, NEW N, NEW pl, NEW ca, NEW ql, NEW da, NEW t,
           Stops(s, u, f, n, N, pl, ca, t, g, ql, da)
    PROVE  t \in TrackSet /\ Tracking(t, u, g, n, ql, da) /\ t.callback = 1 /\ Len(t.entries) = 0
<1>0. /\ s \in TrackSet /\ u \in Workers /\ n \in Nat /\ N \in Nat /\ n <= N /\ Tracking(s, u, f, n, pl, ca)
      /\ s.idx[u] = 0 \/ f[u].pc = "callback"
      /\ Discards(s, t) /\ OnlyFrame(f, g, u)
      /\ Shape(g[u]) /\ g[u].pc \notin {"entry", "call"} /\ (g[u].pc = "callback" => g[u].id \in 1..n)
      /\ Dropped(n, N, pl, ca, ql, da)
  BY DEF Stops
<1> USE <1>0
<1>1. PICK r : r = [w \in Workers |-> IF w \in {s.entries[i].idx_ptr : i \in DOMAIN s.entries} THEN Invalid ELSE s.idx[w]]
  OBVIOUS
<1>2. t = [entries |-> <<>>, young |-> 1, callback |-> 1, delete |-> 1, idx |-> r]
  BY ONLY <1>1, Discards(s, t) DEF Discards, Empty
<1>3. ASSUME NEW w \in Workers PROVE r[w] = 0
  <2>1. r[w] = IF w \in {s.entries[i].idx_ptr : i \in DOMAIN s.entries} THEN 0 ELSE s.idx[w]
    BY ONLY <1>1, w \in Workers DEF Invalid
  <2>2. CASE s.idx[w] = 0
    BY ONLY <2>1, <2>2
  <2>3. CASE s.idx[w] # 0
    <3>1. w # u \/ f[w].pc = "callback"
      BY <2>3
    <3>2. s.idx[w] \in 1..Len(s.entries) /\ s.entries[s.idx[w]].idx_ptr = w
      BY <3>1, <2>3, OwnedByWaiting
    <3>3. s.idx[w] \in DOMAIN s.entries
      BY <3>2, TrackFacts
    <3> QED BY ONLY <3>2, <3>3, <2>1
  <2> QED BY <2>2, <2>3
<1>4. r \in [Workers -> Nat]
  <2>1. DOMAIN r = Workers /\ r = [w \in Workers |-> r[w]]
    BY ONLY <1>1
  <2> QED BY ONLY <2>1, <1>3
<1>5. <<>> \in Seq(EntrySet) /\ Len(<<>>) = 0 /\ DOMAIN <<>> = {}
  OBVIOUS
<1>6. /\ t \in TrackSet /\ t.callback = 1 /\ Len(t.entries) = 0 /\ t.entries = <<>> /\ t.young = 1 /\ t.delete = 1
      /\ DOMAIN t.entries = {} /\ \A w \in Workers : t.idx[w] = 0
  BY ONLY <1>2, <1>3, <1>4, <1>5 DEF TrackSet
<1>7. Positions(t)
  BY ONLY <1>6 DEF Positions, Position
<1>8. Table(t, u, g, n, ql, da) /\ Owners(t, g) /\ NoneLost(t, g)
  BY ONLY <1>6 DEF Table, Owners, NoneLost
<1>9. Blocks(t, n, ql, da)
  <2> SUFFICES ASSUME NEW id \in 1..N
               PROVE  /\ id > n => ql[id] = Nowhere /\ da[id] = <<>>
                      /\ id <= n => IF ql[id].at = "dropped" THEN da[id] = <<>> ELSE HasEntry(t, id)
    BY DEF Blocks, Dropped
  <2>1. id > n => pl[id] = Nowhere /\ ca[id] = <<>>
    BY DEF Tracking, Blocks, Dropped
  <2> QED BY <2>1 DEF Dropped
<1>10. Threads(t, u, g, n, ql)
  <2> SUFFICES ASSUME NEW w \in Workers PROVE ThreadOK(t, w, g[w], n, ql) /\ (w # u => Idle(g[w]))
    BY DEF Threads
  <2>1. Shape(g[w]) /\ g[w].pc \notin {"entry", "call"} /\ (g[w].pc = "callback" => g[w].id \in 1..n) /\ (w # u => Idle(g[w]))
    <3>1. CASE w = u
      BY <3>1
    <3>2. CASE w # u
      <4>1. ThreadOK(s, w, f[w], n, pl) /\ Idle(f[w]) /\ g[w] = f[w]
        BY <3>2 DEF Tracking, Threads, OnlyFrame
      <4> QED BY ONLY <4>1, <3>2 DEF ThreadOK, Idle, Shape
    <3> QED BY <3>1, <3>2
  <2>2. g[w].pc = "callback" => ql[g[w].id].at = "dropped"
    <3>1. ASSUME NEW id \in 1..n PROVE ql[id].at = "dropped"
      BY n <= N DEF Dropped
    <3> QED BY <3>1, <2>1
  <2> QED BY ONLY <2>1, <2>2, <1>6, w \in Workers DEF ThreadOK
<1> QED BY ONLY <1>6, <1>7, <1>8, <1>9, <1>10 DEF Tracking

\* The callbacks of the others and those postponed come first.
LEMMA HandledKeeps ==
    ASSUME IInv, NEW w \in Workers, NEW exn \in BOOLEAN, cur = w, Handled(w, exn), frame[w].pc \in {"loop", "raised"},
           bound' = bound, 0 \notin Workers
    PROVE  IInv'
<1>1. /\ suspended' = FALSE /\ frame' = [frame EXCEPT ![w] = None] /\ UNCHANGED <<cur, ctx, used>>
      /\ pending' = (check_action_pending(trackst, FALSE) \/ (exn /\ frame[w].fn = "postponed"))
  BY ONLY Handled(w, exn) DEF Handled, Clear
<1>2. /\ trackst \in TrackSet /\ Tracking(trackst, w, frame, used, place, calls) /\ used \in Nat /\ Samples \in Nat
      /\ frame \in [Workers -> FrameSet] /\ place \in [1..Samples -> PlaceSet] /\ DOMAIN calls = 1..Samples
      /\ DOMAIN place = 1..Samples /\ used <= Samples /\ pending \in BOOLEAN
  BY Setup
<1>3. trackst.idx[w] = 0
  BY Setup DEF ThreadOK
<1>4. pending' \in BOOLEAN /\ (trackst.callback <= Len(trackst.entries) => pending')
  BY ONLY <1>1, <1>2, exn \in BOOLEAN DEF check_action_pending
<1>5. CASE ~(frame[w].fn = "stop" /\ ~exn)
  <2>1. trackst' = flush_deleted(trackst) /\ place' = place /\ calls' = calls
    BY ONLY <1>5, Handled(w, exn) DEF Handled
  <2> QED BY ONLY <1>1, <1>3, <1>4, <2>1, NoneIs, IInv, bound' = bound, w \in Workers, cur = w, 0 \notin Workers, FlushReleases
<1>6. CASE frame[w].fn = "stop" /\ ~exn
  <2>1. PICK s : s = flush_deleted(trackst)
    OBVIOUS
  <2>2. caml_memprof_discard(s)
    BY ONLY <2>1, <1>6, Handled(w, exn) DEF Handled
  <2>3. Discards(s, trackst') /\ Discard(1..used)
    BY ONLY <2>2 DEF caml_memprof_discard, Discards
  <2>4. s \in TrackSet /\ Tracking(s, w, frame, used, place, calls) /\ s.idx[w] = 0
    BY ONLY <1>2, <1>3, <2>1, w \in Workers, 0 \notin Workers, FlushKeeps
  <2>5. place' \in [1..Samples -> PlaceSet] /\ DOMAIN calls' = 1..Samples /\ Dropped(used, Samples, place, calls, place', calls')
    BY <1>2, <2>3, DiscardIs DEF Dropped
  <2>6. frame' \in [Workers -> FrameSet] /\ frame'[w] = None /\ OnlyFrame(frame, frame', w)
    BY ONLY <1>1, <1>2, NoneIs, w \in Workers, FrameUpdated
  <2>7. Shape(frame'[w]) /\ frame'[w].pc \notin {"entry", "call", "callback"} /\ frame'[w].fn = "none"
    BY ONLY <2>6, NoneIs
  <2>8. trackst' \in TrackSet /\ Tracking(trackst', w, frame', used, place', calls') /\ trackst'.callback = 1 /\ Len(trackst'.entries) = 0
    <3>1. (s.idx[w] = 0 \/ frame[w].pc = "callback") /\ frame'[w].pc \notin {"entry", "call"}
          /\ (frame'[w].pc = "callback" => frame'[w].id \in 1..used)
      BY ONLY <2>4, <2>7
    <3>2. s \in TrackSet /\ used \in Nat /\ Samples \in Nat /\ used <= Samples /\ Shape(frame'[w])
      BY ONLY <1>2, <2>4, <2>7
    <3>3. Stops(s, w, frame, used, Samples, place, calls, trackst', frame', place', calls')
      BY ONLY <3>1, <3>2, <2>3, <2>4, <2>5, <2>6, w \in Workers DEF Stops
    <3> QED BY ONLY <3>3, DiscardTracks
  <2>9. trackst'.callback <= Len(trackst'.entries) => pending'
    BY ONLY <2>8
  <2>10. cur' = cur /\ ctx' = ctx /\ used' = used
    BY <1>1
  <2> QED BY ONLY <1>1, <1>4, <2>5, <2>6, <2>7, <2>8, <2>9, <2>10, cur = w, IInv, bound' = bound, ReleaseKeeps
<1> QED BY <1>5, <1>6

\* The loop of caml_memprof_handle_postponed_exn ends.
LEMMA NoMoreEntriesKeeps ==
    ASSUME IInv, NEW w \in Workers, NoMoreEntries(w), bound' = bound, 0 \notin Workers
    PROVE  IInv'
<1>1. cur = w /\ frame[w].pc \in {"loop", "raised"} /\ Handled(w, FALSE)
  BY DEF NoMoreEntries, Step
<1> QED BY ONLY <1>1, IInv, w \in Workers, bound' = bound, 0 \notin Workers, HandledKeeps

\* A postponed callback has raised.
LEMMA PostponedRaisesKeeps ==
    ASSUME IInv, NEW w \in Workers, PostponedRaises(w), bound' = bound, 0 \notin Workers
    PROVE  IInv'
<1>1. cur = w /\ frame[w].pc \in {"loop", "raised"} /\ Handled(w, TRUE)
  BY DEF PostponedRaises, Step
<1> QED BY ONLY <1>1, IInv, w \in Workers, bound' = bound, 0 \notin Workers, HandledKeeps

\* A thread in the program that is not suspended has nothing in hand.
LEMMA ProgramIdle ==
    ASSUME IInv, AtProgram(cur), ~suspended
    PROVE  frame[cur].fn = "none" /\ frame[cur].pc = "run" /\ trackst.idx[cur] = 0
  BY Setup DEF AtProgram, Suspension, Shape, ThreadOK

\* A thread of the program enters the loop of the postponed callbacks.
LEMMA EnterKeeps ==
    ASSUME IInv, AtProgram(cur), ~suspended, bound' = bound, NEW fn \in {"postponed", "stop"}, pending' \in BOOLEAN,
           frame' = [frame EXCEPT ![cur] = [None EXCEPT !.fn = fn, !.pc = "loop"]], suspended' = TRUE,
           UNCHANGED <<trackst, cur, ctx, used, place, calls>>
    PROVE  IInv'
<1>1. PICK fr : fr = [None EXCEPT !.fn = fn, !.pc = "loop"]
  OBVIOUS
<1>2. fr \in FrameSet /\ Shape(fr) /\ fr.fn # "none" /\ fr.pc = "loop"
  BY ONLY <1>1, fn \in {"postponed", "stop"} DEF None, FrameSet, Shape
<1>3. PICK u \in Workers : u = cur
  BY Setup
<1>4. frame[u].fn = "none" /\ trackst.idx[u] = 0
  BY ONLY <1>3, IInv, AtProgram(cur), ~suspended, ProgramIdle
<1>5. /\ trackst \in TrackSet /\ Tracking(trackst, u, frame, used, place, calls) /\ used \in Nat
      /\ frame \in [Workers -> FrameSet] /\ 1..used \subseteq DOMAIN place /\ Suspension(u, frame, suspended, ctx)
  BY <1>3, Setup
<1>6. frame' \in [Workers -> FrameSet] /\ frame'[u] = fr /\ OnlyFrame(frame, frame', u)
  <2>1. frame' = [frame EXCEPT ![u] = fr]
    BY <1>1, <1>3
  <2> QED BY ONLY <2>1, <1>2, <1>5, u \in Workers, FrameUpdated
<1>7. SamePlaces(place, calls, place, calls)
  BY ONLY TRUE DEF SamePlaces
<1>8. Tracking(trackst, u, frame', used, place, calls)
  <2>1. Shape(frame'[u]) /\ frame'[u].pc \notin {"entry", "call", "callback"}
    BY ONLY <1>2, <1>6
  <2> QED BY ONLY <2>1, <1>4, <1>5, <1>6, <1>7, u \in Workers, FrameFree
<1>9. Suspension(u, frame', TRUE, ctx)
  BY ONLY <1>2, <1>5, <1>6 DEF Suspension, OnlyFrame
<1>10. Types'
  BY <1>6, Setup DEF Types, Samples
<1>11. Alert(trackst', suspended', pending')
  BY DEF Alert
<1> QED BY <1>3, <1>8, <1>9, <1>10, <1>11 DEF IInv

\* caml_memprof_handle_postponed_exn starts.
LEMMA PostponedKeeps ==
    ASSUME IInv, caml_memprof_handle_postponed_exn, bound' = bound
    PROVE  IInv'
<1>1. /\ AtProgram(cur) /\ pending' = FALSE /\ suspended' = TRUE
      /\ frame' = IF suspended THEN frame ELSE [frame EXCEPT ![cur] = [None EXCEPT !.fn = "postponed", !.pc = "loop"]]
      /\ UNCHANGED <<trackst, cur, ctx, used, place, calls>>
  BY DEF caml_memprof_handle_postponed_exn
<1>2. CASE suspended
  <2>1. Types'
    BY <1>1, <1>2, Setup DEF Types, Samples
  <2>2. Alert(trackst', suspended', pending')
    BY <1>1 DEF Alert
  <2>3. suspended' = suspended
    BY <1>1, <1>2, Setup
  <2> QED BY <1>1, <1>2, <2>1, <2>2, <2>3, Setup DEF IInv
<1>3. CASE ~suspended
  <2>1. frame' = [frame EXCEPT ![cur] = [None EXCEPT !.fn = "postponed", !.pc = "loop"]] /\ pending' \in BOOLEAN
    BY <1>1, <1>3
  <2> QED BY ONLY <1>1, <1>3, <2>1, IInv, bound' = bound, EnterKeeps
<1> QED BY <1>2, <1>3

\* caml_memprof_start.
LEMMA StartKeeps ==
    ASSUME IInv, caml_memprof_start, bound' = bound
    PROVE  IInv'
<1>1. UNCHANGED <<trackst, cur, suspended, ctx, frame, pending, used, place, calls>>
  BY DEF caml_memprof_start
<1>2. Types'
  BY <1>1, Setup DEF Types, Samples
<1> QED BY <1>1, <1>2, Setup DEF IInv

\* caml_memprof_stop, in a callback and outside one.
LEMMA StopKeeps ==
    ASSUME IInv, caml_memprof_stop, bound' = bound
    PROVE  IInv'
<1>1. AtProgram(cur) /\ UNCHANGED <<cur, ctx, used>>
  BY DEF caml_memprof_stop
<1>2. CASE suspended
  <2>1. caml_memprof_discard(trackst) /\ UNCHANGED <<suspended, frame, pending>>
    BY <1>2 DEF caml_memprof_stop
  <2>2. Discards(trackst, trackst') /\ Discard(1..used)
    BY ONLY <2>1 DEF caml_memprof_discard, Discards
  <2>3. frame[cur].pc = "callback" /\ frame[cur].fn # "none"
    BY <1>1, <1>2, Setup DEF AtProgram, Suspension
  <2>4. /\ trackst \in TrackSet /\ Tracking(trackst, cur, frame, used, place, calls) /\ used \in Nat /\ Samples \in Nat
        /\ frame \in [Workers -> FrameSet] /\ place \in [1..Samples -> PlaceSet] /\ DOMAIN calls = 1..Samples
        /\ DOMAIN place = 1..Samples /\ used <= Samples /\ pending \in BOOLEAN /\ cur \in Workers /\ Shape(frame[cur])
        /\ ThreadOK(trackst, cur, frame[cur], used, place)
    BY Setup
  <2>5. place' \in [1..Samples -> PlaceSet] /\ DOMAIN calls' = 1..Samples /\ Dropped(used, Samples, place, calls, place', calls')
    BY <2>2, <2>4, DiscardIs DEF Dropped
  <2>6. frame' = frame /\ OnlyFrame(frame, frame', cur)
    BY ONLY <2>1 DEF OnlyFrame
  <2>7. frame[cur].id \in 1..used
    BY ONLY <2>3, <2>4 DEF ThreadOK
  <2>8. Stops(trackst, cur, frame, used, Samples, place, calls, trackst', frame', place', calls')
    BY ONLY <2>2, <2>3, <2>4, <2>5, <2>6, <2>7 DEF Stops
  <2>9. trackst' \in TrackSet /\ Tracking(trackst', cur, frame', used, place', calls')
    BY ONLY <2>8, DiscardTracks
  <2>10. pending' \in BOOLEAN /\ frame' \in [Workers -> FrameSet] /\ suspended' = suspended /\ cur' = cur /\ ctx' = ctx /\ used' = used
    BY ONLY <1>1, <2>1, <2>4
  <2>11. frame[cur].pc # "place" /\ frame'[cur].pc # "place" /\ frame[cur].fn # "none" /\ frame'[cur].fn # "none"
    BY ONLY <2>3, <2>6
  <2> QED BY ONLY <2>5, <2>6, <2>9, <2>10, <2>11, IInv, bound' = bound, StepKeeps
<1>3. CASE ~suspended
  <2>1. /\ frame' = [frame EXCEPT ![cur] = [None EXCEPT !.fn = "stop", !.pc = "loop"]] /\ suspended' = TRUE
        /\ UNCHANGED <<trackst, pending, place, calls>>
    BY <1>3 DEF caml_memprof_stop
  <2>2. pending' \in BOOLEAN
    BY <2>1, Setup
  <2> QED BY ONLY <1>1, <1>3, <2>1, <2>2, IInv, bound' = bound, EnterKeeps
<1> QED BY <1>2, <1>3

\* Another thread runs, with the suspended flag that it has saved.
LEMMA SwitchKeeps ==
    ASSUME IInv, NEW w \in Workers, Switch(w), bound' = bound
    PROVE  IInv'
<1>1. /\ AtProgram(cur) /\ w # cur /\ cur' = w /\ ctx' = [ctx EXCEPT ![cur] = suspended] /\ suspended' = ctx[w]
      /\ pending' = check_action_pending(trackst, ctx[w])
      /\ UNCHANGED <<trackst, frame, used, place, calls>>
  BY DEF Switch
<1>2. PICK u \in Workers : u = cur
  BY Setup
<1>3. /\ trackst \in TrackSet /\ Tracking(trackst, u, frame, used, place, calls) /\ Suspension(u, frame, suspended, ctx)
      /\ ctx \in [Workers -> BOOLEAN] /\ suspended \in BOOLEAN /\ pending \in BOOLEAN
  BY <1>2, Setup
<1>4. Idle(frame[u]) /\ Idle(frame[w]) /\ Shape(frame[u]) /\ Shape(frame[w])
  BY ONLY <1>1, <1>2, <1>3, u \in Workers, w \in Workers DEF AtProgram, Idle, Tracking, Threads, ThreadOK
<1>5. \A i : Hand(trackst, u, frame, i) = "none" /\ Hand(trackst, w, frame, i) = "none"
  BY ONLY <1>4 DEF Hand, Idle, Shape
<1>6. Table(trackst, w, frame, used, place, calls)
  BY ONLY <1>3, <1>5 DEF Tracking, Table
<1>7. Threads(trackst, w, frame, used, place)
  BY ONLY <1>3, <1>4 DEF Tracking, Threads
<1>8. Tracking(trackst, w, frame, used, place, calls)
  BY ONLY <1>3, <1>6, <1>7 DEF Tracking
<1>9. Suspension(w, frame, ctx[w], ctx')
  <2>1. ctx[w] <=> frame[w].fn # "none" /\ frame[w].pc # "place"
    BY ONLY <1>1, <1>2, <1>3, <1>4, w \in Workers DEF Suspension, Idle, Shape
  <2>2. ASSUME NEW v \in Workers, v # w PROVE ctx'[v] <=> frame[v].fn # "none"
    <3>1. CASE v = u
      <4>1. ctx'[v] = suspended
        BY ONLY <1>1, <1>2, <1>3, <3>1, u \in Workers
      <4> QED BY ONLY <4>1, <3>1, <1>3, <1>4 DEF Suspension, Idle, Shape
    <3>2. CASE v # u
      <4>1. ctx'[v] = ctx[v]
        BY ONLY <1>1, <1>2, <1>3, <3>2, v \in Workers
      <4> QED BY ONLY <4>1, <3>2, <1>3, v \in Workers DEF Suspension
    <3> QED BY <3>1, <3>2
  <2> QED BY ONLY <2>1, <2>2 DEF Suspension
<1>10. pending' \in BOOLEAN /\ ctx[w] \in BOOLEAN /\ ctx' \in [Workers -> BOOLEAN] /\ Alert(trackst, ctx[w], pending')
  <2>1. ctx[w] \in BOOLEAN /\ ctx' \in [Workers -> BOOLEAN]
    BY ONLY <1>1, <1>2, <1>3, w \in Workers
  <2>2. pending' \in BOOLEAN /\ Alert(trackst, ctx[w], pending')
    BY ONLY <2>1, <1>1, <1>3 DEF check_action_pending, Alert
  <2> QED BY <2>1, <2>2
<1>11. Types'
  BY <1>1, <1>10, Setup DEF Types, Samples
<1> QED BY <1>1, <1>8, <1>9, <1>10, <1>11 DEF IInv

-----------------------------------------------------------------------------
(* Sampling *)

\* An entry that was just made.
Fresh(e, id, p, c) == e.id = id /\ Free(e) /\ Tracked(e, p, c, "none")

\* k entries are added at the end of the table, for the blocks n + 1 to n + k.
Adds(s, u, f, n, N, pl, ca, t, g, k, ql, da) ==
    /\ s \in TrackSet /\ t \in TrackSet /\ u \in Workers /\ n \in Nat /\ N \in Nat /\ k \in Nat /\ n + k <= N
    /\ Tracking(s, u, f, n, pl, ca) /\ s.idx[u] = 0
    /\ Len(t.entries) = Len(s.entries) + k /\ \A i \in DOMAIN s.entries : t.entries[i] = s.entries[i]
    /\ \A j \in 1..k : Fresh(t.entries[Len(s.entries) + j], n + j, ql[n + j], da[n + j])
    /\ t.young = s.young /\ t.callback = s.callback /\ t.delete = s.delete
    /\ \A w \in Workers : w # u => t.idx[w] = s.idx[w]
    /\ OnlyFrame(f, g, u) /\ g[u].pc # "call" /\ ThreadOK(t, u, g[u], n + k, ql)
    /\ DOMAIN pl = 1..N /\ DOMAIN ql = 1..N
    /\ \A id \in 1..N : id <= n \/ id > n + k => ql[id] = pl[id] /\ da[id] = ca[id]

\* New entries at the end of the table disturb nothing.
LEMMA AddTracks ==
    ASSUME NEW s, NEW u, NEW f, NEW n, NEW N, NEW pl, NEW ca, NEW t, NEW g, NEW k, NEW ql, NEW da,
           Adds(s, u, f, n, N, pl, ca, t, g, k, ql, da)
    PROVE  Tracking(t, u, g, n + k, ql, da)
<1>1. /\ s \in TrackSet /\ t \in TrackSet /\ u \in Workers /\ n \in Nat /\ N \in Nat /\ k \in Nat /\ n + k <= N
      /\ Tracking(s, u, f, n, pl, ca) /\ s.idx[u] = 0
      /\ t.young = s.young /\ t.callback = s.callback /\ t.delete = s.delete
      /\ \A w \in Workers : w # u => t.idx[w] = s.idx[w]
      /\ OnlyFrame(f, g, u) /\ g[u].pc # "call" /\ ThreadOK(t, u, g[u], n + k, ql)
      /\ DOMAIN pl = 1..N /\ DOMAIN ql = 1..N
      /\ \A id \in 1..N : id <= n \/ id > n + k => ql[id] = pl[id] /\ da[id] = ca[id]
  BY DEF Adds
<1>2. PICK m \in Nat : m = Len(s.entries) /\ DOMAIN s.entries = 1..m
  BY <1>1, TrackFacts
<1>3. /\ Len(t.entries) = m + k /\ DOMAIN t.entries = 1..m + k /\ \A i \in 1..m : t.entries[i] = s.entries[i]
      /\ \A j \in 1..k : Fresh(t.entries[m + j], n + j, ql[n + j], da[n + j])
  <2>1. Len(t.entries) = m + k /\ \A i \in 1..m : t.entries[i] = s.entries[i]
    BY <1>2 DEF Adds
  <2>2. \A j \in 1..k : Fresh(t.entries[m + j], n + j, ql[n + j], da[n + j])
    BY <1>2 DEF Adds
  <2>3. DOMAIN t.entries = 1..m + k
    BY <1>1, <2>1, TrackFacts
  <2> QED BY <2>1, <2>2, <2>3
<1>4. ASSUME NEW i \in 1..m + k
      PROVE  \/ i \in 1..m /\ t.entries[i] = s.entries[i]
             \/ \E j \in 1..k : i = m + j /\ Fresh(t.entries[i], n + j, ql[n + j], da[n + j])
  <2>1. CASE i <= m
    BY <2>1, <1>3
  <2>2. CASE i > m
    <3>1. i - m \in 1..k /\ i = m + (i - m)
      BY <2>2, <1>1
    <3> QED BY <3>1, <1>3
  <2> QED BY <2>1, <2>2
<1>5. /\ s.young \in Nat /\ s.callback \in Nat /\ s.delete \in Nat /\ 1 <= s.young /\ s.young <= m + 1
      /\ 1 <= s.callback /\ s.callback <= m + 1 /\ 1 <= s.delete /\ s.delete <= m + 1
  BY <1>1, <1>2, TrackFacts DEF Tracking, Positions, Position
<1>6. Positions(t)
  BY ONLY <1>1, <1>3, <1>5, m \in Nat DEF Positions, Position
<1>7. (\A i \in 1..m : Hand(s, u, f, i) = "none") /\ \A i : Hand(t, u, g, i) = "none"
  BY ONLY <1>1 DEF Hand
<1>8. ASSUME NEW i \in 1..m
      PROVE  /\ s.entries[i].id \in 1..n /\ Remembered(s.entries[i], i, s.young)
             /\ EntryOK(s.entries[i], pl[s.entries[i].id], ca[s.entries[i].id], "none") /\ Owned(s.entries[i], i, s, f)
  <2>1. Hand(s, u, f, i) = "none"
    BY <1>7
  <2> QED BY <2>1, <1>1, <1>2 DEF Tracking, Table, Owners
<1>9. \A id \in 1..n : id \in 1..N /\ ql[id] = pl[id] /\ da[id] = ca[id]
  BY ONLY <1>1
<1>10. Table(t, u, g, n + k, ql, da)
  <2>1. ASSUME NEW i \in 1..m + k
        PROVE  /\ t.entries[i].id \in 1..n + k /\ Remembered(t.entries[i], i, t.young)
               /\ EntryOK(t.entries[i], ql[t.entries[i].id], da[t.entries[i].id], Hand(t, u, g, i))
               /\ t.entries[i].id \in 1..n <=> i \in 1..m
    <3>1. CASE i \in 1..m /\ t.entries[i] = s.entries[i]
      <4>1. s.entries[i].id \in 1..n + k
        BY <3>1, <1>1, <1>8
      <4> QED BY <3>1, <4>1, <1>1, <1>7, <1>8, <1>9
    <3>2. ASSUME NEW j \in 1..k, i = m + j, Fresh(t.entries[i], n + j, ql[n + j], da[n + j])
          PROVE  /\ t.entries[i].id \in 1..n + k /\ Remembered(t.entries[i], i, t.young)
                 /\ EntryOK(t.entries[i], ql[t.entries[i].id], da[t.entries[i].id], Hand(t, u, g, i))
                 /\ t.entries[i].id \in 1..n <=> i \in 1..m
      <4>1. t.entries[i].id = n + j /\ n + j \in 1..n + k /\ n + j \notin 1..n /\ i \notin 1..m
        BY <3>2, <1>1 DEF Fresh
      <4>2. Remembered(t.entries[i], i, t.young)
        <5>1. i >= t.young
          BY <3>2, <1>1, <1>5
        <5> QED BY <5>1 DEF Remembered
      <4>3. EntryOK(t.entries[i], ql[n + j], da[n + j], "none")
        BY ONLY <3>2 DEF Fresh, Free, EntryOK
      <4> QED BY ONLY <4>1, <4>2, <4>3, <1>7
    <3> QED BY <1>4, <3>1, <3>2
  <2>2. ASSUME NEW i \in 1..m + k, NEW j \in 1..m + k, t.entries[i].id = t.entries[j].id PROVE i = j
    <3>1. CASE i \in 1..m
      <4>1. j \in 1..m
        BY <2>1, <2>2, <3>1
      <4>2. s.entries[i].id = s.entries[j].id
        BY ONLY <4>1, <3>1, <2>2, <1>3
      <4>3. \A a, b \in 1..m : s.entries[a].id = s.entries[b].id => a = b
        BY ONLY <1>1, <1>2 DEF Tracking, Table
      <4> QED BY ONLY <4>1, <4>2, <4>3, <3>1
    <3>2. CASE i \notin 1..m
      <4>1. j \notin 1..m
        BY <2>1, <2>2, <3>2
      <4>2. PICK a \in 1..k : i = m + a /\ Fresh(t.entries[i], n + a, ql[n + a], da[n + a])
        BY <3>2, <1>4
      <4>3. PICK b \in 1..k : j = m + b /\ Fresh(t.entries[j], n + b, ql[n + b], da[n + b])
        BY <4>1, <1>4
      <4>4. n + a = n + b
        BY <2>2, <4>2, <4>3 DEF Fresh
      <4> QED BY <4>2, <4>3, <4>4, <1>1
    <3> QED BY <3>1, <3>2
  <2> QED BY <2>1, <2>2, <1>3 DEF Table
<1>11. Blocks(t, n + k, ql, da)
  <2> SUFFICES ASSUME NEW id \in 1..N
               PROVE  /\ id > n + k => ql[id] = Nowhere /\ da[id] = <<>>
                      /\ id <= n + k => IF ql[id].at = "dropped" THEN da[id] = <<>> ELSE HasEntry(t, id)
    BY <1>1 DEF Blocks
  <2>1. /\ id > n => pl[id] = Nowhere /\ ca[id] = <<>>
        /\ id <= n => IF pl[id].at = "dropped" THEN ca[id] = <<>> ELSE HasEntry(s, id)
    BY <1>1 DEF Tracking, Blocks
  <2>2. CASE id <= n
    <3>1. HasEntry(s, id) => HasEntry(t, id)
      <4> HAVE HasEntry(s, id)
      <4>1. PICK i \in 1..m : s.entries[i].id = id /\ ~s.entries[i].deleted
        BY <1>2 DEF HasEntry
      <4>2. i \in 1..m + k
        BY <1>1
      <4> QED BY <4>1, <4>2, <1>3 DEF HasEntry
    <3>2. ql[id] = pl[id] /\ da[id] = ca[id] /\ ~(id > n + k)
      BY <2>2, <1>1
    <3> QED BY <3>1, <3>2, <2>1, <2>2
  <2>3. CASE id > n /\ id <= n + k
    <3>1. PICK j \in 1..k : id = n + j
      <4>1. id - n \in 1..k /\ id = n + (id - n)
        BY <2>3, <1>1
      <4> QED BY <4>1
    <3>2. m + j \in 1..m + k
      BY <1>1
    <3>3. t.entries[m + j].id = id /\ ~t.entries[m + j].deleted /\ ql[id].at # "dropped"
      BY <3>1, <1>3 DEF Fresh, Free, Tracked, Agrees
    <3>4. HasEntry(t, id)
      BY <3>2, <3>3, <1>3 DEF HasEntry
    <3>5. ~(id > n + k)
      BY <2>3, <1>1
    <3> QED BY <3>3, <3>4, <3>5
  <2>4. CASE id > n + k
    <3>1. ql[id] = pl[id] /\ da[id] = ca[id] /\ id > n /\ ~(id <= n + k)
      BY <2>4, <1>1
    <3> QED BY <3>1, <2>1
  <2> QED BY <2>2, <2>3, <2>4, <1>1
<1>12. Threads(t, u, g, n + k, ql)
  <2> SUFFICES ASSUME NEW w \in Workers PROVE ThreadOK(t, w, g[w], n + k, ql) /\ (w # u => Idle(g[w]))
    BY DEF Threads
  <2>1. CASE w = u
    BY <2>1, <1>1
  <2>2. CASE w # u
    <3>1. ThreadOK(s, w, f[w], n, pl) /\ Idle(f[w]) /\ g[w] = f[w] /\ t.idx[w] = s.idx[w]
      BY <2>2, <1>1 DEF Tracking, Threads, OnlyFrame
    <3>2. f[w].pc = "callback" => f[w].id \in 1..n /\ f[w].id \in 1..n + k
      BY <3>1, <1>1 DEF ThreadOK
    <3>3. f[w].pc = "callback" => ql[f[w].id] = pl[f[w].id]
      BY <3>2, <1>9
    <3>4. s.idx[w] # 0 => s.idx[w] \in 1..m /\ s.idx[w] \in 1..m + k /\ Holds(w, f[w], t.entries[s.idx[w]])
      <4>1. s.idx[w] # 0 => s.idx[w] \in 1..m /\ Holds(w, f[w], s.entries[s.idx[w]])
        BY ONLY <3>1, <1>2 DEF ThreadOK
      <4>2. \A a \in 1..m : a \in 1..m + k /\ t.entries[a] = s.entries[a]
        BY ONLY <1>1, <1>3, m \in Nat
      <4> QED BY ONLY <4>1, <4>2
    <3> QED BY ONLY <2>2, <3>1, <3>2, <3>3, <3>4, <1>3 DEF ThreadOK
  <2> QED BY <2>1, <2>2
<1>13. Owners(t, g)
  <2> SUFFICES ASSUME NEW i \in 1..m + k PROVE Owned(t.entries[i], i, t, g)
    BY <1>3 DEF Owners
  <2>1. CASE i \in 1..m /\ t.entries[i] = s.entries[i]
    <3>1. Owned(s.entries[i], i, s, f)
      BY <2>1, <1>8
    <3>2. ASSUME s.entries[i].idx_ptr # 0
          PROVE  /\ g[s.entries[i].idx_ptr] = f[s.entries[i].idx_ptr]
                 /\ t.idx[s.entries[i].idx_ptr] = s.idx[s.entries[i].idx_ptr]
      <4>1. PICK w \in Workers : w = s.entries[i].idx_ptr
        <5>1. s.entries[i] \in EntrySet
          BY ONLY <2>1, <1>1, <1>2, TrackFacts
        <5> QED BY ONLY <5>1, <3>2 DEF EntrySet
      <4>2. s.idx[w] = i
        BY ONLY <4>1, <3>1, <3>2 DEF Owned
      <4>3. w # u
        BY ONLY <4>2, <2>1, <1>1
      <4> QED BY <4>1, <4>3, <1>1 DEF OnlyFrame
    <3> QED BY <2>1, <3>1, <3>2 DEF Owned
  <2>2. CASE \E j \in 1..k : i = m + j /\ Fresh(t.entries[i], n + j, ql[n + j], da[n + j])
    BY <2>2 DEF Fresh, Free, Owned
  <2> QED BY <1>4, <2>1, <2>2
<1>14. NoneLost(t, g)
  <2> SUFFICES ASSUME NEW i \in 1..m + k, i < t.callback, ~t.entries[i].deleted
               PROVE  Due(t.entries[i]) = "none" \/ Held(t, g, i)
    BY <1>3 DEF NoneLost
  <2>1. i \in 1..m /\ t.entries[i] = s.entries[i]
    BY <1>1, <1>3, <1>5
  <2>2. Due(s.entries[i]) = "none" \/ Held(s, f, i)
    BY <2>1, <1>1, <1>2 DEF Tracking, NoneLost
  <2>3. ASSUME Held(s, f, i) PROVE Held(t, g, i)
    <3>1. PICK w \in Workers : s.idx[w] = i /\ f[w].pc \in {"entry", "call", "callback"}
      BY <2>3 DEF Held
    <3>2. w # u
      BY <3>1, <2>1, <1>1
    <3> QED BY <3>1, <3>2, <1>1 DEF Held, OnlyFrame
  <2> QED BY <2>1, <2>2, <2>3
<1> QED BY <1>6, <1>10, <1>11, <1>12, <1>13, <1>14 DEF Tracking

\* What new_tracked makes for a block that was just sampled.
JustMade(e, id, minor, at, dat, p) ==
    /\ id \in Nat /\ minor \in BOOLEAN /\ at \in {"none", "young", "old"} /\ dat \in {"young", "old"}
    /\ at = "none" => minor
    /\ at \in {"young", "old"} => (at = "young" <=> minor)
    /\ e = Entry(id, minor, BlockOf(at), UserData(id, "stack", dat))
    /\ p \in PlaceSet /\ p.at = at /\ p.minor = minor /\ p.promoted = FALSE

\* Such an entry is tracked, and nobody has it in hand.
LEMMA FreshEntry ==
    ASSUME NEW e, NEW id, NEW minor, NEW at, NEW dat, NEW p, JustMade(e, id, minor, at, dat, p)
    PROVE  e \in EntrySet /\ Fresh(e, id, p, <<>>) /\ e.block = BlockOf(at)
<1> USE DEF JustMade
<1>1. UserData(id, "stack", dat) \in DataSet /\ BlockOf(at) \in {"placeholder", "young", "old", "unit"}
  BY DEF UserData, DataSet, BlockOf
<1>2. PICK x \in DataSet : x = UserData(id, "stack", dat) /\ x.of = id /\ x.from = "stack" /\ x.at = dat
  BY <1>1 DEF UserData
<1>3. e = [id |-> id, block |-> BlockOf(at), user_data |-> x, alloc_young |-> minor, promoted |-> FALSE,
           deallocated |-> FALSE, called |-> {}, deleted |-> FALSE, running |-> FALSE, idx_ptr |-> 0]
  BY <1>2 DEF Entry
<1>4. /\ e \in EntrySet /\ e.id = id /\ e.block = BlockOf(at) /\ e.user_data = x /\ e.alloc_young = minor
      /\ e.promoted = FALSE /\ e.deallocated = FALSE /\ e.called = {} /\ e.deleted = FALSE /\ e.running = FALSE /\ e.idx_ptr = 0
  <2>1. id \in Nat /\ minor \in BOOLEAN
    OBVIOUS
  <2> QED BY ONLY <1>1, <1>3, <2>1, x \in DataSet DEF EntrySet
<1>5. p.at = at /\ p.minor = minor /\ p.promoted = FALSE
  OBVIOUS
<1>6. Agrees(e, p)
  BY <1>4, <1>5 DEF Agrees, PlaceOK
<1>7. CalledOK(e) /\ DataOK(e, "none") /\ History(e, e.called \ {"none"}) = <<>>
  <2>1. dat \in {"young", "old"}
    OBVIOUS
  <2> QED BY ONLY <1>2, <1>4, <2>1 DEF CalledOK, DataOK, LastOf, History
<1>8. Free(e)
  BY ONLY <1>4 DEF Free
<1> QED BY ONLY <1>4, <1>5, <1>6, <1>7, <1>8 DEF Fresh, Tracked

\* Entries added at the end.
LEMMA ConcatIs ==
    ASSUME NEW a \in Seq(EntrySet), NEW b \in Seq(EntrySet), NEW r, r = a \o b
    PROVE  /\ r \in Seq(EntrySet) /\ Len(r) = Len(a) + Len(b) /\ \A i \in DOMAIN a : r[i] = a[i]
           /\ \A j \in 1..Len(b) : r[Len(a) + j] = b[j]
  OBVIOUS

\* Samples whose callback is postponed.
LEMMA PostponeKeeps ==
    ASSUME IInv, NEW k \in 1..2, NEW minor \in BOOLEAN, Postponed(k, minor), bound' = bound
    PROVE  IInv'
<1>1. PICK where \in {"young", "old"} : where = IF minor THEN "young" ELSE "old"
  OBVIOUS
<1>2. PICK q : q = [j \in 1..k |-> Entry(used + j, minor, where, UserData(used + j, "stack", "old"))]
  OBVIOUS
<1>3. /\ AtProgram(cur) /\ ~suspended /\ used + k <= Samples /\ used' = used + k
      /\ place' = [id \in 1..Samples |->
                     IF id \in used + 1..used + k THEN [at |-> where, minor |-> minor, promoted |-> FALSE] ELSE place[id]]
      /\ trackst' = [trackst EXCEPT !.entries = @ \o q]
      /\ pending' = check_action_pending(trackst', suspended)
      /\ UNCHANGED <<cur, suspended, ctx, frame, calls>>
  BY ONLY <1>1, <1>2, Postponed(k, minor) DEF Postponed, Sampling
<1>4. /\ trackst \in TrackSet /\ Tracking(trackst, cur, frame, used, place, calls) /\ used \in Nat /\ Samples \in Nat
      /\ place \in [1..Samples -> PlaceSet] /\ DOMAIN calls = 1..Samples /\ DOMAIN place = 1..Samples /\ cur \in Workers
      /\ ThreadOK(trackst, cur, frame[cur], used, place) /\ Shape(frame[cur]) /\ pending \in BOOLEAN
      /\ Suspension(cur, frame, suspended, ctx) /\ suspended \in BOOLEAN
  BY Setup
<1>5. frame[cur].fn = "none" /\ frame[cur].pc = "run" /\ trackst.idx[cur] = 0
  BY <1>3, ProgramIdle
<1>6. PICK p \in PlaceSet : /\ p = [at |-> where, minor |-> minor, promoted |-> FALSE]
                            /\ p.at = where /\ p.minor = minor /\ p.promoted = FALSE
  <2>1. PICK z : z = [at |-> where, minor |-> minor, promoted |-> FALSE]
    OBVIOUS
  <2>2. z \in PlaceSet /\ z.at = where /\ z.minor = minor /\ z.promoted = FALSE
    BY ONLY <2>1, where \in {"young", "old"}, minor \in BOOLEAN DEF PlaceSet
  <2> QED BY ONLY <2>1, <2>2
<1>7. ASSUME NEW j \in 1..k PROVE q[j] \in EntrySet /\ Fresh(q[j], used + j, p, <<>>)
  <2>1. BlockOf(where) = where
    BY ONLY where \in {"young", "old"} DEF BlockOf
  <2>2. q[j] = Entry(used + j, minor, BlockOf(where), UserData(used + j, "stack", "old"))
    BY ONLY <1>2, <2>1, j \in 1..k
  <2>3. used + j \in Nat /\ where \in {"none", "young", "old"} /\ (where = "none" => minor)
        /\ (where \in {"young", "old"} => (where = "young" <=> minor)) /\ "old" \in {"young", "old"}
    BY ONLY <1>1, <1>4, j \in 1..k, k \in 1..2, minor \in BOOLEAN, where \in {"young", "old"}
  <2>4. JustMade(q[j], used + j, minor, where, "old", p)
    BY ONLY <2>2, <2>3, <1>6, p \in PlaceSet, minor \in BOOLEAN DEF JustMade
  <2> QED BY ONLY <2>4, FreshEntry
<1>8. q \in Seq(EntrySet) /\ Len(q) = k /\ p \in PlaceSet
  <2>1. q \in [1..k -> EntrySet]
    BY ONLY <1>2, <1>7
  <2>2. 1 \in 1..k
    BY ONLY k \in 1..2
  <2> QED BY ONLY <2>1, <2>2, <1>7, k \in 1..2
<1>9. PICK r : r = trackst.entries \o q
  OBVIOUS
<1>10. /\ r \in Seq(EntrySet) /\ Len(r) = Len(trackst.entries) + k /\ \A i \in DOMAIN trackst.entries : r[i] = trackst.entries[i]
       /\ \A j \in 1..k : r[Len(trackst.entries) + j] = q[j]
  <2>1. trackst.entries \in Seq(EntrySet)
    BY ONLY <1>4, TrackFacts
  <2>2. /\ r \in Seq(EntrySet) /\ Len(r) = Len(trackst.entries) + Len(q)
        /\ \A i \in DOMAIN trackst.entries : r[i] = trackst.entries[i]
        /\ \A j \in 1..Len(q) : r[Len(trackst.entries) + j] = q[j]
    <3>1. PICK a : a = trackst.entries
      OBVIOUS
    <3>2. a \in Seq(EntrySet) /\ q \in Seq(EntrySet) /\ r = a \o q
      BY ONLY <2>1, <3>1, <1>8, <1>9
    <3>3. /\ r \in Seq(EntrySet) /\ Len(r) = Len(a) + Len(q) /\ \A i \in DOMAIN a : r[i] = a[i]
          /\ \A j \in 1..Len(q) : r[Len(a) + j] = q[j]
      BY ONLY <3>2, ConcatIs
    <3> QED BY ONLY <3>1, <3>3
  <2> QED BY ONLY <2>2, <1>8
<1>11. trackst' = [entries |-> r, young |-> trackst.young, callback |-> trackst.callback, delete |-> trackst.delete,
                   idx |-> trackst.idx]
  BY ONLY <1>3, <1>4, <1>9 DEF TrackSet
<1>12. /\ trackst' \in TrackSet /\ trackst'.entries = r /\ trackst'.young = trackst.young /\ trackst'.idx = trackst.idx
       /\ trackst'.callback = trackst.callback /\ trackst'.delete = trackst.delete
  BY ONLY <1>4, <1>10, <1>11, TrackFacts DEF TrackSet
<1>13. /\ place' \in [1..Samples -> PlaceSet] /\ DOMAIN place' = 1..Samples
       /\ \A id \in 1..Samples : id \in used + 1..used + k => place'[id] = p
       /\ \A id \in 1..Samples : id \notin used + 1..used + k => place'[id] = place[id]
  <2>1. place' = [id \in 1..Samples |-> IF id \in used + 1..used + k THEN p ELSE place[id]]
    BY ONLY <1>3, <1>6
  <2> QED BY ONLY <2>1, <1>4, <1>8
<1>14. ASSUME NEW j \in 1..k PROVE Fresh(r[Len(trackst.entries) + j], used + j, place'[used + j], calls[used + j])
  <2>1. used + j \in 1..Samples /\ used + j \in used + 1..used + k /\ used + j > used
    BY ONLY <1>3, <1>4, j \in 1..k, k \in 1..2
  <2>2. calls[used + j] = <<>>
    BY ONLY <2>1, <1>4 DEF Tracking, Blocks
  <2>3. place'[used + j] = p /\ r[Len(trackst.entries) + j] = q[j]
    BY ONLY <2>1, <1>10, <1>13, j \in 1..k
  <2> QED BY ONLY <2>2, <2>3, <1>7, j \in 1..k
<1>15. ThreadOK(trackst', cur, frame'[cur], used + k, place')
  <2>1. trackst'.idx[cur] = 0 /\ frame'[cur] = frame[cur]
    BY ONLY <1>3, <1>5, <1>12
  <2> QED BY ONLY <2>1, <1>4, <1>5 DEF ThreadOK
<1>16. \A id \in 1..Samples : id <= used \/ id > used + k => place'[id] = place[id] /\ calls'[id] = calls[id]
  <2> SUFFICES ASSUME NEW id \in 1..Samples, id <= used \/ id > used + k PROVE place'[id] = place[id] /\ calls'[id] = calls[id]
    OBVIOUS
  <2>1. id \notin used + 1..used + k
    BY ONLY <1>4, id \in 1..Samples, id <= used \/ id > used + k, k \in 1..2
  <2> QED BY ONLY <2>1, <1>3, <1>13, id \in 1..Samples
<1>17. Adds(trackst, cur, frame, used, Samples, place, calls, trackst', frame', k, place', calls')
  <2>1. OnlyFrame(frame, frame', cur) /\ frame'[cur].pc # "call" /\ calls' = calls /\ k \in Nat
    BY ONLY <1>3, <1>5, k \in 1..2 DEF OnlyFrame
  <2> QED BY ONLY <2>1, <1>3, <1>4, <1>5, <1>10, <1>12, <1>13, <1>14, <1>15, <1>16 DEF Adds
<1>18. Tracking(trackst', cur, frame', used + k, place', calls')
  BY ONLY <1>17, AddTracks
<1>19. pending' \in BOOLEAN /\ Alert(trackst', suspended', pending')
  BY ONLY <1>3, <1>4 DEF check_action_pending, Alert
<1>20. Types'
  <2>1. used + k \in Nat
    BY ONLY <1>4, k \in 1..2
  <2> QED BY <2>1, <1>3, <1>12, <1>13, <1>19, Setup DEF Types, Samples
<1> QED BY ONLY <1>3, <1>4, <1>18, <1>19, <1>20 DEF IInv

\* caml_memprof_track_young, up to its callback.
LEMMA TrackYoungKeeps ==
    ASSUME IInv, caml_memprof_track_young, bound' = bound
    PROVE  IInv'
<1>1. PICK id : id = used + 1
  OBVIOUS
<1>2. PICK e : e = Entry(id, TRUE, "placeholder", UserData(id, "stack", "young"))
  OBVIOUS
<1>3. PICK fr : fr = [fn |-> "young", pc |-> "entry", cb |-> "none", id |-> id]
  OBVIOUS
<1>4. /\ AtProgram(cur) /\ ~suspended /\ used < Samples /\ used' = id /\ suspended' = TRUE
      /\ place' = [place EXCEPT ![id].minor = TRUE]
      /\ trackst' = [new_tracked(trackst, e) EXCEPT !.idx[cur] = Len(trackst.entries) + 1]
      /\ frame' = [frame EXCEPT ![cur] = fr] /\ UNCHANGED <<cur, ctx, pending, calls>>
  BY ONLY <1>1, <1>2, <1>3, caml_memprof_track_young DEF caml_memprof_track_young, Sampling
<1>5. /\ trackst \in TrackSet /\ Tracking(trackst, cur, frame, used, place, calls) /\ used \in Nat /\ Samples \in Nat
      /\ place \in [1..Samples -> PlaceSet] /\ DOMAIN calls = 1..Samples /\ DOMAIN place = 1..Samples /\ cur \in Workers
      /\ pending \in BOOLEAN /\ Suspension(cur, frame, suspended, ctx) /\ frame \in [Workers -> FrameSet]
  BY Setup
<1>6. frame[cur].fn = "none" /\ trackst.idx[cur] = 0
  BY <1>4, ProgramIdle
<1>7. id \in Nat /\ id \in 1..Samples /\ id > used /\ id >= 1 /\ id <= Samples
  BY ONLY <1>1, <1>4, <1>5
<1>8. place[id] = Nowhere /\ calls[id] = <<>>
  BY ONLY <1>5, <1>7 DEF Tracking, Blocks
<1>9. PICK p \in PlaceSet : p = [place[id] EXCEPT !.minor = TRUE] /\ p.at = "none" /\ p.minor = TRUE /\ p.promoted = FALSE
  <2>1. PICK z \in PlaceSet : z = place[id] /\ z.at = "none" /\ z.promoted = FALSE
    BY ONLY <1>5, <1>7, <1>8 DEF Nowhere
  <2>2. PICK y : y = [z EXCEPT !.minor = TRUE]
    OBVIOUS
  <2>3. y \in PlaceSet /\ y.at = "none" /\ y.minor = TRUE /\ y.promoted = FALSE
    BY ONLY <2>1, <2>2, z \in PlaceSet DEF PlaceSet
  <2> QED BY ONLY <2>1, <2>2, <2>3
<1>10. e \in EntrySet /\ Fresh(e, id, p, <<>>) /\ p \in PlaceSet /\ e.block = "placeholder"
  <2>1. BlockOf("none") = "placeholder"
    BY DEF BlockOf
  <2>2. TRUE \in BOOLEAN /\ "none" \in {"none", "young", "old"} /\ "young" \in {"young", "old"}
    OBVIOUS
  <2>3. e = Entry(id, TRUE, BlockOf("none"), UserData(id, "stack", "young"))
    BY ONLY <2>1, <1>2
  <2>4. e \in EntrySet /\ Fresh(e, id, p, <<>>) /\ e.block = BlockOf("none")
    <3>1. JustMade(e, id, TRUE, "none", "young", p)
      BY ONLY <2>2, <2>3, <1>7, <1>9, p \in PlaceSet DEF JustMade
    <3> QED BY ONLY <3>1, FreshEntry
  <2> QED BY ONLY <2>1, <2>4, p \in PlaceSet
<1>11. place' = [place EXCEPT ![id] = p] /\ place'[id] = p /\ place' \in [1..Samples -> PlaceSet] /\ DOMAIN place' = 1..Samples
       /\ \A x \in 1..Samples : x # id => place'[x] = place[x]
  <2>1. [place[id] EXCEPT !.minor = TRUE] = p
    BY ONLY <1>9
  <2>2. place' = [place EXCEPT ![id] = p]
    BY ONLY <2>1, <1>4
  <2> QED BY ONLY <2>2, <1>5, <1>7, <1>10
<1>12. PICK m \in Nat : m = Len(trackst.entries) /\ DOMAIN trackst.entries = 1..m
  BY ONLY <1>5, TrackFacts
<1>13. PICK r : r = Append(trackst.entries, e)
  OBVIOUS
<1>14. r \in Seq(EntrySet) /\ Len(r) = m + 1 /\ r[m + 1] = e /\ \A i \in 1..m : r[i] = trackst.entries[i]
  <2>1. trackst.entries \in Seq(EntrySet)
    BY ONLY <1>5, TrackFacts
  <2> QED BY ONLY <2>1, <1>10, <1>12, <1>13
<1>15. PICK x : x = [trackst.idx EXCEPT ![cur] = m + 1]
  OBVIOUS
<1>16. trackst' = [entries |-> r, young |-> trackst.young, callback |-> trackst.callback, delete |-> trackst.delete, idx |-> x]
  BY ONLY <1>4, <1>5, <1>12, <1>13, <1>15 DEF new_tracked, TrackSet
<1>17. x \in [Workers -> Nat] /\ x[cur] = m + 1 /\ \A w \in Workers : w # cur => x[w] = trackst.idx[w]
  <2>1. trackst.idx \in [Workers -> Nat] /\ m + 1 \in Nat
    BY ONLY <1>5, m \in Nat, TrackFacts
  <2> QED BY ONLY <2>1, <1>5, <1>15
<1>18. /\ trackst' \in TrackSet /\ trackst'.entries = r /\ trackst'.young = trackst.young /\ trackst'.idx = x
       /\ trackst'.callback = trackst.callback /\ trackst'.delete = trackst.delete
  BY ONLY <1>5, <1>14, <1>16, <1>17, TrackFacts DEF TrackSet
<1>19. fr \in FrameSet /\ fr.pc = "entry" /\ fr.fn = "young" /\ fr.id = id /\ fr.cb = "none" /\ Shape(fr)
  BY ONLY <1>3, <1>7 DEF FrameSet, Shape
<1>20. frame' \in [Workers -> FrameSet] /\ frame'[cur] = fr /\ OnlyFrame(frame, frame', cur)
  BY ONLY <1>4, <1>5, <1>19, FrameUpdated
<1>21. ThreadOK(trackst', cur, frame'[cur], id, place')
  <2>1. Holds(cur, fr, e)
    BY ONLY <1>10, <1>19 DEF Holds, Fresh
  <2>2. trackst'.idx[cur] = m + 1 /\ m + 1 # 0 /\ trackst'.entries[m + 1] = e /\ m + 1 \in DOMAIN trackst'.entries
    BY ONLY <1>14, <1>17, <1>18, m \in Nat
  <2> QED BY ONLY <2>1, <2>2, <1>19, <1>20 DEF ThreadOK
<1>22. Adds(trackst, cur, frame, used, Samples, place, calls, trackst', frame', 1, place', calls')
  <2>1. \A j \in 1..1 : Fresh(trackst'.entries[Len(trackst.entries) + j], used + j, place'[used + j], calls'[used + j])
    <3>1. Fresh(r[m + 1], id, place'[id], calls'[id])
      BY ONLY <1>4, <1>8, <1>10, <1>11, <1>14
    <3>2. \A j \in 1..1 : j = 1
      OBVIOUS
    <3> QED BY ONLY <3>1, <3>2, <1>1, <1>12, <1>18
  <2>2. \A y \in 1..Samples : y <= used \/ y > used + 1 => place'[y] = place[y] /\ calls'[y] = calls[y]
    BY ONLY <1>1, <1>4, <1>5, <1>7, <1>11
  <2>3. /\ 1 \in Nat /\ used + 1 <= Samples /\ Len(trackst'.entries) = Len(trackst.entries) + 1
        /\ \A i \in DOMAIN trackst.entries : trackst'.entries[i] = trackst.entries[i]
        /\ \A w \in Workers : w # cur => trackst'.idx[w] = trackst.idx[w]
    BY ONLY <1>1, <1>7, <1>12, <1>14, <1>17, <1>18
  <2>4. frame'[cur].pc # "call" /\ ThreadOK(trackst', cur, frame'[cur], used + 1, place')
    BY ONLY <1>1, <1>19, <1>20, <1>21
  <2> QED BY ONLY <2>1, <2>2, <2>3, <2>4, <1>5, <1>6, <1>11, <1>18, <1>20 DEF Adds
<1>23. Tracking(trackst', cur, frame', id, place', calls')
  BY ONLY <1>1, <1>22, AddTracks
<1>24. Suspension(cur, frame', TRUE, ctx)
  BY ONLY <1>5, <1>19, <1>20 DEF Suspension, OnlyFrame
<1>25. Types'
  BY <1>4, <1>7, <1>11, <1>18, <1>20, Setup DEF Types, Samples
<1>26. Alert(trackst', suspended', pending')
  BY <1>4 DEF Alert
<1> QED BY ONLY <1>4, <1>23, <1>24, <1>25, <1>26 DEF IInv

\* caml_memprof_track_alloc_shr, track_young_from_c and caml_memprof_track_interned.
LEMMA TrackShrKeeps ==
    ASSUME IInv, caml_memprof_track_alloc_shr \/ track_young_from_c \/ caml_memprof_track_interned, bound' = bound
    PROVE  IInv'
<1>1. CASE caml_memprof_track_alloc_shr
  <2>1. Postponed(1, FALSE)
    BY ONLY <1>1, Zenon DEF caml_memprof_track_alloc_shr
  <2>2. 1 \in 1..2 /\ FALSE \in BOOLEAN
    OBVIOUS
  <2> QED BY <2>1, <2>2, PostponeKeeps
<1>2. CASE track_young_from_c
  <2>1. Postponed(1, TRUE)
    BY ONLY <1>2, Zenon DEF track_young_from_c
  <2>2. 1 \in 1..2 /\ TRUE \in BOOLEAN
    OBVIOUS
  <2> QED BY <2>1, <2>2, PostponeKeeps
<1>3. CASE caml_memprof_track_interned
  BY <1>3, PostponeKeeps DEF caml_memprof_track_interned
<1> QED BY <1>1, <1>2, <1>3

-----------------------------------------------------------------------------
(* The collectors *)

\* What a collection does to an entry, e before and d after it, whose block was at p and is now at q.
SameBlock(e, d, p, q) ==
    d.block = e.block /\ d.promoted = e.promoted /\ d.deallocated = e.deallocated /\ q = p
Promotes(e, d, p, q) ==
    /\ e.block = "young" /\ ~e.deleted /\ d.block = "old" /\ d.promoted = TRUE /\ d.deallocated = e.deallocated
    /\ q.at = "old" /\ q.minor = p.minor /\ q.promoted = TRUE
Dies(e, d, p, q) ==
    /\ e.block \in {"young", "old"} /\ ~e.deleted
    /\ d.block = "unit" /\ d.promoted = e.promoted /\ d.deallocated = TRUE
    /\ q.at = "dead" /\ q.minor = p.minor /\ q.promoted = p.promoted
SameEntry(e, d) ==
    /\ d.id = e.id /\ d.called = e.called /\ d.deleted = e.deleted /\ d.running = e.running
    /\ d.idx_ptr = e.idx_ptr /\ d.alloc_young = e.alloc_young
    /\ d.user_data.of = e.user_data.of /\ d.user_data.from = e.user_data.from
    /\ e.user_data.at = "young" => d.user_data.at \in {"young", "old"}
    /\ e.user_data.at # "young" => d.user_data = e.user_data
Collects(e, d, p, q) ==
    /\ e \in EntrySet /\ d \in EntrySet /\ p \in PlaceSet /\ q \in PlaceSet /\ SameEntry(e, d)
    /\ SameBlock(e, d, p, q) \/ Promotes(e, d, p, q) \/ Dies(e, d, p, q)

\* A collection leaves each entry in agreement with its block, and the calls made as expected.
LEMMA CollectedEntry ==
    ASSUME NEW e, NEW d, NEW p, NEW q, NEW c, NEW h, Collects(e, d, p, q), EntryOK(e, p, c, h)
    PROVE  EntryOK(d, q, c, h)
<1>1. /\ e \in EntrySet /\ d \in EntrySet /\ p \in PlaceSet /\ q \in PlaceSet /\ SameEntry(e, d)
      /\ SameBlock(e, d, p, q) \/ Promotes(e, d, p, q) \/ Dies(e, d, p, q)
  BY DEF Collects
<1>2. CASE e.deleted
  <2>1. Deleted(e, p)
    BY <1>2 DEF EntryOK
  <2>2. e.user_data.at # "young" /\ e.user_data = Unit /\ e.block = "unit" /\ ~e.running /\ e.idx_ptr = 0 /\ p.at = "dropped"
    BY <2>1 DEF Deleted, Unit
  <2>3. SameBlock(e, d, p, q)
    BY <1>1, <1>2 DEF Promotes, Dies
  <2>4. d.deleted
    BY <1>1, <1>2 DEF SameEntry
  <2>5. Deleted(d, q)
    BY <1>1, <2>2, <2>3 DEF Deleted, SameEntry, SameBlock
  <2> QED BY <2>4, <2>5 DEF EntryOK
<1>3. CASE ~e.deleted
  <2>1. Agrees(e, p) /\ CalledOK(e) /\ DataOK(e, h) /\ c = History(e, e.called \ {h})
    BY <1>3 DEF EntryOK, Tracked
  <2>2. ~d.deleted
    BY <1>1, <1>3, Zenon DEF SameEntry
  <2>3. d.id = e.id /\ d.called = e.called /\ d.alloc_young = e.alloc_young
    BY <1>1 DEF SameEntry
  <2>4. DataOK(d, h)
    BY ONLY <1>1, <2>1 DEF SameEntry, DataOK
  <2>5. /\ e.promoted \in BOOLEAN /\ e.deallocated \in BOOLEAN /\ e.alloc_young \in BOOLEAN /\ p.minor \in BOOLEAN
        /\ p.promoted \in BOOLEAN /\ d.promoted \in BOOLEAN /\ d.deallocated \in BOOLEAN
    BY ONLY <1>1 DEF EntrySet, PlaceSet
  <2>6. CASE SameBlock(e, d, p, q)
    <3>1. Agrees(d, q)
      BY ONLY <2>1, <2>3, <2>6 DEF Agrees, SameBlock
    <3>2. CalledOK(d)
      BY ONLY <2>1, <2>3, <2>6 DEF CalledOK, SameBlock
    <3>3. c = History(d, d.called \ {h})
      BY ONLY <2>1, <2>3, <2>6 DEF SameBlock, History, AllocCall, PromoteCall, DeallocCall
    <3> QED BY ONLY <2>2, <2>4, <3>1, <3>2, <3>3 DEF EntryOK, Tracked
  <2>7. CASE Promotes(e, d, p, q)
    <3>1. p.at = "young"
      BY ONLY <2>1, <2>7 DEF Promotes, Agrees, BlockOf
    <3>2. e.deallocated = FALSE /\ p.minor = TRUE /\ e.alloc_young = TRUE
      BY ONLY <2>1, <2>5, <3>1 DEF Agrees, PlaceOK
    <3>3. "dealloc" \notin e.called
      BY ONLY <2>1, <3>2 DEF CalledOK
    <3>4. Agrees(d, q)
      BY ONLY <2>3, <2>7, <3>2 DEF Agrees, PlaceOK, BlockOf, Promotes
    <3>5. CalledOK(d)
      BY ONLY <2>1, <2>3, <2>7, <3>3 DEF CalledOK, Promotes
    <3>6. c = History(d, d.called \ {h})
      BY ONLY <2>1, <2>3, <3>3 DEF History, AllocCall, PromoteCall
    <3> QED BY ONLY <2>2, <2>4, <3>4, <3>5, <3>6 DEF EntryOK, Tracked
  <2>8. CASE Dies(e, d, p, q)
    <3>1. p.at \in {"young", "old"} /\ PlaceOK(p) /\ e.promoted = p.promoted /\ e.alloc_young = p.minor
      BY ONLY <2>1, <2>8 DEF Dies, Agrees, BlockOf
    <3>2. e.deallocated = FALSE
      BY ONLY <2>1, <2>5, <3>1 DEF Agrees
    <3>3. "dealloc" \notin e.called
      BY ONLY <2>1, <3>2 DEF CalledOK
    <3>4. Agrees(d, q)
      BY ONLY <2>3, <2>8, <3>1 DEF Agrees, PlaceOK, BlockOf, Dies
    <3>5. CalledOK(d)
      BY ONLY <2>1, <2>3, <2>8, <3>3 DEF CalledOK, Dies
    <3>6. c = History(d, d.called \ {h})
      BY ONLY <2>1, <2>3, <3>3 DEF History, AllocCall, PromoteCall
    <3> QED BY ONLY <2>2, <2>4, <3>4, <3>5, <3>6 DEF EntryOK, Tracked
  <2> QED BY ONLY <1>1, <2>6, <2>7, <2>8
<1> QED BY <1>2, <1>3

\* A collection: every entry is dealt with where it is.
Collection(s, u, f, n, N, pl, ca, t, ql) ==
    /\ s \in TrackSet /\ t \in TrackSet /\ u \in Workers /\ n \in Nat /\ N \in Nat /\ n <= N
    /\ Tracking(s, u, f, n, pl, ca) /\ DOMAIN pl = 1..N /\ DOMAIN ql = 1..N
    /\ Len(t.entries) = Len(s.entries) /\ t.idx = s.idx /\ Positions(t) /\ t.callback <= s.callback
    /\ \A i \in DOMAIN s.entries : Collects(s.entries[i], t.entries[i], pl[s.entries[i].id], ql[s.entries[i].id])
    /\ \A i \in DOMAIN s.entries : Remembered(t.entries[i], i, t.young)
    /\ \A i \in DOMAIN s.entries : i < t.callback =>
         t.entries[i].promoted = s.entries[i].promoted /\ t.entries[i].deallocated = s.entries[i].deallocated
    /\ \A id \in 1..N : (ql[id].at = "dropped" <=> pl[id].at = "dropped") /\ (id > n => ql[id] = pl[id])

\* A collection keeps the table, the threads and the blocks in step.
LEMMA CollectionTracks ==
    ASSUME NEW s, NEW u, NEW f, NEW n, NEW N, NEW pl, NEW ca, NEW t, NEW ql,
           Collection(s, u, f, n, N, pl, ca, t, ql)
    PROVE  Tracking(t, u, f, n, ql, ca)
<1>1. /\ s \in TrackSet /\ t \in TrackSet /\ u \in Workers /\ n \in Nat /\ N \in Nat /\ n <= N
      /\ Tracking(s, u, f, n, pl, ca) /\ DOMAIN pl = 1..N /\ DOMAIN ql = 1..N
      /\ Len(t.entries) = Len(s.entries) /\ t.idx = s.idx /\ Positions(t) /\ t.callback <= s.callback
  BY DEF Collection
<1>2. PICK m \in Nat : m = Len(s.entries) /\ DOMAIN s.entries = 1..m /\ DOMAIN t.entries = 1..m
  BY ONLY <1>1, TrackFacts
<1>3. ASSUME NEW i \in 1..m
      PROVE  /\ Collects(s.entries[i], t.entries[i], pl[s.entries[i].id], ql[s.entries[i].id])
             /\ Remembered(t.entries[i], i, t.young)
             /\ i < t.callback => /\ t.entries[i].promoted = s.entries[i].promoted
                                  /\ t.entries[i].deallocated = s.entries[i].deallocated
  BY <1>2 DEF Collection
<1>4. \A id \in 1..N : (ql[id].at = "dropped" <=> pl[id].at = "dropped") /\ (id > n => ql[id] = pl[id])
  BY DEF Collection
<1>5. ASSUME NEW i \in 1..m
      PROVE  /\ t.entries[i].id = s.entries[i].id /\ t.entries[i].called = s.entries[i].called
             /\ t.entries[i].deleted = s.entries[i].deleted /\ t.entries[i].running = s.entries[i].running
             /\ t.entries[i].idx_ptr = s.entries[i].idx_ptr
             /\ s.entries[i].block = "placeholder" => t.entries[i].block = "placeholder"
  BY ONLY <1>3, i \in 1..m DEF Collects, SameEntry, SameBlock, Promotes, Dies
<1>6. Table(t, u, f, n, ql, ca)
  <2>1. ASSUME NEW i \in 1..m, NEW j \in 1..m, t.entries[i].id = t.entries[j].id PROVE i = j
    <3>1. s.entries[i].id = s.entries[j].id
      BY <2>1, <1>5
    <3> QED BY <3>1, <1>1, <1>2 DEF Tracking, Table
  <2>2. ASSUME NEW i \in 1..m
        PROVE  /\ t.entries[i].id \in 1..n
               /\ EntryOK(t.entries[i], ql[t.entries[i].id], ca[t.entries[i].id], Hand(t, u, f, i))
               /\ Remembered(t.entries[i], i, t.young)
    <3>1. /\ s.entries[i].id \in 1..n
          /\ EntryOK(s.entries[i], pl[s.entries[i].id], ca[s.entries[i].id], Hand(s, u, f, i))
      BY <1>1, <1>2 DEF Tracking, Table
    <3>2. Hand(t, u, f, i) = Hand(s, u, f, i)
      BY ONLY <1>1 DEF Hand
    <3>3. EntryOK(t.entries[i], ql[s.entries[i].id], ca[s.entries[i].id], Hand(s, u, f, i))
      <4>1. Collects(s.entries[i], t.entries[i], pl[s.entries[i].id], ql[s.entries[i].id])
        BY <1>3
      <4> QED BY ONLY <3>1, <4>1, CollectedEntry
    <3>4. t.entries[i].id = s.entries[i].id
      BY <1>5
    <3> QED BY ONLY <3>1, <3>2, <3>3, <3>4, <1>3, i \in 1..m
  <2> QED BY ONLY <2>1, <2>2, <1>2 DEF Table
<1>7. Blocks(t, n, ql, ca)
  <2> SUFFICES ASSUME NEW id \in 1..N
               PROVE  /\ id > n => ql[id] = Nowhere /\ ca[id] = <<>>
                      /\ id <= n => IF ql[id].at = "dropped" THEN ca[id] = <<>> ELSE HasEntry(t, id)
    BY <1>1 DEF Blocks
  <2>1. /\ id > n => pl[id] = Nowhere /\ ca[id] = <<>>
        /\ id <= n => IF pl[id].at = "dropped" THEN ca[id] = <<>> ELSE HasEntry(s, id)
    BY <1>1 DEF Tracking, Blocks
  <2>2. HasEntry(s, id) => HasEntry(t, id)
    <3> HAVE HasEntry(s, id)
    <3>1. PICK i \in 1..m : s.entries[i].id = id /\ ~s.entries[i].deleted
      BY <1>2 DEF HasEntry
    <3>2. t.entries[i].id = id
      BY <3>1, <1>5
    <3>3. ~t.entries[i].deleted
      <4>1. t.entries[i].deleted = s.entries[i].deleted
        BY <1>5
      <4> QED BY ONLY <4>1, <3>1, Zenon
    <3> QED BY <3>2, <3>3, <1>2 DEF HasEntry
  <2> QED BY ONLY <2>1, <2>2, <1>4, id \in 1..N
<1>8. Threads(t, u, f, n, ql)
  <2> SUFFICES ASSUME NEW w \in Workers PROVE ThreadOK(t, w, f[w], n, ql) /\ (w # u => Idle(f[w]))
    BY DEF Threads
  <2>1. ThreadOK(s, w, f[w], n, pl) /\ (w # u => Idle(f[w]))
    BY <1>1 DEF Tracking, Threads
  <2>2. f[w].pc = "callback" => f[w].id \in 1..n /\ f[w].id \in 1..N
    BY ONLY <2>1, <1>1 DEF ThreadOK
  <2>3. f[w].pc = "callback" /\ s.idx[w] = 0 => ql[f[w].id].at = "dropped"
    BY ONLY <2>1, <2>2, <1>4 DEF ThreadOK
  <2>4. ASSUME s.idx[w] # 0 PROVE s.idx[w] \in 1..m /\ Holds(w, f[w], t.entries[s.idx[w]])
    <3>1. PICK i \in 1..m : i = s.idx[w] /\ Holds(w, f[w], s.entries[i])
      BY ONLY <2>1, <2>4, <1>2 DEF ThreadOK
    <3>2. PICK e : e = s.entries[i]
      OBVIOUS
    <3>3. PICK d : d = t.entries[i]
      OBVIOUS
    <3>4. /\ d.id = e.id /\ d.called = e.called /\ d.deleted = e.deleted /\ d.running = e.running
          /\ d.idx_ptr = e.idx_ptr /\ (e.block = "placeholder" => d.block = "placeholder")
      BY ONLY <3>2, <3>3, <1>5, i \in 1..m
    <3>5. (~e.deleted => ~d.deleted) /\ (~e.running => ~d.running) /\ (e.running => d.running)
      BY ONLY <3>4, Zenon
    <3>6. Holds(w, f[w], d)
      BY ONLY <3>1, <3>2, <3>4, <3>5 DEF Holds, Free
    <3> QED BY ONLY <3>1, <3>3, <3>6
  <2> QED BY ONLY <2>1, <2>2, <2>3, <2>4, <1>1, <1>2 DEF ThreadOK
<1>9. Owners(t, f)
  <2> SUFFICES ASSUME NEW i \in 1..m PROVE Owned(t.entries[i], i, t, f)
    BY <1>2 DEF Owners
  <2>1. Owned(s.entries[i], i, s, f)
    BY <1>1, <1>2 DEF Tracking, Owners
  <2>2. t.entries[i].idx_ptr = s.entries[i].idx_ptr /\ t.entries[i].running = s.entries[i].running
    BY <1>5
  <2>3. t.entries[i].running => s.entries[i].running
    BY ONLY <2>2, Zenon
  <2> QED BY ONLY <2>1, <2>2, <2>3, <1>1 DEF Owned
<1>10. NoneLost(t, f)
  <2> SUFFICES ASSUME NEW i \in 1..m, i < t.callback, ~t.entries[i].deleted
               PROVE  Due(t.entries[i]) = "none" \/ Held(t, f, i)
    BY <1>2 DEF NoneLost
  <2>1. i < s.callback
    BY <1>1, TrackFacts
  <2>2. t.entries[i].deleted = s.entries[i].deleted
    BY <1>5
  <2>3. ~s.entries[i].deleted
    BY ONLY <2>2, ~t.entries[i].deleted, Zenon
  <2>4. Due(s.entries[i]) = "none" \/ Held(s, f, i)
    BY <2>1, <2>3, <1>1, <1>2 DEF Tracking, NoneLost
  <2>5. Due(t.entries[i]) = Due(s.entries[i])
    BY ONLY <1>3, <1>5, i \in 1..m, i < t.callback DEF Due
  <2>6. Held(s, f, i) => Held(t, f, i)
    BY ONLY <1>1 DEF Held
  <2> QED BY ONLY <2>4, <2>5, <2>6
<1> QED BY ONLY <1>1, <1>6, <1>7, <1>8, <1>9, <1>10 DEF Tracking

\* The entry at i after a minor collection, y being the position young.
Oldified(e, i, y) == IF i >= y /\ e.user_data.at = "young" THEN [e EXCEPT !.user_data.at = "old"] ELSE e
Survived(e, i, y, alive) ==
    IF i >= y /\ e.block = "young"
    THEN IF e.id \in alive THEN [e EXCEPT !.block = "old", !.promoted = TRUE]
         ELSE [e EXCEPT !.block = "unit", !.deallocated = TRUE]
    ELSE e

\* Nothing that points into the minor heap is left behind.
MinorOf(e, i, y, alive, d) ==
    /\ e \in EntrySet /\ i \in Nat /\ y \in Nat /\ Remembered(e, i, y)
    /\ d = LeftBehind(Survived(Oldified(e, i, y), i, y, alive))

\* The roots from young on are all that there are.
LEMMA MinorEntry ==
    ASSUME NEW e, NEW i, NEW y, NEW alive, NEW d, MinorOf(e, i, y, alive, d)
    PROVE  /\ d \in EntrySet /\ SameEntry(e, d) /\ d.block # "young" /\ d.user_data.at # "young"
           /\ e.block # "young" => d.block = e.block /\ d.promoted = e.promoted /\ d.deallocated = e.deallocated
           /\ e.block = "young" /\ e.id \in alive =>
                d.block = "old" /\ d.promoted = TRUE /\ d.deallocated = e.deallocated
           /\ e.block = "young" /\ e.id \notin alive =>
                d.block = "unit" /\ d.promoted = e.promoted /\ d.deallocated = TRUE
<1>0. /\ e \in EntrySet /\ i \in Nat /\ y \in Nat /\ Remembered(e, i, y)
      /\ d = LeftBehind(Survived(Oldified(e, i, y), i, y, alive))
  BY DEF MinorOf
<1>1. PICK x \in DataSet : x = e.user_data
  BY <1>0 DEF EntrySet
<1>2. PICK z : z = IF x.at = "young" THEN [x EXCEPT !.at = "old"] ELSE x
  OBVIOUS
<1>3. /\ z \in DataSet /\ z.of = x.of /\ z.from = x.from /\ z.at # "young" /\ (x.at = "young" => z.at = "old")
      /\ (x.at # "young" => z = x)
  BY ONLY <1>2, x \in DataSet DEF DataSet
<1>4. PICK a : a = Oldified(e, i, y)
  OBVIOUS
<1>5. /\ a \in EntrySet /\ a.id = e.id /\ a.block = e.block /\ a.user_data = z /\ a.alloc_young = e.alloc_young
      /\ a.promoted = e.promoted /\ a.deallocated = e.deallocated /\ a.called = e.called /\ a.deleted = e.deleted
      /\ a.running = e.running /\ a.idx_ptr = e.idx_ptr
  <2>1. CASE x.at = "young"
    <3>1. i >= y
      BY ONLY <2>1, <1>1, <1>0 DEF Remembered
    <3>2. a = [e EXCEPT !.user_data = z]
      BY ONLY <2>1, <3>1, <1>1, <1>2, <1>4, <1>0 DEF Oldified, EntrySet
    <3> QED BY ONLY <3>2, <1>3, <1>0 DEF EntrySet
  <2>2. CASE x.at # "young"
    <3>1. a = e
      BY ONLY <2>2, <1>1, <1>4 DEF Oldified
    <3> QED BY ONLY <3>1, <2>2, <1>1, <1>3, <1>0
  <2> QED BY ONLY <2>1, <2>2
<1>6. PICK b : b = Survived(a, i, y, alive)
  OBVIOUS
<1>7. e.block = "young" => i >= y
  BY ONLY <1>0 DEF Remembered
<1>8. /\ b \in EntrySet /\ b.id = a.id /\ b.user_data = a.user_data /\ b.alloc_young = a.alloc_young
      /\ b.called = a.called /\ b.deleted = a.deleted /\ b.running = a.running /\ b.idx_ptr = a.idx_ptr
      /\ e.block # "young" => b.block = a.block /\ b.promoted = a.promoted /\ b.deallocated = a.deallocated
      /\ e.block = "young" /\ e.id \in alive => b.block = "old" /\ b.promoted = TRUE /\ b.deallocated = a.deallocated
      /\ e.block = "young" /\ e.id \notin alive => b.block = "unit" /\ b.promoted = a.promoted /\ b.deallocated = TRUE
  <2>1. CASE e.block # "young"
    <3>1. b = a
      BY ONLY <2>1, <1>5, <1>6 DEF Survived
    <3> QED BY ONLY <3>1, <2>1, <1>5
  <2>2. CASE e.block = "young" /\ e.id \in alive
    <3>1. b = [a EXCEPT !.block = "old", !.promoted = TRUE]
      BY ONLY <2>2, <1>5, <1>6, <1>7 DEF Survived
    <3> QED BY ONLY <3>1, <2>2, <1>5 DEF EntrySet
  <2>3. CASE e.block = "young" /\ e.id \notin alive
    <3>1. b = [a EXCEPT !.block = "unit", !.deallocated = TRUE]
      BY ONLY <2>3, <1>5, <1>6, <1>7 DEF Survived
    <3> QED BY ONLY <3>1, <2>3, <1>5 DEF EntrySet
  <2> QED BY ONLY <2>1, <2>2, <2>3
<1>9. b.block # "young" /\ b.user_data = z
  BY ONLY <1>5, <1>8
<1>10. /\ d \in EntrySet /\ d.id = b.id /\ d.block = b.block /\ d.user_data = z /\ d.alloc_young = b.alloc_young
       /\ d.promoted = b.promoted /\ d.deallocated = b.deallocated /\ d.called = b.called /\ d.deleted = b.deleted
       /\ d.running = b.running /\ d.idx_ptr = b.idx_ptr
  <2>1. d = LeftBehind(b)
    BY ONLY <1>4, <1>6, <1>0
  <2>2. d = [b EXCEPT !.block = b.block, !.user_data.at = z.at]
    BY ONLY <2>1, <1>3, <1>8, <1>9 DEF LeftBehind, EntrySet
  <2>3. [z EXCEPT !.at = z.at] = z
    BY ONLY <1>3 DEF DataSet
  <2>4. d = [b EXCEPT !.block = b.block, !.user_data = z]
    BY ONLY <2>2, <2>3, <1>8, <1>9 DEF EntrySet
  <2> QED BY ONLY <2>4, <1>3, <1>8 DEF EntrySet
<1>11. SameEntry(e, d)
  BY ONLY <1>1, <1>3, <1>5, <1>8, <1>10 DEF SameEntry
<1> QED BY ONLY <1>3, <1>5, <1>8, <1>9, <1>10, <1>11

\* The table after a minor collection.
MinorTable(s, t, alive) ==
    /\ t.entries = [i \in DOMAIN s.entries |-> LeftBehind(Survived(Oldified(s.entries[i], i, s.young), i, s.young, alive))]
    /\ t.young = Len(s.entries) + 1 /\ t.callback = IF s.callback > s.young THEN s.young ELSE s.callback
    /\ t.delete = s.delete /\ t.idx = s.idx

\* The table after the three passes of a minor collection, entry by entry.
LEMMA MinorTableIs ==
    ASSUME NEW s \in TrackSet, NEW alive, NEW t,
           t = Emptied(caml_memprof_minor_update(caml_memprof_oldify_young_roots(s), alive))
    PROVE  /\ MinorTable(s, t, alive)
           /\ t = [entries |-> t.entries, young |-> t.young, callback |-> t.callback, delete |-> t.delete, idx |-> t.idx]
<1>1. PICK m \in Nat : m = Len(s.entries) /\ DOMAIN s.entries = 1..m
  BY TrackFacts
<1>2. PICK a : a = caml_memprof_oldify_young_roots(s)
  OBVIOUS
<1>3. PICK x : x = [i \in 1..m |-> Oldified(s.entries[i], i, s.young)]
  OBVIOUS
<1>4. a = [entries |-> x, young |-> s.young, callback |-> s.callback, delete |-> s.delete, idx |-> s.idx]
  BY ONLY <1>1, <1>2, <1>3, s \in TrackSet DEF caml_memprof_oldify_young_roots, Oldified, TrackSet
<1>5. DOMAIN x = 1..m /\ Len(x) = m
  BY ONLY <1>3, m \in Nat
<1>6. PICK b : b = caml_memprof_minor_update(a, alive)
  OBVIOUS
<1>7. PICK z : z = [i \in 1..m |-> Survived(x[i], i, s.young, alive)]
  OBVIOUS
<1>8. PICK c : c = IF s.callback > s.young THEN s.young ELSE s.callback
  OBVIOUS
<1>9. b = [entries |-> z, young |-> m + 1, callback |-> c, delete |-> s.delete, idx |-> s.idx]
  <2>1. a.entries = x /\ a.young = s.young /\ a.callback = s.callback /\ a.delete = s.delete /\ a.idx = s.idx
    BY ONLY <1>4
  <2>2. z = [i \in DOMAIN a.entries |->
               IF i >= a.young /\ a.entries[i].block = "young"
               THEN IF a.entries[i].id \in alive THEN [a.entries[i] EXCEPT !.block = "old", !.promoted = TRUE]
                    ELSE [a.entries[i] EXCEPT !.block = "unit", !.deallocated = TRUE]
               ELSE a.entries[i]]
    BY ONLY <2>1, <1>5, <1>7 DEF Survived
  <2>3. b = [a EXCEPT !.entries = z, !.callback = c, !.young = m + 1]
    BY ONLY <2>1, <2>2, <1>4, <1>5, <1>6, <1>8 DEF caml_memprof_minor_update
  <2> QED BY ONLY <2>3, <1>4
<1>10. DOMAIN z = 1..m
  BY ONLY <1>7
<1>11. PICK r : r = [i \in 1..m |-> LeftBehind(z[i])]
  OBVIOUS
<1>12. t = [entries |-> r, young |-> m + 1, callback |-> c, delete |-> s.delete, idx |-> s.idx]
  <2>1. t = Emptied(b)
    BY ONLY <1>2, <1>6, t = Emptied(caml_memprof_minor_update(caml_memprof_oldify_young_roots(s), alive))
  <2>2. b.entries = z
    BY ONLY <1>9
  <2>3. r = [i \in DOMAIN b.entries |-> LeftBehind(b.entries[i])]
    BY ONLY <2>2, <1>10, <1>11
  <2>4. t = [b EXCEPT !.entries = r]
    BY ONLY <2>1, <2>3, <1>9 DEF Emptied
  <2> QED BY ONLY <2>4, <1>9
<1>13. r = [i \in DOMAIN s.entries |-> LeftBehind(Survived(Oldified(s.entries[i], i, s.young), i, s.young, alive))]
  BY ONLY <1>1, <1>3, <1>7, <1>11
<1> QED BY ONLY <1>1, <1>8, <1>12, <1>13 DEF MinorTable

\* The places of the blocks after a minor collection.
MinorPlaces(N, pl, ql, alive) ==
    /\ DOMAIN ql = 1..N
    /\ \A id \in 1..N : ql[id] \in PlaceSet /\ ql[id].minor = pl[id].minor
    /\ \A id \in 1..N : id \in alive => ql[id].at = "old" /\ ql[id].promoted = TRUE
    /\ \A id \in 1..N : pl[id].at = "young" /\ id \notin alive => ql[id].at = "dead" /\ ql[id].promoted = pl[id].promoted
    /\ \A id \in 1..N : pl[id].at # "young" => ql[id] = pl[id]

MovesBlocks(N, pl, ql, Y, alive) ==
    /\ N \in Nat /\ pl \in [1..N -> PlaceSet] /\ Y = {id \in 1..N : pl[id].at = "young"} /\ alive \in SUBSET Y
    /\ ql = [id \in 1..N |-> IF id \in alive THEN [pl[id] EXCEPT !.at = "old", !.promoted = TRUE]
                             ELSE IF id \in Y THEN [pl[id] EXCEPT !.at = "dead"] ELSE pl[id]]

\* Young blocks are promoted or die, the others stay.
LEMMA MinorPlacesIs ==
    ASSUME NEW N, NEW pl, NEW ql, NEW Y, NEW alive, MovesBlocks(N, pl, ql, Y, alive)
    PROVE  MinorPlaces(N, pl, ql, alive) /\ ql \in [1..N -> PlaceSet]
<1> USE DEF MovesBlocks
<1>1. ASSUME NEW id \in 1..N
      PROVE  /\ ql[id] \in PlaceSet /\ ql[id].minor = pl[id].minor
             /\ id \in alive => ql[id].at = "old" /\ ql[id].promoted = TRUE
             /\ pl[id].at = "young" /\ id \notin alive => ql[id].at = "dead" /\ ql[id].promoted = pl[id].promoted
             /\ pl[id].at # "young" => ql[id] = pl[id]
  <2>1. PICK p \in PlaceSet : p = pl[id]
    OBVIOUS
  <2>2. CASE id \in alive
    <3>1. ql[id] = [p EXCEPT !.at = "old", !.promoted = TRUE] /\ p.at = "young"
      BY <2>1, <2>2
    <3> QED BY ONLY <3>1, <2>1, <2>2 DEF PlaceSet
  <2>3. CASE id \notin alive /\ id \in Y
    <3>1. ql[id] = [p EXCEPT !.at = "dead"] /\ p.at = "young"
      BY <2>1, <2>3
    <3> QED BY ONLY <3>1, <2>1, <2>3 DEF PlaceSet
  <2>4. CASE id \notin Y
    <3>1. ql[id] = p /\ p.at # "young" /\ id \notin alive
      BY <2>1, <2>4
    <3> QED BY ONLY <3>1, <2>1
  <2> QED BY ONLY <2>2, <2>3, <2>4
<1>2. DOMAIN ql = 1..N /\ ql \in [1..N -> PlaceSet]
  BY <1>1
<1> QED BY ONLY <1>1, <1>2 DEF MinorPlaces

\* A minor collection is a collection in this sense: what it changes is from young on, and
\* callback is moved back to there.
LEMMA MinorCollection ==
    ASSUME NEW s \in TrackSet, NEW u \in Workers, NEW f, NEW n \in Nat, NEW N \in Nat, n <= N,
           NEW pl \in [1..N -> PlaceSet], NEW ca, Tracking(s, u, f, n, pl, ca), NEW t, NEW ql, NEW alive,
           \A id \in alive : id \in 1..N /\ pl[id].at = "young",
           MinorTable(s, t, alive), MinorPlaces(N, pl, ql, alive),
           t = [entries |-> t.entries, young |-> t.young, callback |-> t.callback, delete |-> t.delete, idx |-> t.idx]
    PROVE  Collection(s, u, f, n, N, pl, ca, t, ql)
<1>1. PICK m \in Nat : m = Len(s.entries) /\ DOMAIN s.entries = 1..m
  BY TrackFacts
<1>2. /\ t.entries = [i \in 1..m |-> LeftBehind(Survived(Oldified(s.entries[i], i, s.young), i, s.young, alive))]
      /\ t.young = m + 1 /\ t.callback = IF s.callback > s.young THEN s.young ELSE s.callback
      /\ t.delete = s.delete /\ t.idx = s.idx
  BY ONLY <1>1, MinorTable(s, t, alive) DEF MinorTable
<1>3. /\ s.young \in Nat /\ s.callback \in Nat /\ s.delete \in Nat /\ 1 <= s.young /\ s.young <= m + 1 /\ s.idx \in [Workers -> Nat]
      /\ 1 <= s.callback /\ s.callback <= m + 1 /\ 1 <= s.delete /\ s.delete <= m + 1
  BY <1>1, TrackFacts DEF Tracking, Positions, Position
<1>4. /\ t.callback \in Nat /\ t.callback <= s.callback /\ t.callback <= s.young /\ 1 <= t.callback /\ t.callback <= m + 1
  BY ONLY <1>2, <1>3
<1>5. ASSUME NEW i \in 1..m
      PROVE  /\ t.entries[i] \in EntrySet /\ Remembered(t.entries[i], i, t.young)
             /\ Collects(s.entries[i], t.entries[i], pl[s.entries[i].id], ql[s.entries[i].id])
             /\ i < t.callback => /\ t.entries[i].promoted = s.entries[i].promoted
                                  /\ t.entries[i].deallocated = s.entries[i].deallocated
  <2>1. PICK e \in EntrySet : e = s.entries[i]
    BY <1>1, TrackFacts
  <2>2. PICK d : d = t.entries[i]
    OBVIOUS
  <2>3. d = LeftBehind(Survived(Oldified(e, i, s.young), i, s.young, alive))
    BY ONLY <2>1, <2>2, <1>2, i \in 1..m
  <2>4. e.id \in 1..n /\ EntryOK(e, pl[e.id], ca[e.id], Hand(s, u, f, i)) /\ Remembered(e, i, s.young)
    BY <2>1, <1>1 DEF Tracking, Table
  <2>5. e.id \in 1..N /\ i \in Nat
    BY <2>4
  <2>6. /\ d \in EntrySet /\ SameEntry(e, d) /\ d.block # "young" /\ d.user_data.at # "young"
        /\ e.block # "young" => d.block = e.block /\ d.promoted = e.promoted /\ d.deallocated = e.deallocated
        /\ e.block = "young" /\ e.id \in alive => d.block = "old" /\ d.promoted = TRUE /\ d.deallocated = e.deallocated
        /\ e.block = "young" /\ e.id \notin alive => d.block = "unit" /\ d.promoted = e.promoted /\ d.deallocated = TRUE
    <3>1. PICK y \in Nat : y = s.young
      BY ONLY <1>3
    <3>2. d = LeftBehind(Survived(Oldified(e, i, y), i, y, alive)) /\ Remembered(e, i, y) /\ i \in Nat
      BY ONLY <3>1, <2>3, <2>4, <2>5
    <3>3. MinorOf(e, i, y, alive, d)
      BY ONLY <3>2, e \in EntrySet, y \in Nat DEF MinorOf
    <3> QED BY ONLY <3>3, MinorEntry
  <2>7. PICK p \in PlaceSet : p = pl[e.id]
    BY <2>5
  <2>8. PICK q \in PlaceSet : q = ql[e.id] /\ q.minor = p.minor
    BY ONLY <2>5, <2>7, MinorPlaces(N, pl, ql, alive) DEF MinorPlaces
  <2>9. /\ e.id \in alive => q.at = "old" /\ q.promoted = TRUE
        /\ p.at = "young" /\ e.id \notin alive => q.at = "dead" /\ q.promoted = p.promoted
        /\ p.at # "young" => q = p
    BY ONLY <2>5, <2>7, <2>8, MinorPlaces(N, pl, ql, alive) DEF MinorPlaces
  <2>10. e.block = "young" <=> p.at = "young" /\ ~e.deleted
    BY ONLY <2>4, <2>7 DEF EntryOK, Deleted, Tracked, Agrees, BlockOf
  <2>11. e.deleted => p.at # "young"
    BY ONLY <2>4, <2>7 DEF EntryOK, Deleted
  <2>12. Remembered(d, i, t.young)
    BY ONLY <2>6 DEF Remembered
  <2>13. Collects(e, d, p, q)
    <3>1. CASE e.block # "young"
      <4>1. SameBlock(e, d, p, q)
        BY ONLY <3>1, <2>6, <2>9, <2>10, <2>11 DEF SameBlock
      <4> QED BY ONLY <4>1, <2>6, <2>7, <2>8, e \in EntrySet DEF Collects
    <3>2. CASE e.block = "young" /\ e.id \in alive
      <4>1. Promotes(e, d, p, q)
        BY ONLY <3>2, <2>6, <2>8, <2>9, <2>10 DEF Promotes
      <4> QED BY ONLY <4>1, <2>6, <2>7, <2>8, e \in EntrySet DEF Collects
    <3>3. CASE e.block = "young" /\ e.id \notin alive
      <4>1. Dies(e, d, p, q)
        BY ONLY <3>3, <2>6, <2>8, <2>9, <2>10 DEF Dies
      <4> QED BY ONLY <4>1, <2>6, <2>7, <2>8, e \in EntrySet DEF Collects
    <3> QED BY ONLY <3>1, <3>2, <3>3
  <2>14. i < t.callback => d.promoted = e.promoted /\ d.deallocated = e.deallocated
    <3>1. i < t.callback => ~(i >= s.young)
      BY ONLY <1>3, <1>4, <2>5
    <3>2. e.block = "young" => i >= s.young
      BY ONLY <2>4 DEF Remembered
    <3> QED BY ONLY <3>1, <3>2, <2>6
  <2> QED BY ONLY <2>1, <2>2, <2>6, <2>7, <2>8, <2>12, <2>13, <2>14
<1>6. t.entries \in Seq(EntrySet) /\ Len(t.entries) = m
  <2>1. t.entries \in [1..m -> EntrySet]
    BY ONLY <1>2, <1>5
  <2> QED BY ONLY <2>1, m \in Nat
<1>7. t \in TrackSet
  <2>1. t.young \in Nat /\ t.callback \in Nat /\ t.delete \in Nat /\ t.idx \in [Workers -> Nat]
    BY ONLY <1>2, <1>3, <1>4, m \in Nat
  <2> QED BY <2>1, <1>6 DEF TrackSet
<1>8. Positions(t)
  BY ONLY <1>2, <1>3, <1>4, <1>6, m \in Nat DEF Positions, Position
<1>9. ASSUME NEW id \in 1..N
      PROVE  (ql[id].at = "dropped" <=> pl[id].at = "dropped") /\ (id > n => ql[id] = pl[id])
  <2>1. id \in alive => pl[id].at = "young"
    OBVIOUS
  <2>2. ql[id].at = "dropped" <=> pl[id].at = "dropped"
    BY ONLY <2>1, id \in 1..N, MinorPlaces(N, pl, ql, alive) DEF MinorPlaces
  <2>3. id > n => pl[id].at # "young"
    BY DEF Tracking, Blocks, Nowhere
  <2> QED BY ONLY <2>2, <2>3, id \in 1..N, MinorPlaces(N, pl, ql, alive) DEF MinorPlaces
<1>10. DOMAIN pl = 1..N /\ DOMAIN ql = 1..N
  BY DEF MinorPlaces
<1>11. s \in TrackSet /\ u \in Workers /\ n \in Nat /\ N \in Nat /\ n <= N /\ Tracking(s, u, f, n, pl, ca)
  OBVIOUS
<1> QED BY ONLY <1>1, <1>2, <1>4, <1>5, <1>6, <1>7, <1>8, <1>9, <1>10, <1>11 DEF Collection

\* What both collections need of the state, and what makes the state after them right.
Unmoved == UNCHANGED <<cur, suspended, ctx, frame, used, calls, bound>>

\* A collection keeps the invariant, when the callbacks that it gives rise to are announced.
LEMMA CollectionKeeps ==
    ASSUME IInv, Unmoved, place' \in [1..Samples -> PlaceSet], pending' \in BOOLEAN,
           Alert(trackst', suspended, pending'),
           Collection(trackst, cur, frame, used, Samples, place, calls, trackst', place')
    PROVE  IInv'
<1>1. trackst' \in TrackSet
  BY DEF Collection
<1>2. Tracking(trackst', cur, frame, used, place', calls)
  BY CollectionTracks
<1>3. cur' = cur /\ suspended' = suspended /\ ctx' = ctx /\ frame' = frame /\ used' = used /\ calls' = calls /\ bound' = bound
  BY DEF Unmoved
<1>4. Types'
  BY <1>1, <1>3, Setup DEF Types, Samples
<1>5. Suspension(cur, frame, suspended, ctx)
  BY Setup
<1> QED BY ONLY <1>2, <1>3, <1>4, <1>5, Alert(trackst', suspended, pending') DEF IInv

\* caml_empty_minor_heap, with memprof's parts of it.
LEMMA MinorKeeps ==
    ASSUME IInv, caml_empty_minor_heap, bound' = bound
    PROVE  IInv'
<1>1. PICK alive \in SUBSET At("young") :
        /\ trackst' = Emptied(caml_memprof_minor_update(caml_memprof_oldify_young_roots(trackst), alive))
        /\ pending' = IF trackst.callback > trackst.young THEN check_action_pending(trackst', suspended) ELSE pending
        /\ place' = [id \in 1..Samples |->
                       IF id \in alive THEN [place[id] EXCEPT !.at = "old", !.promoted = TRUE]
                       ELSE IF id \in At("young") THEN [place[id] EXCEPT !.at = "dead"] ELSE place[id]]
  BY DEF caml_empty_minor_heap
<1>2. Unmoved
  BY DEF caml_empty_minor_heap, Unmoved
<1>3. /\ trackst \in TrackSet /\ Tracking(trackst, cur, frame, used, place, calls) /\ used \in Nat /\ Samples \in Nat
      /\ used <= Samples /\ place \in [1..Samples -> PlaceSet] /\ cur \in Workers
      /\ pending \in BOOLEAN /\ suspended \in BOOLEAN /\ Alert(trackst, suspended, pending)
  BY Setup
<1>4. PICK Y : Y = {id \in 1..Samples : place[id].at = "young"} /\ Y = At("young")
  BY DEF At
<1>5. PICK t : t = trackst'
  OBVIOUS
<1>6. PICK q : q = place'
  OBVIOUS
<1>7. MinorPlaces(Samples, place, q, alive) /\ q \in [1..Samples -> PlaceSet]
  <2>1. alive \in SUBSET Y
    BY ONLY <1>4, alive \in SUBSET At("young")
  <2>2. q = [id \in 1..Samples |-> IF id \in alive THEN [place[id] EXCEPT !.at = "old", !.promoted = TRUE]
                                   ELSE IF id \in Y THEN [place[id] EXCEPT !.at = "dead"] ELSE place[id]]
    BY ONLY <1>1, <1>4, <1>6
  <2>3. MovesBlocks(Samples, place, q, Y, alive)
    BY ONLY <2>1, <2>2, <1>3, <1>4 DEF MovesBlocks
  <2> QED BY ONLY <2>3, MinorPlacesIs
<1>8. /\ MinorTable(trackst, t, alive)
      /\ t = [entries |-> t.entries, young |-> t.young, callback |-> t.callback, delete |-> t.delete, idx |-> t.idx]
  BY ONLY <1>1, <1>3, <1>5, MinorTableIs
<1>9. \A id \in alive : id \in 1..Samples /\ place[id].at = "young"
  BY ONLY <1>4, alive \in SUBSET At("young")
<1>10. Collection(trackst, cur, frame, used, Samples, place, calls, t, q)
  BY ONLY <1>3, <1>7, <1>8, <1>9, MinorCollection
<1>11. pending' \in BOOLEAN
  BY ONLY <1>1, <1>3 DEF check_action_pending
<1>12. Alert(t, suspended, pending')
  <2>1. CASE trackst.callback > trackst.young
    BY ONLY <2>1, <1>1, <1>3, <1>5 DEF check_action_pending, Alert
  <2>2. CASE ~(trackst.callback > trackst.young)
    <3>1. t.callback = trackst.callback
      BY ONLY <2>2, <1>8 DEF MinorTable
    <3>2. Len(t.entries) = Len(trackst.entries)
      BY ONLY <1>10 DEF Collection
    <3>3. pending' = pending
      BY ONLY <2>2, <1>1
    <3> QED BY ONLY <3>1, <3>2, <3>3, <1>3 DEF Alert
  <2> QED BY ONLY <2>1, <2>2
<1> QED BY <1>2, <1>5, <1>6, <1>7, <1>10, <1>11, <1>12, CollectionKeeps

\* The entry after the start of the clean phase.
Whitened(e, white) ==
    IF e.block = "old" /\ e.id \in white THEN [e EXCEPT !.block = "unit", !.deallocated = TRUE] ELSE e

\* caml_memprof_update_clean_phase.
LEMMA CleanKeeps ==
    ASSUME IInv, caml_memprof_update_clean_phase, bound' = bound
    PROVE  IInv'
<1>1. PICK white \in SUBSET At("old") :
        /\ trackst' = [trackst EXCEPT !.callback = 1, !.entries = [i \in DOMAIN @ |->
                         IF @[i].block = "old" /\ @[i].id \in white
                         THEN [@[i] EXCEPT !.block = "unit", !.deallocated = TRUE] ELSE @[i]]]
        /\ place' = [id \in 1..Samples |-> IF id \in white THEN [place[id] EXCEPT !.at = "dead"] ELSE place[id]]
  BY DEF caml_memprof_update_clean_phase
<1>2. Unmoved /\ pending' = check_action_pending(trackst', suspended)
  BY DEF caml_memprof_update_clean_phase, Unmoved
<1>3. /\ trackst \in TrackSet /\ Tracking(trackst, cur, frame, used, place, calls) /\ used \in Nat /\ Samples \in Nat
      /\ used <= Samples /\ place \in [1..Samples -> PlaceSet] /\ DOMAIN place = 1..Samples /\ cur \in Workers
      /\ pending \in BOOLEAN /\ suspended \in BOOLEAN
  BY Setup
<1>4. PICK m \in Nat : /\ m = Len(trackst.entries) /\ DOMAIN trackst.entries = 1..m
                       /\ \A i \in 1..m : trackst.entries[i] \in EntrySet
  BY ONLY <1>3, TrackFacts
<1>5. PICK r : r = [i \in 1..m |-> Whitened(trackst.entries[i], white)]
  OBVIOUS
<1>6. PICK t : t = trackst'
  OBVIOUS
<1>7. t = [entries |-> r, young |-> trackst.young, callback |-> 1, delete |-> trackst.delete, idx |-> trackst.idx]
  <2>1. r = [i \in DOMAIN trackst.entries |->
               IF trackst.entries[i].block = "old" /\ trackst.entries[i].id \in white
               THEN [trackst.entries[i] EXCEPT !.block = "unit", !.deallocated = TRUE] ELSE trackst.entries[i]]
    BY ONLY <1>4, <1>5 DEF Whitened
  <2>2. t = [trackst EXCEPT !.callback = 1, !.entries = r]
    BY ONLY <2>1, <1>1, <1>6
  <2> QED BY ONLY <2>2, <1>3 DEF TrackSet
<1>8. t.entries = r /\ t.young = trackst.young /\ t.callback = 1 /\ t.delete = trackst.delete /\ t.idx = trackst.idx
  BY ONLY <1>7
<1>9. PICK q : q = place'
  OBVIOUS
<1>10. ASSUME NEW id \in 1..Samples
       PROVE  /\ q[id] \in PlaceSet /\ (id \notin white => q[id] = place[id])
              /\ id \in white => /\ place[id].at = "old" /\ q[id].at = "dead" /\ q[id].minor = place[id].minor
                                 /\ q[id].promoted = place[id].promoted
  <2>1. PICK p \in PlaceSet : p = place[id]
    BY ONLY <1>3, id \in 1..Samples
  <2>2. CASE id \in white
    <3>1. q[id] = [p EXCEPT !.at = "dead"]
      BY ONLY <2>1, <2>2, <1>1, <1>9, id \in 1..Samples
    <3>2. p.at = "old"
      BY ONLY <2>1, <2>2, white \in SUBSET At("old") DEF At
    <3> QED BY ONLY <3>1, <3>2, <2>1, <2>2 DEF PlaceSet
  <2>3. CASE id \notin white
    <3>1. q[id] = p
      BY ONLY <2>1, <2>3, <1>1, <1>9, id \in 1..Samples
    <3> QED BY ONLY <3>1, <2>1, <2>3
  <2> QED BY ONLY <2>2, <2>3
<1>11. q \in [1..Samples -> PlaceSet] /\ DOMAIN q = 1..Samples
  BY ONLY <1>1, <1>9, <1>10
<1>12. ASSUME NEW i \in 1..m
       PROVE  /\ r[i] \in EntrySet /\ Remembered(r[i], i, trackst.young)
              /\ Collects(trackst.entries[i], r[i], place[trackst.entries[i].id], q[trackst.entries[i].id])
  <2>1. PICK e \in EntrySet : e = trackst.entries[i]
    BY ONLY <1>4, i \in 1..m
  <2>2. PICK d : d = Whitened(e, white) /\ d = r[i]
    BY ONLY <2>1, <1>5, i \in 1..m
  <2>3. /\ e.id \in 1..used /\ EntryOK(e, place[e.id], calls[e.id], Hand(trackst, cur, frame, i))
        /\ Remembered(e, i, trackst.young)
    BY ONLY <2>1, <1>3, <1>4, i \in 1..m DEF Tracking, Table
  <2>4. e.id \in 1..Samples
    BY ONLY <2>3, <1>3
  <2>5. PICK p \in PlaceSet : p = place[e.id]
    BY ONLY <2>4, <1>3
  <2>6. PICK v \in PlaceSet : /\ v = q[e.id] /\ (e.id \notin white => v = p)
                              /\ e.id \in white => /\ p.at = "old" /\ v.at = "dead" /\ v.minor = p.minor
                                                   /\ v.promoted = p.promoted
    BY ONLY <2>4, <2>5, <1>10
  <2>7. e.id \in white => e.block = "old" \/ e.deleted
    BY ONLY <2>3, <2>5, <2>6 DEF EntryOK, Tracked, Agrees, BlockOf
  <2>8. e.id \in white => ~e.deleted
    BY ONLY <2>3, <2>5, <2>6 DEF EntryOK, Deleted
  <2>9. CASE e.id \in white
    <3>1. d = [e EXCEPT !.block = "unit", !.deallocated = TRUE]
      BY ONLY <2>2, <2>7, <2>8, <2>9 DEF Whitened
    <3>2. /\ d \in EntrySet /\ SameEntry(e, d) /\ d.block = "unit" /\ d.promoted = e.promoted /\ d.deallocated = TRUE
          /\ d.user_data = e.user_data
      BY ONLY <3>1, e \in EntrySet DEF EntrySet, SameEntry
    <3>3. Dies(e, d, p, v)
      BY ONLY <3>2, <2>6, <2>7, <2>8, <2>9 DEF Dies
    <3>4. Remembered(d, i, trackst.young)
      BY ONLY <3>2, <2>3 DEF Remembered
    <3>5. Collects(e, d, p, v)
      BY ONLY <3>2, <3>3, e \in EntrySet, p \in PlaceSet, v \in PlaceSet DEF Collects
    <3> QED BY ONLY <3>2, <3>4, <3>5, <2>1, <2>2, <2>5, <2>6
  <2>10. CASE e.id \notin white
    <3>1. d = e /\ v = p
      BY ONLY <2>2, <2>6, <2>10 DEF Whitened
    <3>2. SameEntry(e, e)
      BY DEF SameEntry
    <3>3. SameBlock(e, d, p, v)
      BY ONLY <3>1 DEF SameBlock
    <3>4. Collects(e, d, p, v)
      BY ONLY <3>1, <3>2, <3>3, e \in EntrySet, p \in PlaceSet, v \in PlaceSet DEF Collects
    <3> QED BY ONLY <3>1, <3>4, <2>1, <2>2, <2>3, <2>5, <2>6, e \in EntrySet
  <2> QED BY ONLY <2>9, <2>10
<1>13. r \in Seq(EntrySet) /\ Len(r) = m
  <2>1. r \in [1..m -> EntrySet]
    BY ONLY <1>5, <1>12
  <2> QED BY ONLY <2>1, m \in Nat
<1>14. /\ trackst.young \in Nat /\ trackst.callback \in Nat /\ trackst.delete \in Nat /\ trackst.idx \in [Workers -> Nat]
       /\ 1 <= trackst.young /\ trackst.young <= m + 1 /\ 1 <= trackst.callback
       /\ 1 <= trackst.delete /\ trackst.delete <= m + 1
  BY ONLY <1>3, <1>4, TrackFacts DEF Tracking, Positions, Position
<1>15. t \in TrackSet
  BY ONLY <1>7, <1>13, <1>14 DEF TrackSet
<1>16. Positions(t) /\ t.callback <= trackst.callback
  BY ONLY <1>8, <1>13, <1>14, m \in Nat DEF Positions, Position
<1>17. ASSUME NEW id \in 1..Samples
       PROVE  (q[id].at = "dropped" <=> place[id].at = "dropped") /\ (id > used => q[id] = place[id])
  <2>1. q[id].at = "dropped" <=> place[id].at = "dropped"
    BY ONLY <1>10, id \in 1..Samples
  <2>2. id > used => place[id].at # "old"
    BY ONLY <1>3, id \in 1..Samples DEF Tracking, Blocks, Nowhere
  <2> QED BY ONLY <2>1, <2>2, <1>10, id \in 1..Samples
<1>18. ASSUME NEW i \in 1..m PROVE ~(i < t.callback)
  BY ONLY <1>8, i \in 1..m
<1>19. Collection(trackst, cur, frame, used, Samples, place, calls, t, q)
  BY ONLY <1>3, <1>4, <1>8, <1>11, <1>12, <1>13, <1>15, <1>16, <1>17, <1>18 DEF Collection
<1>20. pending' \in BOOLEAN /\ Alert(t, suspended, pending')
  BY ONLY <1>2, <1>3, <1>6 DEF check_action_pending, Alert
<1> QED BY <1>2, <1>6, <1>9, <1>11, <1>19, <1>20, CollectionKeeps

-----------------------------------------------------------------------------
(* The theorems *)

\* The invariant holds at the start.
LEMMA InitKeeps ==
    ASSUME Init, Bounds \subseteq [samples : Nat, starts : Nat]
    PROVE  IInv
<1>1. bound \in [samples : Nat, starts : Nat] /\ Samples \in Nat
  BY DEF Init, Samples
<1>2. /\ trackst = [entries |-> <<>>, young |-> 1, callback |-> 1, delete |-> 1, idx |-> [w \in Workers |-> 0]]
      /\ cur \in Workers /\ suspended = FALSE /\ ctx = [w \in Workers |-> FALSE] /\ frame = [w \in Workers |-> None]
      /\ pending = FALSE /\ used = 0 /\ place = [id \in 1..Samples |-> Nowhere] /\ calls = [id \in 1..Samples |-> <<>>]
  BY DEF Init, Empty, Invalid
<1>3. /\ trackst.entries = <<>> /\ trackst.young = 1 /\ trackst.callback = 1 /\ trackst.delete = 1
      /\ DOMAIN trackst.entries = {} /\ Len(trackst.entries) = 0 /\ \A w \in Workers : trackst.idx[w] = 0
  BY ONLY <1>2
<1>4. \A w \in Workers : frame[w] = None
  BY ONLY <1>2
<1>5. trackst \in TrackSet
  <2>1. <<>> \in Seq(EntrySet) /\ [w \in Workers |-> 0] \in [Workers -> Nat] /\ 1 \in Nat
    OBVIOUS
  <2> QED BY ONLY <2>1, <1>2 DEF TrackSet
<1>6. Nowhere \in PlaceSet
  BY DEF Nowhere, PlaceSet
<1>7. Types
  <2>1. place \in [1..Samples -> PlaceSet] /\ DOMAIN calls = 1..Samples
    BY ONLY <1>2, <1>6
  <2>2. frame \in [Workers -> FrameSet]
    BY ONLY <1>2, NoneIs
  <2>3. ctx \in [Workers -> BOOLEAN] /\ suspended \in BOOLEAN /\ pending \in BOOLEAN /\ cur \in Workers
    BY ONLY <1>2
  <2>4. used \in Nat /\ used <= Samples
    BY ONLY <1>1, <1>2
  <2> QED BY ONLY <2>1, <2>2, <2>3, <2>4, <1>1, <1>5 DEF Types
<1>8. Positions(trackst)
  BY ONLY <1>3 DEF Positions, Position
<1>9. Table(trackst, cur, frame, used, place, calls) /\ Owners(trackst, frame) /\ NoneLost(trackst, frame)
  BY ONLY <1>3 DEF Table, Owners, NoneLost
<1>10. Blocks(trackst, used, place, calls)
  <2> SUFFICES ASSUME NEW id \in 1..Samples PROVE place[id] = Nowhere /\ calls[id] = <<>> /\ ~(id <= used)
    BY <1>2 DEF Blocks
  <2> QED BY ONLY <1>1, <1>2, id \in 1..Samples
<1>11. Threads(trackst, cur, frame, used, place)
  <2> SUFFICES ASSUME NEW w \in Workers PROVE ThreadOK(trackst, w, None, used, place) /\ Idle(None)
    BY <1>4 DEF Threads
  <2>1. trackst.idx[w] = 0
    BY <1>3
  <2> QED BY ONLY <2>1, NoneIs DEF ThreadOK, Idle
<1>12. Suspension(cur, frame, suspended, ctx)
  BY ONLY <1>2, <1>4, NoneIs DEF Suspension
<1>13. Alert(trackst, suspended, pending)
  BY ONLY <1>3 DEF Alert
<1> QED BY ONLY <1>7, <1>8, <1>9, <1>10, <1>11, <1>12, <1>13 DEF IInv, Tracking

\* The steps of a thread in memprof.c.
LEMMA WorkerKeeps ==
    ASSUME IInv, 0 \notin Workers, bound' = bound, NEW w \in Workers,
           \/ NextEntry(w) \/ NoMoreEntries(w) \/ handle_entry(w) \/ run_callback(w)
           \/ \E res \in {"some", "none", "raise"} : CallbackReturns(w, res)
           \/ PostponedRaises(w) \/ Sampled(w) \/ Allocated(w) \/ Switch(w)
    PROVE  IInv'
<1>1. CASE NextEntry(w)
  BY <1>1, NextEntryKeeps
<1>2. CASE NoMoreEntries(w)
  BY <1>2, NoMoreEntriesKeeps
<1>3. CASE handle_entry(w)
  BY <1>3, HandleEntryKeeps
<1>4. CASE run_callback(w)
  BY <1>4, RunCallbackKeeps
<1>5. CASE \E res \in {"some", "none", "raise"} : CallbackReturns(w, res)
  BY <1>5, CallbackReturnsKeeps
<1>6. CASE PostponedRaises(w)
  BY <1>6, PostponedRaisesKeeps
<1>7. CASE Sampled(w)
  BY <1>7, SampledKeeps
<1>8. CASE Allocated(w)
  BY <1>8, AllocatedKeeps
<1>9. CASE Switch(w)
  BY <1>9, SwitchKeeps
<1> QED BY <1>1, <1>2, <1>3, <1>4, <1>5, <1>6, <1>7, <1>8, <1>9

\* Every step keeps the invariant.
LEMMA NextKeeps ==
    ASSUME IInv, 0 \notin Workers, [Next]_vars
    PROVE  IInv'
<1>1. CASE UNCHANGED vars
  BY <1>1 DEF vars, IInv, Types, Samples
<1>2. CASE Next
  <2>1. Profile /\ bound' = bound
    BY <1>2 DEF Next
  <2>2. CASE caml_memprof_track_young
    BY <2>1, <2>2, TrackYoungKeeps
  <2>3. CASE caml_memprof_track_alloc_shr \/ track_young_from_c \/ caml_memprof_track_interned
    BY <2>1, <2>3, TrackShrKeeps
  <2>4. CASE caml_empty_minor_heap
    BY <2>1, <2>4, MinorKeeps
  <2>5. CASE caml_memprof_update_clean_phase
    BY <2>1, <2>5, CleanKeeps
  <2>6. CASE caml_memprof_handle_postponed_exn
    BY <2>1, <2>6, PostponedKeeps
  <2>7. CASE caml_memprof_start
    BY <2>1, <2>7, StartKeeps
  <2>8. CASE caml_memprof_stop
    BY <2>1, <2>8, StopKeeps
  <2>9. ASSUME NEW w \in Workers,
               \/ NextEntry(w) \/ NoMoreEntries(w) \/ handle_entry(w) \/ run_callback(w)
               \/ \E res \in {"some", "none", "raise"} : CallbackReturns(w, res)
               \/ PostponedRaises(w) \/ Sampled(w) \/ Allocated(w) \/ Switch(w)
        PROVE  IInv'
    BY <2>1, <2>9, WorkerKeeps
  <2> QED BY <2>1, <2>2, <2>3, <2>4, <2>5, <2>6, <2>7, <2>8, <2>9 DEF Profile
<1> QED BY <1>1, <1>2

\* The table of tracked blocks, the threads' frames and t_idx, the places of the blocks and the
\* callbacks made agree in every state of memprof.c, for any number of threads, samples and starts.
THEOREM ProfilerInvariant == Spec => []IInv
<1>1. Init => IInv
  BY BoundsAssumption, InitKeeps
<1>2. IInv /\ [Next]_vars => IInv'
  BY WorkersAssumption, NextKeeps
<1> QED BY <1>1, <1>2, PTL DEF Spec

\* All the callbacks of a block, as its entry knows them.
Full(e) ==
    IF e.promoted
    THEN IF e.deallocated THEN <<AllocCall(e), PromoteCall(e), DeallocCall(e)>> ELSE <<AllocCall(e), PromoteCall(e)>>
    ELSE IF e.deallocated THEN <<AllocCall(e), DeallocCall(e)>> ELSE <<AllocCall(e)>>

\* Sequences put together from the pieces of Expected.
LEMMA Joined ==
    ASSUME NEW a, NEW b, NEW c
    PROVE  /\ <<a>> \o <<>> \o <<>> = <<a>> /\ <<a>> \o <<b>> \o <<>> = <<a, b>>
           /\ <<a>> \o <<>> \o <<c>> = <<a, c>> /\ <<a>> \o <<b>> \o <<c>> = <<a, b, c>>
<1>1. PICK S : S = {a, b, c}
  OBVIOUS
<1>2. <<a>> \in Seq(S) /\ <<b>> \in Seq(S) /\ <<c>> \in Seq(S) /\ <<>> \in Seq(S) /\ <<a, b>> \in Seq(S)
  BY <1>1
<1>3. <<a>> \o <<>> = <<a>> /\ <<a, b>> \o <<>> = <<a, b>>
  BY ONLY <1>2, ConcatEmptySeq
<1>4. <<a>> \o <<b>> = <<a, b>> /\ <<a>> \o <<c>> = <<a, c>>
  <2>1. <<a>> \o <<b>> = Append(<<a>>, b) /\ <<a>> \o <<c>> = Append(<<a>>, c)
    BY <1>1, <1>2, AppendIsConcat
  <2> QED BY ONLY <2>1, AppendOne
<1>5. <<a, b>> \o <<c>> = <<a, b, c>>
  <2>1. <<a, b>> \o <<c>> = Append(<<a, b>>, c)
    BY <1>1, <1>2, AppendIsConcat
  <2> QED BY ONLY <2>1, AppendTwo
<1> QED BY ONLY <1>3, <1>4, <1>5

\* The entry knows what is expected.
LEMMA ExpectedIs ==
    ASSUME NEW id, NEW e \in EntrySet, e.id = id, Agrees(e, place[id]), place[id] \in PlaceSet
    PROVE  Expected(id) = Full(e)
<1>1. PICK p \in PlaceSet : p = place[id]
  OBVIOUS
<1>2. /\ e.promoted \in BOOLEAN /\ e.deallocated \in BOOLEAN /\ e.alloc_young \in BOOLEAN /\ p.promoted \in BOOLEAN
      /\ p.minor \in BOOLEAN /\ e.promoted = p.promoted /\ e.alloc_young = p.minor /\ e.deallocated = (p.at = "dead")
  BY <1>1 DEF EntrySet, PlaceSet, Agrees
<1>3. PICK a : a = <<IF p.minor THEN "alloc_minor" ELSE "alloc_major", id, "stack">>
  OBVIOUS
<1>4. PICK b : b = <<"promote", id, "alloc">>
  OBVIOUS
<1>5. PICK c : c = <<IF p.minor /\ ~p.promoted THEN "dealloc_minor" ELSE "dealloc_major", id,
                     IF p.promoted THEN "promote" ELSE "alloc">>
  OBVIOUS
<1>6. Expected(id) = <<a>> \o (IF p.promoted THEN <<b>> ELSE <<>>) \o (IF p.at # "dead" THEN <<>> ELSE <<c>>)
  BY ONLY <1>1, <1>3, <1>4, <1>5 DEF Expected
<1>7. a = AllocCall(e) /\ b = PromoteCall(e) /\ c = DeallocCall(e)
  <2>1. a = AllocCall(e)
    BY <1>2, <1>3 DEF AllocCall
  <2>2. b = PromoteCall(e)
    BY <1>4 DEF PromoteCall
  <2>3. c = DeallocCall(e)
    BY <1>2, <1>5 DEF DeallocCall
  <2> QED BY <2>1, <2>2, <2>3
<1>8. Full(e) = IF p.promoted THEN (IF p.at = "dead" THEN <<a, b, c>> ELSE <<a, b>>)
                ELSE (IF p.at = "dead" THEN <<a, c>> ELSE <<a>>)
  BY ONLY <1>2, <1>7 DEF Full
<1>9. /\ <<a>> \o <<>> \o <<>> = <<a>> /\ <<a>> \o <<b>> \o <<>> = <<a, b>>
      /\ <<a>> \o <<>> \o <<c>> = <<a, c>> /\ <<a>> \o <<b>> \o <<c>> = <<a, b, c>>
  BY Joined
<1> QED BY ONLY <1>2, <1>6, <1>8, <1>9

\* A sequence that agrees with another as far as it goes is a prefix of it.
LEMMA PrefixIs ==
    ASSUME NEW T, NEW s \in Seq(T), NEW t \in Seq(T), Len(s) <= Len(t), \A i \in 1..Len(s) : t[i] = s[i]
    PROVE  IsPrefix(s, t)
<1>1. PICK n \in Nat : n = Len(s) /\ DOMAIN s = 1..n
  OBVIOUS
<1>2. \A i \in 1..n : s[i] \in T /\ t[i] \in T /\ t[i] = s[i]
  BY <1>1
<1>3. 1 \in Int /\ n \in Int
  OBVIOUS
<1>4. PICK x : x = SubSeq(s, 1, n)
  OBVIOUS
<1>5. PICK y : y = SubSeq(t, 1, n)
  OBVIOUS
<1>6. x \in Seq(T) /\ Len(x) = (IF 1 <= n THEN n - 1 + 1 ELSE 0) /\ \A i \in 1..n - 1 + 1 : x[i] = s[1 + i - 1]
  BY ONLY <1>2, <1>3, <1>4, SubSeqProperties
<1>7. y \in Seq(T) /\ Len(y) = (IF 1 <= n THEN n - 1 + 1 ELSE 0) /\ \A i \in 1..n - 1 + 1 : y[i] = t[1 + i - 1]
  BY ONLY <1>2, <1>3, <1>5, SubSeqProperties
<1>8. Len(x) = n /\ Len(y) = n
  BY ONLY <1>6, <1>7, n \in Nat
<1>9. \A i \in 1..n : x[i] = y[i]
  <2> SUFFICES ASSUME NEW i \in 1..n PROVE x[i] = y[i]
    OBVIOUS
  <2>1. i \in 1..n - 1 + 1 /\ 1 + i - 1 = i
    OBVIOUS
  <2> QED BY ONLY <2>1, <1>2, <1>6, <1>7, i \in 1..n
<1>10. x = y
  BY <1>6, <1>7, <1>8, <1>9, SeqEqual
<1> QED BY <1>1, <1>4, <1>5, <1>10 DEF IsPrefix

\* The prefixes of sequences of up to three.
LEMMA ShortPrefixes ==
    ASSUME NEW a, NEW b, NEW c
    PROVE  /\ IsPrefix(<<>>, <<a>>) /\ IsPrefix(<<>>, <<a, b>>) /\ IsPrefix(<<>>, <<a, b, c>>)
           /\ IsPrefix(<<a>>, <<a>>) /\ IsPrefix(<<a>>, <<a, b>>) /\ IsPrefix(<<a>>, <<a, b, c>>)
           /\ IsPrefix(<<a, b>>, <<a, b>>) /\ IsPrefix(<<a, b>>, <<a, b, c>>) /\ IsPrefix(<<a, b, c>>, <<a, b, c>>)
<1>1. PICK T : T = {a, b, c}
  OBVIOUS
<1>2. PICK r0 : r0 = <<>>
  OBVIOUS
<1>3. PICK r1 : r1 = <<a>>
  OBVIOUS
<1>4. PICK r2 : r2 = <<a, b>>
  OBVIOUS
<1>5. PICK r3 : r3 = <<a, b, c>>
  OBVIOUS
<1>6. r0 \in Seq(T) /\ Len(r0) = 0
  BY <1>2
<1>7. r1 \in Seq(T) /\ Len(r1) = 1 /\ r1[1] = a
  BY <1>1, <1>3
<1>8. r2 \in Seq(T) /\ Len(r2) = 2 /\ r2[1] = a /\ r2[2] = b
  BY <1>1, <1>4
<1>9. r3 \in Seq(T) /\ Len(r3) = 3 /\ r3[1] = a /\ r3[2] = b /\ r3[3] = c
  BY <1>1, <1>5
<1>10. IsPrefix(r0, r1) /\ IsPrefix(r0, r2) /\ IsPrefix(r0, r3)
  <2>1. ASSUME NEW t \in Seq(T) PROVE IsPrefix(r0, t)
    <3>1. Len(r0) <= Len(t) /\ \A i \in 1..Len(r0) : t[i] = r0[i]
      BY <1>6
    <3> QED BY ONLY <3>1, <1>6, t \in Seq(T), PrefixIs
  <2> QED BY ONLY <2>1, <1>7, <1>8, <1>9
<1>11. IsPrefix(r1, r1) /\ IsPrefix(r1, r2) /\ IsPrefix(r1, r3)
  BY ONLY <1>7, <1>8, <1>9, PrefixIs
<1>12. IsPrefix(r2, r2) /\ IsPrefix(r2, r3) /\ IsPrefix(r3, r3)
  BY ONLY <1>8, <1>9, PrefixIs
<1> QED BY ONLY <1>2, <1>3, <1>4, <1>5, <1>10, <1>11, <1>12

\* The calls made are a prefix of all the calls, and all of them when none is due.
LEMMA HistoryIsPrefix ==
    ASSUME NEW e \in EntrySet, CalledOK(e), NEW made, made \subseteq e.called
    PROVE  /\ IsPrefix(History(e, made), Full(e))
           /\ Due(e) = "none" /\ made = e.called => History(e, made) = Full(e)
<1>1. PICK a : a = AllocCall(e)
  OBVIOUS
<1>2. PICK b : b = PromoteCall(e)
  OBVIOUS
<1>3. PICK c : c = DeallocCall(e)
  OBVIOUS
<1>4. /\ "promote" \in made => e.promoted
      /\ "dealloc" \in made => e.deallocated
  BY DEF CalledOK
<1>5. Full(e) = IF e.promoted THEN (IF e.deallocated THEN <<a, b, c>> ELSE <<a, b>>)
                ELSE (IF e.deallocated THEN <<a, c>> ELSE <<a>>)
  BY ONLY <1>1, <1>2, <1>3 DEF Full
<1>6. History(e, made) = IF "dealloc" \in made THEN (IF e.promoted THEN <<a, b, c>> ELSE <<a, c>>)
                         ELSE IF "promote" \in made THEN <<a, b>> ELSE IF "alloc" \in made THEN <<a>> ELSE <<>>
  BY ONLY <1>1, <1>2, <1>3 DEF History
<1>7. /\ IsPrefix(<<>>, <<a>>) /\ IsPrefix(<<>>, <<a, b>>) /\ IsPrefix(<<>>, <<a, b, c>>) /\ IsPrefix(<<>>, <<a, c>>)
      /\ IsPrefix(<<a>>, <<a>>) /\ IsPrefix(<<a>>, <<a, b>>) /\ IsPrefix(<<a>>, <<a, b, c>>) /\ IsPrefix(<<a>>, <<a, c>>)
      /\ IsPrefix(<<a, b>>, <<a, b>>) /\ IsPrefix(<<a, b>>, <<a, b, c>>) /\ IsPrefix(<<a, b, c>>, <<a, b, c>>)
      /\ IsPrefix(<<a, c>>, <<a, c>>)
  BY ONLY ShortPrefixes
<1>8. IsPrefix(History(e, made), Full(e))
  BY ONLY <1>4, <1>5, <1>6, <1>7
<1>9. ASSUME Due(e) = "none", made = e.called PROVE History(e, made) = Full(e)
  <2>1. "alloc" \in made /\ (e.promoted => "promote" \in made) /\ (e.deallocated => "dealloc" \in made)
    BY <1>9 DEF Due
  <2> QED BY ONLY <2>1, <1>4, <1>5, <1>6
<1> QED BY <1>8, <1>9

\* What TrackingExact says of one block.
LEMMA BlockExact ==
    ASSUME IInv, NEW id \in 1..used
    PROVE  IF place[id].at = "dropped" THEN calls[id] = <<>>
           ELSE /\ IsPrefix(calls[id], Expected(id))
                /\ \E i \in DOMAIN trackst.entries :
                     /\ trackst.entries[i].id = id /\ ~trackst.entries[i].deleted
                     /\ i >= trackst.callback \/ InHand(id) \/ calls[id] = Expected(id)
<1>1. /\ trackst \in TrackSet /\ Tracking(trackst, cur, frame, used, place, calls) /\ used \in Nat /\ Samples \in Nat
      /\ used <= Samples /\ place \in [1..Samples -> PlaceSet] /\ DOMAIN place = 1..Samples /\ cur \in Workers
  BY Setup
<1>2. id \in 1..Samples /\ id <= used
  BY <1>1
<1>3. IF place[id].at = "dropped" THEN calls[id] = <<>> ELSE HasEntry(trackst, id)
  BY ONLY <1>1, <1>2 DEF Tracking, Blocks
<1>4. ASSUME place[id].at # "dropped"
      PROVE  /\ IsPrefix(calls[id], Expected(id))
             /\ \E i \in DOMAIN trackst.entries :
                  /\ trackst.entries[i].id = id /\ ~trackst.entries[i].deleted
                  /\ i >= trackst.callback \/ InHand(id) \/ calls[id] = Expected(id)
  <2>1. PICK i \in DOMAIN trackst.entries : trackst.entries[i].id = id /\ ~trackst.entries[i].deleted
    BY <1>3, <1>4 DEF HasEntry
  <2>2. PICK e \in EntrySet : e = trackst.entries[i]
    BY ONLY <1>1, i \in DOMAIN trackst.entries, TrackFacts
  <2>3. PICK h : h = Hand(trackst, cur, frame, i)
    OBVIOUS
  <2>4. EntryOK(e, place[id], calls[id], h) /\ (i < trackst.callback /\ ~e.deleted => Due(e) = "none" \/ Held(trackst, frame, i))
    BY ONLY <2>1, <2>2, <2>3, <1>1, i \in DOMAIN trackst.entries DEF Tracking, Table, NoneLost
  <2>5. Agrees(e, place[id]) /\ CalledOK(e) /\ calls[id] = History(e, e.called \ {h})
    BY ONLY <2>1, <2>2, <2>4 DEF EntryOK, Tracked
  <2>6. Expected(id) = Full(e)
    <3>1. place[id] \in PlaceSet
      BY ONLY <1>1, <1>2
    <3> QED BY <3>1, <2>1, <2>2, <2>5, ExpectedIs
  <2>7. PICK made : made = e.called \ {h} /\ made \subseteq e.called
    OBVIOUS
  <2>8. /\ IsPrefix(History(e, made), Full(e))
        /\ Due(e) = "none" /\ made = e.called => History(e, made) = Full(e)
    BY ONLY <2>5, <2>7, e \in EntrySet, HistoryIsPrefix
  <2>9. ASSUME NEW w \in Workers, trackst.idx[w] = i, frame[w].pc \in {"entry", "call", "callback"} PROVE InHand(id)
    <3>1. ThreadOK(trackst, w, frame[w], used, place)
      BY ONLY <1>1, w \in Workers DEF Tracking, Threads
    <3>2. i # 0
      BY ONLY <1>1, i \in DOMAIN trackst.entries, TrackFacts
    <3>3. frame[w].fn # "none" /\ frame[w].id = id
      BY ONLY <2>1, <2>9, <3>1, <3>2 DEF ThreadOK, Shape, Holds
    <3> QED BY ONLY <2>9, <3>3, w \in Workers DEF InHand
  <2>10. Held(trackst, frame, i) => InHand(id)
    BY ONLY <2>9 DEF Held
  <2>11. made = e.called \/ InHand(id)
    <3>1. CASE frame[cur].pc = "call" /\ trackst.idx[cur] = i
      BY ONLY <3>1, <2>9, <1>1
    <3>2. CASE ~(frame[cur].pc = "call" /\ trackst.idx[cur] = i)
      <4>1. h = "none"
        BY ONLY <3>2, <2>3 DEF Hand
      <4>2. "none" \notin e.called
        BY ONLY e \in EntrySet DEF EntrySet, CallbackSet
      <4> QED BY ONLY <4>1, <4>2, <2>7
    <3> QED BY ONLY <3>1, <3>2
  <2>12. i \in Nat /\ trackst.callback \in Nat
    BY ONLY <1>1, i \in DOMAIN trackst.entries, TrackFacts
  <2>13. i >= trackst.callback \/ InHand(id) \/ calls[id] = Expected(id)
    <3>1. CASE i < trackst.callback
      BY ONLY <3>1, <2>1, <2>2, <2>4, <2>5, <2>6, <2>7, <2>8, <2>10, <2>11
    <3> QED BY ONLY <3>1, <2>12
  <2>14. IsPrefix(calls[id], Expected(id))
    BY ONLY <2>5, <2>6, <2>7, <2>8
  <2> QED BY ONLY <2>1, <2>13, <2>14, i \in DOMAIN trackst.entries
<1> QED BY <1>3, <1>4

\* The invariant implies TrackingExact.
LEMMA InvariantExact ==
    ASSUME IInv
    PROVE  TrackingExact
<1>1. /\ trackst \in TrackSet /\ Tracking(trackst, cur, frame, used, place, calls)
      /\ Alert(trackst, suspended, pending)
  BY Setup
<1>2. \A id \in 1..used :
        IF place[id].at = "dropped" THEN calls[id] = <<>>
        ELSE /\ IsPrefix(calls[id], Expected(id))
             /\ \E i \in DOMAIN trackst.entries :
                /\ trackst.entries[i].id = id /\ ~trackst.entries[i].deleted
                /\ i >= trackst.callback \/ InHand(id) \/ calls[id] = Expected(id)
  BY BlockExact
<1>3. AtProgram(cur) /\ ~suspended /\ trackst.callback <= Len(trackst.entries) => pending
  BY ONLY <1>1 DEF Alert
<1>4. ASSUME NEW i \in DOMAIN trackst.entries
      PROVE  /\ trackst.entries[i].block # "stale" /\ trackst.entries[i].user_data.at # "stale"
             /\ trackst.entries[i].block \in {"young", "old"} =>
                    trackst.entries[i].block = place[trackst.entries[i].id].at
  <2>1. PICK e \in EntrySet : e = trackst.entries[i]
    BY ONLY <1>1, i \in DOMAIN trackst.entries, TrackFacts
  <2>2. EntryOK(e, place[e.id], calls[e.id], Hand(trackst, cur, frame, i))
    BY ONLY <2>1, <1>1, i \in DOMAIN trackst.entries DEF Tracking, Table
  <2>3. e.block # "stale" /\ e.user_data.at # "stale"
    BY ONLY e \in EntrySet DEF EntrySet, DataSet
  <2>4. e.block \in {"young", "old"} => e.block = place[e.id].at
    BY ONLY <2>2 DEF EntryOK, Deleted, Tracked, Agrees, BlockOf
  <2> QED BY ONLY <2>1, <2>3, <2>4
<1>5. ASSUME NEW w \in Workers, frame[w].pc \in {"call", "callback", "place"}, trackst.idx[w] # Invalid
      PROVE  trackst.idx[w] \in DOMAIN trackst.entries /\ trackst.entries[trackst.idx[w]].id = frame[w].id
  BY <1>1, <1>5 DEF Tracking, Threads, ThreadOK, Holds, Invalid
<1> QED BY ONLY <1>2, <1>3, <1>4, <1>5 DEF TrackingExact

\* Whatever the threads, the callbacks and the collections do, each sampled block has its callbacks
\* in order, of the right kind and with the value of the one before, none twice and none lost; a
\* thread that may run one has been told; no pointer of the table is stale, and no thread's index is
\* that of another entry.
THEOREM CallbacksExact == Spec => []TrackingExact
<1>1. Spec => []IInv
  BY ProfilerInvariant
<1>2. IInv => TrackingExact
  BY InvariantExact
<1> QED BY <1>1, <1>2, PTL
=============================================================================
