------------------------- MODULE MajorGCCollector --------------------------
(***************************************************************************)
(* Why the incremental collector frees nothing that is in use, for every   *)
(* heap and every program that leaves the keys of ephemerons alone in the  *)
(* mark phase: the inductive invariant, and the collector's steps that     *)
(* preserve it.                                                            *)
(***************************************************************************)
EXTENDS MajorGC, FiniteSetTheorems, WellFoundedInduction, TLAPS

Color == {"white", "gray", "black", "blue"}
Scanned == {"scan", "fwd"}
MarkState == [color : [Block -> Color], gray : Seq(Block), size : Nat \ {0},
              pure : BOOLEAN, epure : BOOLEAN]

(***************************************************************************)
(* The inductive invariant                                                 *)
(***************************************************************************)
FieldTypes ==
    /\ DOMAIN fld = Block /\ fld = [b \in Block |-> fld[b]]
    /\ \A b \in Block : fld[b] \in [Index(b) -> Value]
Types ==
    /\ prog \in Programs
    /\ mk \in MarkState
    /\ FieldTypes
    /\ root \in [Slots -> Value]
    /\ phase \in {"idle", "mark", "clean", "sweep"}
    /\ sub \in {"roots", "main", "final"}
    /\ hp \in 0..(N + 1) /\ cv \in Value /\ ci \in Nat
    /\ checked \in Value /\ tocheck \in Value
    /\ sweep \in 1..(N + 1)
    /\ inSlice \in BOOLEAN
    /\ first \subseteq Block /\ last \subseteq Block /\ todo \subseteq Block /\ dead \subseteq Block

\* The list of ephemerons: no ephemeron twice, and the collector's pointers into it.
NoDup(l) == \A j, k \in 1..Len(l) : l[j] = l[k] => j = k
Listed(l, p) == \E j \in 1..Len(l) : l[j] = p
Done == Pos(ephes, checked)
Seen == Pos(ephes, tocheck)
Lists ==
    /\ ephes \in Seq(Block)
    /\ \A j \in 1..Len(ephes) : Tag[ephes[j]] = "ephe"
    /\ NoDup(ephes)
    /\ phase = "mark" => (checked # 0 => Listed(ephes, checked)) /\ Done <= Seen
    /\ phase \in {"mark", "clean"} /\ tocheck # 0 => Listed(ephes, tocheck)

\* The block being scanned, and what marking leaves behind when it is over.
Scanning ==
    /\ phase # "mark" => cv = 0 /\ hp = 0 /\ mk.gray = <<>>
    /\ cv = 0 => ci = 0
    /\ cv # 0 => ci < Size[cv] /\ mk.color[cv] \in {"gray", "black"}
    /\ cv # 0 /\ Tag[cv] \notin Scanned => ci = 0
    /\ \A j \in 1..Len(mk.gray) : mk.color[mk.gray[j]] \in {"gray", "black"}

Colors ==
    /\ phase = "idle" => \A b \in Block : mk.color[b] \in {"white", "blue"}
    /\ phase = "sweep" => \A b \in Block : b < sweep => mk.color[b] \in {"white", "blue"}

\* Blocks that are free, or that the sweep to come will free.
Doomed ==
    {b \in Block : \/ mk.color[b] = "blue"
                   \/ mk.color[b] = "white" /\ phase = "clean"
                   \/ mk.color[b] = "white" /\ phase = "sweep" /\ sweep <= b}

Held == {root[r] : r \in Slots} \cup first \cup last \cup todo

\* Nothing the program holds leads to a block that is or will be freed.
Safe ==
    /\ Held \cap Doomed = {}
    /\ dead \subseteq Doomed
    /\ \A b \in Block \ Doomed : Tag[b] \in Scanned \/ (Tag[b] = "ephe" /\ phase # "clean") =>
          \A i \in Index(b) : fld[b][i] \notin Doomed
    /\ phase # "sweep" => \A b \in Block : Tag[b] # "noscan" /\ mk.color[b] # "blue" =>
          \A i \in Index(b) : fld[b][i] # 0 => mk.color[fld[b][i]] # "blue"
    /\ \A b \in Block \ Doomed : Tag[b] = "ephe" => Listed(ephes, b)
    /\ phase # "clean" => \A j \in 1..Len(ephes) : ephes[j] \notin Doomed
    /\ phase = "clean" => \A j \in 1..Len(ephes) : mk.color[ephes[j]] # "blue"

\* A set of white blocks that no block still to be scanned leads to.
Sealed(U) ==
    /\ \A b \in U : b \in Block /\ mk.color[b] = "white"
    /\ \A b \in Block : b \notin U /\ mk.color[b] \in {"white", "gray"} /\ Tag[b] \in Scanned =>
          \A i \in Index(b) : fld[b][i] \notin U \/ (b = cv /\ i <= ci)

\* Marking will not reach such a set, so the program must not either.
Snapshot ==
    phase = "mark" =>
      \A U \in SUBSET Block : Sealed(U) =>
        /\ \A r \in Slots : root[r] \notin U
        /\ todo \cap U = {}
        /\ sub = "final" => first \cap U = {}
        /\ \A b \in Block : mk.color[b] \in {"gray", "black"} /\ Tag[b] \in Scanned =>
              \A i \in Index(b) : fld[b][i] \notin U

KeyDead(e) == \E k \in Keys(e) : White(ShortCircuit(fld[e][k], TRUE))

\* The data of the ephemerons the scan has passed will be marked, or need not be.
EpheSnapshot ==
    phase = "mark" =>
      \A U \in SUBSET Block : Sealed(U) =>
        /\ \A j \in 1..Done : fld[ephes[j]][1] \notin U
        /\ mk.epure => \A j \in 1..Seen :
              White(ephes[j]) \/ KeyDead(ephes[j]) \/ fld[ephes[j]][1] \notin U

\* What cleaning has done, and what it will find.
Cleaned ==
    phase = "clean" =>
      /\ \A j \in 1..Seen :
            ~White(ephes[j]) /\ \A i \in Index(ephes[j]) : ~White(fld[ephes[j]][i])
      /\ CleanFindsDataMarked

IInv ==
    Types /\ Lists /\ Scanning /\ Colors /\ GrayFound /\ Safe /\ Snapshot /\ EpheSnapshot /\ Cleaned

(***************************************************************************)
(* The constants                                                           *)
(***************************************************************************)
LEMMA ProgFacts ==
    ASSUME prog \in Programs
    PROVE  /\ N \in Nat /\ Block = 1..N /\ Value = 0..N
           /\ Tag \in [Block -> {"scan", "noscan", "fwd", "ephe"}]
           /\ Size \in [Block -> Nat \ {0}]
           /\ \A b \in Block : Tag[b] = "fwd" => Size[b] = 1
           /\ GrayInit \in Nat \ {0} /\ GrayMax \in Nat
<1>1. /\ prog.tag \in Seq({"scan", "noscan", "fwd", "ephe"})
      /\ prog.size \in [DOMAIN prog.tag -> Nat \ {0}]
      /\ \A b \in DOMAIN prog.tag : prog.tag[b] = "fwd" => prog.size[b] = 1
  BY ProgramsAssumption
<1>2. prog.gray \in (Nat \ {0}) \X Nat
  BY GrayAssumption
<1>3. DOMAIN prog.tag = 1..Len(prog.tag) /\ Len(prog.tag) \in Nat
  BY <1>1
<1>4. GrayInit \in Nat \ {0} /\ GrayMax \in Nat
  BY <1>2 DEF GrayInit, GrayMax
<1> QED BY <1>1, <1>3, <1>4 DEF N, Block, Value, Tag, Size

\* No step changes the heap and the program that were chosen at the start.
LEMMA ProgSame ==
    ASSUME prog' = prog
    PROVE  /\ N' = N /\ Block' = Block /\ MarkState' = MarkState /\ Value' = Value /\ Tag' = Tag /\ Size' = Size
           /\ Slots' = Slots /\ GrayMax' = GrayMax /\ Ops' = Ops
  BY DEF N, Block, Value, Tag, Size, Slots, GrayMax, Ops, MarkState

(***************************************************************************)
(* Natural numbers have a least counterexample                             *)
(***************************************************************************)
LEMMA LeastNat ==
    ASSUME NEW T \in SUBSET Nat, T # {}
    PROVE  \E x \in T : \A y \in T : x <= y
<1> DEFINE R == OpToRel(<, Nat)
<1>1. IsWellFoundedOn(R, Nat)
  BY NatLessThanWellFounded
<1>2. PICK x \in T : \A y \in T : ~ (<<y, x>> \in R)
  <2> HIDE DEF R
  <2> QED BY <1>1, WFMin
<1>3. \A y \in T : ~(y < x)
  BY <1>2 DEF OpToRel
<1> QED BY <1>3

\* The domain, the length and the elements of a sequence.
LEMMA SeqFacts ==
    ASSUME NEW S, NEW s \in Seq(S)
    PROVE  /\ DOMAIN s = 1..Len(s) /\ Len(s) \in Nat
           /\ \A j \in 1..Len(s) : s[j] \in S
  OBVIOUS

\* A prefix of a sequence.
LEMMA SubSeqFacts ==
    ASSUME NEW S, NEW s \in Seq(S), NEW n \in 0..Len(s), NEW g, g = SubSeq(s, 1, n)
    PROVE  g \in Seq(S) /\ Len(g) = n /\ \A j \in 1..n : g[j] = s[j] /\ j \in 1..Len(s)
  OBVIOUS

(***************************************************************************)
(* Darkening                                                               *)
(***************************************************************************)
Cached(m) == ToSet(m.gray)

\* n is m after white blocks have been darkened.
Darkens(m, n) ==
    /\ n \in MarkState
    /\ \A b \in Block :
          \/ n.color[b] = m.color[b]
          \/ m.color[b] = "white" /\ n.color[b] = "gray"
          \/ m.color[b] = "white" /\ n.color[b] = "black" /\ Tag[b] \notin Scanned
    /\ n.epure => m.epure /\ n.color = m.color
    /\ n.pure => /\ m.pure /\ Cached(m) \subseteq Cached(n)
                 /\ \A b \in Block : n.color[b] = "gray" => m.color[b] = "gray" \/ b \in Cached(n)
    /\ \A b \in Cached(n) : b \in Cached(m) \/ n.color[b] = "gray"

\* The blocks in gray_vals.
LEMMA CachedFacts ==
    ASSUME NEW m \in MarkState
    PROVE  Cached(m) = {m.gray[j] : j \in 1..Len(m.gray)} /\ Cached(m) \subseteq Block
<1>1. m.gray \in Seq(Block)
  BY DEF MarkState
<1>2. DOMAIN m.gray = 1..Len(m.gray) /\ \A j \in 1..Len(m.gray) : m.gray[j] \in Block
  BY <1>1, SeqFacts
<1> QED BY <1>2 DEF Cached, ToSet

\* Darkening nothing is a darkening,
LEMMA DarkensRefl ==
    ASSUME NEW m \in MarkState
    PROVE  Darkens(m, m)
  BY DEF Darkens

\* and so is one darkening after another.
LEMMA DarkensTrans ==
    ASSUME NEW m, NEW n, NEW o, Darkens(m, n), Darkens(n, o)
    PROVE  Darkens(m, o)
<1>1. \A b \in Block :
          \/ o.color[b] = m.color[b]
          \/ m.color[b] = "white" /\ o.color[b] = "gray"
          \/ m.color[b] = "white" /\ o.color[b] = "black" /\ Tag[b] \notin Scanned
  BY DEF Darkens
<1>2. o.epure => m.epure /\ o.color = m.color
  BY DEF Darkens
<1>3. o.pure => /\ m.pure /\ Cached(m) \subseteq Cached(o)
                /\ \A b \in Block : o.color[b] = "gray" => m.color[b] = "gray" \/ b \in Cached(o)
  BY DEF Darkens
<1>4. \A b \in Cached(o) : b \in Cached(m) \/ o.color[b] = "gray"
  <2> SUFFICES ASSUME NEW b \in Cached(o), b \notin Cached(m), o.color[b] # "gray" PROVE FALSE
    OBVIOUS
  <2>1. b \in Cached(n) /\ n.color[b] = "gray"
    BY DEF Darkens
  <2>2. b \in Block
    BY CachedFacts DEF Darkens
  <2> QED BY <2>1, <2>2, <1>1 DEF Darkens
<1> QED BY <1>1, <1>2, <1>3, <1>4 DEF Darkens

\* realloc_gray_vals only loses entries of the cache, and says so.
LEMMA ReallocFacts ==
    ASSUME NEW n \in MarkState, NEW ok, NEW p, p = realloc_gray_vals(n, ok),
           Len(n.gray) >= n.size
    PROVE  /\ p \in MarkState /\ p.color = n.color /\ p.epure = n.epure
           /\ p.pure => n.pure /\ p.gray = n.gray
           /\ \A j \in 1..Len(p.gray) : j \in 1..Len(n.gray) /\ p.gray[j] = n.gray[j]
<1>0. n.gray \in Seq(Block) /\ n.size \in Nat \ {0} /\ Len(n.gray) \in Nat /\ n.pure \in BOOLEAN
  BY DEF MarkState
<1>1. CASE n.size < GrayMax /\ ok
  <2>1. p = [n EXCEPT !.size = 2 * @]
    BY <1>1 DEF realloc_gray_vals
  <2>2. /\ p \in MarkState /\ p.color = n.color /\ p.gray = n.gray /\ p.pure = n.pure
        /\ p.epure = n.epure
    BY <2>1 DEF MarkState
  <2> QED BY <2>2
<1>2. ASSUME NEW g \in Seq(Block), p = [n EXCEPT !.gray = g, !.pure = FALSE],
             \A j \in 1..Len(g) : j \in 1..Len(n.gray) /\ g[j] = n.gray[j]
      PROVE  /\ p \in MarkState /\ p.color = n.color /\ p.epure = n.epure
             /\ p.pure => n.pure /\ p.gray = n.gray
             /\ \A j \in 1..Len(p.gray) : j \in 1..Len(n.gray) /\ p.gray[j] = n.gray[j]
  <2>1. /\ p \in MarkState /\ p.color = n.color /\ p.gray = g /\ p.pure = FALSE
        /\ p.epure = n.epure
    BY <1>2 DEF MarkState
  <2> QED BY <1>2, <2>1
<1>3. CASE n.size < GrayMax /\ ~ok
  <2>1. PICK g : g = << >>
    OBVIOUS
  <2>2. g \in Seq(Block) /\ Len(g) = 0
    BY <2>1
  <2>3. p = [n EXCEPT !.gray = g, !.pure = FALSE]
    BY <1>3, <2>1 DEF realloc_gray_vals
  <2>4. \A j \in 1..Len(g) : j \in 1..Len(n.gray) /\ g[j] = n.gray[j]
    BY <2>2
  <2> QED BY <2>2, <2>3, <2>4, <1>2, Zenon
<1>4. CASE ~(n.size < GrayMax)
  <2>1. PICK h : h = n.size \div 2
    OBVIOUS
  <2>2. h \in 0..Len(n.gray)
    BY <2>1, <1>0
  <2>3. PICK g : g = SubSeq(n.gray, 1, h)
    OBVIOUS
  <2>4. g \in Seq(Block) /\ Len(g) = h /\ \A j \in 1..h : g[j] = n.gray[j] /\ j \in 1..Len(n.gray)
    <3>1. PICK s : s = n.gray
      OBVIOUS
    <3>2. s \in Seq(Block) /\ h \in 0..Len(s) /\ g = SubSeq(s, 1, h)
      BY <2>2, <2>3, <3>1, <1>0
    <3>3. g \in Seq(Block) /\ Len(g) = h /\ \A j \in 1..h : g[j] = s[j] /\ j \in 1..Len(s)
      BY <3>2, SMT
    <3> QED BY <3>1, <3>3
  <2>5. p = [n EXCEPT !.gray = g, !.pure = FALSE]
    BY <2>1, <2>3, <1>4 DEF realloc_gray_vals
  <2> QED BY <2>4, <2>5, <1>2
<1> QED BY <1>1, <1>3, <1>4

\* Push: b turns gray and is in the cache, unless heap_is_pure says that it may not be.
LEMMA PushFacts ==
    ASSUME GrayMax \in Nat, NEW m \in MarkState, NEW b \in Block, NEW ok \in BOOLEAN,
           m.color[b] = "white"
    PROVE  /\ Darkens(m, Push(m, b, ok)) /\ Push(m, b, ok).color[b] = "gray"
           /\ Push(m, b, ok).color = [m.color EXCEPT ![b] = "gray"] /\ ~Push(m, b, ok).epure
<1>n. PICK n : n = [m EXCEPT !.color[b] = "gray", !.gray = Append(@, b), !.epure = FALSE]
  OBVIOUS
<1>p. PICK p : p = Push(m, b, ok)
  OBVIOUS
<1>0. /\ m.color \in [Block -> Color] /\ m.gray \in Seq(Block) /\ m.size \in Nat \ {0}
      /\ m.pure \in BOOLEAN /\ m.epure \in BOOLEAN /\ b \in Block
  BY DEF MarkState
<1>1. /\ n \in MarkState
      /\ n.color = [m.color EXCEPT ![b] = "gray"] /\ n.gray = Append(m.gray, b)
      /\ n.size = m.size /\ n.pure = m.pure /\ n.epure = FALSE
  <2>1. Append(m.gray, b) \in Seq(Block)
    BY <1>0
  <2> QED BY <1>n, <2>1, <1>0 DEF MarkState, Color
<1>t. n \in MarkState /\ n.size \in Nat \ {0}
  BY <1>1, <1>0
<1>2. Cached(n) = Cached(m) \cup {b}
  <2>1. /\ Len(n.gray) = Len(m.gray) + 1 /\ Len(m.gray) \in Nat
        /\ \A j \in 1..Len(m.gray) : n.gray[j] = m.gray[j]
        /\ n.gray[Len(m.gray) + 1] = b
    BY <1>0, <1>1
  <2>2. /\ Cached(n) = {n.gray[j] : j \in 1..Len(n.gray)}
        /\ Cached(m) = {m.gray[j] : j \in 1..Len(m.gray)}
    BY <1>1, CachedFacts
  <2>3. Cached(m) \subseteq Cached(n) /\ b \in Cached(n)
    BY <2>1, <2>2
  <2>4. ASSUME NEW j \in 1..Len(n.gray) PROVE n.gray[j] \in Cached(m) \cup {b}
    <3>1. j \in 1..Len(m.gray) \/ j = Len(m.gray) + 1
      BY <2>1
    <3> QED BY <3>1, <2>1, <2>2
  <2> QED BY ONLY <2>2, <2>3, <2>4
<1>3. Len(n.gray) \in Nat
  BY <1>1, <1>0, SeqFacts
<1>4. /\ p \in MarkState /\ p.color = n.color /\ p.epure = FALSE /\ Cached(p) \subseteq Cached(n)
      /\ p.pure => n.pure /\ p.gray = n.gray
  <2>1. CASE Len(n.gray) < n.size
    <3>0. ~(Len(n.gray) >= n.size)
      BY <2>1, <1>3, <1>t
    <3>1. p = n
      BY <1>p, <1>n, <3>0, Zenon DEF Push
    <3> QED BY <3>1, <1>1
  <2>2. CASE Len(n.gray) >= n.size
    <3>1. p = realloc_gray_vals(n, ok)
      BY <1>p, <1>n, <2>2, <1>3 DEF Push
    <3>2. /\ p \in MarkState /\ p.color = n.color /\ p.epure = n.epure
          /\ p.pure => n.pure /\ p.gray = n.gray
          /\ \A j \in 1..Len(p.gray) : j \in 1..Len(n.gray) /\ p.gray[j] = n.gray[j]
      BY <3>1, <2>2, <1>t, ReallocFacts
    <3>3. Cached(p) \subseteq Cached(n)
      <4>1. Cached(p) = {p.gray[j] : j \in 1..Len(p.gray)} /\ Cached(n) = {n.gray[j] : j \in 1..Len(n.gray)}
        BY <3>2, <1>t, CachedFacts, Zenon
      <4> QED BY <4>1, <3>2
    <3> QED BY <3>2, <3>3, <1>1, Zenon
  <2>3. Len(n.gray) < n.size \/ Len(n.gray) >= n.size
    BY <1>1, <1>0, <1>3
  <2> QED BY <2>1, <2>2, <2>3
<1>5. p.pure => Cached(p) = Cached(n)
  BY <1>4 DEF Cached
<1>6. p.color = [m.color EXCEPT ![b] = "gray"] /\ p.color[b] = "gray"
  BY <1>4, <1>1, <1>0
<1>7. Darkens(m, p)
  BY <1>0, <1>1, <1>2, <1>4, <1>5, <1>6 DEF Darkens
<1> QED BY <1>p, <1>4, <1>6, <1>7

\* caml_darken darkens, and leaves no white block where it was called.
LEMMA DarkenFacts ==
    ASSUME GrayMax \in Nat, Tag \in [Block -> {"scan", "noscan", "fwd", "ephe"}],
           NEW m \in MarkState, NEW b \in Value, NEW ok \in BOOLEAN, N \in Nat
    PROVE  /\ Darkens(m, caml_darken(m, b, ok))
           /\ b # 0 => caml_darken(m, b, ok).color[b] # "white"
<1> DEFINE p == caml_darken(m, b, ok)
<1>0. b # 0 => b \in Block
  BY DEF Value, Block
<1>1. CASE b = 0 \/ m.color[b] # "white"
  <2>1. p = m
    BY <1>1 DEF caml_darken
  <2> QED BY <2>1, <1>1, DarkensRefl
<1>2. CASE b # 0 /\ m.color[b] = "white" /\ Tag[b] \in {"scan", "fwd"}
  <2>1. p = Push(m, b, ok)
    BY <1>2 DEF caml_darken
  <2>2. Darkens(m, Push(m, b, ok)) /\ Push(m, b, ok).color[b] = "gray"
    BY <1>2, <1>0, PushFacts
  <2> QED BY <2>1, <2>2
<1>3. CASE b # 0 /\ m.color[b] = "white" /\ Tag[b] \notin {"scan", "fwd"}
  <2>1. p = [m EXCEPT !.color[b] = "black", !.epure = FALSE]
    BY <1>3 DEF caml_darken
  <2>2. m.color \in [Block -> Color] /\ m.pure \in BOOLEAN
    BY DEF MarkState
  <2>3. /\ p \in MarkState /\ p.color = [m.color EXCEPT ![b] = "black"]
        /\ p.gray = m.gray /\ p.pure = m.pure /\ p.epure = FALSE
    <3> HIDE DEF p
    <3> QED BY <2>1, <1>0, <1>3 DEF MarkState, Color
  <2>4. Cached(p) = Cached(m)
    BY <2>3 DEF Cached
  <2> HIDE DEF p
  <2> QED BY <2>2, <2>3, <2>4, <1>0, <1>3 DEF Darkens, Scanned, p
<1> QED BY <1>1, <1>2, <1>3

(***************************************************************************)
(* The list of ephemerons                                                  *)
(***************************************************************************)
LEMMA PosFacts ==
    ASSUME NEW S, NEW l \in Seq(S), NEW p, p # 0 => Listed(l, p), NoDup(l)
    PROVE  /\ Pos(l, p) \in 0..Len(l)
           /\ p = 0 <=> Pos(l, p) = 0
           /\ p # 0 => l[Pos(l, p)] = p
           /\ p # 0 => \A j \in 1..Len(l) : l[j] = p => j = Pos(l, p)
<1>0. Len(l) \in Nat
  OBVIOUS
<1>1. CASE p = 0
  BY <1>0, <1>1 DEF Pos
<1>2. CASE p # 0
  <2>1. \E j \in 1..Len(l) : l[j] = p
    BY <1>2 DEF Listed
  <2>2. PICK k : k = CHOOSE j \in 1..Len(l) : l[j] = p
    OBVIOUS
  <2>3. k \in 1..Len(l) /\ l[k] = p
    BY <2>1, <2>2
  <2>4. Pos(l, p) = k
    BY <1>2, <2>2 DEF Pos
  <2>5. \A j \in 1..Len(l) : l[j] = p => j = k
    BY <2>3 DEF NoDup
  <2> QED BY <1>0, <1>2, <2>3, <2>4, <2>5
<1> QED BY <1>1, <1>2

\* An ephemeron is in one place of the list.
LEMMA PosUnique ==
    ASSUME NEW S, NEW l \in Seq(S), NoDup(l), NEW p, p # 0, NEW j \in 1..Len(l), l[j] = p
    PROVE  Listed(l, p) /\ Pos(l, p) = j
<1>1. Listed(l, p)
  BY DEF Listed
<1> QED BY <1>1, PosFacts

\* The list holds ephemerons, and the collector's pointers are places in it.
LEMMA ListsFacts ==
    ASSUME Lists
    PROVE  /\ Len(ephes) \in Nat
           /\ \A j \in 1..Len(ephes) : ephes[j] \in Block /\ Tag[ephes[j]] = "ephe"
           /\ phase = "mark" => /\ Done \in 0..Len(ephes) /\ Seen \in 0..Len(ephes)
           /\ phase = "clean" => Seen \in 0..Len(ephes)
  BY PosFacts DEF Lists, Done, Seen

\* A step that leaves the list and the pointers alone.
LEMMA ListsSame ==
    ASSUME Lists, UNCHANGED <<prog, ephes, checked, tocheck, phase>>
    PROVE  Lists' /\ Done' = Done /\ Seen' = Seen
  BY ProgSame DEF Lists, Listed, Done, Seen, Pos

(***************************************************************************)
(* Steps of the mark phase                                                 *)
(***************************************************************************)
LEMMA SafeMark ==
    ASSUME Types, Types', Safe, prog' = prog, phase = "mark", phase' = "mark",
           \A b \in Block : mk'.color[b] = "blue" <=> mk.color[b] = "blue",
           Held' \subseteq Held, dead' = dead,
           \A b \in Block : mk.color[b] # "blue" /\ Tag[b] # "noscan" =>
              \A i \in 1..Size[b] : fld'[b][i] # 0 => mk.color[fld'[b][i]] # "blue",
           \A p \in Block : Listed(ephes, p) <=> Listed(ephes', p),
           Lists'
    PROVE  Safe'
<1>1. /\ N' = N /\ Block' = Block /\ Value' = Value /\ Tag' = Tag /\ Size' = Size /\ Slots' = Slots
  BY ProgSame
<1>2. Doomed = {b \in Block : mk.color[b] = "blue"} /\ Doomed' = {b \in Block : mk.color[b] = "blue"}
  BY <1>1 DEF Doomed
<1>3. Held' \cap Doomed' = {} /\ dead' \subseteq Doomed'
  BY <1>2 DEF Safe
<1>0. 0 \notin Block
  BY ProgFacts DEF Types
<1>4. \A b \in Block \ Doomed : Tag[b] # "noscan" => \A i \in 1..Size[b] : fld'[b][i] \notin Doomed
  BY <1>0, <1>2
<1>5. \A b \in Block : Tag[b] # "noscan" /\ mk'.color[b] # "blue" =>
        \A i \in 1..Size[b] : fld'[b][i] # 0 => mk'.color[fld'[b][i]] # "blue"
  <2>1. \A b \in Block : \A i \in 1..Size[b] : fld'[b][i] \in Value
    <3>1. FieldTypes'
      BY DEF Types
    <3> QED BY <3>1, <1>1 DEF FieldTypes, Index
  <2>2. \A v \in Value : v # 0 => v \in Block
    BY ProgFacts DEF Types
  <2> QED BY <2>1, <2>2
<1>6. \A b \in Block \ Doomed : Tag[b] = "ephe" => Listed(ephes', b)
  BY DEF Safe
<1>7. \A j \in 1..Len(ephes') : ephes'[j] \notin Doomed
  <2>1. \A j \in 1..Len(ephes') : ephes'[j] \in Block /\ Listed(ephes', ephes'[j])
    BY <1>1 DEF Lists, Listed
  <2>2. \A p \in Block : Listed(ephes, p) => p \notin Doomed
    BY DEF Safe, Listed
  <2> QED BY <2>1, <2>2
<1>8. Doomed' = Doomed
  BY <1>2
<1> QED BY <1>1, <1>3, <1>4, <1>5, <1>6, <1>7, <1>8 DEF Safe, Index, Scanned

\* What marking, and the program meanwhile, may do: blocks are darkened, new blocks are black;
Darkening ==
    \A b \in Block :
       \/ mk'.color[b] = mk.color[b]
       \/ mk.color[b] = "white" /\ mk'.color[b] = "gray"
       \/ Tag[b] \notin Scanned /\ mk.color[b] \in {"white", "gray"} /\ mk'.color[b] = "black"
       \/ mk.color[b] = "blue" /\ mk'.color[b] = "black"

\* the pointers that disappear led to marked blocks, those that appear come from the roots;
Rewiring ==
    \A b \in Block : Tag[b] \in Scanned => \A i \in 1..Size[b] :
       \/ fld'[b][i] = fld[b][i] /\ (mk.color[b] # "blue" \/ mk'.color[b] = "blue")
       \/ /\ fld'[b][i] \in Roots \cup {0}
          /\ fld[b][i] = 0 \/ mk'.color[fld[b][i]] # "white" \/ mk.color[b] = "blue"

\* new roots are marked, or were reachable from the roots.
Rooting ==
    /\ \A r \in Slots :
          \/ root'[r] \in Roots \cup {0}
          \/ mk'.color[root'[r]] # "white"
          \/ \E s \in Slots : /\ root[s] \in Block /\ Tag[root[s]] \in Scanned
                              /\ \E i \in 1..Size[root[s]] : root'[r] = fld[root[s]][i]
    /\ \A b \in todo' : b \in todo \/ mk'.color[b] # "white"
    /\ sub' = "final" =>
          \A b \in first' : (sub = "final" /\ b \in first) \/ b \in Roots \/ mk'.color[b] # "white"

SealedBack == \A U \in SUBSET Block : Sealed(U)' => Sealed(U)

\* What the type invariant says of blocks, colours, fields and roots.
LEMMA TypeFacts ==
    ASSUME Types
    PROVE  /\ 0 \notin Block /\ Value = Block \cup {0} /\ N \in Nat /\ Block = 1..N
           /\ Tag \in [Block -> {"scan", "noscan", "fwd", "ephe"}]
           /\ Size \in [Block -> Nat \ {0}]
           /\ \A b \in Block : Tag[b] = "fwd" => Size[b] = 1
           /\ mk.color \in [Block -> Color]
           /\ \A b \in Block : \A i \in 1..Size[b] : fld[b][i] \in Value
           /\ \A r \in Slots : root[r] \in Value
<1>1. prog \in Programs /\ mk \in MarkState /\ FieldTypes /\ root \in [Slots -> Value]
  BY DEF Types
<1>2. /\ N \in Nat /\ Block = 1..N /\ Value = 0..N
      /\ Tag \in [Block -> {"scan", "noscan", "fwd", "ephe"}]
      /\ Size \in [Block -> Nat \ {0}]
      /\ \A b \in Block : Tag[b] = "fwd" => Size[b] = 1
  BY <1>1, ProgFacts
<1>3. mk.color \in [Block -> Color]
  BY <1>1 DEF MarkState
<1>4. \A b \in Block : \A i \in 1..Size[b] : fld[b][i] \in Value
  BY <1>1 DEF FieldTypes, Index
<1>5. 0 \notin Block /\ Value = Block \cup {0}
  BY <1>2
<1> QED BY <1>1, <1>2, <1>3, <1>4, <1>5

\* No root is free.
LEMMA RootsNotBlue ==
    ASSUME Types, Safe
    PROVE  \A r \in Slots : root[r] # 0 => root[r] \in Block /\ mk.color[root[r]] # "blue"
  BY TypeFacts DEF Safe, Held, Doomed

\* Steps of the mark phase so restricted keep the snapshot, and seal no new set.
LEMMA SnapshotStep ==
    ASSUME Types, Scanning, Safe, Snapshot, phase = "mark", prog' = prog,
           Darkening, Rewiring, Rooting, (cv' = cv /\ ci' = ci) \/ ci' = 0
    PROVE  Snapshot' /\ SealedBack
<1>1. /\ N' = N /\ Block' = Block /\ Value' = Value /\ Tag' = Tag /\ Size' = Size /\ Slots' = Slots
  BY ProgSame
<1>0. /\ 0 \notin Block
      /\ \A b \in Block : mk.color[b] \in Color
      /\ \A b \in Block : \A i \in 1..Size[b] : fld[b][i] \in Block \cup {0}
  BY TypeFacts
<1>c. cv # 0 => mk.color[cv] \in {"gray", "black"}
  BY DEF Scanning
<1>2. SUFFICES ASSUME NEW U \in SUBSET Block,
                      \A b \in U : mk'.color[b] = "white",
                      \A b \in Block : b \notin U /\ mk'.color[b] \in {"white", "gray"} /\ Tag[b] \in Scanned =>
                         \A i \in 1..Size[b] : fld'[b][i] \notin U \/ (b = cv' /\ i <= ci')
               PROVE  /\ Sealed(U)
                      /\ \A r \in Slots : root'[r] \notin U
                      /\ todo' \cap U = {}
                      /\ sub' = "final" => first' \cap U = {}
                      /\ \A b \in Block : mk'.color[b] \in {"gray", "black"} /\ Tag[b] \in Scanned =>
                            \A i \in 1..Size[b] : fld'[b][i] \notin U
  BY <1>1, ZenonT(60) DEF Snapshot, Sealed, Index, SealedBack
<1>3. \A b \in U : mk.color[b] = "white"
  BY <1>2 DEF Darkening
<1>4. ASSUME NEW b \in Block, b \notin U, mk.color[b] \in {"white", "gray"}, Tag[b] \in Scanned,
             NEW i \in 1..Size[b], fld[b][i] \in U
      PROVE  b = cv /\ i <= ci
  <2>1. mk'.color[b] \in {"white", "gray"}
    BY <1>4 DEF Darkening
  <2>2. fld[b][i] # 0 /\ mk'.color[fld[b][i]] = "white"
    BY <1>0, <1>2, <1>4
  <2>3. fld'[b][i] = fld[b][i]
    BY <2>1, <2>2, <1>4 DEF Rewiring
  <2>4. b = cv' /\ i <= ci'
    BY <2>1, <2>3, <1>2, <1>4
  <2> QED BY <2>4
<1>5. Sealed(U)
  BY <1>3, <1>4 DEF Sealed, Index
<1>6. /\ \A r \in Slots : root[r] \notin U
      /\ todo \cap U = {}
      /\ sub = "final" => first \cap U = {}
      /\ \A b \in Block : mk.color[b] \in {"gray", "black"} /\ Tag[b] \in Scanned =>
            \A i \in 1..Size[b] : fld[b][i] \notin U
  BY <1>5 DEF Snapshot, Index
<1>7. Roots \cap U = {} /\ 0 \notin U
  BY <1>0, <1>6 DEF Roots
<1>8. ASSUME NEW s \in Slots, root[s] \in Block, Tag[root[s]] \in Scanned, NEW i \in 1..Size[root[s]]
      PROVE  fld[root[s]][i] \notin U
  <2>1. CASE mk.color[root[s]] \in {"gray", "black"}
    BY <2>1, <1>6, <1>8
  <2>2. CASE mk.color[root[s]] = "white"
    BY <2>2, <1>c, <1>0, <1>4, <1>6, <1>8
  <2>3. mk.color[root[s]] # "blue"
    BY <1>0, <1>8, RootsNotBlue
  <2> QED BY <2>1, <2>2, <2>3, <1>0, <1>8 DEF Color
<1>9. ASSUME NEW b \in Block, mk'.color[b] \in {"gray", "black"}, Tag[b] \in Scanned, NEW i \in 1..Size[b]
      PROVE  fld'[b][i] \notin U
  <2>1. CASE mk.color[b] \in {"gray", "black"}
    BY <2>1, <1>9, <1>6, <1>7 DEF Rewiring
  <2>2. CASE mk.color[b] = "white"
    <3>1. b # cv /\ b \notin U /\ mk'.color[b] = "gray"
      BY <2>2, <1>0, <1>c, <1>2, <1>9 DEF Darkening
    <3>2. b # cv' \/ ~(i <= ci')
      BY <3>1
    <3> QED BY <3>1, <3>2, <1>2, <1>9
  <2>3. CASE mk.color[b] = "blue"
    BY <2>3, <1>7, <1>9 DEF Rewiring
  <2> QED BY <2>1, <2>2, <2>3, <1>0 DEF Color
<1>10. /\ \A r \in Slots : root'[r] \notin U
       /\ todo' \cap U = {}
       /\ sub' = "final" => first' \cap U = {}
  BY <1>2, <1>6, <1>7, <1>8 DEF Rooting
<1> QED BY <1>5, <1>9, <1>10

\* Nothing turns from white, and the pointers that keys may be bypassed along stay.
WhitesKept == \A b \in Block : mk.color[b] = "white" => mk'.color[b] = "white"
ForwardsKept ==
    \A b \in Block : Tag[b] = "fwd" /\ mk.color[b] # "blue" =>
       \/ fld'[b][1] = fld[b][1]
       \/ mk.color[b] # "white" /\ (fld[b][1] = 0 \/ Tag[fld[b][1]] = "fwd")

\* A key that marking would find dead stays dead while nothing is darkened.
LEMMA KeyDeadKept ==
    ASSUME Types, Safe, phase = "mark", prog' = prog, WhitesKept, ForwardsKept,
           NEW e \in Block, Tag[e] = "ephe", mk.color[e] # "blue",
           \A k \in 2..Size[e] : fld'[e][k] = fld[e][k],
           KeyDead(e)
    PROVE  KeyDead(e)'
<1>1. /\ N' = N /\ Block' = Block /\ Value' = Value /\ Tag' = Tag /\ Size' = Size /\ Slots' = Slots
  BY ProgSame
<1>0. /\ 0 \notin Block
      /\ Size[e] \in Nat
      /\ \A b \in Block : \A i \in 1..Size[b] : fld[b][i] \in Block \cup {0}
      /\ \A b \in Block : Tag[b] = "fwd" => Size[b] = 1
  BY TypeFacts
<1>2. \A b \in Block : mk.color[b] # "blue" /\ Tag[b] # "noscan" =>
         \A i \in 1..Size[b] : fld[b][i] # 0 => mk.color[fld[b][i]] # "blue"
  BY DEF Safe, Index
<1>3. PICK k \in 2..Size[e] : White(ShortCircuit(fld[e][k], TRUE))
  BY DEF KeyDead, Keys
<1>4. PICK c : c = fld[e][k]
  OBVIOUS
<1>5. c \in Block \cup {0} /\ (c # 0 => mk.color[c] # "blue") /\ fld'[e][k] = c
  BY <1>0, <1>2, <1>3, <1>4
<1>6. White(ShortCircuit(c, TRUE))
  BY <1>3, <1>4
<1>7. CASE c = 0 \/ Tag[c] # "fwd"
  <2>1. White(c) /\ c # 0 /\ mk.color[c] = "white"
    BY <1>6, <1>7 DEF ShortCircuit, White
  <2>2. mk'.color[c] = "white"
    BY <2>1, <1>5 DEF WhitesKept
  <2> QED BY <2>1, <2>2, <1>1, <1>3, <1>5, <1>7 DEF KeyDead, Keys, White, ShortCircuit
<1>8. CASE c # 0 /\ Tag[c] = "fwd"
  <2>0. c \in Block /\ Size[c] = 1 /\ fld[c][1] \in Block \cup {0}
    BY <1>0, <1>5, <1>8
  <2>1. CASE fld[c][1] = 0 \/ Tag[fld[c][1]] = "fwd"
    <3>1. mk.color[c] = "white"
      BY <1>6, <1>8, <2>1 DEF ShortCircuit, White
    <3>2. mk'.color[c] = "white" /\ fld'[c][1] = fld[c][1]
      BY <3>1, <2>0, <1>5, <1>8 DEF WhitesKept, ForwardsKept
    <3> QED BY <3>1, <3>2, <2>1, <1>1, <1>3, <1>5, <1>8 DEF KeyDead, Keys, White, ShortCircuit
  <2>2. CASE ~(fld[c][1] = 0 \/ Tag[fld[c][1]] = "fwd")
    <3>1. mk.color[fld[c][1]] = "white"
      BY <1>6, <1>8, <2>2 DEF ShortCircuit, White
    <3>2. mk'.color[fld[c][1]] = "white" /\ fld'[c][1] = fld[c][1]
      BY <3>1, <2>0, <2>2, <1>5, <1>8 DEF WhitesKept, ForwardsKept
    <3> QED BY <3>1, <3>2, <2>2, <1>1, <1>3, <1>5, <1>8 DEF KeyDead, Keys, White, ShortCircuit
  <2> QED BY <2>1, <2>2
<1> QED BY <1>7, <1>8

\* The data that appear in ephemerons come from the roots or are marked.
DataKept ==
    \A j \in 1..Len(ephes) :
       \/ fld'[ephes[j]][1] = fld[ephes[j]][1]
       \/ fld'[ephes[j]][1] \in Roots \cup {0}
       \/ mk'.color[fld'[ephes[j]][1]] # "white"

\* The snapshot of the ephemerons is kept while the list and the keys stay, or starts afresh.
LEMMA EpheStep ==
    ASSUME Types, Lists, Safe, Snapshot, EpheSnapshot, phase = "mark", prog' = prog,
           SealedBack, DataKept,
           ephes' = ephes, checked' = checked,
           tocheck' = checked \/ tocheck' = tocheck,
           mk'.epure /\ tocheck' # checked =>
              /\ mk.epure /\ WhitesKept /\ ForwardsKept
              /\ \A j \in 1..Len(ephes) : \A k \in 2..Size[ephes[j]] : fld'[ephes[j]][k] = fld[ephes[j]][k]
    PROVE  EpheSnapshot'
<1>1. /\ N' = N /\ Block' = Block /\ Value' = Value /\ Tag' = Tag /\ Size' = Size /\ Slots' = Slots
  BY ProgSame
<1>2. /\ Done' = Done /\ (tocheck' = tocheck => Seen' = Seen) /\ (tocheck' = checked => Seen' = Done)
      /\ Done \in 0..Len(ephes) /\ Seen \in 0..Len(ephes) /\ Len(ephes) \in Nat
      /\ \A j \in 1..Len(ephes) : ephes[j] \in Block /\ Tag[ephes[j]] = "ephe"
  <2>1. /\ Done' = Done /\ (tocheck' = tocheck => Seen' = Seen) /\ (tocheck' = checked => Seen' = Done)
    BY DEF Done, Seen
  <2> QED BY <2>1, ListsFacts
<1>3. SUFFICES ASSUME NEW U \in SUBSET Block, Sealed(U)'
               PROVE  /\ \A j \in 1..Done : fld'[ephes[j]][1] \notin U
                      /\ mk'.epure => \A j \in 1..Seen' :
                            White(ephes[j])' \/ KeyDead(ephes[j])' \/ fld'[ephes[j]][1] \notin U
  BY <1>1, <1>2 DEF EpheSnapshot
<1>4. Sealed(U)
  BY <1>3 DEF SealedBack
<1>5. /\ \A j \in 1..Done : fld[ephes[j]][1] \notin U
      /\ mk.epure => \A j \in 1..Seen :
                            White(ephes[j]) \/ KeyDead(ephes[j]) \/ fld[ephes[j]][1] \notin U
  BY <1>4 DEF EpheSnapshot
<1>6. \A j \in 1..Len(ephes) : fld'[ephes[j]][1] = fld[ephes[j]][1] \/ fld'[ephes[j]][1] \notin U
  <2>1. \A b \in U : mk'.color[b] = "white"
    BY <1>3 DEF Sealed
  <2>2. Roots \cap U = {} /\ 0 \notin U
    BY <1>4, TypeFacts DEF Snapshot, Roots
  <2> QED BY <2>1, <2>2 DEF DataKept
<1>7. \A j \in 1..Done : fld'[ephes[j]][1] \notin U
  BY <1>2, <1>5, <1>6
<1>8. ASSUME mk'.epure, tocheck' # checked, NEW j \in 1..Seen'
      PROVE  White(ephes[j])' \/ KeyDead(ephes[j])' \/ fld'[ephes[j]][1] \notin U
  <2>1. j \in 1..Seen /\ j \in 1..Len(ephes)
    BY <1>2, <1>8
  <2>2. ephes[j] \in Block /\ Tag[ephes[j]] = "ephe" /\ mk.color[ephes[j]] # "blue"
    BY <1>2, <2>1 DEF Safe, Doomed
  <2>3. WhitesKept /\ ForwardsKept /\ \A k \in 2..Size[ephes[j]] : fld'[ephes[j]][k] = fld[ephes[j]][k]
    BY <1>8, <2>1
  <2>4. KeyDead(ephes[j]) => KeyDead(ephes[j])'
    BY <2>2, <2>3, KeyDeadKept
  <2>5. White(ephes[j]) => White(ephes[j])'
    BY <2>2, <2>3 DEF White, WhitesKept
  <2> QED BY <2>1, <2>4, <2>5, <1>5, <1>6, <1>8
<1> QED BY <1>2, <1>7, <1>8

\* The type invariant after a step of the mark phase.
LEMMA MarkTypes ==
    ASSUME Types, prog' = prog, mk' \in MarkState, FieldTypes', hp' \in 0..(N + 1), cv' \in Value,
           ci' \in Nat, sub' \in {"roots", "main", "final"}, inSlice' \in BOOLEAN,
           checked' \in Value, tocheck' \in Value, first' \subseteq Block, todo' \subseteq Block,
           UNCHANGED <<root, phase, sweep, last, dead>>
    PROVE  Types'
  BY ProgSame DEF Types

\* The types of the fields when none is written.
LEMMA FieldTypesSame ==
    ASSUME FieldTypes, prog' = prog, fld' = fld
    PROVE  FieldTypes'
  BY ProgSame DEF FieldTypes, Index

\* A sequence without its last element.
LEMMA FrontFacts ==
    ASSUME NEW S, NEW s \in Seq(S), s # << >>
    PROVE  /\ Front(s) \in Seq(S) /\ Len(s) \in Nat \ {0} /\ Len(Front(s)) = Len(s) - 1
           /\ \A j \in 1..Len(s) - 1 : Front(s)[j] = s[j] /\ j \in 1..Len(s)
           /\ Last(s) = s[Len(s)] /\ Last(s) \in S
<1>1. Len(s) \in Nat \ {0}
  OBVIOUS
<1>2. PICK g : g = Front(s)
  OBVIOUS
<1>3. g = SubSeq(s, 1, Len(s) - 1)
  BY <1>2 DEF Front
<1>4. PICK h : h = Len(s) - 1
  OBVIOUS
<1>5. g \in Seq(S) /\ Len(g) = h /\ \A j \in 1..h : g[j] = s[j] /\ j \in 1..Len(s)
  <2>1. h \in 0..Len(s) /\ g = SubSeq(s, 1, h)
    BY <1>1, <1>3, <1>4
  <2> QED BY <2>1, SMT
<1>6. Last(s) = s[Len(s)] /\ Last(s) \in S
  BY <1>1 DEF Last
<1> QED BY <1>1, <1>2, <1>4, <1>5, <1>6

\* A step that leaves fields, roots and lists alone, and takes no white block.
LEMMA QuietStep ==
    ASSUME IInv, prog' = prog, phase = "mark", Types', Scanning', GrayFound', Darkening, WhitesKept,
           \A b \in Block : mk'.color[b] = "blue" <=> mk.color[b] = "blue",
           UNCHANGED <<fld, root, phase, ephes, checked, sweep, first, last, todo, dead>>,
           (cv' = cv /\ ci' = ci) \/ ci' = 0,
           sub' = "final" => sub = "final",
           (tocheck' = tocheck /\ (mk'.epure => mk.epure)) \/ tocheck' = checked
    PROVE  IInv'
<1>a. Types /\ Lists /\ Scanning /\ Colors /\ Safe /\ Snapshot /\ EpheSnapshot
  BY DEF IInv
<1>p. Block' = Block /\ Tag' = Tag /\ Size' = Size /\ Slots' = Slots
  BY ProgSame
<1>1. Lists'
  BY <1>a, <1>p, ListsFacts DEF Lists, Done, Seen
<1>2. Safe'
  <2>1. \A b \in Block : mk.color[b] # "blue" /\ Tag[b] # "noscan" =>
              \A i \in 1..Size[b] : fld'[b][i] # 0 => mk.color[fld'[b][i]] # "blue"
    BY <1>a DEF Safe, Index
  <2>2. Held' = Held
    BY <1>p DEF Held
  <2> QED BY <1>a, <1>1, <2>1, <2>2, SafeMark
<1>3. Snapshot' /\ SealedBack
  <2>1. Rewiring
    BY DEF Rewiring
  <2>2. Rooting
    BY DEF Rooting, Roots
  <2> QED BY <1>a, <2>1, <2>2, SnapshotStep
<1>4. EpheSnapshot'
  <2>1. DataKept /\ ForwardsKept
    BY DEF DataKept, ForwardsKept
  <2> QED BY <1>a, <1>3, <2>1, EpheStep
<1>5. Colors' /\ Cleaned'
  BY DEF Colors, Cleaned
<1> QED BY <1>1, <1>2, <1>3, <1>4, <1>5 DEF IInv

(***************************************************************************)
(* Steps that change fields, or darken                                     *)
(***************************************************************************)
LEMMA BlockUpdate ==
    ASSUME Types, prog' = prog, NEW o \in Block, NEW g \in [1..Size[o] -> Value],
           fld' = [fld EXCEPT ![o] = g]
    PROVE  FieldTypes' /\ fld'[o] = g /\ \A b \in Block : b # o => fld'[b] = fld[b]
<1>1. FieldTypes
  BY DEF Types
<1>2. Block' = Block /\ Value' = Value /\ Size' = Size
  BY ProgSame
<1>3. DOMAIN fld = Block /\ \A b \in Block : fld[b] \in [1..Size[b] -> Value]
  BY <1>1 DEF FieldTypes, Index
<1>4. DOMAIN fld' = Block /\ fld'[o] = g /\ \A b \in Block : b # o => fld'[b] = fld[b]
  BY <1>3
<1>5. fld' = [b \in Block |-> fld'[b]]
  BY <1>1, <1>4 DEF FieldTypes
<1> QED BY <1>2, <1>3, <1>4, <1>5 DEF FieldTypes, Index

\* After a darkening, gray blocks can still be found.
LEMMA DarkensScan ==
    ASSUME Types, Scanning, GrayFound, NEW n, Darkens(mk, n)
    PROVE  /\ \A j \in 1..Len(n.gray) : n.color[n.gray[j]] \in {"gray", "black"}
           /\ cv # 0 => n.color[cv] \in {"gray", "black"}
           /\ phase = "mark" => \A b \in Block : n.color[b] = "gray" =>
                 b \in ToSet(n.gray) \cup {cv} \/ ~n.pure \/ (hp # 0 /\ b >= hp)
<1>1. /\ mk \in MarkState /\ n \in MarkState /\ cv \in Value /\ mk.color \in [Block -> Color]
      /\ Value = Block \cup {0}
  BY TypeFacts DEF Types, Darkens
<1>2. /\ Cached(n) = {n.gray[j] : j \in 1..Len(n.gray)} /\ Cached(n) \subseteq Block
      /\ Cached(mk) = {mk.gray[j] : j \in 1..Len(mk.gray)}
  BY <1>1, CachedFacts
<1>3. \A b \in Cached(mk) : mk.color[b] \in {"gray", "black"}
  BY <1>2 DEF Scanning
<1>4. \A b \in Cached(n) : n.color[b] \in {"gray", "black"}
  BY <1>2, <1>3 DEF Darkens
<1>5. cv # 0 => n.color[cv] \in {"gray", "black"}
  <2>1. cv # 0 => cv \in Block /\ mk.color[cv] \in {"gray", "black"}
    BY <1>1 DEF Scanning
  <2> QED BY <2>1 DEF Darkens
<1>6. ASSUME phase = "mark", NEW b \in Block, n.color[b] = "gray", n.pure
      PROVE  b \in Cached(n) \cup {cv} \/ (hp # 0 /\ b >= hp)
  <2>1. mk.pure /\ Cached(mk) \subseteq Cached(n) /\ (mk.color[b] = "gray" \/ b \in Cached(n))
    BY <1>6 DEF Darkens
  <2> QED BY <2>1, <1>6 DEF GrayFound, Cached
<1> QED BY <1>2, <1>4, <1>5, <1>6 DEF Cached

\* mark_slice_darken.
LEMMA SliceDarkenFacts ==
    ASSUME Types, NEW v \in Block, NEW i \in 1..Size[v], NEW ok \in BOOLEAN, NEW n,
           n = mark_slice_darken(v, i, ok)
    PROVE  /\ Darkens(mk, n)
           /\ \A b \in Block : b # fld[v][i] => n.color[b] = mk.color[b]
           /\ fld[v][i] # 0 => /\ n.color[fld[v][i]] # "white"
                               /\ mk.color[fld[v][i]] # "white" => n.color[fld[v][i]] = mk.color[fld[v][i]]
                               /\ mk.color[fld[v][i]] = "white" => n.color[fld[v][i]] = "gray"
           /\ ~n.epure \/ n = mk
<1>1. /\ fld[v][i] \in Block \cup {0} /\ mk \in MarkState /\ GrayMax \in Nat
      /\ mk.color \in [Block -> Color]
  BY TypeFacts, ProgFacts DEF Types
<1>2. CASE White(fld[v][i])
  <2>1. fld[v][i] \in Block /\ mk.color[fld[v][i]] = "white" /\ n = Push(mk, fld[v][i], ok)
    BY <1>1, <1>2 DEF mark_slice_darken, White
  <2>2. Darkens(mk, n) /\ n.color = [mk.color EXCEPT ![fld[v][i]] = "gray"] /\ ~n.epure
    BY <2>1, <1>1, PushFacts
  <2> QED BY <2>1, <2>2, <1>1
<1>3. CASE ~White(fld[v][i])
  <2>1. n = mk /\ (fld[v][i] # 0 => mk.color[fld[v][i]] # "white")
    BY <1>3 DEF mark_slice_darken, White
  <2>2. Darkens(mk, n)
    BY <2>1, <1>1, DarkensRefl
  <2> QED BY <2>1, <2>2
<1> QED BY <1>2, <1>3

\* What a pointer is bypassed to.
LEMMA ShortCircuitFacts ==
    ASSUME Types, NEW c \in Value, NEW inEphe \in BOOLEAN, NEW y, y = ShortCircuit(c, inEphe)
    PROVE  /\ y \in Value
           /\ y = c \/ (c \in Block /\ Tag[c] = "fwd" /\ Size[c] = 1 /\ y = fld[c][1])
           /\ c \in Block /\ Tag[c] = "fwd" /\ y # c => y = 0 \/ Tag[y] # "fwd"
           /\ inEphe /\ c # 0 => y # 0
<1>1. /\ 0 \notin Block /\ Value = Block \cup {0}
      /\ \A b \in Block : Tag[b] = "fwd" => Size[b] = 1 /\ fld[b][1] \in Value
  BY TypeFacts
<1>2. CASE c # 0 /\ Tag[c] = "fwd"
  BY <1>1, <1>2 DEF ShortCircuit
<1>3. CASE ~(c # 0 /\ Tag[c] = "fwd")
  BY <1>1, <1>3 DEF ShortCircuit
<1> QED BY <1>2, <1>3

(***************************************************************************)
(* The steps of mark_slice                                                 *)
(***************************************************************************)
LEMMA PopGrayInv ==
    ASSUME IInv, PopGray, prog' = prog
    PROVE  IInv'
<1>a. Types /\ Scanning /\ GrayFound
  BY DEF IInv
<1>b. /\ phase = "mark" /\ cv = 0 /\ mk.gray # << >> /\ cv' = Last(mk.gray)
      /\ mk' = [mk EXCEPT !.gray = Front(@)] /\ inSlice' = inSlice
      /\ UNCHANGED <<fld, root, phase, sub, hp, ci, ephes, checked, tocheck, sweep, first, last, todo, dead>>
  BY DEF PopGray, InMark, NoWorkDone, lists, finals
<1>p. Block' = Block /\ Tag' = Tag /\ Size' = Size
  BY ProgSame
<1>t. 0 \notin Block /\ Value = Block \cup {0} /\ Size \in [Block -> Nat \ {0}]
  BY <1>a, TypeFacts
<1>1. /\ Front(mk.gray) \in Seq(Block) /\ Len(mk.gray) \in Nat \ {0}
      /\ Len(Front(mk.gray)) = Len(mk.gray) - 1
      /\ \A j \in 1..(Len(mk.gray) - 1) : Front(mk.gray)[j] = mk.gray[j] /\ j \in 1..Len(mk.gray)
      /\ Last(mk.gray) = mk.gray[Len(mk.gray)] /\ Last(mk.gray) \in Block
  <2>1. PICK s : s = mk.gray
    OBVIOUS
  <2>2. s \in Seq(Block) /\ s # << >>
    BY <2>1, <1>a, <1>b DEF Types, MarkState
  <2> QED BY <2>1, <2>2, FrontFacts, Zenon
<1>2. /\ mk' \in MarkState /\ mk'.color = mk.color /\ mk'.gray = Front(mk.gray) /\ mk'.pure = mk.pure
      /\ mk'.epure = mk.epure
  <2>1. PICK g \in Seq(Block) : g = Front(mk.gray)
    BY <1>1
  <2>2. mk' = [mk EXCEPT !.gray = g] /\ mk \in MarkState
    BY <2>1, <1>a, <1>b DEF Types
  <2> QED BY <2>1, <2>2 DEF MarkState
<1>3. ci = 0
  BY <1>a, <1>b DEF Scanning
<1>4. Types'
  <2>1. FieldTypes'
    BY <1>a, <1>b, FieldTypesSame DEF Types
  <2> QED BY <1>a, <1>b, <1>1, <1>2, <1>t, <2>1, MarkTypes DEF Types
<1>5. Scanning'
  <2>1. \A j \in 1..Len(mk.gray) : mk.color[mk.gray[j]] \in {"gray", "black"}
    BY <1>a DEF Scanning
  <2>2. mk.color[Last(mk.gray)] \in {"gray", "black"}
    BY <2>1, <1>1
  <2>3. \A j \in 1..Len(mk'.gray) : mk'.color[mk'.gray[j]] \in {"gray", "black"}
    BY <2>1, <1>1, <1>2
  <2> QED BY <2>2, <2>3, <1>b, <1>1, <1>2, <1>3, <1>p, <1>t DEF Scanning
<1>6. GrayFound'
  <2>1. \A b \in ToSet(mk.gray) : b \in ToSet(Front(mk.gray)) \cup {Last(mk.gray)}
    BY <1>1, SMTT(30) DEF ToSet
  <2> QED BY <1>a, <1>b, <1>2, <1>p, <1>t, <2>1 DEF GrayFound
<1>7. Darkening /\ WhitesKept
  BY <1>2 DEF Darkening, WhitesKept
<1> QED BY <1>b, <1>2, <1>3, <1>4, <1>5, <1>6, <1>7, QuietStep

\* A block without fields is marked.
LEMMA MarkNoScanInv ==
    ASSUME IInv, MarkNoScan, prog' = prog
    PROVE  IInv'
<1>a. Types /\ Scanning /\ GrayFound
  BY DEF IInv
<1>b. /\ phase = "mark" /\ cv # 0 /\ Tag[cv] \in {"noscan", "ephe"} /\ cv' = 0
      /\ mk' = [mk EXCEPT !.color[cv] = "black"] /\ inSlice' \in BOOLEAN
      /\ UNCHANGED <<fld, root, phase, sub, hp, ci, ephes, checked, tocheck, sweep, first, last, todo, dead>>
  BY DEF MarkNoScan, InMark, WorkDone, lists, finals
<1>p. Block' = Block /\ Tag' = Tag /\ Size' = Size
  BY ProgSame
<1>t. 0 \notin Block /\ Value = Block \cup {0} /\ mk.color \in [Block -> Color] /\ cv \in Block
  BY <1>a, <1>b, TypeFacts DEF Types
<1>1. /\ mk' \in MarkState /\ mk'.color = [mk.color EXCEPT ![cv] = "black"] /\ mk'.gray = mk.gray
      /\ mk'.pure = mk.pure /\ mk'.epure = mk.epure
  <2>1. PICK c \in [Block -> Color] : c = [mk.color EXCEPT ![cv] = "black"]
    BY <1>t DEF Color
  <2>2. mk' = [mk EXCEPT !.color = c] /\ mk \in MarkState
    BY <2>1, <1>a, <1>b DEF Types
  <2> QED BY <2>1, <2>2 DEF MarkState
<1>2. ci = 0 /\ mk.color[cv] \in {"gray", "black"}
  BY <1>a, <1>b DEF Scanning, Scanned
<1>3. Types'
  <2>1. FieldTypes'
    BY <1>a, <1>b, FieldTypesSame DEF Types
  <2> QED BY <1>a, <1>b, <1>1, <1>t, <2>1, MarkTypes DEF Types
<1>4. Scanning'
  <2>1. \A j \in 1..Len(mk.gray) : mk.gray[j] \in Block
    BY <1>a DEF Types, MarkState
  <2> QED BY <2>1, <1>a, <1>b, <1>1, <1>2, <1>t DEF Scanning
<1>5. GrayFound'
  BY <1>a, <1>b, <1>1, <1>p, <1>t DEF GrayFound
<1>6. Darkening /\ WhitesKept
  BY <1>1, <1>2, <1>b, <1>t DEF Darkening, WhitesKept, Scanned
<1>7. \A b \in Block : mk'.color[b] = "blue" <=> mk.color[b] = "blue"
  BY <1>1, <1>2, <1>t
<1> QED BY <1>b, <1>1, <1>2, <1>3, <1>4, <1>5, <1>6, <1>7, QuietStep

\* The rescan of the heap goes on.
LEMMA ScanHeapInv ==
    ASSUME IInv, ScanHeap, prog' = prog
    PROVE  IInv'
<1>a. Types /\ Scanning /\ GrayFound
  BY DEF IInv
<1>b. /\ phase = "mark" /\ cv = 0 /\ mk.gray = << >> /\ hp # 0
      /\ cv' = IF hp <= N /\ mk.color[hp] = "gray" THEN hp ELSE 0
      /\ hp' = IF hp > N THEN 0 ELSE hp + 1
      /\ inSlice' = inSlice
      /\ UNCHANGED <<mk, fld, root, phase, sub, ci, ephes, checked, tocheck, sweep, first, last, todo, dead>>
  BY DEF ScanHeap, Idle, InMark, NoWorkDone, lists, finals
<1>p. Block' = Block /\ Tag' = Tag /\ Size' = Size /\ N' = N
  BY ProgSame
<1>t. /\ 0 \notin Block /\ Value = Block \cup {0} /\ N \in Nat /\ Block = 1..N
      /\ Size \in [Block -> Nat \ {0}] /\ hp \in 0..(N + 1) /\ inSlice \in BOOLEAN /\ mk \in MarkState
      /\ sub \in {"roots", "main", "final"} /\ ci \in Nat
      /\ checked \in Value /\ tocheck \in Value /\ first \subseteq Block /\ todo \subseteq Block
  BY <1>a, TypeFacts DEF Types
<1>1. ci = 0
  BY <1>a, <1>b DEF Scanning
<1>2. /\ cv' \in Value /\ hp' \in 0..(N + 1)
      /\ cv' # 0 => cv' \in Block /\ mk.color[cv'] = "gray"
  BY <1>b, <1>t
<1>3. Types'
  <2>1. FieldTypes'
    BY <1>a, <1>b, FieldTypesSame DEF Types
  <2> QED BY <1>a, <1>b, <1>t, <1>2, <2>1, MarkTypes
<1>4. Scanning'
  BY <1>a, <1>b, <1>p, <1>t, <1>1, <1>2 DEF Scanning
<1>5. GrayFound'
  <2>1. \A b \in Block : mk.color[b] = "gray" => ~mk.pure \/ b >= hp
    BY <1>a, <1>b, <1>t DEF GrayFound, ToSet
  <2>2. \A b \in Block : mk.color[b] = "gray" => b = cv' \/ ~mk.pure \/ (hp' # 0 /\ b >= hp')
    BY <2>1, <1>b, <1>t
  <2> QED BY <2>2, <1>b, <1>p DEF GrayFound
<1>6. Darkening /\ WhitesKept
  BY <1>b DEF Darkening, WhitesKept
<1> QED BY <1>b, <1>1, <1>3, <1>4, <1>5, <1>6, QuietStep

\* The rescan of the heap starts because heap_is_pure is not set.
LEMMA StartScanInv ==
    ASSUME IInv, StartScan, prog' = prog
    PROVE  IInv'
<1>a. Types /\ Scanning /\ GrayFound
  BY DEF IInv
<1>b. /\ phase = "mark" /\ cv = 0 /\ mk.gray = << >> /\ hp' = 1
      /\ mk' = [mk EXCEPT !.pure = TRUE] /\ inSlice' = inSlice
      /\ UNCHANGED <<fld, root, phase, sub, cv, ci, ephes, checked, tocheck, sweep, first, last, todo, dead>>
  BY DEF StartScan, Idle, InMark, NoWorkDone, lists, finals
<1>p. Block' = Block /\ Tag' = Tag /\ Size' = Size /\ N' = N
  BY ProgSame
<1>t. N \in Nat /\ Block = 1..N
  BY <1>a, TypeFacts DEF Types
<1>1. mk' \in MarkState /\ mk'.color = mk.color /\ mk'.gray = mk.gray /\ mk'.epure = mk.epure
  BY <1>a, <1>b DEF Types, MarkState
<1>2. Types'
  <2>1. FieldTypes'
    BY <1>a, <1>b, FieldTypesSame DEF Types
  <2>2. hp' \in 0..(N + 1)
    BY <1>b, <1>t
  <2> QED BY <1>a, <1>b, <1>1, <2>1, <2>2, MarkTypes DEF Types
<1>3. Scanning'
  BY <1>a, <1>b, <1>p, <1>1 DEF Scanning
<1>4. GrayFound'
  <2>1. \A b \in Block : hp' # 0 /\ b >= hp'
    BY <1>b, <1>t
  <2> QED BY <2>1, <1>b, <1>p DEF GrayFound
<1>5. Darkening /\ WhitesKept
  BY <1>1 DEF Darkening, WhitesKept
<1> QED BY <1>b, <1>1, <1>2, <1>3, <1>4, <1>5, QuietStep

\* The subphase of the roots ends.
LEMMA MarkRootsInv ==
    ASSUME IInv, MarkRoots, prog' = prog
    PROVE  IInv'
<1>a. Types /\ Scanning /\ GrayFound
  BY DEF IInv
<1>b. /\ phase = "mark" /\ sub' = "main" /\ inSlice' = inSlice
      /\ UNCHANGED <<mk, fld, root, phase, hp, cv, ci, ephes, checked, tocheck, sweep, first, last, todo, dead>>
  BY DEF MarkRoots, Marked, Idle, InMark, NoWorkDone, lists, finals, marking
<1>p. Block' = Block /\ Tag' = Tag /\ Size' = Size /\ N' = N
  BY ProgSame
<1>1. Types'
  <2>1. FieldTypes'
    BY <1>a, <1>b, FieldTypesSame DEF Types
  <2> QED BY <1>a, <1>b, <2>1, MarkTypes DEF Types
<1>2. Scanning' /\ GrayFound'
  BY <1>a, <1>b, <1>p DEF Scanning, GrayFound
<1>3. Darkening /\ WhitesKept
  BY <1>b DEF Darkening, WhitesKept
<1> QED BY <1>b, <1>1, <1>2, <1>3, QuietStep

\* The list of ephemerons is scanned again because ephe_list_pure is not set.
LEMMA EpheRescanInv ==
    ASSUME IInv, EpheRescan, prog' = prog
    PROVE  IInv'
<1>a. Types /\ Scanning /\ GrayFound
  BY DEF IInv
<1>b. /\ phase = "mark" /\ tocheck' = checked /\ mk' = [mk EXCEPT !.epure = TRUE] /\ inSlice' = inSlice
      /\ UNCHANGED <<fld, root, phase, sub, hp, cv, ci, ephes, checked, sweep, first, last, todo, dead>>
  BY DEF EpheRescan, EphesDone, Marked, Idle, InMark, NoWorkDone, finals, marking
<1>p. Block' = Block /\ Tag' = Tag /\ Size' = Size /\ N' = N
  BY ProgSame
<1>1. mk' \in MarkState /\ mk'.color = mk.color /\ mk'.gray = mk.gray /\ mk'.pure = mk.pure
  BY <1>a, <1>b DEF Types, MarkState
<1>2. Types'
  <2>1. FieldTypes'
    BY <1>a, <1>b, FieldTypesSame DEF Types
  <2> QED BY <1>a, <1>b, <1>1, <2>1, MarkTypes DEF Types
<1>3. Scanning' /\ GrayFound'
  BY <1>a, <1>b, <1>p, <1>1 DEF Scanning, GrayFound
<1>4. Darkening /\ WhitesKept
  BY <1>1 DEF Darkening, WhitesKept
<1> QED BY <1>b, <1>1, <1>2, <1>3, <1>4, QuietStep

\* A field is marked and bypassed; after the last one the block is black.
LEMMA MarkFieldInv ==
    ASSUME IInv, MarkField, prog' = prog
    PROVE  IInv'
<1>a. Types /\ Lists /\ Scanning /\ Colors /\ GrayFound /\ Safe /\ Snapshot /\ EpheSnapshot
  BY DEF IInv
<1>x. PICK x : x = fld[cv][ci + 1]
  OBVIOUS
<1>y. PICK y : y = ShortCircuit(x, FALSE)
  OBVIOUS
<1>b. /\ phase = "mark" /\ cv # 0 /\ Tag[cv] \in Scanned
      /\ \E ok \in BOOLEAN :
          mk' = IF ci + 1 < Size[cv] THEN mark_slice_darken(cv, ci + 1, ok)
                ELSE [mark_slice_darken(cv, ci + 1, ok) EXCEPT !.color[cv] = "black"]
      /\ fld' = [fld EXCEPT ![cv] = [@ EXCEPT ![ci + 1] = y]]
      /\ ci' = IF ci + 1 < Size[cv] THEN ci + 1 ELSE 0
      /\ cv' = IF ci + 1 < Size[cv] THEN cv ELSE 0
      /\ inSlice' \in BOOLEAN
      /\ UNCHANGED <<root, phase, sub, hp, ephes, checked, tocheck, sweep, first, last, todo, dead>>
  BY <1>x, <1>y DEF MarkField, InMark, WorkDone, lists, finals, Scanned
<1>p. Block' = Block /\ Tag' = Tag /\ Size' = Size /\ Slots' = Slots
  BY ProgSame
<1>t. /\ 0 \notin Block /\ Value = Block \cup {0} /\ cv \in Block /\ ci \in Nat
      /\ Size[cv] \in Nat \ {0} /\ mk.color \in [Block -> Color]
      /\ Tag[cv] = "fwd" => Size[cv] = 1
      /\ \A b \in Block : \A i \in 1..Size[b] : fld[b][i] \in Value
      /\ \A b \in Block : Tag[b] = "fwd" => Size[b] = 1
  BY <1>a, <1>b, TypeFacts DEF Types
<1>c. /\ ci < Size[cv] /\ mk.color[cv] \in {"gray", "black"} /\ ci + 1 \in 1..Size[cv] /\ x \in Value
  <2>1. ci < Size[cv] /\ mk.color[cv] \in {"gray", "black"}
    BY <1>a, <1>b DEF Scanning
  <2>2. ci + 1 \in 1..Size[cv]
    BY <2>1, <1>t
  <2> QED BY <2>1, <2>2, <1>t, <1>x
<1>d. PICK n : /\ Darkens(mk, n)
               /\ \A b \in Block : b # x => n.color[b] = mk.color[b]
               /\ x # 0 => /\ n.color[x] # "white"
                           /\ mk.color[x] # "white" => n.color[x] = mk.color[x]
                           /\ mk.color[x] = "white" => n.color[x] = "gray"
               /\ ~n.epure \/ n = mk
               /\ mk' = IF ci + 1 < Size[cv] THEN n ELSE [n EXCEPT !.color[cv] = "black"]
  <2>1. PICK ok \in BOOLEAN :
          mk' = IF ci + 1 < Size[cv] THEN mark_slice_darken(cv, ci + 1, ok)
                ELSE [mark_slice_darken(cv, ci + 1, ok) EXCEPT !.color[cv] = "black"]
    BY <1>b
  <2>2. PICK n : n = mark_slice_darken(cv, ci + 1, ok)
    OBVIOUS
  <2>3. /\ Darkens(mk, n)
        /\ \A b \in Block : b # x => n.color[b] = mk.color[b]
        /\ x # 0 => /\ n.color[x] # "white"
                    /\ mk.color[x] # "white" => n.color[x] = mk.color[x]
                    /\ mk.color[x] = "white" => n.color[x] = "gray"
        /\ ~n.epure \/ n = mk
    BY <2>2, <1>a, <1>c, <1>t, <1>x, SliceDarkenFacts
  <2>4. mk' = IF ci + 1 < Size[cv] THEN n ELSE [n EXCEPT !.color[cv] = "black"]
    BY <2>1, <2>2
  <2> QED BY <2>3, <2>4
<1>e. n \in MarkState /\ n.color \in [Block -> Color]
  BY <1>d DEF Darkens, MarkState
<1>1. /\ mk' \in MarkState /\ mk'.gray = n.gray /\ mk'.pure = n.pure /\ mk'.epure = n.epure
      /\ \A b \in Block : b # cv => mk'.color[b] = n.color[b]
      /\ mk'.color[cv] = IF ci + 1 < Size[cv] THEN n.color[cv] ELSE "black"
  <2>1. CASE ci + 1 < Size[cv]
    BY <2>1, <1>d, <1>e
  <2>2. CASE ~(ci + 1 < Size[cv])
    <3>1. PICK c \in [Block -> Color] : c = [n.color EXCEPT ![cv] = "black"]
      BY <1>e, <1>t DEF Color
    <3>2. mk' = [n EXCEPT !.color = c]
      BY <3>1, <2>2, <1>d
    <3>3. mk' \in MarkState /\ mk'.color = c /\ mk'.gray = n.gray /\ mk'.pure = n.pure /\ mk'.epure = n.epure
      BY <3>2, <1>e DEF MarkState
    <3> QED BY <3>1, <3>3, <2>2, <1>e, <1>t
  <2> QED BY <2>1, <2>2
<1>2. /\ y \in Value
      /\ y = x \/ (x \in Block /\ Tag[x] = "fwd" /\ Size[x] = 1 /\ y = fld[x][1])
      /\ x \in Block /\ Tag[x] = "fwd" /\ y # x => y = 0 \/ Tag[y] # "fwd"
  BY <1>a, <1>c, <1>y, ShortCircuitFacts
<1>3. /\ FieldTypes' /\ fld'[cv][ci + 1] = y
      /\ \A b \in Block : \A i \in 1..Size[b] : b # cv \/ i # ci + 1 => fld'[b][i] = fld[b][i]
  <2>1. PICK k : k = ci + 1
    OBVIOUS
  <2>2. k \in 1..Size[cv] /\ fld[cv] \in [1..Size[cv] -> Value]
    BY <2>1, <1>a, <1>c, <1>t DEF Types, FieldTypes, Index
  <2>3. PICK g : g = [fld[cv] EXCEPT ![k] = y]
    OBVIOUS
  <2>4. g \in [1..Size[cv] -> Value] /\ g[k] = y /\ \A i \in 1..Size[cv] : i # k => g[i] = fld[cv][i]
    BY <2>2, <2>3, <1>2
  <2>5. fld' = [fld EXCEPT ![cv] = g]
    BY <2>1, <2>3, <1>b
  <2>6. FieldTypes' /\ fld'[cv] = g /\ \A b \in Block : b # cv => fld'[b] = fld[b]
    BY <2>4, <2>5, <1>a, <1>t, BlockUpdate
  <2> QED BY <2>1, <2>4, <2>6
<1>4. Types'
  <2>1. ci' \in Nat /\ cv' \in Value
    BY <1>b, <1>t
  <2> QED BY <1>a, <1>b, <1>1, <1>3, <2>1, MarkTypes DEF Types
<1>5. Lists'
  BY <1>a, <1>b, ListsSame
<1>f. /\ \A j \in 1..Len(n.gray) : n.color[n.gray[j]] \in {"gray", "black"}
      /\ n.color[cv] \in {"gray", "black"}
      /\ \A b \in Block : n.color[b] = "gray" =>
                 b \in ToSet(n.gray) \cup {cv} \/ ~n.pure \/ (hp # 0 /\ b >= hp)
      /\ \A j \in 1..Len(n.gray) : n.gray[j] \in Block
  <2>1. \A j \in 1..Len(n.gray) : n.gray[j] \in Block
    BY <1>e DEF MarkState
  <2> QED BY <1>a, <1>b, <1>d, <2>1, DarkensScan
<1>6. Scanning'
  <2>1. \A j \in 1..Len(mk'.gray) : mk'.color[mk'.gray[j]] \in {"gray", "black"}
    BY <1>1, <1>f
  <2>2. cv' # 0 => ci' < Size[cv'] /\ mk'.color[cv'] \in {"gray", "black"} /\ Tag[cv'] \in Scanned
    BY <1>1, <1>b, <1>f, <1>t
  <2>3. cv' = 0 => ci' = 0
    BY <1>b
  <2> QED BY <2>1, <2>2, <2>3, <1>b, <1>p DEF Scanning
<1>7. GrayFound'
  <2>1. \A b \in Block : mk'.color[b] = "gray" => n.color[b] = "gray" /\ (b # cv \/ cv' = cv)
    BY <1>1, <1>b
  <2>2. \A b \in Block : mk'.color[b] = "gray" =>
                 b \in ToSet(mk'.gray) \cup {cv'} \/ ~mk'.pure \/ (hp' # 0 /\ b >= hp')
    BY <2>1, <1>1, <1>b, <1>f
  <2> QED BY <2>2, <1>b, <1>p DEF GrayFound
<1>8. \A b \in Block : /\ mk'.color[b] = "blue" <=> mk.color[b] = "blue"
                       /\ mk'.color[b] = "white" => mk.color[b] = "white"
  <2>1. mk'.color[cv] \in {"gray", "black"}
    BY <1>1, <1>f
  <2>2. \A b \in Block : b # cv /\ b # x => mk'.color[b] = mk.color[b]
    BY <1>1, <1>d
  <2>3. ASSUME x \in Block, x # cv
        PROVE  /\ mk'.color[x] = "blue" <=> mk.color[x] = "blue"
               /\ mk'.color[x] = "white" => mk.color[x] = "white"
    BY <2>3, <1>1, <1>d, <1>t
  <2> SUFFICES ASSUME NEW b \in Block
               PROVE  /\ mk'.color[b] = "blue" <=> mk.color[b] = "blue"
                      /\ mk'.color[b] = "white" => mk.color[b] = "white"
    OBVIOUS
  <2>4. CASE b = cv
    BY <2>1, <2>4, <1>c
  <2>5. CASE b = x /\ b # cv
    BY <2>3, <2>5, Zenon
  <2>6. CASE b # x /\ b # cv
    BY <2>2, <2>6
  <2> QED BY <2>4, <2>5, <2>6
<1>n. /\ \A b \in Block : mk.color[b] # "blue" /\ Tag[b] # "noscan" =>
              \A i \in 1..Size[b] : fld[b][i] # 0 => mk.color[fld[b][i]] # "blue"
      /\ x # 0 => mk.color[x] # "blue"
      /\ y # 0 => mk.color[y] # "blue"
  <2>1. \A b \in Block : mk.color[b] # "blue" /\ Tag[b] # "noscan" =>
              \A i \in 1..Size[b] : fld[b][i] # 0 => mk.color[fld[b][i]] # "blue"
    BY <1>a, <1>b DEF Safe, Index
  <2>2. x # 0 => mk.color[x] # "blue"
    BY <2>1, <1>b, <1>c, <1>t, <1>x DEF Scanned
  <2> QED BY <2>1, <2>2, <1>2, <1>t
<1>9. Safe'
  <2>1. \A b \in Block : mk.color[b] # "blue" /\ Tag[b] # "noscan" =>
              \A i \in 1..Size[b] : fld'[b][i] # 0 => mk.color[fld'[b][i]] # "blue"
    BY <1>n, <1>3
  <2>2. Held' = Held
    BY <1>b, <1>p DEF Held
  <2> QED BY <1>a, <1>b, <1>4, <1>5, <1>8, <2>1, <2>2, SafeMark
<1>s. ASSUME NEW U \in SUBSET Block,
             \A b \in U : mk'.color[b] = "white",
             \A b \in Block : b \notin U /\ mk'.color[b] \in {"white", "gray"} /\ Tag[b] \in Scanned =>
                \A i \in 1..Size[b] : fld'[b][i] \notin U \/ (b = cv' /\ i <= ci')
      PROVE  /\ Sealed(U)
             /\ \A b \in Block : mk'.color[b] \in {"gray", "black"} /\ Tag[b] \in Scanned =>
                   \A i \in 1..Size[b] : fld'[b][i] \notin U
  <2>0. x \notin U /\ cv \notin U /\ 0 \notin U
    <3>1. x # 0 => mk'.color[x] # "white"
      BY <1>1, <1>d, <1>t, <1>c, <1>f
    <3> QED BY <3>1, <1>s, <1>1, <1>f, <1>t
  <2>1. \A b \in U : mk.color[b] = "white"
    BY <1>s, <1>8
  <2>2. ASSUME NEW b \in Block, b \notin U, mk.color[b] \in {"white", "gray"}, Tag[b] \in Scanned,
               NEW i \in 1..Size[b], fld[b][i] \in U
        PROVE  b = cv /\ i <= ci
    <3>1. CASE b # cv
      <4>1. mk'.color[b] \in {"white", "gray"} /\ fld'[b][i] = fld[b][i] /\ b # cv'
        BY <3>1, <2>2, <1>1, <1>3, <1>b, <1>d, <1>t
      <4> QED BY <4>1, <2>2, <1>s
    <3>2. CASE b = cv
      <4>1. i # ci + 1
        BY <3>2, <2>0, <2>2, <1>x
      <4>2. CASE ci + 1 < Size[cv]
        <5>1. mk'.color[cv] \in {"white", "gray"}
          BY <4>2, <3>2, <2>2, <1>1, <1>d, <1>t
        <5>2. i <= ci'
          BY <5>1, <4>1, <3>2, <2>2, <1>3, <1>s
        <5> QED BY <5>2, <4>1, <4>2, <3>2, <1>b, <1>t
      <4>3. CASE ~(ci + 1 < Size[cv])
        BY <4>1, <4>3, <3>2, <1>c, <1>t
      <4> QED BY <4>2, <4>3
    <3> QED BY <3>1, <3>2
  <2>3. Sealed(U)
    BY <2>1, <2>2 DEF Sealed, Index
  <2>4. \A b \in Block : mk.color[b] \in {"gray", "black"} /\ Tag[b] \in Scanned =>
            \A i \in 1..Size[b] : fld[b][i] \notin U
    BY <2>3, <1>a, <1>b DEF Snapshot, Index
  <2>5. ASSUME NEW b \in Block, mk'.color[b] \in {"gray", "black"}, Tag[b] \in Scanned,
               mk.color[b] \notin {"gray", "black"}, NEW i \in 1..Size[b]
        PROVE  fld[b][i] \notin U /\ fld'[b][i] \notin U
    <3>1. b # cv /\ b = x /\ mk'.color[b] = "gray"
      BY <2>5, <1>c, <1>1, <1>d, <1>t
    <3>2. fld'[b][i] = fld[b][i] /\ b # cv' /\ b \notin U
      BY <3>1, <2>0, <2>5, <1>3, <1>b, <1>t
    <3> QED BY <3>1, <3>2, <2>5, <1>s
  <2>6. y \notin U
    <3> SUFFICES ASSUME x \in Block, Tag[x] = "fwd", Size[x] = 1, y = fld[x][1] PROVE y \notin U
      BY <2>0, <1>2
    <3>1. mk'.color[x] \in {"gray", "black"}
      <4>1. mk'.color[x] # "white" /\ mk'.color[x] # "blue"
        BY <1>1, <1>8, <1>d, <1>f, <1>n, <1>t
      <4> QED BY <4>1, <1>1 DEF MarkState, Color
    <3> QED BY <3>1, <2>4, <2>5 DEF Scanned
  <2> QED BY <2>3, <2>4, <2>5, <2>6, <1>3
<1>10. Snapshot' /\ SealedBack
  <2>1. SUFFICES ASSUME NEW U \in SUBSET Block, Sealed(U)'
                 PROVE  /\ Sealed(U)
                        /\ \A r \in Slots : root'[r] \notin U
                        /\ todo' \cap U = {}
                        /\ sub' = "final" => first' \cap U = {}
                        /\ \A b \in Block : mk'.color[b] \in {"gray", "black"} /\ Tag[b] \in Scanned =>
                              \A i \in 1..Size[b] : fld'[b][i] \notin U
    BY <1>p DEF Snapshot, Index, SealedBack
  <2>2. /\ \A b \in U : mk'.color[b] = "white"
        /\ \A b \in Block : b \notin U /\ mk'.color[b] \in {"white", "gray"} /\ Tag[b] \in Scanned =>
                \A i \in 1..Size[b] : fld'[b][i] \notin U \/ (b = cv' /\ i <= ci')
    BY <2>1, <1>p DEF Sealed, Index
  <2>3. Sealed(U) /\ \A b \in Block : mk'.color[b] \in {"gray", "black"} /\ Tag[b] \in Scanned =>
                              \A i \in 1..Size[b] : fld'[b][i] \notin U
    BY <2>2, <1>s
  <2> QED BY <2>3, <1>a, <1>b DEF Snapshot
<1>11. EpheSnapshot'
  <2>0. \A j \in 1..Len(ephes) : ephes[j] \in Block /\ Tag[ephes[j]] = "ephe"
    BY <1>a, ListsFacts
  <2>1. \A j \in 1..Len(ephes) : \A k \in 1..Size[ephes[j]] : fld'[ephes[j]][k] = fld[ephes[j]][k]
    BY <2>0, <1>3, <1>b DEF Scanned
  <2>2. DataKept
    BY <2>0, <2>1, <1>a, TypeFacts DEF DataKept
  <2>3. ASSUME mk'.epure PROVE mk.epure /\ WhitesKept /\ ForwardsKept
    <3>1. n = mk
      BY <2>3, <1>1, <1>d
    <3>2. WhitesKept
      BY <3>1, <1>1, <1>c DEF WhitesKept
    <3>3. ForwardsKept
      <4> SUFFICES ASSUME Tag[cv] = "fwd", fld'[cv][1] # fld[cv][1]
                   PROVE  fld[cv][1] = 0 \/ Tag[fld[cv][1]] = "fwd"
        BY <1>3, <1>c, <1>t DEF ForwardsKept
      <4>1. ci + 1 = 1 /\ x = fld[cv][1] /\ y = fld'[cv][1]
        BY <1>c, <1>t, <1>x, <1>3
      <4> QED BY <4>1, <1>2
    <3> QED BY <3>1, <3>2, <3>3, <2>3, <1>1
  <2>4. \A j \in 1..Len(ephes) : \A k \in 2..Size[ephes[j]] : fld'[ephes[j]][k] = fld[ephes[j]][k]
    BY <2>0, <2>1, <1>a, TypeFacts
  <2> QED BY <1>a, <1>b, <1>10, <2>2, <2>3, <2>4, EpheStep
<1>12. Colors' /\ Cleaned'
  BY <1>b DEF Colors, Cleaned
<1> QED BY <1>4, <1>5, <1>6, <1>7, <1>9, <1>10, <1>11, <1>12 DEF IInv

(***************************************************************************)
(* Scanning the ephemerons                                                 *)
(***************************************************************************)
\* The list m is l with its element t + 1 moved to the place d + 1.
Moved(l, m, d, t) ==
    /\ m[d + 1] = l[t + 1]
    /\ \A j \in 1..d : m[j] = l[j]
    /\ \A j \in d + 2 .. t + 1 : m[j] = l[j - 1]
    /\ \A j \in t + 2 .. Len(l) : m[j] = l[j]

\* Such a list has the same ephemerons, each once.
LEMMA MoveFacts ==
    ASSUME NEW S, NEW l \in Seq(S), NoDup(l), NEW d \in Nat, NEW t \in Nat, d <= t, t < Len(l),
           NEW m \in [1..Len(l) -> S], Moved(l, m, d, t)
    PROVE  m \in Seq(S) /\ Len(m) = Len(l) /\ NoDup(m) /\ \A p : Listed(l, p) <=> Listed(m, p)
<1>1. m \in Seq(S) /\ Len(m) = Len(l) /\ Len(l) \in Nat
  OBVIOUS
<1>2. \A j \in 1..Len(l) : j \in 1..d \/ j = d + 1 \/ j \in d + 2 .. t + 1 \/ j \in t + 2 .. Len(l)
  BY <1>1
<1>3. ASSUME NEW j \in 1..Len(l)
      PROVE  \E k \in 1..Len(l) : m[j] = l[k] /\ k = IF j = d + 1 THEN t + 1
                                                     ELSE IF j \in d + 2 .. t + 1 THEN j - 1 ELSE j
  <2>1. CASE j = d + 1
    <3>1. t + 1 \in 1..Len(l)
      BY <1>1
    <3> QED BY <2>1, <3>1 DEF Moved
  <2>2. CASE j \in d + 2 .. t + 1
    <3>1. j - 1 \in 1..Len(l) /\ j # d + 1
      BY <1>1, <2>2
    <3> QED BY <2>2, <3>1 DEF Moved
  <2>3. CASE j \in 1..d \/ j \in t + 2 .. Len(l)
    <3>1. j # d + 1 /\ j \notin d + 2 .. t + 1
      BY <1>1, <2>3
    <3> QED BY <2>3, <3>1 DEF Moved
  <2> QED BY <1>2, <2>1, <2>2, <2>3
<1>4. NoDup(m)
  <2> SUFFICES ASSUME NEW j \in 1..Len(l), NEW k \in 1..Len(l), m[j] = m[k] PROVE j = k
    BY <1>1 DEF NoDup
  <2>1. PICK a \in 1..Len(l) : m[j] = l[a] /\ a = IF j = d + 1 THEN t + 1
                                                 ELSE IF j \in d + 2 .. t + 1 THEN j - 1 ELSE j
    BY <1>3
  <2>2. PICK b \in 1..Len(l) : m[k] = l[b] /\ b = IF k = d + 1 THEN t + 1
                                                 ELSE IF k \in d + 2 .. t + 1 THEN k - 1 ELSE k
    BY <1>3
  <2>3. a = b
    BY <2>1, <2>2 DEF NoDup
  <2> QED BY <2>1, <2>2, <2>3, <1>1
<1>5. \A p : Listed(m, p) => Listed(l, p)
  BY <1>1, <1>3 DEF Listed
<1>6. ASSUME NEW j \in 1..Len(l) PROVE \E k \in 1..Len(l) : l[j] = m[k]
  <2>1. CASE j = t + 1
    <3>1. d + 1 \in 1..Len(l)
      BY <1>1
    <3> QED BY <2>1, <3>1 DEF Moved
  <2>2. CASE j \in d + 1 .. t
    <3>1. j + 1 \in 1..Len(l) /\ j + 1 \in d + 2 .. t + 1 /\ (j + 1) - 1 = j
      BY <2>2, <1>1
    <3>2. m[j + 1] = l[(j + 1) - 1]
      BY <3>1 DEF Moved
    <3> QED BY <3>1, <3>2
  <2>3. CASE j \in 1..d \/ j \in t + 2 .. Len(l)
    BY <2>3 DEF Moved
  <2>4. j = t + 1 \/ j \in d + 1 .. t \/ j \in 1..d \/ j \in t + 2 .. Len(l)
    BY <1>1
  <2> QED BY <2>1, <2>2, <2>3, <2>4
<1>7. \A p : Listed(l, p) => Listed(m, p)
  BY <1>1, <1>6 DEF Listed
<1> QED BY <1>1, <1>4, <1>5, <1>7

\* Moving an ephemeron to the checked ones: the pointers advance by one.
LEMMA MoveLists ==
    ASSUME Types, Lists, prog' = prog, phase = "mark", phase' = "mark",
           NEW v, Seen < Len(ephes), v = ephes[Seen + 1], MoveToChecked(v)
    PROVE  /\ Lists' /\ Done' = Done + 1 /\ Seen' = Seen + 1
           /\ \A p \in Block : Listed(ephes, p) <=> Listed(ephes', p)
           /\ \A j \in 1..Done' : ephes'[j] = v \/ (j \in 1..Done /\ ephes'[j] = ephes[j])
           /\ \A j \in 1..Seen' : ephes'[j] = v \/ \E k \in 1..Seen : ephes'[j] = ephes[k]
<1>1. /\ ephes \in Seq(Block) /\ NoDup(ephes)
      /\ Done \in 0..Len(ephes) /\ Seen \in 0..Len(ephes) /\ Done <= Seen /\ Len(ephes) \in Nat
      /\ checked # 0 => Listed(ephes, checked)
      /\ tocheck # 0 => Listed(ephes, tocheck)
      /\ \A j \in 1..Len(ephes) : Tag[ephes[j]] = "ephe" /\ ephes[j] \in Block
  BY ListsFacts DEF Lists
<1>p. Block' = Block /\ Tag' = Tag
  BY ProgSame
<1>2. /\ checked' = v /\ tocheck' = (IF checked = tocheck THEN v ELSE tocheck)
      /\ ephes' = [j \in 1..Len(ephes) |-> IF j = Done + 1 THEN v
                                    ELSE IF j \in Done + 2 .. Seen + 1 THEN ephes[j - 1] ELSE ephes[j]]
  BY DEF MoveToChecked, Done, Seen
<1>d. PICK d \in Nat : d = Done
  BY <1>1
<1>e. PICK t \in Nat : t = Seen
  BY <1>1
<1>l. PICK l : l = ephes
  OBVIOUS
<1>m. PICK m : m = ephes'
  OBVIOUS
<1>5. /\ d + 1 \in 1..Len(l) /\ t + 1 \in 1..Len(l) /\ d <= t /\ v \in Block /\ v # 0 /\ v = l[t + 1]
      /\ l \in Seq(Block) /\ NoDup(l) /\ t < Len(l) /\ Len(l) \in Nat
  BY <1>1, <1>d, <1>e, <1>l, TypeFacts
<1>f. m = [j \in 1..Len(l) |-> IF j = d + 1 THEN v
                               ELSE IF j \in d + 2 .. t + 1 THEN l[j - 1] ELSE l[j]]
  BY <1>2, <1>d, <1>e, <1>l, <1>m
<1>g. m \in [1..Len(l) -> Block] /\ Moved(l, m, d, t)
  <2>1. \A j \in 1..Len(l) : l[j] \in Block
    BY <1>5
  <2>2. m \in [1..Len(l) -> Block]
    BY <2>1, <1>5, <1>f
  <2>3. \A j \in 1..Len(l) : m[j] = IF j = d + 1 THEN v
                               ELSE IF j \in d + 2 .. t + 1 THEN l[j - 1] ELSE l[j]
    BY <1>f
  <2>4. m[d + 1] = l[t + 1]
    BY <2>3, <1>5
  <2>5. \A j \in 1..d : m[j] = l[j]
    BY <2>3, <1>5
  <2>6. \A j \in d + 2 .. t + 1 : m[j] = l[j - 1]
    BY <2>3, <1>5
  <2>7. \A j \in t + 2 .. Len(l) : m[j] = l[j]
    BY <2>3, <1>5
  <2> QED BY <2>2, <2>4, <2>5, <2>6, <2>7 DEF Moved
<1>3. m \in Seq(Block) /\ Len(m) = Len(l) /\ NoDup(m) /\ \A p : Listed(l, p) <=> Listed(m, p)
  BY <1>5, <1>g, MoveFacts
<1>h. m[d + 1] = v /\ (\A j \in 1..d : m[j] = l[j]) /\ \A j \in d + 2 .. t + 1 : m[j] = l[j - 1]
  BY <1>5, <1>g DEF Moved
<1>6. Listed(m, v) /\ Pos(m, v) = d + 1
  <2>1. d + 1 \in 1..Len(m)
    BY <1>3, <1>5
  <2> QED BY <2>1, <1>3, <1>5, <1>h, PosUnique
<1>7. Done' = Done + 1
  BY <1>2, <1>6, <1>d, <1>m DEF Done
<1>8. (tocheck' # 0 => Listed(m, tocheck')) /\ Seen' = Seen + 1
  <2>1. CASE checked = tocheck
    <3>1. d = t
      BY <2>1, <1>d, <1>e DEF Done, Seen
    <3> QED BY <2>1, <3>1, <1>2, <1>6, <1>e, <1>m DEF Seen
  <2>2. CASE checked # tocheck
    <3>1. /\ checked = 0 <=> Done = 0
          /\ checked # 0 => ephes[Done] = checked
      BY <1>1, PosFacts DEF Done
    <3>2. /\ tocheck = 0 <=> Seen = 0
          /\ tocheck # 0 => ephes[Seen] = tocheck
      BY <1>1, PosFacts DEF Seen
    <3>3. Done # Seen
      BY <2>2, <3>1, <3>2
    <3>4. t # 0 /\ tocheck # 0 /\ t + 1 \in d + 2 .. t + 1 /\ (t + 1) - 1 = t /\ l[t] = tocheck
      BY <3>2, <3>3, <1>5, <1>d, <1>e, <1>l
    <3>5. m[t + 1] = tocheck
      BY <3>4, <1>h
    <3>6. t + 1 \in 1..Len(m)
      BY <1>3, <1>5
    <3>7. Listed(m, tocheck) /\ Pos(m, tocheck) = t + 1
      BY <3>4, <3>5, <3>6, <1>3, PosUnique
    <3> QED BY <3>7, <2>2, <1>2, <1>e, <1>m DEF Seen
  <2> QED BY <2>1, <2>2
<1>9. Lists'
  <2>1. \A j \in 1..Len(m) : Tag[m[j]] = "ephe"
    <3> SUFFICES ASSUME NEW j \in 1..Len(m) PROVE Tag[m[j]] = "ephe"
      OBVIOUS
    <3>1. Listed(m, m[j])
      BY DEF Listed
    <3>2. Listed(l, m[j])
      BY <3>1, <1>3
    <3> QED BY <3>2, <1>1, <1>l DEF Listed
  <2>2. Done' <= Seen'
    BY <1>1, <1>7, <1>8
  <2> QED BY <2>1, <2>2, <1>2, <1>3, <1>6, <1>8, <1>m, <1>p DEF Lists
<1>10. \A j \in 1..Done' : ephes'[j] = v \/ (j \in 1..Done /\ ephes'[j] = ephes[j])
  <2>1. \A j \in 1..(d + 1) : j = d + 1 \/ j \in 1..d
    OBVIOUS
  <2> QED BY <2>1, <1>h, <1>7, <1>d, <1>l, <1>m
<1>11. ASSUME NEW j \in 1..Seen' PROVE ephes'[j] = v \/ \E k \in 1..Seen : ephes'[j] = ephes[k]
  <2>1. j \in 1..(t + 1)
    BY <1>8, <1>e
  <2>2. CASE j = d + 1
    BY <2>2, <1>h, <1>m
  <2>3. CASE j \in 1..d
    <3>1. j \in 1..Seen
      BY <2>3, <1>5, <1>e
    <3> QED BY <3>1, <2>3, <1>h, <1>l, <1>m
  <2>4. CASE j \in d + 2 .. t + 1
    <3>1. j - 1 \in 1..Seen
      BY <2>4, <1>e
    <3> QED BY <3>1, <2>4, <1>h, <1>l, <1>m
  <2> QED BY <2>1, <2>2, <2>3, <2>4
<1> QED BY <1>3, <1>7, <1>8, <1>9, <1>10, <1>11, <1>l, <1>m

\* Bypassing a key once or twice is the same.
LEMMA ShortCircuitTwice ==
    ASSUME Types, prog' = prog, NEW c \in Value, NEW e, e = c \/ e = ShortCircuit(c, TRUE),
           \A b \in Block : Tag[b] = "fwd" => fld'[b][1] = fld[b][1]
    PROVE  ShortCircuit(e, TRUE)' = ShortCircuit(c, TRUE)
<1>1. /\ 0 \notin Block /\ Value = Block \cup {0} /\ Tag' = Tag
      /\ \A b \in Block : Tag[b] = "fwd" => fld[b][1] \in Value
  BY TypeFacts, ProgSame
<1>2. CASE c # 0 /\ Tag[c] = "fwd"
  BY <1>1, <1>2 DEF ShortCircuit
<1>3. CASE ~(c # 0 /\ Tag[c] = "fwd")
  BY <1>1, <1>3 DEF ShortCircuit
<1> QED BY <1>2, <1>3

\* What mark_ephe_aux does, whatever it finds: h is what it leaves in the ephemeron v.
EpheAux(v, h) ==
    /\ fld' = [fld EXCEPT ![v] = h]
    /\ \A k \in 2..Size[v] : h[k] = fld[v][k] \/ h[k] = ShortCircuit(fld[v][k], TRUE)
    /\ Darkens(mk, mk')
    /\ ~mk'.epure \/ mk' = mk
    /\ \/ /\ MoveToChecked(v)
          /\ fld[v][1] = 0 \/ mk'.color[fld[v][1]] # "white"
          /\ h[1] = fld[v][1] \/ h[1] = ShortCircuit(fld[v][1], TRUE)
       \/ /\ tocheck' = v /\ ephes' = ephes /\ checked' = checked /\ mk' = mk
          /\ h[1] = fld[v][1]
          /\ White(v) \/ KeyDead(v)

\* What one iteration of mark_ephe_aux does.
LEMMA EpheAuxFacts ==
    ASSUME Types, Lists, Safe, phase = "mark", mark_ephe_aux, NEW v, v = At(tocheck)
    PROVE  /\ v \in Block /\ Tag[v] = "ephe" /\ mk.color[v] # "blue"
           /\ Seen < Len(ephes) /\ v = ephes[Seen + 1]
           /\ \E h \in [1..Size[v] -> Value] : EpheAux(v, h)
<1>1. /\ Seen \in 0..Len(ephes) /\ Len(ephes) \in Nat
      /\ \A j \in 1..Len(ephes) : ephes[j] \in Block /\ Tag[ephes[j]] = "ephe"
  BY ListsFacts
<1>2. v # 0 /\ Seen < Len(ephes) /\ v = ephes[Seen + 1]
  BY DEF mark_ephe_aux, At, Seen
<1>3. v \in Block /\ Tag[v] = "ephe" /\ mk.color[v] # "blue"
  <2>1. Seen + 1 \in 1..Len(ephes)
    BY <1>1, <1>2
  <2>2. v \notin Doomed
    BY <2>1, <1>2 DEF Safe
  <2> QED BY <2>1, <2>2, <1>1, <1>2 DEF Doomed
<1>t. /\ 0 \notin Block /\ Value = Block \cup {0} /\ Size[v] \in Nat \ {0} /\ mk \in MarkState
      /\ \A i \in 1..Size[v] : fld[v][i] \in Value
      /\ fld[v] \in [1..Size[v] -> Value]
      /\ FieldTypes
  <2>1. fld[v] \in [1..Size[v] -> Value] /\ FieldTypes
    BY <1>3 DEF Types, FieldTypes, Index
  <2> QED BY <2>1, <1>3, TypeFacts DEF Types
<1>g. PICK g : g = [i \in 1..Size[v] |->
                     IF i \in 2..Size[v] /\ ~White(v) /\ \A k \in 2..(i - 1) : ~White(ShortCircuit(fld[v][k], TRUE))
                     THEN ShortCircuit(fld[v][i], TRUE) ELSE fld[v][i]]
  OBVIOUS
<1>4. /\ g \in [1..Size[v] -> Value] /\ g[1] = fld[v][1]
      /\ \A k \in 2..Size[v] : g[k] = fld[v][k] \/ g[k] = ShortCircuit(fld[v][k], TRUE)
  <2>1. \A i \in 1..Size[v] : ShortCircuit(fld[v][i], TRUE) \in Value
    BY <1>t, ShortCircuitFacts
  <2>2. 1 \in 1..Size[v] /\ 1 \notin 2..Size[v] /\ \A k \in 2..Size[v] : k \in 1..Size[v]
    BY <1>t
  <2>3. g \in [1..Size[v] -> Value]
    <3>1. \A i \in 1..Size[v] : g[i] = ShortCircuit(fld[v][i], TRUE) \/ g[i] = fld[v][i]
      BY <1>g
    <3>2. \A i \in 1..Size[v] : g[i] \in Value
      BY <3>1, <2>1, <1>t
    <3>3. g = [i \in 1..Size[v] |-> g[i]]
      BY <1>g
    <3> QED BY <3>2, <3>3
  <2>4. g[1] = fld[v][1]
    BY <2>2, <1>g
  <2>5. \A i \in 1..Size[v] : g[i] = fld[v][i] \/ g[i] = ShortCircuit(fld[v][i], TRUE)
    BY <1>g
  <2>6. ASSUME NEW k \in 2..Size[v] PROVE g[k] = fld[v][k] \/ g[k] = ShortCircuit(fld[v][k], TRUE)
    BY <2>2, <2>5
  <2> QED BY <2>3, <2>4, <2>6, Zenon
<1>5. \/ ~White(fld[v][1]) /\ MoveToChecked(v) /\ fld' = fld /\ mk' = mk
      \/ /\ \E ok \in BOOLEAN : mk' = mark_slice_darken(v, 1, ok)
         /\ fld' = [fld EXCEPT ![v] = [g EXCEPT ![1] = ShortCircuit(fld[v][1], TRUE)]]
         /\ MoveToChecked(v)
      \/ /\ ~EpheAlive(v) /\ tocheck' = v /\ fld' = [fld EXCEPT ![v] = g]
         /\ UNCHANGED <<mk, ephes, checked>>
  BY <1>g DEF mark_ephe_aux, Index, Keys
<1>6. CASE ~White(fld[v][1]) /\ MoveToChecked(v) /\ fld' = fld /\ mk' = mk
  <2>1. fld' = [fld EXCEPT ![v] = fld[v]]
    BY <1>6, <1>3, <1>t DEF FieldTypes
  <2>2. fld[v][1] = 0 \/ mk'.color[fld[v][1]] # "white"
    BY <1>6 DEF White
  <2>3. Darkens(mk, mk')
    BY <1>6, <1>t, DarkensRefl
  <2> QED BY <2>1, <2>2, <2>3, <1>2, <1>3, <1>t, <1>6 DEF EpheAux
<1>7. CASE /\ \E ok \in BOOLEAN : mk' = mark_slice_darken(v, 1, ok)
           /\ fld' = [fld EXCEPT ![v] = [g EXCEPT ![1] = ShortCircuit(fld[v][1], TRUE)]]
           /\ MoveToChecked(v)
  <2>1. PICK ok \in BOOLEAN : mk' = mark_slice_darken(v, 1, ok)
    BY <1>7
  <2>2. 1 \in 1..Size[v]
    BY <1>t
  <2>3. Darkens(mk, mk') /\ (fld[v][1] = 0 \/ mk'.color[fld[v][1]] # "white") /\ (~mk'.epure \/ mk' = mk)
    BY <2>1, <2>2, <1>3, SliceDarkenFacts
  <2>4. PICK y \in Value : y = ShortCircuit(fld[v][1], TRUE)
    BY <2>2, <1>t, ShortCircuitFacts
  <2>5. PICK h : h = [g EXCEPT ![1] = y]
    OBVIOUS
  <2>6. h \in [1..Size[v] -> Value] /\ h[1] = y /\ \A k \in 2..Size[v] : h[k] = g[k]
    <3>1. g \in [1..Size[v] -> Value] /\ Size[v] \in Nat
      BY <1>4, <1>t
    <3>2. h \in [1..Size[v] -> Value] /\ \A k \in 1..Size[v] : h[k] = IF k = 1 THEN y ELSE g[k]
      BY <3>1, <2>5
    <3> QED BY <3>1, <3>2, <2>2
  <2>7. fld' = [fld EXCEPT ![v] = h]
    BY <2>4, <2>5, <1>7
  <2>8. \A k \in 2..Size[v] : h[k] = fld[v][k] \/ h[k] = ShortCircuit(fld[v][k], TRUE)
    BY <2>6, <1>4
  <2> QED BY <2>3, <2>4, <2>6, <2>7, <2>8, <1>2, <1>3, <1>7 DEF EpheAux
<1>8. CASE /\ ~EpheAlive(v) /\ tocheck' = v /\ fld' = [fld EXCEPT ![v] = g]
           /\ UNCHANGED <<mk, ephes, checked>>
  <2>1. White(v) \/ KeyDead(v)
    BY <1>8 DEF EpheAlive, KeyDead
  <2>2. Darkens(mk, mk')
    BY <1>8, <1>t, DarkensRefl
  <2> QED BY <2>1, <2>2, <1>2, <1>3, <1>4, <1>8 DEF EpheAux
<1> QED BY <1>5, <1>6, <1>7, <1>8

\* mark_ephe_aux.
LEMMA EpheAuxInv ==
    ASSUME IInv, mark_ephe_aux, prog' = prog
    PROVE  IInv'
<1>a. Types /\ Lists /\ Scanning /\ Colors /\ GrayFound /\ Safe /\ Snapshot /\ EpheSnapshot
  BY DEF IInv
<1>b. /\ phase = "mark" /\ cv = 0 /\ inSlice' \in BOOLEAN
      /\ UNCHANGED <<root, phase, sub, hp, cv, ci, sweep, first, last, todo, dead>>
  BY DEF mark_ephe_aux, Marked, Idle, InMark, WorkDone, finals, marking
<1>p. Block' = Block /\ Tag' = Tag /\ Size' = Size /\ Slots' = Slots
  BY ProgSame
<1>v. PICK v : v = At(tocheck)
  OBVIOUS
<1>1. /\ v \in Block /\ Tag[v] = "ephe" /\ mk.color[v] # "blue"
      /\ Seen < Len(ephes) /\ v = ephes[Seen + 1]
  BY <1>a, <1>b, <1>v, EpheAuxFacts
<1>i. PICK h \in [1..Size[v] -> Value] : EpheAux(v, h)
  BY <1>a, <1>b, <1>v, EpheAuxFacts
<1>h. /\ fld' = [fld EXCEPT ![v] = h]
      /\ \A k \in 2..Size[v] : h[k] = fld[v][k] \/ h[k] = ShortCircuit(fld[v][k], TRUE)
      /\ Darkens(mk, mk')
      /\ ~mk'.epure \/ mk' = mk
      /\ \/ /\ MoveToChecked(v)
            /\ fld[v][1] = 0 \/ mk'.color[fld[v][1]] # "white"
            /\ h[1] = fld[v][1] \/ h[1] = ShortCircuit(fld[v][1], TRUE)
         \/ /\ tocheck' = v /\ ephes' = ephes /\ checked' = checked /\ mk' = mk
            /\ h[1] = fld[v][1]
            /\ White(v) \/ KeyDead(v)
  BY <1>i DEF EpheAux
<1>t. /\ 0 \notin Block /\ Value = Block \cup {0} /\ Size[v] \in Nat \ {0} /\ mk.color \in [Block -> Color]
      /\ \A b \in Block : \A i \in 1..Size[b] : fld[b][i] \in Value
      /\ \A b \in Block : Tag[b] = "fwd" => Size[b] = 1
      /\ mk' \in MarkState /\ mk'.color \in [Block -> Color]
      /\ 1 \in 1..Size[v] /\ \A k \in 2..Size[v] : k \in 1..Size[v]
  <2>1. mk' \in MarkState /\ mk'.color \in [Block -> Color]
    BY <1>h DEF Darkens, MarkState
  <2>2. Size[v] \in Nat \ {0}
    BY <1>a, <1>1, TypeFacts
  <2>3. 1 \in 1..Size[v] /\ \A k \in 2..Size[v] : k \in 1..Size[v]
    BY <2>2
  <2> QED BY <2>1, <2>2, <2>3, <1>a, TypeFacts
<1>f. FieldTypes' /\ fld'[v] = h /\ \A b \in Block : b # v => fld'[b] = fld[b]
  BY <1>a, <1>1, <1>h, BlockUpdate
<1>l. /\ Lists'
      /\ \A p \in Block : Listed(ephes, p) <=> Listed(ephes', p)
      /\ checked' \in Value /\ tocheck' \in Value
      /\ \A j \in 1..Done' : (ephes'[j] = v /\ MoveToChecked(v)) \/ (j \in 1..Done /\ ephes'[j] = ephes[j])
      /\ \A j \in 1..Seen' : ephes'[j] = v \/ \E k \in 1..Seen : ephes'[j] = ephes[k]
  <2>0. checked \in Value /\ tocheck \in Value
    BY <1>a DEF Types
  <2>1. CASE MoveToChecked(v)
    <3>1. /\ Lists'
          /\ \A p \in Block : Listed(ephes, p) <=> Listed(ephes', p)
          /\ \A j \in 1..Done' : ephes'[j] = v \/ (j \in 1..Done /\ ephes'[j] = ephes[j])
          /\ \A j \in 1..Seen' : ephes'[j] = v \/ \E k \in 1..Seen : ephes'[j] = ephes[k]
      BY <2>1, <1>a, <1>b, <1>1, MoveLists
    <3>2. checked' \in Value /\ tocheck' \in Value
      BY <2>0, <2>1, <1>1, <1>t DEF MoveToChecked
    <3> QED BY <3>1, <3>2, <2>1
  <2>2. CASE tocheck' = v /\ ephes' = ephes /\ checked' = checked
    <3>1. /\ ephes \in Seq(Block) /\ NoDup(ephes) /\ Len(ephes) \in Nat
          /\ Seen \in 0..Len(ephes) /\ Done \in 0..Len(ephes) /\ Done <= Seen
      BY <1>a, <1>b, ListsFacts DEF Lists
    <3>2. Seen + 1 \in 1..Len(ephes)
      BY <3>1, <1>1
    <3>3. Listed(ephes, v) /\ Pos(ephes, v) = Seen + 1
      BY <3>1, <3>2, <1>1, <1>t, PosUnique
    <3>4. Done' = Done /\ Seen' = Seen + 1 /\ Done' <= Seen'
      <4>1. Done' = Done /\ Seen' = Seen + 1
        BY <2>2, <3>3 DEF Done, Seen
      <4> QED BY <4>1, <3>1
    <3>5. Lists'
      BY <2>2, <3>3, <3>4, <1>a, <1>b, <1>p DEF Lists
    <3>6. \A j \in 1..Seen' : ephes'[j] = v \/ \E k \in 1..Seen : ephes'[j] = ephes[k]
      <4>1. \A j \in 1..(Seen + 1) : j = Seen + 1 \/ j \in 1..Seen
        BY <3>1
      <4> QED BY <4>1, <3>4, <2>2, <1>1
    <3>7. \A j \in 1..Done' : j \in 1..Done /\ ephes'[j] = ephes[j]
      BY <3>4, <2>2
    <3> QED BY <2>0, <2>2, <3>5, <3>6, <3>7, <1>1, <1>t
  <2> QED BY <2>1, <2>2, <1>h
<1>2. Types'
  BY <1>a, <1>b, <1>f, <1>l, <1>t, MarkTypes DEF Types
<1>3. Scanning' /\ GrayFound'
  <2>1. /\ \A j \in 1..Len(mk'.gray) : mk'.color[mk'.gray[j]] \in {"gray", "black"}
        /\ \A b \in Block : mk'.color[b] = "gray" =>
              b \in ToSet(mk'.gray) \cup {cv} \/ ~mk'.pure \/ (hp # 0 /\ b >= hp)
    BY <1>a, <1>b, <1>h, DarkensScan
  <2>2. ci' = 0
    BY <1>a, <1>b DEF Scanning
  <2> QED BY <2>1, <2>2, <1>b, <1>p DEF Scanning, GrayFound
<1>c. \A b \in Block : \/ mk'.color[b] = mk.color[b]
                       \/ mk.color[b] = "white" /\ mk'.color[b] = "gray"
                       \/ mk.color[b] = "white" /\ mk'.color[b] = "black" /\ Tag[b] \notin Scanned
  BY <1>h DEF Darkens
<1>n. /\ \A b \in Block : mk.color[b] # "blue" /\ Tag[b] # "noscan" =>
              \A i \in 1..Size[b] : fld[b][i] # 0 => mk.color[fld[b][i]] # "blue"
      /\ \A i \in 1..Size[v] : fld'[v][i] # 0 => mk.color[fld'[v][i]] # "blue"
  <2>1. \A b \in Block : mk.color[b] # "blue" /\ Tag[b] # "noscan" =>
              \A i \in 1..Size[b] : fld[b][i] # 0 => mk.color[fld[b][i]] # "blue"
    BY <1>a, <1>b DEF Safe, Index
  <2>2. ASSUME NEW i \in 1..Size[v], NEW y, y = ShortCircuit(fld[v][i], TRUE), y # 0
        PROVE  mk.color[y] # "blue"
    <3>1. PICK c : c = fld[v][i]
      OBVIOUS
    <3>2. c \in Value /\ (c # 0 => mk.color[c] # "blue")
      BY <3>1, <2>1, <1>1, <1>t
    <3>3. y = c \/ (c \in Block /\ Tag[c] = "fwd" /\ Size[c] = 1 /\ y = fld[c][1])
      <4>1. y = ShortCircuit(c, TRUE)
        BY <2>2, <3>1
      <4> QED BY <4>1, <3>2, <1>a, ShortCircuitFacts
    <3>4. CASE y = c
      BY <3>2, <3>4, <2>2
    <3>5. CASE c \in Block /\ Tag[c] = "fwd" /\ Size[c] = 1 /\ y = fld[c][1]
      <4>1. mk.color[c] # "blue" /\ Tag[c] # "noscan" /\ 1 \in 1..Size[c]
        BY <3>2, <3>5, <1>t
      <4> QED BY <4>1, <3>5, <2>1, <2>2
    <3> QED BY <3>3, <3>4, <3>5
  <2>3. \A i \in 1..Size[v] : h[i] = fld[v][i] \/ h[i] = ShortCircuit(fld[v][i], TRUE)
    <3>1. \A i \in 1..Size[v] : i = 1 \/ i \in 2..Size[v]
      BY <1>t
    <3>2. h[1] = fld[v][1] \/ h[1] = ShortCircuit(fld[v][1], TRUE)
      BY <1>h
    <3>3. \A k \in 2..Size[v] : h[k] = fld[v][k] \/ h[k] = ShortCircuit(fld[v][k], TRUE)
      BY <1>h
    <3> SUFFICES ASSUME NEW i \in 1..Size[v]
                 PROVE  h[i] = fld[v][i] \/ h[i] = ShortCircuit(fld[v][i], TRUE)
      OBVIOUS
    <3>4. CASE i = 1
      BY <3>2, <3>4
    <3>5. CASE i \in 2..Size[v]
      BY <3>3, <3>5
    <3> QED BY <3>1, <3>4, <3>5
  <2>4. ASSUME NEW i \in 1..Size[v], h[i] # 0 PROVE mk.color[h[i]] # "blue"
    <3>1. CASE h[i] = fld[v][i]
      BY <3>1, <2>1, <2>4, <1>1
    <3>2. CASE h[i] = ShortCircuit(fld[v][i], TRUE)
      BY <3>2, <2>2, <2>4
    <3> QED BY <3>1, <3>2, <2>3
  <2> QED BY <2>1, <2>4, <1>f
<1>4. Safe'
  <2>1. \A b \in Block : mk.color[b] # "blue" /\ Tag[b] # "noscan" =>
              \A i \in 1..Size[b] : fld'[b][i] # 0 => mk.color[fld'[b][i]] # "blue"
    BY <1>n, <1>f
  <2>2. Held' = Held
    BY <1>b, <1>p DEF Held
  <2>3. \A b \in Block : mk'.color[b] = "blue" <=> mk.color[b] = "blue"
    BY <1>c
  <2> QED BY <1>a, <1>b, <1>2, <1>l, <2>1, <2>2, <2>3, SafeMark
<1>5. Snapshot' /\ SealedBack
  <2>1. Darkening
    BY <1>c DEF Darkening
  <2>2. Rewiring
    BY <1>1, <1>c, <1>f DEF Rewiring, Scanned
  <2>3. Rooting
    BY <1>b DEF Rooting, Roots
  <2> QED BY <1>a, <1>b, <2>1, <2>2, <2>3, SnapshotStep
<1>6. EpheSnapshot'
  <2>1. SUFFICES ASSUME NEW U \in SUBSET Block, Sealed(U)'
                 PROVE  /\ \A j \in 1..Done' : fld'[ephes'[j]][1] \notin U
                        /\ mk'.epure => \A j \in 1..Seen' :
                              White(ephes[j])' \/ KeyDead(ephes[j])' \/ fld'[ephes'[j]][1] \notin U
    BY <1>p DEF EpheSnapshot
  <2>2. Sealed(U)
    BY <2>1, <1>5 DEF SealedBack
  <2>3. /\ \A j \in 1..Done : fld[ephes[j]][1] \notin U
        /\ mk.epure => \A j \in 1..Seen :
                            White(ephes[j]) \/ KeyDead(ephes[j]) \/ fld[ephes[j]][1] \notin U
    BY <2>2, <1>a, <1>b DEF EpheSnapshot
  <2>4. /\ 0 \notin U
        /\ \A b \in U : mk'.color[b] = "white"
        /\ \A b \in Block : mk'.color[b] \in {"gray", "black"} /\ Tag[b] \in Scanned =>
              \A i \in 1..Size[b] : fld'[b][i] \notin U
    <3>1. \A b \in U : mk'.color[b] = "white"
      BY <2>1 DEF Sealed
    <3> QED BY <3>1, <2>1, <1>5, <1>b, <1>p, <1>t DEF Snapshot, Index
  <2>5. ASSUME MoveToChecked(v) PROVE fld'[v][1] \notin U
    <3>0. /\ fld[v][1] = 0 \/ mk'.color[fld[v][1]] # "white"
          /\ h[1] = fld[v][1] \/ h[1] = ShortCircuit(fld[v][1], TRUE)
      <4>1. \/ /\ fld[v][1] = 0 \/ mk'.color[fld[v][1]] # "white"
               /\ h[1] = fld[v][1] \/ h[1] = ShortCircuit(fld[v][1], TRUE)
            \/ tocheck' = v /\ ephes' = ephes /\ checked' = checked
        BY <1>h
      <4>2. ~(tocheck' = v /\ ephes' = ephes /\ checked' = checked)
        <5>1. Done' = Done + 1 /\ Done \in 0..Len(ephes) /\ Len(ephes) \in Nat
          BY <2>5, <1>a, <1>b, <1>1, MoveLists, ListsFacts
        <5>2. ephes' = ephes /\ checked' = checked => Done' = Done
          BY DEF Done
        <5> QED BY <5>1, <5>2
      <4> QED BY <4>1, <4>2
    <3>1. PICK c : c = fld[v][1]
      OBVIOUS
    <3>2. c \in Value /\ (c # 0 => mk.color[c] # "blue") /\ (c = 0 \/ mk'.color[c] # "white")
      BY <3>0, <3>1, <1>1, <1>n, <1>t
    <3>3. c \notin U
      BY <3>2, <2>4
    <3>4. CASE h[1] # c
      <4>1. c \in Block /\ Tag[c] = "fwd" /\ Size[c] = 1 /\ h[1] = fld[c][1]
        BY <3>0, <3>1, <3>2, <3>4, <1>a, ShortCircuitFacts
      <4>2. mk'.color[c] \in {"gray", "black"}
        BY <4>1, <3>2, <1>c, <1>t DEF Color
      <4>3. fld'[c][1] \notin U
        BY <4>1, <4>2, <2>4 DEF Scanned
      <4> QED BY <4>1, <4>3, <1>1, <1>f
    <3> QED BY <3>3, <3>4, <1>f
  <2>6. \A j \in 1..Len(ephes) : ephes[j] \in Block /\ Tag[ephes[j]] = "ephe" /\ mk.color[ephes[j]] # "blue"
    <3>1. \A j \in 1..Len(ephes) : ephes[j] \notin Doomed
      BY <1>a, <1>b DEF Safe
    <3> QED BY <3>1, <1>a, ListsFacts DEF Doomed
  <2>7. \A j \in 1..Done : ephes[j] # v
    <3>1. NoDup(ephes) /\ Done \in 0..Len(ephes) /\ Seen \in 0..Len(ephes) /\ Done <= Seen /\ Len(ephes) \in Nat
      BY <1>a, <1>b, ListsFacts DEF Lists
    <3> SUFFICES ASSUME NEW j \in 1..Done, ephes[j] = v PROVE FALSE
      OBVIOUS
    <3>2. j \in 1..Len(ephes) /\ Seen + 1 \in 1..Len(ephes) /\ j # Seen + 1
      BY <3>1, <1>1
    <3> QED BY <3>1, <3>2, <1>1 DEF NoDup
  <2>8. \A j \in 1..Done' : fld'[ephes'[j]][1] \notin U
    <3>1. \A j \in 1..Done : j \in 1..Len(ephes)
      BY <1>a, <1>b, ListsFacts
    <3> QED BY <3>1, <2>3, <2>5, <2>6, <2>7, <1>f, <1>l
  <2>9. ASSUME mk'.epure, NEW j \in 1..Seen'
        PROVE  White(ephes[j])' \/ KeyDead(ephes[j])' \/ fld'[ephes'[j]][1] \notin U
    <3>1. mk' = mk
      BY <2>9, <1>h
    <3>2. WhitesKept /\ ForwardsKept
      BY <3>1, <1>1, <1>f DEF WhitesKept, ForwardsKept
    <3>3. CASE ephes'[j] = v
      <4>1. CASE MoveToChecked(v)
        BY <4>1, <3>3, <2>5
      <4>2. CASE ~MoveToChecked(v)
        <5>1. White(v) \/ KeyDead(v)
          BY <4>2, <1>h
        <5>2. White(v) => White(v)'
          BY <3>1 DEF White
        <5>3. KeyDead(v) => KeyDead(v)'
          <6> SUFFICES ASSUME NEW k \in 2..Size[v], White(ShortCircuit(fld[v][k], TRUE))
                       PROVE  White(ShortCircuit(fld[v][k], TRUE))'
            BY <1>p DEF KeyDead, Keys
          <6>1. PICK c : c = fld[v][k]
            OBVIOUS
          <6>2. PICK e : e = fld'[v][k]
            OBVIOUS
          <6>3. c \in Value /\ (e = c \/ e = ShortCircuit(c, TRUE))
            BY <6>1, <6>2, <1>1, <1>f, <1>h, <1>t
          <6>4. \A b \in Block : Tag[b] = "fwd" => fld'[b][1] = fld[b][1]
            BY <1>1, <1>f
          <6>5. ShortCircuit(e, TRUE)' = ShortCircuit(c, TRUE)
            BY <6>3, <6>4, <1>a, ShortCircuitTwice
          <6> QED BY <6>2, <6>5, <6>1, <3>1 DEF White, ShortCircuit
        <5> QED BY <5>1, <5>2, <5>3, <3>3 DEF White, KeyDead, Keys, ShortCircuit
      <4> QED BY <4>1, <4>2
    <3>4. CASE ephes'[j] # v
      <4>1. PICK k \in 1..Seen : ephes'[j] = ephes[k]
        BY <3>4, <1>l
      <4>2. PICK e : e = ephes[k]
        OBVIOUS
      <4>3. /\ e \in Block /\ Tag[e] = "ephe" /\ mk.color[e] # "blue" /\ fld'[e] = fld[e] /\ e = ephes'[j]
            /\ White(e) \/ KeyDead(e) \/ fld[e][1] \notin U
        <5>1. k \in 1..Len(ephes)
          BY <4>1, <1>a, <1>b, ListsFacts
        <5> QED BY <5>1, <4>1, <4>2, <3>4, <3>1, <2>3, <2>6, <2>9, <1>f
      <4>4. KeyDead(e) => KeyDead(e)'
        BY <4>3, <3>2, <1>a, <1>b, KeyDeadKept
      <4>5. White(e) => White(e)'
        BY <3>1 DEF White
      <4>6. White(e)' \/ KeyDead(e)' \/ fld'[e][1] \notin U
        BY <4>3, <4>4, <4>5
      <4> QED BY <4>3, <4>6 DEF White, KeyDead, Keys, ShortCircuit
    <3> QED BY <3>3, <3>4
  <2> QED BY <2>8, <2>9
<1>7. Colors' /\ Cleaned'
  BY <1>b DEF Colors, Cleaned
<1> QED BY <1>2, <1>3, <1>4, <1>5, <1>6, <1>7, <1>l DEF IInv

(***************************************************************************)
(* Darkening several blocks                                                *)
(***************************************************************************)
LEMMA SetToSeqFacts ==
    ASSUME NEW n \in Nat, NEW S \in SUBSET (0..n)
    PROVE  SetToSeq(S) \in Seq(S) /\ \A x \in S : \E i \in 1..Len(SetToSeq(S)) : SetToSeq(S)[i] = x
<1>1. IsFiniteSet(S)
  <2>1. IsFiniteSet(0..n)
    BY FS_Interval, SMT
  <2> QED BY <2>1, FS_Subset
<1>c. PICK c : c = Cardinality(S)
  OBVIOUS
<1>2. c \in Nat /\ ExistsBijection(1..c, S)
  BY <1>1, <1>c, FS_CardinalityType
<1>3. \E f \in [1..c -> S] : IsInjective(f)
  BY <1>2 DEF ExistsBijection, Bijection, Injection
<1>s. PICK s : s = SetToSeq(S)
  OBVIOUS
<1>4. s \in [1..c -> S] /\ IsInjective(s)
  <2>1. s = CHOOSE f \in [1..c -> S] : IsInjective(f)
    BY <1>s, <1>c DEF SetToSeq
  <2> QED BY <1>3, <2>1
<1>5. s \in Surjection(1..c, S)
  <2>1. s \in Injection(1..c, S)
    BY <1>4 DEF Injection
  <2>2. Cardinality(1..c) = c
    BY <1>2, FS_Interval
  <2> QED BY <1>1, <1>c, <2>1, <2>2, FS_Injection
<1>6. \A x \in S : \E i \in 1..c : s[i] = x
  BY <1>5 DEF Surjection
<1>7. s \in Seq(S) /\ Len(s) = c
  BY <1>2, <1>4
<1> QED BY <1>6, <1>7, <1>s

\* The marking state after the first k blocks of s.
DarkenedTo(m, s, ok, k, f) ==
    f = [i \in 0..k |-> IF i = 0 THEN m ELSE caml_darken(f[i - 1], s[i], ok)]

\* The recursive function behind DarkenAll exists, by a least counterexample.
LEMMA DarkenAllDefined ==
    ASSUME NEW m, NEW s, NEW ok, NEW n \in Nat
    PROVE  \E f : DarkenedTo(m, s, ok, n, f)
<1> DEFINE T == {k \in Nat : ~\E f : DarkenedTo(m, s, ok, k, f)}
<1> SUFFICES ASSUME T # {} PROVE FALSE
  OBVIOUS
<1>1. PICK k \in T : \A j \in T : k <= j
  <2>1. T \in SUBSET Nat
    OBVIOUS
  <2> HIDE DEF T
  <2> QED BY <2>1, LeastNat
<1>2. k # 0
  <2> SUFFICES ASSUME k = 0 PROVE FALSE
    OBVIOUS
  <2>1. DarkenedTo(m, s, ok, 0, [i \in 0..0 |-> m])
    BY DEF DarkenedTo
  <2> QED BY <2>1
<1>3. PICK f : DarkenedTo(m, s, ok, k - 1, f)
  BY <1>1, <1>2
<1>4. PICK x : x = caml_darken(f[k - 1], s[k], ok)
  OBVIOUS
<1>5. PICK g : g = [i \in 0..k |-> IF i < k THEN f[i] ELSE x]
  OBVIOUS
<1>6. \A i \in 0..k - 1 : f[i] = IF i = 0 THEN m ELSE caml_darken(f[i - 1], s[i], ok)
  BY <1>3 DEF DarkenedTo
<1>7. ASSUME NEW i \in 0..k PROVE g[i] = IF i = 0 THEN m ELSE caml_darken(g[i - 1], s[i], ok)
  <2>1. CASE i = k
    <3>1. g[i] = x /\ k - 1 \in 0..k /\ g[k - 1] = f[k - 1]
      BY <2>1, <1>2, <1>5
    <3> QED BY <2>1, <3>1, <1>2, <1>4
  <2>2. CASE i # k
    <3>1. i \in 0..k - 1 /\ g[i] = f[i] /\ (i # 0 => i - 1 \in 0..k /\ i - 1 < k /\ g[i - 1] = f[i - 1])
      BY <2>2, <1>5
    <3> QED BY <3>1, <1>6
  <2> QED BY <2>1, <2>2
<1>8. g = [i \in 0..k |-> g[i]]
  BY <1>5
<1>9. DarkenedTo(m, s, ok, k, g)
  BY <1>7, <1>8, Zenon DEF DarkenedTo
<1> QED BY <1>9

\* DarkenAll only darkens, and leaves none of the blocks white.
LEMMA DarkenAllFacts ==
    ASSUME Types, NEW m \in MarkState, NEW s \in Seq(Value), NEW ok \in BOOLEAN, NEW p, p = DarkenAll(m, s, ok)
    PROVE  Darkens(m, p) /\ \A i \in 1..Len(s) : s[i] # 0 => p.color[s[i]] # "white"
<1>0. /\ GrayMax \in Nat /\ Tag \in [Block -> {"scan", "noscan", "fwd", "ephe"}] /\ N \in Nat
      /\ Value = Block \cup {0}
  BY ProgFacts, TypeFacts DEF Types
<1>n. Len(s) \in Nat /\ \A i \in 1..Len(s) : s[i] \in Value
  OBVIOUS
<1>1. PICK f : p = f[Len(s)] /\ DarkenedTo(m, s, ok, Len(s), f)
  <2>1. PICK f : f = CHOOSE g : DarkenedTo(m, s, ok, Len(s), g)
    OBVIOUS
  <2>2. DarkenedTo(m, s, ok, Len(s), f)
    BY <2>1, <1>n, DarkenAllDefined
  <2>3. p = f[Len(s)]
    BY <2>1 DEF DarkenAll, DarkenedTo
  <2> QED BY <2>2, <2>3
<1>2. f[0] = m /\ \A i \in 1..Len(s) : f[i] = caml_darken(f[i - 1], s[i], ok)
  <2>1. \A i \in 0..Len(s) : f[i] = IF i = 0 THEN m ELSE caml_darken(f[i - 1], s[i], ok)
    BY <1>1 DEF DarkenedTo
  <2> QED BY <2>1, <1>n
<1> DEFINE Good(k) == Darkens(m, f[k]) /\ \A i \in 1..k : s[i] # 0 => f[k].color[s[i]] # "white"
<1> DEFINE T == {k \in Nat : k \in 0..Len(s) /\ ~Good(k)}
<1>3. SUFFICES T = {}
  <2>1. Len(s) \in Nat /\ Len(s) \in 0..Len(s)
    BY <1>n
  <2>2. Good(Len(s))
    BY <2>1, <1>3
  <2> QED BY <2>2, <1>1
<1>4. SUFFICES ASSUME T # {} PROVE FALSE
  OBVIOUS
<1>5. PICK k \in T : \A j \in T : k <= j
  <2>1. T \in SUBSET Nat
    OBVIOUS
  <2> HIDE DEF T
  <2> QED BY <2>1, <1>4, LeastNat
<1>6. k # 0
  <2> SUFFICES ASSUME k = 0 PROVE FALSE
    OBVIOUS
  <2>1. Darkens(m, f[0])
    BY <1>2, DarkensRefl
  <2> QED BY <2>1
<1>7. Good(k - 1)
  BY <1>5, <1>6, <1>n
<1>8. PICK q : q = f[k - 1]
  OBVIOUS
<1>9. /\ Darkens(m, q) /\ q \in MarkState /\ f[k] = caml_darken(q, s[k], ok) /\ s[k] \in Value
      /\ \A i \in 1..k - 1 : s[i] # 0 => q.color[s[i]] # "white"
  <2>1. k \in 1..Len(s)
    BY <1>5, <1>6, <1>n
  <2> QED BY <2>1, <1>7, <1>8, <1>2, <1>n DEF Darkens
<1>10. Darkens(q, f[k]) /\ (s[k] # 0 => f[k].color[s[k]] # "white")
  BY <1>9, <1>0, DarkenFacts
<1>11. Darkens(m, f[k])
  BY <1>9, <1>10, DarkensTrans
<1>12. ASSUME NEW i \in 1..k, s[i] # 0 PROVE f[k].color[s[i]] # "white"
  <2>1. CASE i = k
    BY <2>1, <1>10, <1>12
  <2>2. CASE i # k
    <3>1. i \in 1..k - 1 /\ s[i] \in Block
      BY <2>2, <1>5, <1>0, <1>n, <1>12
    <3>2. q.color[s[i]] # "white"
      BY <3>1, <1>9, <1>12
    <3> QED BY <3>1, <3>2, <1>10 DEF Darkens
  <2> QED BY <2>1, <2>2
<1> QED BY <1>5, <1>11, <1>12

\* Darkening every block of a set leaves none of them white.
LEMMA DarkenSetFacts ==
    ASSUME Types, NEW m \in MarkState, NEW S \in SUBSET Value, NEW ok \in BOOLEAN, NEW p,
           p = DarkenAll(m, SetToSeq(S), ok)
    PROVE  Darkens(m, p) /\ \A x \in S : x # 0 => p.color[x] # "white"
<1>0. N \in Nat /\ S \in SUBSET (0..N)
  BY TypeFacts DEF Value
<1>1. PICK s : s = SetToSeq(S)
  OBVIOUS
<1>2. s \in Seq(S) /\ \A x \in S : \E i \in 1..Len(s) : s[i] = x
  BY <1>0, <1>1, SetToSeqFacts
<1>3. s \in Seq(Value)
  BY <1>2
<1>4. Darkens(m, p) /\ \A i \in 1..Len(s) : s[i] # 0 => p.color[s[i]] # "white"
  BY <1>1, <1>3, DarkenAllFacts
<1> QED BY <1>2, <1>4

\* What darkening keeps of the invariant.
LEMMA DarkensStep ==
    ASSUME Types, Scanning, GrayFound, prog' = prog, phase = "mark", phase' = "mark",
           Darkens(mk, mk'), UNCHANGED <<hp, cv, ci>>
    PROVE  /\ Scanning' /\ GrayFound' /\ Darkening /\ mk' \in MarkState
           /\ \A b \in Block : mk'.color[b] = "blue" <=> mk.color[b] = "blue"
           /\ \A b \in Block : mk.color[b] # "white" => mk'.color[b] # "white"
           /\ mk'.epure => mk.epure /\ WhitesKept
<1>p. Block' = Block /\ Tag' = Tag /\ Size' = Size
  BY ProgSame
<1>1. \A b \in Block : \/ mk'.color[b] = mk.color[b]
                       \/ mk.color[b] = "white" /\ mk'.color[b] = "gray"
                       \/ mk.color[b] = "white" /\ mk'.color[b] = "black" /\ Tag[b] \notin Scanned
  BY DEF Darkens
<1>2. /\ \A j \in 1..Len(mk'.gray) : mk'.color[mk'.gray[j]] \in {"gray", "black"}
      /\ cv # 0 => mk'.color[cv] \in {"gray", "black"}
      /\ \A b \in Block : mk'.color[b] = "gray" =>
            b \in ToSet(mk'.gray) \cup {cv} \/ ~mk'.pure \/ (hp # 0 /\ b >= hp)
  BY DarkensScan
<1>3. Scanning'
  BY <1>2, <1>p DEF Scanning
<1>4. GrayFound'
  BY <1>2, <1>p DEF GrayFound
<1>5. Darkening
  BY <1>1 DEF Darkening
<1>6. mk' \in MarkState /\ (mk'.epure => mk.epure /\ WhitesKept)
  BY DEF Darkens, WhitesKept
<1> QED BY <1>1, <1>3, <1>4, <1>5, <1>6

(***************************************************************************)
(* The ends of the subphases                                               *)
(***************************************************************************)
LEMMA MarkMainDoneInv ==
    ASSUME IInv, MarkMainDone, prog' = prog
    PROVE  IInv'
<1>a. Types /\ Lists /\ Scanning /\ Colors /\ GrayFound /\ Safe /\ Snapshot /\ EpheSnapshot
  BY DEF IInv
<1>d. PICK d : d = {b \in first : White(b)}
  OBVIOUS
<1>b. /\ phase = "mark" /\ first' = first \ d /\ todo' = todo \cup d
      /\ \E ok \in BOOLEAN : mk' = DarkenAll(mk, SetToSeq(d), ok)
      /\ tocheck' = checked /\ sub' = "final" /\ inSlice' = inSlice
      /\ UNCHANGED <<fld, root, phase, hp, cv, ci, ephes, checked, sweep, last, dead>>
  BY <1>d DEF MarkMainDone, EphesDone, Marked, Idle, InMark, NoWorkDone, marking, caml_final_update_mark_phase
<1>p. Block' = Block /\ Tag' = Tag /\ Size' = Size /\ Slots' = Slots
  BY ProgSame
<1>t. /\ 0 \notin Block /\ Value = Block \cup {0} /\ first \subseteq Block /\ todo \subseteq Block
      /\ mk \in MarkState /\ d \subseteq Block /\ d \in SUBSET Value
  BY <1>a, <1>d, TypeFacts DEF Types
<1>1. Darkens(mk, mk') /\ \A x \in d : mk'.color[x] # "white"
  <2>1. PICK ok \in BOOLEAN : mk' = DarkenAll(mk, SetToSeq(d), ok)
    BY <1>b
  <2> QED BY <2>1, <1>a, <1>t, DarkenSetFacts
<1>2. /\ Scanning' /\ GrayFound' /\ Darkening /\ mk' \in MarkState
      /\ \A b \in Block : mk'.color[b] = "blue" <=> mk.color[b] = "blue"
      /\ \A b \in Block : mk.color[b] # "white" => mk'.color[b] # "white"
  BY <1>a, <1>b, <1>1, DarkensStep
<1>3. Types'
  <2>1. FieldTypes'
    BY <1>a, <1>b, FieldTypesSame DEF Types
  <2> QED BY <1>a, <1>b, <1>2, <1>t, <2>1, MarkTypes DEF Types
<1>4. Lists'
  BY <1>a, <1>b, <1>p, ListsFacts DEF Lists, Done, Seen
<1>5. Safe'
  <2>1. \A b \in Block : mk.color[b] # "blue" /\ Tag[b] # "noscan" =>
              \A i \in 1..Size[b] : fld'[b][i] # 0 => mk.color[fld'[b][i]] # "blue"
    BY <1>a, <1>b DEF Safe, Index
  <2>2. Held' \subseteq Held
    BY <1>b, <1>d, <1>p DEF Held
  <2> QED BY <1>a, <1>b, <1>2, <1>3, <1>4, <2>1, <2>2, SafeMark
<1>6. Snapshot' /\ SealedBack
  <2>1. Rewiring
    BY <1>b, <1>2 DEF Rewiring
  <2>2. Rooting
    <3>1. \A b \in first' : mk'.color[b] # "white"
      BY <1>b, <1>2, <1>d, <1>t DEF White
    <3> QED BY <3>1, <1>b, <1>1 DEF Rooting, Roots
  <2> QED BY <1>a, <1>b, <1>2, <2>1, <2>2, SnapshotStep
<1>7. EpheSnapshot'
  <2>1. DataKept
    BY <1>b DEF DataKept
  <2> QED BY <1>a, <1>b, <1>6, <2>1, EpheStep
<1>8. Colors' /\ Cleaned'
  BY <1>b DEF Colors, Cleaned
<1> QED BY <1>2, <1>3, <1>4, <1>5, <1>6, <1>7, <1>8 DEF IInv

\* What caml_ephe_clean leaves in an ephemeron.
LEMMA CleanFacts ==
    ASSUME Types, NEW e \in Block, NEW g, g = caml_ephe_clean(e)
    PROVE  /\ g \in [1..Size[e] -> Value]
           /\ g[1] = IF KeyDead(e) THEN 0 ELSE fld[e][1]
           /\ \A k \in 2..Size[e] : /\ ~White(g[k])
                                    /\ g[k] = 0 \/ g[k] = ShortCircuit(fld[e][k], TRUE)
<1>t. /\ 0 \in Value /\ Size[e] \in Nat \ {0}
      /\ 1 \in 1..Size[e] /\ 1 \notin 2..Size[e] /\ \A k \in 2..Size[e] : k \in 1..Size[e] /\ k # 1
      /\ \A i \in 1..Size[e] : fld[e][i] \in Value
  <2>1. /\ 0 \in Value /\ Size[e] \in Nat \ {0}
        /\ \A i \in 1..Size[e] : fld[e][i] \in Value
    BY TypeFacts
  <2> QED BY <2>1
<1>1. \A i \in 1..Size[e] : ShortCircuit(fld[e][i], TRUE) \in Value
  BY <1>t, ShortCircuitFacts
<1>2. g = [i \in 1..Size[e] |-> IF i = 1 THEN IF KeyDead(e) THEN 0 ELSE fld[e][1]
                               ELSE IF White(ShortCircuit(fld[e][i], TRUE)) THEN 0
                               ELSE ShortCircuit(fld[e][i], TRUE)]
  BY DEF caml_ephe_clean, Index, KeyDead
<1>3. \A i \in 1..Size[e] : g[i] \in Value
  BY <1>1, <1>2, <1>t
<1>4. g \in [1..Size[e] -> Value]
  <2>1. g = [i \in 1..Size[e] |-> g[i]]
    BY <1>2
  <2> QED BY <2>1, <1>3
<1>5. g[1] = IF KeyDead(e) THEN 0 ELSE fld[e][1]
  BY <1>2, <1>t
<1>6. ASSUME NEW k \in 2..Size[e]
      PROVE  ~White(g[k]) /\ (g[k] = 0 \/ g[k] = ShortCircuit(fld[e][k], TRUE))
  <2>1. g[k] = IF White(ShortCircuit(fld[e][k], TRUE)) THEN 0 ELSE ShortCircuit(fld[e][k], TRUE)
    BY <1>2, <1>t
  <2>2. ~White(0)
    BY DEF White
  <2> QED BY <2>1, <2>2
<1> QED BY <1>4, <1>5, <1>6

\* Marking is over: what is white is unreachable, and will be freed.
LEMMA MarkFinalDoneInv ==
    ASSUME IInv, MarkFinalDone, prog' = prog
    PROVE  IInv'
<1>a. Types /\ Lists /\ Scanning /\ Colors /\ GrayFound /\ Safe /\ Snapshot /\ EpheSnapshot
  BY DEF IInv
<1>d. PICK d : d = {b \in last : White(b)}
  OBVIOUS
<1>b. /\ phase = "mark" /\ sub = "final" /\ cv = 0 /\ mk.gray = << >> /\ hp = 0 /\ mk.pure /\ mk.epure
      /\ At(tocheck) = 0
      /\ last' = last \ d /\ dead' = dead \cup d
      /\ phase' = IF ephes # << >> THEN "clean" ELSE "sweep"
      /\ tocheck' = 0 /\ sweep' = 1 /\ inSlice' = FALSE
      /\ UNCHANGED <<mk, fld, root, sub, hp, cv, ci, ephes, checked, first, todo>>
  BY <1>d DEF MarkFinalDone, EphesDone, Marked, Idle, InMark, marking
<1>p. Block' = Block /\ Value' = Value /\ Tag' = Tag /\ Size' = Size /\ Slots' = Slots /\ N' = N
  BY ProgSame
<1>t. /\ 0 \notin Block /\ Value = Block \cup {0} /\ N \in Nat /\ Block = 1..N
      /\ mk.color \in [Block -> Color] /\ d \subseteq Block /\ last \subseteq Block /\ dead \subseteq Block
      /\ \A b \in Block : \A i \in 1..Size[b] : fld[b][i] \in Value
  BY <1>a, <1>d, TypeFacts DEF Types
<1>1. \A b \in Block : mk.color[b] # "gray"
  BY <1>a, <1>b, <1>t DEF GrayFound, ToSet
<1>W. PICK W \in SUBSET Block : W = {b \in Block : mk.color[b] = "white"}
  OBVIOUS
<1>2. Sealed(W)
  BY <1>1, <1>W DEF Sealed
<1>3. /\ \A r \in Slots : root[r] \notin W
      /\ todo \cap W = {} /\ first \cap W = {}
      /\ \A b \in Block : mk.color[b] \in {"gray", "black"} /\ Tag[b] \in Scanned =>
            \A i \in 1..Size[b] : fld[b][i] \notin W
  BY <1>2, <1>a, <1>b DEF Snapshot, Index
<1>4. \A j \in 1..Len(ephes) : White(ephes[j]) \/ KeyDead(ephes[j]) \/ fld[ephes[j]][1] \notin W
  <2>1. Seen = Len(ephes)
    <3>1. /\ Seen \in 0..Len(ephes) /\ Len(ephes) \in Nat
          /\ \A j \in 1..Len(ephes) : ephes[j] \in Block /\ Tag[ephes[j]] = "ephe"
      BY <1>a, <1>b, ListsFacts
    <3>2. ~(Seen < Len(ephes))
      <4> SUFFICES ASSUME Seen < Len(ephes) PROVE FALSE
        OBVIOUS
      <4>1. Seen + 1 \in 1..Len(ephes) /\ ephes[Seen + 1] = 0
        BY <3>1, <1>b DEF At, Seen
      <4> QED BY <4>1, <3>1, <1>t
    <3> QED BY <3>1, <3>2
  <2> QED BY <2>1, <1>2, <1>a, <1>b DEF EpheSnapshot
<1>5. Types'
  <2>1. FieldTypes'
    BY <1>a, <1>b, FieldTypesSame DEF Types
  <2>2. mk' \in MarkState' /\ root' \in [Slots' -> Value']
    BY <1>a, <1>b, ProgSame DEF Types
  <2>a. sweep' \in 1..(N + 1) /\ inSlice' \in BOOLEAN /\ tocheck' \in Value
    <3>1. sweep' = 1 /\ inSlice' = FALSE /\ tocheck' = 0
      BY <1>b
    <3>2. N \in Nat /\ 0 \in Value
      BY <1>t
    <3>3. 1 \in 1..(N + 1)
      BY <3>2
    <3> QED BY <3>1, <3>2, <3>3, Zenon
  <2>b. last' \subseteq Block /\ dead' \subseteq Block
    BY <1>b, <1>t
  <2>3. /\ hp' \in 0..(N + 1) /\ cv' \in Value /\ ci' \in Nat /\ checked' \in Value
        /\ first' \subseteq Block /\ todo' \subseteq Block /\ sub' \in {"roots", "main", "final"}
    BY <1>a, <1>b DEF Types
  <2>4. phase' \in {"idle", "mark", "clean", "sweep"} /\ prog' \in Programs
    BY <1>a, <1>b DEF Types
  <2> QED BY <2>1, <2>2, <2>3, <2>4, <2>a, <2>b, <1>p DEF Types
<1>6. Doomed = {b \in Block : mk.color[b] = "blue"} /\ Doomed' = {b \in Block : mk.color[b] = "blue"} \cup W
  <2>1. Doomed = {b \in Block : mk.color[b] = "blue"}
    BY <1>b DEF Doomed
  <2>2. \A b \in Block : sweep' <= b
    BY <1>b, <1>t
  <2>3. phase' = "clean" \/ phase' = "sweep"
    BY <1>b
  <2>4. mk' = mk
    BY <1>b
  <2>5. \A b \in Block : b \in Doomed' <=> mk.color[b] = "blue" \/ mk.color[b] = "white"
    BY <2>2, <2>3, <2>4, <1>p DEF Doomed
  <2>6. Doomed' \subseteq Block
    BY <1>p DEF Doomed
  <2> QED BY <2>1, <2>5, <2>6, <1>W
<1>7. Safe'
  <2>1. Held' \cap Doomed' = {} /\ dead' \subseteq Doomed'
    <3>1. Held \cap Doomed = {} /\ dead \subseteq Doomed
      BY <1>a DEF Safe
    <3>2. Held' \subseteq Held
      BY <1>b, <1>p DEF Held
    <3>3. last' \cap W = {} /\ d \subseteq W
      BY <1>b, <1>d, <1>t, <1>W DEF White
    <3>4. Held' \cap W = {}
      BY <3>3, <1>3, <1>b, <1>p DEF Held
    <3> QED BY <3>1, <3>2, <3>3, <3>4, <1>6, <1>b
  <2>2. \A b \in Block : mk.color[b] # "blue" /\ Tag[b] # "noscan" =>
              \A i \in 1..Size[b] : fld[b][i] # 0 => mk.color[fld[b][i]] # "blue"
    BY <1>a, <1>b DEF Safe, Index
  <2>3. /\ \A b \in Block \ Doomed : Tag[b] = "ephe" => Listed(ephes, b)
        /\ \A j \in 1..Len(ephes) : ephes[j] \notin Doomed
    BY <1>a, <1>b DEF Safe
  <2>4. \A b \in Block \ Doomed' : mk.color[b] = "black"
    BY <1>1, <1>6, <1>t, <1>W DEF Color
  <2>5. ASSUME NEW b \in Block \ Doomed', Tag[b] \in Scanned, NEW i \in 1..Size[b]
        PROVE  fld[b][i] \notin Doomed'
    <3>1. fld[b][i] \notin W
      BY <2>4, <2>5, <1>3
    <3>2. fld[b][i] = 0 \/ mk.color[fld[b][i]] # "blue"
      BY <2>2, <2>4, <2>5 DEF Scanned
    <3> QED BY <3>1, <3>2, <1>6, <1>t
  <2>6. CASE ephes = << >>
    <3>1. Len(ephes) = 0 /\ phase' = "sweep" /\ ephes' = ephes
      BY <2>6, <1>b
    <3>2. \A j \in 1..Len(ephes) : FALSE
      BY <3>1
    <3>3. \A b \in Block \ Doomed' : Tag[b] # "ephe"
      BY <2>3, <3>2, <1>6 DEF Listed
    <3> QED BY <2>1, <2>5, <3>1, <3>2, <3>3, <1>b, <1>p DEF Safe, Index, Scanned
  <2>7. CASE ephes # << >>
    <3>1. phase' = "clean"
      BY <2>7, <1>b
    <3>2. \A j \in 1..Len(ephes) : mk.color[ephes[j]] # "blue"
      <4>1. \A j \in 1..Len(ephes) : ephes[j] \in Block
        BY <1>a, ListsFacts
      <4> QED BY <4>1, <2>3, <1>6
    <3>3. \A b \in Block \ Doomed' : b \in Block \ Doomed
      BY <1>6
    <3> QED BY <2>1, <2>2, <2>3, <2>5, <3>1, <3>2, <3>3, <1>b, <1>p DEF Safe, Index
  <2> QED BY <2>6, <2>7
<1>8. Lists'
  BY <1>a, <1>b, <1>p DEF Lists
<1>9. Scanning'
  <2>1. \A j \in 1..Len(mk'.gray) : mk'.color[mk'.gray[j]] \in {"gray", "black"}
    BY <1>a, <1>b DEF Scanning
  <2> QED BY <2>1, <1>a, <1>b, <1>p DEF Scanning
<1>10. Colors'
  <2>1. \A b \in Block : ~(b < sweep')
    BY <1>b, <1>t
  <2> QED BY <2>1, <1>b, <1>p DEF Colors
<1>11. GrayFound' /\ Snapshot' /\ EpheSnapshot'
  BY <1>1, <1>b, <1>p DEF GrayFound, Snapshot, EpheSnapshot
<1>12. Cleaned'
  <2>1. Seen' = 0
    BY <1>b DEF Seen, Pos
  <2>2. \A j \in 1..Len(ephes) : ~White(ephes[j]) => ~White(caml_ephe_clean(ephes[j])[1])
    <3> SUFFICES ASSUME NEW j \in 1..Len(ephes), ~White(ephes[j]) PROVE ~White(caml_ephe_clean(ephes[j])[1])
      OBVIOUS
    <3>1. PICK e : e = ephes[j]
      OBVIOUS
    <3>2. e \in Block /\ 1 \in 1..Size[e]
      BY <3>1, <1>a, ListsFacts, TypeFacts
    <3>3. caml_ephe_clean(e)[1] = IF KeyDead(e) THEN 0 ELSE fld[e][1]
      <4>1. PICK g : g = caml_ephe_clean(e)
        OBVIOUS
      <4>2. g[1] = IF KeyDead(e) THEN 0 ELSE fld[e][1]
        BY <4>1, <3>2, <1>a, CleanFacts, Zenon
      <4> QED BY <4>1, <4>2
    <3>4. KeyDead(e) \/ fld[e][1] \notin W
      BY <3>1, <1>4
    <3>5. fld[e][1] \in Value
      BY <3>2, <1>t
    <3> QED BY <3>1, <3>3, <3>4, <3>5, <1>t, <1>W DEF White
  <2>3. CleanFindsDataMarked'
    <3>1. mk' = mk /\ fld' = fld /\ ephes' = ephes
      BY <1>b
    <3>2. \A e : White(caml_ephe_clean(e)[1])' <=> White(caml_ephe_clean(e)[1])
      BY <3>1, <1>p DEF caml_ephe_clean, ShortCircuit, White, Keys, Index
    <3> QED BY <2>2, <3>1, <3>2 DEF CleanFindsDataMarked, White
  <2> QED BY <2>1, <2>3 DEF Cleaned
<1> QED BY <1>5, <1>7, <1>8, <1>9, <1>10, <1>11, <1>12 DEF IInv

(***************************************************************************)
(* Cleaning                                                                *)
(***************************************************************************)
\* The list m is the list a followed by the list b.
Joined(m, a, b) ==
    /\ Len(m) = Len(a) + Len(b)
    /\ \A j \in 1..(Len(a) + Len(b)) : m[j] = IF j <= Len(a) THEN a[j] ELSE b[j - Len(a)]

\* The concatenation of two sequences.
LEMMA ConcatFacts ==
    ASSUME NEW S, NEW a \in Seq(S), NEW b \in Seq(S)
    PROVE  a \o b \in Seq(S) /\ Joined(a \o b, a, b)
<1>1. Len(a) \in Nat /\ Len(b) \in Nat
  OBVIOUS
<1>2. a \o b \in Seq(S) /\ Len(a \o b) = Len(a) + Len(b)
  BY <1>1
<1>3. \A j \in 1..(Len(a) + Len(b)) : (a \o b)[j] = IF j <= Len(a) THEN a[j] ELSE b[j - Len(a)]
  BY <1>1
<1> QED BY <1>1, <1>2, <1>3 DEF Joined

\* The list without one of its ephemerons.
LEMMA RemoveFacts ==
    ASSUME NEW S, NEW l \in Seq(S), NoDup(l), NEW t \in Nat, t < Len(l), NEW m, m = RemoveAt(l, t + 1)
    PROVE  /\ m \in Seq(S) /\ Len(m) = Len(l) - 1 /\ NoDup(m)
           /\ \A j \in 1..t : m[j] = l[j] /\ j \in 1..Len(m)
           /\ \A p : Listed(m, p) => Listed(l, p)
           /\ \A p : Listed(l, p) /\ p # l[t + 1] => Listed(m, p)
<1>0. Len(l) \in Nat /\ t + 1 \in 1..Len(l)
  OBVIOUS
<1>1. m = SubSeq(l, 1, (t + 1) - 1) \o SubSeq(l, (t + 1) + 1, Len(l))
  BY DEF RemoveAt
<1>a. PICK a : a = SubSeq(l, 1, (t + 1) - 1)
  OBVIOUS
<1>b. PICK b : b = SubSeq(l, (t + 1) + 1, Len(l))
  OBVIOUS
<1>2. a \in Seq(S) /\ Len(a) = t /\ \A j \in 1..t : a[j] = l[j]
  BY <1>0, <1>a
<1>3. b \in Seq(S) /\ Len(b) = Len(l) - t - 1 /\ \A j \in 1..(Len(l) - t - 1) : b[j] = l[t + 1 + j]
  <2>1. PICK u \in Nat : u = (t + 1) + 1
    OBVIOUS
  <2>2. b = SubSeq(l, u, Len(l)) /\ u \in 1..(Len(l) + 1)
    BY <2>1, <1>0, <1>b
  <2>3. b = [j \in 1..(Len(l) - u + 1) |-> l[j + u - 1]]
    BY <2>2, <1>0
  <2>4. PICK c \in Nat : c = Len(l) - u + 1
    <3>1. Len(l) - u + 1 \in Nat
      BY <2>2, <1>0
    <3> QED BY <3>1, Zenon
  <2>5. b = [j \in 1..c |-> l[j + u - 1]]
    BY <2>3, <2>4
  <2>6. \A j \in 1..c : j + u - 1 = t + 1 + j /\ j + u - 1 \in 1..Len(l) /\ l[j + u - 1] \in S
    BY <2>1, <2>4, <1>0
  <2>7. b \in Seq(S) /\ Len(b) = c /\ \A j \in 1..c : b[j] = l[t + 1 + j]
    BY <2>5, <2>6
  <2>8. c = Len(l) - t - 1
    BY <2>1, <2>4, <1>0
  <2> QED BY <2>7, <2>8
<1>4. m = a \o b
  BY <1>1, <1>a, <1>b
<1>5. /\ m \in Seq(S) /\ Len(m) = Len(l) - 1
      /\ \A j \in 1..t : m[j] = a[j]
      /\ \A j \in (t + 1)..(Len(l) - 1) : m[j] = b[j - t]
  <2>0. a \in Seq(S) /\ b \in Seq(S)
    BY <1>2, <1>3
  <2>1. /\ m \in Seq(S) /\ Len(m) = Len(a) + Len(b) /\ Len(a) \in Nat /\ Len(b) \in Nat
        /\ \A j \in 1..(Len(a) + Len(b)) : m[j] = IF j <= Len(a) THEN a[j] ELSE b[j - Len(a)]
    <3>1. m \in Seq(S) /\ Joined(m, a, b)
      BY <2>0, <1>4, ConcatFacts
    <3> QED BY <3>1, <2>0 DEF Joined
  <2>2. \A j \in 1..(Len(a) + Len(b)) : m[j] = IF j <= Len(a) THEN a[j] ELSE b[j - Len(a)]
    BY <2>1
  <2>3. Len(a) = t /\ Len(a) + Len(b) = Len(l) - 1
    BY <1>0, <1>2, <1>3
  <2>4. \A j \in 1..t : m[j] = a[j]
    BY <2>1, <2>2, <2>3
  <2>5. \A j \in (t + 1)..(Len(l) - 1) : m[j] = b[j - t]
    <3> SUFFICES ASSUME NEW j \in (t + 1)..(Len(l) - 1) PROVE m[j] = b[j - t]
      OBVIOUS
    <3>1. j \in 1..(Len(a) + Len(b)) /\ ~(j <= Len(a))
      BY <1>0, <2>3
    <3>2. m[j] = b[j - Len(a)]
      BY <3>1, <2>2
    <3> QED BY <3>2, <2>3
  <2> QED BY <2>1, <2>3, <2>4, <2>5
<1>6. \A j \in 1..t : m[j] = l[j]
  BY <1>2, <1>5
<1>7. ASSUME NEW j \in (t + 1)..(Len(l) - 1) PROVE m[j] = l[j + 1]
  <2>1. j - t \in 1..(Len(l) - t - 1) /\ t + 1 + (j - t) = j + 1
    BY <1>0
  <2> QED BY <2>1, <1>3, <1>5
<1>8. ASSUME NEW j \in 1..Len(m)
      PROVE  \E k \in 1..Len(l) : m[j] = l[k] /\ k = IF j <= t THEN j ELSE j + 1
  <2>1. CASE j <= t
    <3>1. j \in 1..t /\ j \in 1..Len(l)
      BY <2>1, <1>0, <1>5
    <3> QED BY <2>1, <3>1, <1>6
  <2>2. CASE ~(j <= t)
    <3>1. j \in (t + 1)..(Len(l) - 1) /\ j + 1 \in 1..Len(l)
      BY <2>2, <1>0, <1>5
    <3> QED BY <2>2, <3>1, <1>7
  <2> QED BY <2>1, <2>2
<1>9. NoDup(m)
  <2> SUFFICES ASSUME NEW j \in 1..Len(m), NEW k \in 1..Len(m), m[j] = m[k] PROVE j = k
    BY DEF NoDup
  <2>1. PICK x \in 1..Len(l) : m[j] = l[x] /\ x = IF j <= t THEN j ELSE j + 1
    BY <1>8
  <2>2. PICK y \in 1..Len(l) : m[k] = l[y] /\ y = IF k <= t THEN k ELSE k + 1
    BY <1>8
  <2>3. x = y
    BY <2>1, <2>2 DEF NoDup
  <2> QED BY <2>1, <2>2, <2>3, <1>0, <1>5
<1>10. \A p : Listed(m, p) => Listed(l, p)
  BY <1>8 DEF Listed
<1>11. ASSUME NEW k \in 1..Len(l), k # t + 1 PROVE \E j \in 1..Len(m) : m[j] = l[k]
  <2>1. CASE k <= t
    <3>1. k \in 1..t /\ k \in 1..Len(m)
      BY <2>1, <1>0, <1>5
    <3> QED BY <3>1, <1>6
  <2>2. CASE ~(k <= t)
    <3>1. k - 1 \in (t + 1)..(Len(l) - 1) /\ k - 1 \in 1..Len(m) /\ (k - 1) + 1 = k
      BY <2>2, <1>0, <1>5, <1>11
    <3>2. m[k - 1] = l[(k - 1) + 1]
      BY <3>1, <1>7
    <3> QED BY <3>1, <3>2
  <2> QED BY <2>1, <2>2
<1>12. \A p : Listed(l, p) /\ p # l[t + 1] => Listed(m, p)
  BY <1>11 DEF Listed
<1>13. \A j \in 1..t : m[j] = l[j] /\ j \in 1..Len(m)
  BY <1>0, <1>5, <1>6
<1> QED BY <1>5, <1>9, <1>10, <1>12, <1>13

\* Bypassing a pointer to a block that is not free does not lead to a free one.
LEMMA BypassNotBlue ==
    ASSUME Types, Safe, phase # "sweep", NEW c \in Value, c = 0 \/ mk.color[c] # "blue",
           NEW inEphe \in BOOLEAN, NEW y, y = ShortCircuit(c, inEphe)
    PROVE  y = 0 \/ mk.color[y] # "blue"
<1>1. y = c \/ (c \in Block /\ Tag[c] = "fwd" /\ Size[c] = 1 /\ y = fld[c][1])
  BY ShortCircuitFacts
<1>2. CASE y = c
  BY <1>2
<1>3. CASE c \in Block /\ Tag[c] = "fwd" /\ Size[c] = 1 /\ y = fld[c][1]
  <2>1. c # 0 /\ 1 \in 1..Size[c]
    BY <1>3, TypeFacts
  <2>2. \A b \in Block : Tag[b] # "noscan" /\ mk.color[b] # "blue" =>
          \A i \in 1..Size[b] : fld[b][i] # 0 => mk.color[fld[b][i]] # "blue"
    BY DEF Safe, Index
  <2> QED BY <1>3, <2>1, <2>2
<1> QED BY <1>1, <1>2, <1>3

\* While cleaning, a pointer that can be bypassed to a dead block leads to a dead block.
LEMMA BypassNotWhite ==
    ASSUME Types, Safe, phase = "clean", NEW c \in Value, c = 0 \/ mk.color[c] # "blue", ~White(c)
    PROVE  ~White(ShortCircuit(c, TRUE))
<1>1. PICK y : y = ShortCircuit(c, TRUE)
  OBVIOUS
<1>2. y = c \/ (c \in Block /\ Tag[c] = "fwd" /\ Size[c] = 1 /\ y = fld[c][1])
  BY <1>1, ShortCircuitFacts
<1>3. CASE y = c
  BY <1>1, <1>3
<1>4. CASE c \in Block /\ Tag[c] = "fwd" /\ Size[c] = 1 /\ y = fld[c][1]
  <2>1. c # 0 /\ 1 \in 1..Size[c] /\ y \in Value /\ Value = Block \cup {0}
    BY <1>4, TypeFacts
  <2>2. c \notin Doomed
    BY <1>4, <2>1 DEF Doomed, White
  <2>3. y \notin Doomed
    BY <1>4, <2>1, <2>2 DEF Safe, Index, Scanned
  <2> QED BY <1>1, <2>1, <2>3 DEF Doomed, White
<1> QED BY <1>2, <1>3, <1>4

\* What is left of the invariant outside the mark phase.
Rest ==
    /\ cv = 0 /\ hp = 0 /\ ci = 0 /\ mk.gray = << >>
    /\ \A b \in Block : mk.color[b] # "gray"

\* Outside of the mark phase the collector is at rest,
LEMMA RestFacts ==
    ASSUME Types, Scanning, GrayFound, phase # "mark"
    PROVE  Rest
  BY DEF Scanning, GrayFound, Rest

\* and at rest the invariants about marking hold.
LEMMA RestInv ==
    ASSUME prog' = prog, Rest', phase' # "mark", Block' = Block
    PROVE  Scanning' /\ GrayFound' /\ Snapshot' /\ EpheSnapshot'
<1>1. \A j \in 1..Len(mk'.gray) : FALSE
  <2>1. Len(mk'.gray) = 0
    BY DEF Rest
  <2> QED BY <2>1
<1>2. Scanning'
  BY <1>1 DEF Scanning, Rest
<1> QED BY <1>2 DEF Rest, GrayFound, Snapshot, EpheSnapshot

\* An ephemeron that is dead leaves the list.
LEMMA CleanDeadInv ==
    ASSUME IInv, prog' = prog, phase = "clean", Seen < Len(ephes), White(ephes[Seen + 1]),
           ephes' = RemoveAt(ephes, Seen + 1), inSlice' \in BOOLEAN,
           UNCHANGED <<mk, fld, root, phase, sub, hp, cv, ci, checked, tocheck, sweep, first, last, todo, dead>>
    PROVE  IInv'
<1>a. Types /\ Lists /\ Scanning /\ GrayFound /\ Safe /\ Cleaned
  BY DEF IInv
<1>p. Block' = Block /\ Value' = Value /\ Tag' = Tag /\ Size' = Size /\ Slots' = Slots /\ N' = N
  BY ProgSame
<1>l. PICK l : l = ephes
  OBVIOUS
<1>m. PICK m : m = ephes'
  OBVIOUS
<1>t. PICK t : t = Seen
  OBVIOUS
<1>1. /\ l \in Seq(Block) /\ NoDup(l) /\ t \in Nat /\ t < Len(l) /\ m = RemoveAt(l, t + 1)
      /\ \A j \in 1..Len(l) : Tag[l[j]] = "ephe" /\ l[j] \in Block
      /\ tocheck # 0 => Listed(l, tocheck)
      /\ l[t + 1] \in Block /\ mk.color[l[t + 1]] = "white"
  <2>1. Seen \in 0..Len(ephes) /\ Len(ephes) \in Nat
    BY <1>a, ListsFacts
  <2>2. t \in Nat /\ t + 1 \in 1..Len(l) /\ t < Len(l)
    BY <2>1, <1>l, <1>t
  <2>3. m = RemoveAt(l, t + 1)
    BY <1>l, <1>m, <1>t
  <2>4. /\ l \in Seq(Block) /\ NoDup(l)
        /\ \A j \in 1..Len(l) : Tag[l[j]] = "ephe" /\ l[j] \in Block
        /\ tocheck # 0 => Listed(l, tocheck)
    BY <1>a, <1>l, ListsFacts DEF Lists
  <2>5. mk.color[l[t + 1]] = "white"
    BY <1>l, <1>t DEF White
  <2> QED BY <2>2, <2>3, <2>4, <2>5
<1>2. /\ m \in Seq(Block) /\ NoDup(m)
      /\ \A j \in 1..t : m[j] = l[j] /\ j \in 1..Len(m)
      /\ \A p : Listed(m, p) => Listed(l, p)
      /\ \A p : Listed(l, p) /\ p # l[t + 1] => Listed(m, p)
  BY <1>1, RemoveFacts
<1>3. \A j \in 1..Len(m) : \E k \in 1..Len(l) : m[j] = l[k]
  BY <1>2 DEF Listed
<1>4. Types'
  <2>1. FieldTypes'
    BY <1>a, FieldTypesSame DEF Types
  <2> QED BY <1>a, <2>1, ProgSame DEF Types
<1>5. (tocheck # 0 => Listed(m, tocheck)) /\ Seen' = Seen
  <2>1. CASE tocheck = 0
    BY <2>1 DEF Seen, Pos
  <2>2. CASE tocheck # 0
    <3>1. t # 0 /\ l[t] = tocheck /\ t \in 1..t
      <4>1. t = Pos(l, tocheck)
        BY <1>l, <1>t DEF Seen
      <4> QED BY <4>1, <2>2, <1>1, PosFacts
    <3>2. m[t] = tocheck /\ t \in 1..Len(m)
      BY <3>1, <1>2
    <3>3. Listed(m, tocheck) /\ Pos(m, tocheck) = t
      BY <3>2, <2>2, <1>2, PosUnique
    <3> QED BY <3>3, <1>m, <1>t DEF Seen
  <2> QED BY <2>1, <2>2
<1>6. Lists'
  <2>1. \A j \in 1..Len(m) : Tag[m[j]] = "ephe"
    BY <1>1, <1>3
  <2> QED BY <2>1, <1>2, <1>5, <1>m, <1>p DEF Lists
<1>7. Safe'
  <2>0. Doomed' = Doomed /\ Held' = Held
    BY <1>p DEF Doomed, Held
  <2>1. \A b \in Block \ Doomed : Tag[b] = "ephe" => Listed(m, b)
    <3>1. l[t + 1] \in Doomed
      BY <1>1 DEF Doomed
    <3>2. \A b \in Block \ Doomed : Tag[b] = "ephe" => Listed(l, b)
      BY <1>a, <1>l DEF Safe
    <3> QED BY <3>1, <3>2, <1>2
  <2>2. \A j \in 1..Len(m) : mk.color[m[j]] # "blue"
    <3>1. \A j \in 1..Len(l) : mk.color[l[j]] # "blue"
      BY <1>a, <1>l DEF Safe
    <3> QED BY <3>1, <1>3
  <2> QED BY <2>0, <2>1, <2>2, <1>a, <1>m, <1>p DEF Safe, Index
<1>8. Scanning' /\ GrayFound' /\ Snapshot' /\ EpheSnapshot' /\ Colors'
  <2>1. Rest'
    BY <1>a, <1>p, RestFacts DEF Rest
  <2> QED BY <2>1, <1>p, RestInv DEF Colors
<1>9. Cleaned'
  <2>1. \A e : /\ White(e)' <=> White(e)
               /\ White(caml_ephe_clean(e)[1])' <=> White(caml_ephe_clean(e)[1])
    BY <1>p DEF caml_ephe_clean, ShortCircuit, White, Keys, Index
  <2>2. \A j \in 1..Len(l) : ~White(l[j]) => ~White(caml_ephe_clean(l[j])[1])
    BY <1>a, <1>l DEF Cleaned, CleanFindsDataMarked
  <2>3. CleanFindsDataMarked'
    <3> SUFFICES ASSUME NEW j \in 1..Len(m), ~White(m[j]) PROVE ~White(caml_ephe_clean(m[j])[1])'
      BY <2>1, <1>m DEF CleanFindsDataMarked
    <3>1. PICK k \in 1..Len(l) : m[j] = l[k]
      BY <1>3
    <3> QED BY <3>1, <2>1, <2>2
  <2>4. \A j \in 1..t : ~White(l[j]) /\ \A i \in 1..Size[l[j]] : ~White(fld[l[j]][i])
    BY <1>a, <1>l, <1>t DEF Cleaned, Index
  <2> QED BY <2>3, <2>4, <1>2, <1>5, <1>m, <1>p, <1>t DEF Cleaned, White, Index
<1> QED BY <1>4, <1>6, <1>7, <1>8, <1>9 DEF IInv

\* What may happen to a live ephemeron while the others are cleaned: what appears in it
\* is alive, and its data stays only with the keys that were dead.
CleanEdit(e) ==
    /\ \A i \in 1..Size[e] :
          \/ fld'[e][i] = fld[e][i]
          \/ fld'[e][i] = 0
          \/ fld'[e][i] \in Block /\ mk.color[fld'[e][i]] \notin {"white", "blue"}
    /\ \/ fld'[e][1] = 0
       \/ fld'[e][1] \in Block /\ mk.color[fld'[e][1]] \notin {"white", "blue"}
       \/ /\ fld'[e][1] = fld[e][1]
          /\ \A k \in 2..Size[e] : fld'[e][k] = fld[e][k] \/ ~White(fld[e][k])

\* An ephemeron that is alive and holds nothing dead.
CleanNow(e) ==
    /\ mk'.color[e] # "white"
    /\ \A i \in 1..Size[e] : fld'[e][i] = 0 \/ mk'.color[fld'[e][i]] # "white"

ColorsKept == \A b \in Block : mk.color[b] # "blue" => mk'.color[b] = mk.color[b]
ForwardsSame == \A b \in Block : Tag[b] = "fwd" /\ mk.color[b] # "blue" => fld'[b][1] = fld[b][1]

\* A step of the clean phase that edits ephemerons only so keeps the rest to be cleaned cleanable.
LEMMA CleanStep ==
    ASSUME Types, Lists, Safe, Cleaned, phase = "clean", phase' = "clean", prog' = prog,
           ColorsKept, ForwardsSame, 0 \notin Block, ephes' \in Seq(Block),
           \A e \in Block : Tag[e] = "ephe" /\ mk.color[e] # "blue" => CleanEdit(e),
           \A j \in 1..Len(ephes') : CleanNow(ephes'[j]) \/ Listed(ephes, ephes'[j]),
           \A j \in 1..Seen' : j \in 1..Len(ephes') /\ (CleanNow(ephes'[j]) \/ \E k \in 1..Seen : ephes'[j] = ephes[k])
    PROVE  Cleaned'
<1>p. Block' = Block /\ Value' = Value /\ Tag' = Tag /\ Size' = Size
  BY ProgSame
<1>t. /\ Value = Block \cup {0} /\ mk.color \in [Block -> Color]
      /\ \A b \in Block : \A i \in 1..Size[b] : fld[b][i] \in Value
      /\ \A b \in Block : 1 \in 1..Size[b] /\ \A k \in 2..Size[b] : k \in 1..Size[b]
      /\ \A b \in Block : Tag[b] = "fwd" => Size[b] = 1
  <2>1. \A b \in Block : Size[b] \in Nat \ {0}
    BY TypeFacts
  <2>2. \A b \in Block : 1 \in 1..Size[b] /\ \A k \in 2..Size[b] : k \in 1..Size[b]
    BY <2>1
  <2> QED BY <2>2, TypeFacts
<1>1. /\ \A j \in 1..Len(ephes) : mk.color[ephes[j]] # "blue" /\ ephes[j] \in Block /\ Tag[ephes[j]] = "ephe"
      /\ \A b \in Block : mk.color[b] # "blue" /\ Tag[b] # "noscan" =>
            \A i \in 1..Size[b] : fld[b][i] # 0 => mk.color[fld[b][i]] # "blue"
      /\ Seen \in 0..Len(ephes) /\ Len(ephes) \in Nat
  BY ListsFacts DEF Safe, Index
<1>2. \A b \in Block : mk.color[b] # "blue" => (White(b)' <=> White(b))
  BY DEF ColorsKept, White
<1>3. ASSUME NEW e \in Block, Tag[e] = "ephe", mk.color[e] # "blue", NEW k \in 2..Size[e],
             White(ShortCircuit(fld[e][k], TRUE)), fld'[e][k] = fld[e][k] \/ ~White(fld[e][k])
      PROVE  KeyDead(e)'
  <2>1. PICK c : c = fld[e][k]
    OBVIOUS
  <2>2. c \in Value /\ (c = 0 \/ mk.color[c] # "blue")
    BY <2>1, <1>1, <1>3, <1>t
  <2>3. White(c)
    BY <2>1, <2>2, <1>3, BypassNotWhite
  <2>4. fld'[e][k] = c /\ c \in Block
    BY <2>1, <2>2, <2>3, <1>3, <1>t DEF White
  <2>5. PICK y : y = ShortCircuit(c, TRUE)
    OBVIOUS
  <2>6. y \in Block /\ mk.color[y] = "white"
    <3>1. y \in Value
      BY <2>2, <2>5, ShortCircuitFacts
    <3> QED BY <3>1, <2>1, <2>5, <1>3, <1>t DEF White
  <2>7. mk'.color[y] = "white"
    BY <2>6 DEF ColorsKept
  <2>8. ShortCircuit(c, TRUE)' = y
    <3>1. Tag[c] = "fwd" => fld'[c][1] = fld[c][1]
      BY <2>2, <2>4 DEF ForwardsSame
    <3> QED BY <3>1, <2>5, <1>p DEF ShortCircuit
  <2> QED BY <2>4, <2>6, <2>7, <2>8, <1>p DEF KeyDead, Keys, White
<1>4. ASSUME NEW j \in 1..Len(ephes'), ~White(ephes[j])'
      PROVE  KeyDead(ephes[j])' \/ ~White(fld[ephes[j]][1])'
  <2>1. PICK e : e = ephes'[j]
    OBVIOUS
  <2>2. CASE CleanNow(e)
    <3>1. e \in Block
      BY <2>1
    <3> QED BY <3>1, <2>1, <2>2, <1>t DEF CleanNow, White
  <2>3. CASE Listed(ephes, e)
    <3>1. PICK k \in 1..Len(ephes) : ephes[k] = e
      BY <2>3 DEF Listed
    <3>2. e \in Block /\ Tag[e] = "ephe" /\ mk.color[e] # "blue" /\ CleanEdit(e) /\ 1 \in 1..Size[e]
      BY <3>1, <1>1, <1>t
    <3>3. ~White(e)
      <4>1. ~White(e)'
        BY <2>1, <1>4 DEF White
      <4> QED BY <4>1, <3>2, <1>2
    <3>4. CASE fld'[e][1] = 0 \/ (fld'[e][1] \in Block /\ mk.color[fld'[e][1]] \notin {"white", "blue"})
      BY <3>4, <2>1 DEF White, ColorsKept
    <3>5. CASE /\ fld'[e][1] = fld[e][1]
               /\ \A i \in 2..Size[e] : fld'[e][i] = fld[e][i] \/ ~White(fld[e][i])
      <4>1. KeyDead(e) => KeyDead(e)'
        BY <3>2, <3>5, <1>3 DEF KeyDead, Keys
      <4>2. ASSUME ~KeyDead(e) PROVE ~White(fld[e][1])
        <5>1. PICK g : g = caml_ephe_clean(e)
          OBVIOUS
        <5>2. g[1] = IF KeyDead(e) THEN 0 ELSE fld[e][1]
          BY <5>1, <3>2, CleanFacts, Zenon
        <5>3. ~White(g[1])
          BY <5>1, <3>1, <3>3 DEF Cleaned, CleanFindsDataMarked
        <5> QED BY <5>2, <5>3, <4>2
      <4>3. fld[e][1] \in Value /\ (fld[e][1] # 0 => mk.color[fld[e][1]] # "blue")
        BY <3>2, <1>1, <1>t
      <4>4. ASSUME ~KeyDead(e) PROVE ~White(fld[e][1])'
        BY <4>2, <4>3, <4>4, <3>5, <1>t DEF White, ColorsKept
      <4> QED BY <4>1, <4>4, <2>1 DEF KeyDead, White, Keys, ShortCircuit
    <3> QED BY <3>2, <3>4, <3>5 DEF CleanEdit
  <2> QED BY <2>1, <2>2, <2>3
<1>5. CleanFindsDataMarked'
  <2> SUFFICES ASSUME NEW j \in 1..Len(ephes'), ~White(ephes[j])'
               PROVE  ~White(caml_ephe_clean(ephes[j])[1])'
    BY DEF CleanFindsDataMarked
  <2>1. PICK e : e = ephes'[j]
    OBVIOUS
  <2>2. e \in Block /\ 1 \in 1..Size[e]
    BY <2>1, <1>t
  <2>3. caml_ephe_clean(ephes[j])[1]' = IF KeyDead(ephes[j])' THEN 0 ELSE fld'[ephes'[j]][1]
    BY <2>1, <2>2, <1>p DEF caml_ephe_clean, KeyDead, Index
  <2> QED BY <2>3, <1>4 DEF White
<1>6. ASSUME NEW j \in 1..Seen'
      PROVE  ~White(ephes[j])' /\ \A i \in 1..Size[ephes'[j]] : ~White(fld[ephes[j]][i])'
  <2>1. PICK e : e = ephes'[j]
    OBVIOUS
  <2>2. CASE CleanNow(e)
    BY <2>1, <2>2 DEF CleanNow, White
  <2>3. CASE \E k \in 1..Seen : e = ephes[k]
    <3>1. PICK k \in 1..Seen : e = ephes[k]
      BY <2>3
    <3>2. e \in Block /\ Tag[e] = "ephe" /\ mk.color[e] # "blue" /\ CleanEdit(e)
      <4>1. k \in 1..Len(ephes)
        BY <1>1
      <4> QED BY <4>1, <3>1, <1>1
    <3>3. ~White(e) /\ \A i \in 1..Size[e] : ~White(fld[e][i])
      BY <3>1 DEF Cleaned, Index
    <3>4. ASSUME NEW i \in 1..Size[e] PROVE ~White(fld[e][i])'
      <4>1. fld[e][i] = 0 \/ (fld[e][i] \in Block /\ mk.color[fld[e][i]] \notin {"white", "blue"})
        BY <3>2, <3>3, <1>1, <1>t DEF White
      <4>2. fld'[e][i] = 0 \/ (fld'[e][i] \in Block /\ mk.color[fld'[e][i]] \notin {"white", "blue"})
        BY <4>1, <3>2 DEF CleanEdit
      <4> QED BY <4>2 DEF White, ColorsKept
    <3>5. ~White(e)'
      BY <3>2, <3>3, <1>2
    <3> QED BY <3>4, <3>5, <2>1 DEF White
  <2> QED BY <2>1, <2>2, <2>3
<1> QED BY <1>5, <1>6, <1>p DEF Cleaned, Index, White

\* An ephemeron that is alive is cleaned.
LEMMA CleanLiveInv ==
    ASSUME IInv, prog' = prog, phase = "clean", Seen < Len(ephes), NEW v, v = ephes[Seen + 1], ~White(v),
           fld' = [fld EXCEPT ![v] = caml_ephe_clean(v)], tocheck' = v, inSlice' \in BOOLEAN,
           UNCHANGED <<mk, root, phase, sub, hp, cv, ci, ephes, checked, sweep, first, last, todo, dead>>
    PROVE  IInv'
<1>a. Types /\ Lists /\ Scanning /\ GrayFound /\ Safe /\ Cleaned
  BY DEF IInv
<1>p. Block' = Block /\ Value' = Value /\ Tag' = Tag /\ Size' = Size /\ Slots' = Slots /\ N' = N
  BY ProgSame
<1>1. /\ Seen \in 0..Len(ephes) /\ Len(ephes) \in Nat /\ Seen + 1 \in 1..Len(ephes)
      /\ ephes \in Seq(Block) /\ NoDup(ephes)
      /\ \A j \in 1..Len(ephes) : Tag[ephes[j]] = "ephe" /\ ephes[j] \in Block
  <2>1. Seen \in 0..Len(ephes) /\ Len(ephes) \in Nat
    BY <1>a, ListsFacts
  <2> QED BY <2>1, <1>a, ListsFacts DEF Lists
<1>2. v \in Block /\ Tag[v] = "ephe" /\ mk.color[v] \notin {"white", "blue"}
  <2>1. v \in Block /\ Tag[v] = "ephe" /\ mk.color[v] # "blue"
    BY <1>1, <1>a DEF Safe
  <2> QED BY <2>1, <1>a, TypeFacts DEF White
<1>g. PICK g : g = caml_ephe_clean(v)
  OBVIOUS
<1>t. /\ 0 \notin Block /\ Value = Block \cup {0} /\ mk.color \in [Block -> Color] /\ 1 \in 1..Size[v]
      /\ \A b \in Block : \A i \in 1..Size[b] : fld[b][i] \in Value
      /\ \A i \in 1..Size[v] : i = 1 \/ i \in 2..Size[v]
  <2>1. Size[v] \in Nat \ {0}
    BY <1>2, <1>a, TypeFacts
  <2>2. 1 \in 1..Size[v] /\ \A i \in 1..Size[v] : i = 1 \/ i \in 2..Size[v]
    BY <2>1
  <2> QED BY <2>2, <1>a, TypeFacts
<1>3. /\ g \in [1..Size[v] -> Value]
      /\ g[1] = IF KeyDead(v) THEN 0 ELSE fld[v][1]
      /\ \A k \in 2..Size[v] : /\ ~White(g[k])
                               /\ g[k] = 0 \/ g[k] = ShortCircuit(fld[v][k], TRUE)
  BY <1>a, <1>2, <1>g, CleanFacts, Zenon
<1>4. FieldTypes' /\ fld'[v] = g /\ \A b \in Block : b # v => fld'[b] = fld[b]
  <2>1. fld' = [fld EXCEPT ![v] = g]
    BY <1>g
  <2> QED BY <2>1, <1>2, <1>3, <1>a, BlockUpdate
<1>5. Types'
  BY <1>a, <1>2, <1>4, <1>t, ProgSame DEF Types
<1>6. Listed(ephes, v) /\ Pos(ephes, v) = Seen + 1 /\ Seen' = Seen + 1
  <2>1. Listed(ephes, v) /\ Pos(ephes, v) = Seen + 1
    BY <1>1, <1>2, <1>t, PosUnique
  <2> QED BY <2>1 DEF Seen
<1>7. Lists'
  BY <1>6, <1>a, <1>p DEF Lists
<1>n. \A b \in Block : mk.color[b] # "blue" /\ Tag[b] # "noscan" =>
              \A i \in 1..Size[b] : fld[b][i] # 0 => mk.color[fld[b][i]] # "blue"
  BY <1>a DEF Safe, Index
<1>8. ASSUME NEW i \in 1..Size[v] PROVE g[i] = 0 \/ (g[i] \in Block /\ mk.color[g[i]] \notin {"white", "blue"})
  <2>0. g[i] \in Value
    BY <1>3
  <2>1. CASE i = 1
    <3>1. ~White(g[1])
      <4>1. ~White(caml_ephe_clean(ephes[Seen + 1])[1])
        BY <1>a, <1>1 DEF Cleaned, CleanFindsDataMarked
      <4> QED BY <4>1, <1>g
    <3>2. g[1] = 0 \/ mk.color[g[1]] # "blue"
      BY <1>2, <1>3, <1>n, <1>t
    <3> QED BY <2>0, <2>1, <3>1, <3>2, <1>t DEF White
  <2>2. CASE i \in 2..Size[v]
    <3>1. PICK c : c = fld[v][i]
      OBVIOUS
    <3>2. c \in Value /\ (c = 0 \/ mk.color[c] # "blue")
      BY <3>1, <1>2, <1>n, <1>t
    <3>3. ~White(g[i]) /\ (g[i] = 0 \/ g[i] = ShortCircuit(c, TRUE))
      BY <2>2, <3>1, <1>3
    <3>4. g[i] = 0 \/ mk.color[g[i]] # "blue"
      BY <3>2, <3>3, <1>a, BypassNotBlue
    <3> QED BY <2>0, <3>3, <3>4, <1>t DEF White
  <2> QED BY <2>1, <2>2, <1>t
<1>9. Safe'
  <2>0. Doomed' = Doomed /\ Held' = Held
    BY <1>p DEF Doomed, Held
  <2>1. \A b \in Block : mk.color[b] # "blue" /\ Tag[b] # "noscan" =>
              \A i \in 1..Size[b] : fld'[b][i] # 0 => mk.color[fld'[b][i]] # "blue"
    BY <1>n, <1>4, <1>8
  <2>2. \A b \in Block \ Doomed : Tag[b] \in Scanned => \A i \in 1..Size[b] : fld'[b][i] \notin Doomed
    BY <1>a, <1>2, <1>4 DEF Safe, Index, Scanned
  <2> QED BY <2>0, <2>1, <2>2, <1>a, <1>p DEF Safe, Index
<1>10. Scanning' /\ GrayFound' /\ Snapshot' /\ EpheSnapshot' /\ Colors'
  <2>1. Rest'
    BY <1>a, <1>p, RestFacts DEF Rest
  <2> QED BY <2>1, <1>p, RestInv DEF Colors
<1>11. Cleaned'
  <2>1. ColorsKept /\ ForwardsSame
    BY <1>2, <1>4 DEF ColorsKept, ForwardsSame
  <2>2. CleanEdit(v) /\ CleanNow(v)
    BY <1>2, <1>4, <1>8, <1>t DEF CleanEdit, CleanNow
  <2>3. ASSUME NEW e \in Block, e # v PROVE CleanEdit(e)
    BY <2>3, <1>4 DEF CleanEdit
  <2>4. \A e \in Block : CleanEdit(e)
    BY <2>2, <2>3
  <2>5. \A j \in 1..Len(ephes') : CleanNow(ephes'[j]) \/ Listed(ephes, ephes'[j])
    BY DEF Listed
  <2>6. ASSUME NEW j \in 1..Seen'
        PROVE  j \in 1..Len(ephes') /\ (CleanNow(ephes'[j]) \/ \E k \in 1..Seen : ephes'[j] = ephes[k])
    <3>1. CASE j = Seen + 1
      BY <3>1, <2>2, <1>1
    <3>2. CASE j \in 1..Seen
      BY <3>2, <1>1
    <3>3. j = Seen + 1 \/ j \in 1..Seen
      BY <1>1, <1>6
    <3> QED BY <3>1, <3>2, <3>3
  <2> QED BY <2>1, <2>4, <2>5, <2>6, <1>1, <1>a, <1>t, CleanStep
<1> QED BY <1>5, <1>7, <1>9, <1>10, <1>11 DEF IInv

\* The last ephemeron has been cleaned.
LEMMA CleanDoneInv ==
    ASSUME IInv, prog' = prog, phase = "clean", Seen = Len(ephes),
           phase' = "sweep", sweep' = 1, inSlice' = FALSE,
           UNCHANGED <<mk, fld, root, sub, hp, cv, ci, ephes, checked, tocheck, first, last, todo, dead>>
    PROVE  IInv'
<1>a. Types /\ Lists /\ Scanning /\ GrayFound /\ Safe /\ Cleaned
  BY DEF IInv
<1>p. Block' = Block /\ Value' = Value /\ Tag' = Tag /\ Size' = Size /\ Slots' = Slots /\ N' = N
  BY ProgSame
<1>t. /\ 0 \notin Block /\ Value = Block \cup {0} /\ mk.color \in [Block -> Color]
      /\ \A b \in Block : \A i \in 1..Size[b] : fld[b][i] \in Value
      /\ N \in Nat /\ Block = 1..N
  BY <1>a, TypeFacts
<1>1. Types'
  <2>1. FieldTypes'
    BY <1>a, FieldTypesSame DEF Types
  <2>2. sweep' \in 1..(N + 1)
    BY <1>t
  <2>3. inSlice' \in BOOLEAN
    OBVIOUS
  <2> QED BY <1>a, <2>1, <2>2, <2>3, ProgSame DEF Types
<1>2. Doomed' = Doomed /\ Held' = Held
  <2>1. \A b \in Block : sweep' <= b
    BY <1>t
  <2>2. \A b \in Block : b \in Doomed' <=> b \in Doomed
    BY <2>1, <1>p DEF Doomed
  <2>3. Doomed \subseteq Block /\ Doomed' \subseteq Block
    BY <1>p DEF Doomed
  <2>4. Held' = Held
    BY <1>p DEF Held
  <2> QED BY <2>2, <2>3, <2>4
<1>3. \A j \in 1..Len(ephes) : /\ mk.color[ephes[j]] # "white"
                               /\ \A i \in 1..Size[ephes[j]] : fld[ephes[j]][i] # 0 => mk.color[fld[ephes[j]][i]] # "white"
  <2>1. \A j \in 1..Len(ephes) : ephes[j] \in Block
    BY <1>a, ListsFacts
  <2> QED BY <2>1, <1>a, <1>t DEF Cleaned, White, Index
<1>4. \A j \in 1..Len(ephes) : ephes[j] \notin Doomed
  BY <1>3, <1>a DEF Safe, Doomed
<1>5. ASSUME NEW b \in Block \ Doomed, Tag[b] = "ephe", NEW i \in 1..Size[b] PROVE fld[b][i] \notin Doomed
  <2>1. PICK j \in 1..Len(ephes) : ephes[j] = b
    BY <1>a, <1>5 DEF Safe, Listed
  <2>2. fld[b][i] # 0 => mk.color[fld[b][i]] # "white"
    BY <2>1, <1>3
  <2>3. mk.color[b] # "blue"
    BY <1>5 DEF Doomed
  <2>4. fld[b][i] # 0 => mk.color[fld[b][i]] # "blue"
    BY <2>3, <1>a, <1>5 DEF Safe, Index
  <2> QED BY <2>2, <2>4, <1>t DEF Doomed
<1>6. Safe'
  BY <1>2, <1>4, <1>5, <1>a, <1>p DEF Safe, Index
<1>7. Lists'
  BY <1>a, <1>p DEF Lists
<1>8. Scanning' /\ GrayFound' /\ Snapshot' /\ EpheSnapshot'
  <2>1. Rest'
    BY <1>a, <1>p, RestFacts DEF Rest
  <2> QED BY <2>1, <1>p, RestInv
<1>9. Colors' /\ Cleaned'
  <2>1. \A b \in Block : ~(b < sweep')
    BY <1>t
  <2> QED BY <2>1, <1>p DEF Colors, Cleaned
<1> QED BY <1>1, <1>6, <1>7, <1>8, <1>9 DEF IInv

\* clean_slice.
LEMMA CleanSliceInv ==
    ASSUME IInv, clean_slice, prog' = prog
    PROVE  IInv'
<1>a. Types /\ Lists
  BY DEF IInv
<1>1. phase = "clean" /\ UNCHANGED <<mk, root, sub, hp, cv, ci, checked, first, last, todo, dead>>
  BY DEF clean_slice, marking, finals
<1>2. /\ Seen \in 0..Len(ephes) /\ Len(ephes) \in Nat
      /\ \A j \in 1..Len(ephes) : ephes[j] \in Block
      /\ 0 \notin Block
  BY <1>a, <1>1, ListsFacts, TypeFacts
<1>3. CASE /\ At(tocheck) # 0 /\ White(At(tocheck))
           /\ ephes' = RemoveAt(ephes, Pos(ephes, tocheck) + 1)
           /\ inSlice' \in BOOLEAN
           /\ UNCHANGED <<fld, tocheck, phase, sweep>>
  <2>1. Seen < Len(ephes) /\ At(tocheck) = ephes[Seen + 1]
    BY <1>3 DEF At, Seen
  <2>2. White(ephes[Seen + 1]) /\ ephes' = RemoveAt(ephes, Seen + 1)
    BY <1>3, <2>1 DEF Seen
  <2> QED BY <1>1, <1>3, <2>1, <2>2, CleanDeadInv
<1>4. CASE /\ At(tocheck) # 0 /\ ~White(At(tocheck))
           /\ fld' = [fld EXCEPT ![At(tocheck)] = caml_ephe_clean(At(tocheck))]
           /\ tocheck' = At(tocheck)
           /\ inSlice' \in BOOLEAN
           /\ UNCHANGED <<ephes, phase, sweep>>
  <2>1. PICK v : v = At(tocheck)
    OBVIOUS
  <2>2. Seen < Len(ephes) /\ v = ephes[Seen + 1]
    BY <1>4, <2>1 DEF At, Seen
  <2>3. ~White(v) /\ fld' = [fld EXCEPT ![v] = caml_ephe_clean(v)] /\ tocheck' = v
    BY <1>4, <2>1
  <2> QED BY <1>1, <1>4, <2>2, <2>3, CleanLiveInv, Zenon
<1>5. CASE /\ At(tocheck) = 0 /\ phase' = "sweep" /\ sweep' = 1 /\ inSlice' = FALSE
           /\ UNCHANGED <<fld, ephes, tocheck>>
  <2>1. Seen = Len(ephes)
    <3> SUFFICES ASSUME Seen < Len(ephes) PROVE FALSE
      BY <1>2
    <3>1. Seen + 1 \in 1..Len(ephes) /\ ephes[Seen + 1] = 0
      BY <1>2, <1>5 DEF At, Seen
    <3> QED BY <3>1, <1>2
  <2> QED BY <1>1, <1>5, <2>1, CleanDoneInv
<1> QED BY <1>3, <1>4, <1>5 DEF clean_slice, WorkDone

(***************************************************************************)
(* Sweeping                                                                *)
(***************************************************************************)
\* One block is freed, or made white for the next cycle.
LEMMA SweepBlockInv ==
    ASSUME IInv, prog' = prog, phase = "sweep", sweep <= N,
           mk' = [mk EXCEPT !.color[sweep] = IF @ \in {"white", "blue"} THEN "blue" ELSE "white"],
           fld' = IF White(sweep) THEN [fld EXCEPT ![sweep] = [i \in Index(sweep) |-> 0]] ELSE fld,
           sweep' = sweep + 1, inSlice' \in BOOLEAN,
           UNCHANGED <<root, phase, sub, hp, cv, ci, ephes, checked, tocheck, first, last, todo, dead>>
    PROVE  IInv'
<1>a. Types /\ Lists /\ Scanning /\ Colors /\ GrayFound /\ Safe
  BY DEF IInv
<1>p. Block' = Block /\ Value' = Value /\ Tag' = Tag /\ Size' = Size /\ Slots' = Slots /\ N' = N
  BY ProgSame
<1>t. /\ 0 \notin Block /\ Value = Block \cup {0} /\ mk.color \in [Block -> Color] /\ mk \in MarkState
      /\ N \in Nat /\ Block = 1..N /\ sweep \in Block /\ sweep \in Nat
  <2>1. sweep \in 1..(N + 1) /\ mk \in MarkState
    BY <1>a DEF Types
  <2> QED BY <2>1, <1>a, TypeFacts
<1>1. /\ mk' \in MarkState /\ mk'.gray = mk.gray /\ mk'.color \in [Block -> Color]
      /\ \A b \in Block : b # sweep => mk'.color[b] = mk.color[b]
      /\ mk'.color[sweep] = IF mk.color[sweep] \in {"white", "blue"} THEN "blue" ELSE "white"
  <2>1. PICK x \in Color : x = IF mk.color[sweep] \in {"white", "blue"} THEN "blue" ELSE "white"
    BY DEF Color
  <2>2. PICK c \in [Block -> Color] : c = [mk.color EXCEPT ![sweep] = x]
    BY <1>t
  <2>3. mk' = [mk EXCEPT !.color = c]
    BY <2>1, <2>2
  <2>4. mk' \in MarkState /\ mk'.color = c /\ mk'.gray = mk.gray
    BY <2>3, <1>t DEF MarkState
  <2> QED BY <2>1, <2>2, <2>4, <1>t
<1>2. FieldTypes' /\ \A b \in Block : b # sweep \/ ~White(sweep) => fld'[b] = fld[b]
  <2>1. CASE White(sweep)
    <3>1. PICK g : g = [i \in 1..Size[sweep] |-> 0]
      OBVIOUS
    <3>2. g \in [1..Size[sweep] -> Value] /\ fld' = [fld EXCEPT ![sweep] = g]
      BY <3>1, <2>1, <1>t DEF Index
    <3> QED BY <3>2, <2>1, <1>a, <1>t, BlockUpdate
  <2>2. CASE ~White(sweep)
    BY <2>2, <1>a, FieldTypesSame DEF Types
  <2> QED BY <2>1, <2>2
<1>3. Types'
  <2>1. sweep' \in 1..(N + 1)
    BY <1>t
  <2> QED BY <1>a, <1>1, <1>2, <2>1, ProgSame DEF Types
<1>4. Doomed' = Doomed /\ Held' = Held
  <2>1. ASSUME NEW b \in Block, b # sweep PROVE b \in Doomed' <=> b \in Doomed
    <3>1. sweep <= b <=> sweep' <= b
      BY <2>1, <1>t
    <3> QED BY <2>1, <3>1, <1>1, <1>p DEF Doomed
  <2>2. sweep \in Doomed' <=> sweep \in Doomed
    <3>1. sweep <= sweep /\ ~(sweep' <= sweep)
      BY <1>t
    <3> QED BY <3>1, <1>1, <1>p, <1>t DEF Doomed
  <2>3. Doomed \subseteq Block /\ Doomed' \subseteq Block
    BY <1>p DEF Doomed
  <2>4. Held' = Held
    BY <1>p DEF Held
  <2> QED BY <2>1, <2>2, <2>3, <2>4
<1>5. Safe'
  <2>1. White(sweep) => sweep \in Doomed
    BY <1>t DEF White, Doomed
  <2>2. \A b \in Block \ Doomed : fld'[b] = fld[b]
    BY <2>1, <1>2
  <2>3. \A b \in Block \ Doomed : Tag[b] \in Scanned \/ Tag[b] = "ephe" =>
          \A i \in 1..Size[b] : fld'[b][i] \notin Doomed
    BY <2>2, <1>a DEF Safe, Index
  <2> QED BY <2>3, <1>4, <1>a, <1>p DEF Safe, Index
<1>6. Lists'
  BY <1>a, <1>p DEF Lists
<1>7. Colors'
  <2> SUFFICES ASSUME NEW b \in Block, b < sweep' PROVE mk'.color[b] \in {"white", "blue"}
    BY <1>p DEF Colors
  <2>1. CASE b = sweep
    BY <2>1, <1>1
  <2>2. CASE b # sweep
    <3>1. b < sweep
      BY <2>2, <1>t
    <3> QED BY <3>1, <2>2, <1>1, <1>a DEF Colors
  <2> QED BY <2>1, <2>2
<1>8. Scanning' /\ GrayFound' /\ Snapshot' /\ EpheSnapshot'
  <2>1. Rest
    BY <1>a, RestFacts
  <2>2. \A b \in Block : mk'.color[b] # "gray"
    BY <2>1, <1>1 DEF Rest
  <2>3. Rest'
    BY <2>1, <2>2, <1>1, <1>p DEF Rest
  <2> QED BY <2>3, <1>p, RestInv
<1>9. Cleaned'
  BY DEF Cleaned
<1> QED BY <1>3, <1>5, <1>6, <1>7, <1>8, <1>9 DEF IInv

\* The sweep is over: the cycle ends.
LEMMA SweepDoneInv ==
    ASSUME IInv, prog' = prog, phase = "sweep", sweep > N, phase' = "idle", inSlice' = FALSE,
           UNCHANGED <<mk, fld, root, sub, hp, cv, ci, ephes, checked, tocheck, sweep, first, last, todo, dead>>
    PROVE  IInv'
<1>a. Types /\ Lists /\ Scanning /\ Colors /\ GrayFound /\ Safe
  BY DEF IInv
<1>p. Block' = Block /\ Value' = Value /\ Tag' = Tag /\ Size' = Size /\ Slots' = Slots /\ N' = N
  BY ProgSame
<1>t. /\ 0 \notin Block /\ Value = Block \cup {0} /\ N \in Nat /\ Block = 1..N /\ sweep \in Nat
      /\ \A b \in Block : \A i \in 1..Size[b] : fld[b][i] \in Value
  <2>1. sweep \in 1..(N + 1)
    BY <1>a DEF Types
  <2> QED BY <2>1, <1>a, TypeFacts
<1>1. Types'
  <2>1. FieldTypes'
    BY <1>a, FieldTypesSame DEF Types
  <2>2. inSlice' \in BOOLEAN
    OBVIOUS
  <2> QED BY <1>a, <2>1, <2>2, ProgSame DEF Types
<1>2. \A b \in Block : b < sweep /\ ~(sweep <= b)
  BY <1>t
<1>3. Doomed' = Doomed /\ Held' = Held /\ Doomed = {b \in Block : mk.color[b] = "blue"}
  <2>1. Doomed = {b \in Block : mk.color[b] = "blue"}
    BY <1>2 DEF Doomed
  <2>2. Doomed' = {b \in Block : mk.color[b] = "blue"}
    BY <1>p DEF Doomed
  <2>3. Held' = Held
    BY <1>p DEF Held
  <2> QED BY <2>1, <2>2, <2>3
<1>4. ASSUME NEW b \in Block, mk.color[b] # "blue", Tag[b] # "noscan", NEW i \in 1..Size[b], fld[b][i] # 0
      PROVE  mk.color[fld[b][i]] # "blue"
  <2>1. b \in Block \ Doomed /\ (Tag[b] \in Scanned \/ Tag[b] = "ephe") /\ fld[b][i] \in Block
    BY <1>3, <1>4, <1>a, <1>t, TypeFacts DEF Scanned
  <2>2. fld[b][i] \notin Doomed
    BY <2>1, <1>4, <1>a DEF Safe, Index
  <2> QED BY <2>1, <2>2, <1>3
<1>5. Safe'
  BY <1>3, <1>4, <1>a, <1>p DEF Safe, Index
<1>6. Lists'
  BY <1>a, <1>p DEF Lists
<1>7. Colors' /\ Cleaned'
  BY <1>2, <1>a, <1>p DEF Colors, Cleaned
<1>8. Scanning' /\ GrayFound' /\ Snapshot' /\ EpheSnapshot'
  <2>1. Rest'
    BY <1>a, <1>p, RestFacts DEF Rest
  <2> QED BY <2>1, <1>p, RestInv
<1> QED BY <1>1, <1>5, <1>6, <1>7, <1>8 DEF IInv

\* sweep_slice.
LEMMA SweepSliceInv ==
    ASSUME IInv, sweep_slice, prog' = prog
    PROVE  IInv'
<1>1. phase = "sweep" /\ UNCHANGED <<root, sub, hp, cv, ci, ephes, checked, tocheck, first, last, todo, dead>>
  BY DEF sweep_slice, marking, lists, finals
<1>2. CASE /\ sweep <= N
           /\ mk' = [mk EXCEPT !.color[sweep] = IF @ \in {"white", "blue"} THEN "blue" ELSE "white"]
           /\ fld' = IF White(sweep) THEN [fld EXCEPT ![sweep] = [i \in Index(sweep) |-> 0]] ELSE fld
           /\ sweep' = sweep + 1 /\ inSlice' \in BOOLEAN /\ phase' = phase
  BY <1>1, <1>2, SweepBlockInv, Zenon
<1>3. CASE sweep > N /\ phase' = "idle" /\ inSlice' = FALSE /\ UNCHANGED <<mk, fld, sweep>>
  BY <1>1, <1>3, SweepDoneInv, Zenon
<1> QED BY <1>2, <1>3 DEF sweep_slice, WorkDone

(***************************************************************************)
(* The start of a cycle, and of a slice                                    *)
(***************************************************************************)
LEMMA StartCycleInv ==
    ASSUME IInv, start_cycle, prog' = prog
    PROVE  IInv'
<1>a. Types /\ Lists /\ Scanning /\ Colors /\ GrayFound /\ Safe
  BY DEF IInv
<1>S. PICK S : S = {root[r] : r \in Slots} \cup todo
  OBVIOUS
<1>b. /\ phase = "idle" /\ phase' = "mark" /\ sub' = "roots" /\ hp' = 0 /\ checked' = 0 /\ tocheck' = 0
      /\ \E ok \in BOOLEAN : mk' = [DarkenAll(mk, SetToSeq(S), ok) EXCEPT !.epure = TRUE]
      /\ UNCHANGED <<fld, root, cv, ci, ephes, sweep, inSlice, first, last, todo, dead>>
  BY <1>S DEF start_cycle, finals
<1>p. Block' = Block /\ Value' = Value /\ Tag' = Tag /\ Size' = Size /\ Slots' = Slots /\ N' = N
  BY ProgSame
<1>t. /\ 0 \notin Block /\ Value = Block \cup {0} /\ mk \in MarkState /\ mk.color \in [Block -> Color]
      /\ S \in SUBSET Value /\ N \in Nat
      /\ \A b \in Block : \A i \in 1..Size[b] : fld[b][i] \in Value
  <2>1. \A r \in Slots : root[r] \in Value
    BY <1>a, TypeFacts
  <2>2. todo \subseteq Value
    BY <1>a, TypeFacts DEF Types
  <2> QED BY <2>1, <2>2, <1>S, <1>a, TypeFacts DEF Types
<1>1. PICK n : /\ Darkens(mk, n) /\ mk' = [n EXCEPT !.epure = TRUE]
               /\ \A x \in S : x # 0 => n.color[x] # "white"
  <2>1. PICK ok \in BOOLEAN : mk' = [DarkenAll(mk, SetToSeq(S), ok) EXCEPT !.epure = TRUE]
    BY <1>b
  <2>2. PICK n : n = DarkenAll(mk, SetToSeq(S), ok)
    OBVIOUS
  <2>3. Darkens(mk, n) /\ \A x \in S : x # 0 => n.color[x] # "white"
    BY <2>2, <1>a, <1>t, DarkenSetFacts
  <2>4. mk' = [n EXCEPT !.epure = TRUE]
    BY <2>1, <2>2
  <2> QED BY <2>3, <2>4
<1>2. mk' \in MarkState /\ mk'.color = n.color /\ mk'.gray = n.gray /\ mk'.pure = n.pure /\ n \in MarkState
  BY <1>1 DEF Darkens, MarkState
<1>r. Rest
  BY <1>a, <1>b, RestFacts
<1>3. \A b \in Block : \/ mk'.color[b] = mk.color[b]
                       \/ mk.color[b] = "white" /\ mk'.color[b] = "gray"
                       \/ mk.color[b] = "white" /\ mk'.color[b] = "black" /\ Tag[b] \notin Scanned
  BY <1>1, <1>2 DEF Darkens
<1>i. \A b \in Block : mk.color[b] \in {"white", "blue"}
  BY <1>a, <1>b DEF Colors
<1>4. Types'
  <2>1. FieldTypes'
    BY <1>a, <1>b, FieldTypesSame DEF Types
  <2>2. hp' \in 0..(N + 1)
    BY <1>b, <1>t
  <2>3. /\ cv' \in Value /\ ci' \in Nat /\ sweep' \in 1..(N + 1) /\ inSlice' \in BOOLEAN
        /\ first' \subseteq Block /\ last' \subseteq Block /\ todo' \subseteq Block /\ dead' \subseteq Block
        /\ root' \in [Slots -> Value] /\ prog' \in Programs
    BY <1>a, <1>b DEF Types
  <2>4. phase' \in {"idle", "mark", "clean", "sweep"} /\ sub' \in {"roots", "main", "final"}
    BY <1>b
  <2>5. checked' \in Value /\ tocheck' \in Value
    BY <1>b, <1>t
  <2> QED BY <2>1, <2>2, <2>3, <2>4, <2>5, <1>2, ProgSame DEF Types
<1>5. Done' = 0 /\ Seen' = 0
  BY <1>b DEF Done, Seen, Pos
<1>6. Lists'
  BY <1>5, <1>a, <1>b, <1>p DEF Lists
<1>7. Scanning' /\ GrayFound'
  <2>1. /\ \A j \in 1..Len(n.gray) : n.color[n.gray[j]] = "gray"
        /\ \A b \in Block : n.color[b] = "gray" => b \in ToSet(n.gray) \/ ~n.pure
    <3>1. Cached(mk) = {}
      <4>1. Len(mk.gray) = 0
        BY <1>r DEF Rest
      <4>2. Cached(mk) = {mk.gray[j] : j \in 1..Len(mk.gray)}
        BY <1>t, CachedFacts
      <4> QED BY <4>1, <4>2
    <3>2. Cached(n) = {n.gray[j] : j \in 1..Len(n.gray)}
      BY <1>2, CachedFacts
    <3>3. \A b \in Cached(n) : n.color[b] = "gray"
      BY <3>1, <1>1 DEF Darkens
    <3>4. \A b \in Block : n.color[b] = "gray" => b \in Cached(n) \/ ~n.pure
      BY <1>1, <1>i DEF Darkens
    <3> QED BY <3>2, <3>3, <3>4 DEF Cached
  <2>2. cv' = 0 /\ ci' = 0
    BY <1>b, <1>r DEF Rest
  <2> QED BY <2>1, <2>2, <1>2, <1>b, <1>p DEF Scanning, GrayFound
<1>8. Safe'
  <2>1. Doomed' = Doomed /\ Held' = Held
    <3>1. Doomed = {b \in Block : mk.color[b] = "blue"} /\ Doomed' = {b \in Block : mk'.color[b] = "blue"}
      BY <1>b, <1>p DEF Doomed
    <3>2. \A b \in Block : mk'.color[b] = "blue" <=> mk.color[b] = "blue"
      BY <1>3
    <3>3. Held' = Held
      BY <1>b, <1>p DEF Held
    <3> QED BY <3>1, <3>2, <3>3
  <2>2. \A b \in Block : mk'.color[b] = "blue" <=> mk.color[b] = "blue"
    BY <1>3
  <2>3. \A b \in Block : Tag[b] # "noscan" /\ mk'.color[b] # "blue" =>
          \A i \in 1..Size[b] : fld[b][i] # 0 => mk'.color[fld[b][i]] # "blue"
    <3>1. \A b \in Block : Tag[b] # "noscan" /\ mk.color[b] # "blue" =>
          \A i \in 1..Size[b] : fld[b][i] # 0 => mk.color[fld[b][i]] # "blue"
      BY <1>a, <1>b DEF Safe, Index
    <3> QED BY <3>1, <2>2, <1>t
  <2> QED BY <2>1, <2>3, <1>a, <1>b, <1>p DEF Safe, Index
<1>9. Snapshot'
  <2>0. cv' = 0
    BY <1>b, <1>r DEF Rest
  <2>1. SUFFICES ASSUME NEW U \in SUBSET Block,
                      \A b \in U : mk'.color[b] = "white",
                      \A b \in Block : b \notin U /\ mk'.color[b] \in {"white", "gray"} /\ Tag[b] \in Scanned =>
                         \A i \in 1..Size[b] : fld[b][i] \notin U
               PROVE  /\ \A r \in Slots : root[r] \notin U
                      /\ todo \cap U = {}
                      /\ \A b \in Block : mk'.color[b] \in {"gray", "black"} /\ Tag[b] \in Scanned =>
                            \A i \in 1..Size[b] : fld[b][i] \notin U
    <3>1. UNCHANGED <<fld, root, todo>> /\ sub' # "final" /\ (\A b \in Block : b # cv')
      BY <2>0, <1>b, <1>t
    <3> QED BY <3>1, <1>p DEF Snapshot, Sealed, Index
  <2>2. \A x \in S : x \notin U
    BY <2>1, <1>1, <1>2, <1>t
  <2>3. (\A r \in Slots : root[r] \notin U) /\ todo \cap U = {}
    BY <2>2, <1>S
  <2>4. ASSUME NEW b \in Block, mk'.color[b] \in {"gray", "black"}, Tag[b] \in Scanned, NEW i \in 1..Size[b]
        PROVE  fld[b][i] \notin U
    <3>1. mk'.color[b] = "gray" /\ b \notin U
      BY <2>1, <2>4, <1>3, <1>i
    <3> QED BY <3>1, <2>1, <2>4
  <2> QED BY <2>3, <2>4
<1>10. EpheSnapshot'
  <2>1. \A j \in 1..0 : FALSE
    OBVIOUS
  <2> QED BY <2>1, <1>5 DEF EpheSnapshot
<1>11. Colors' /\ Cleaned'
  BY <1>b DEF Colors, Cleaned
<1> QED BY <1>4, <1>6, <1>7, <1>8, <1>9, <1>10, <1>11 DEF IInv

\* Nothing of the invariant depends on the slices.
LEMMA SameInv ==
    ASSUME IInv, prog' = prog, inSlice' \in BOOLEAN,
           UNCHANGED <<mk, fld, root, phase, sub, hp, cv, ci, ephes, checked, tocheck, sweep, first, last, todo, dead>>
    PROVE  IInv'
<1>1. /\ Types /\ Lists /\ Scanning /\ Colors /\ GrayFound /\ Safe /\ Snapshot /\ EpheSnapshot /\ Cleaned
  BY DEF IInv
<1>p. N' = N /\ Block' = Block /\ Value' = Value /\ Tag' = Tag /\ Size' = Size /\ Slots' = Slots
  BY ProgSame
<1>2. Types'
  <2>1. FieldTypes'
    BY <1>1, FieldTypesSame DEF Types
  <2> QED BY <2>1, <1>1, ProgSame DEF Types
<1>3. Lists' /\ Done' = Done /\ Seen' = Seen
  BY <1>1, ListsSame
<1>4. Scanning' /\ Colors' /\ GrayFound'
  BY <1>1, <1>p DEF Scanning, Colors, GrayFound
<1>5. Safe'
  <2>1. Doomed' = Doomed /\ Held' = Held
    BY <1>p DEF Doomed, Held
  <2> QED BY <2>1, <1>1, <1>p DEF Safe, Index
<1>6. \A U : Sealed(U)' <=> Sealed(U)
  BY <1>p DEF Sealed, Index
<1>7. Snapshot'
  BY <1>1, <1>6, <1>p DEF Snapshot, Index
<1>8. \A e : /\ White(e)' <=> White(e)
             /\ KeyDead(e)' <=> KeyDead(e)
             /\ White(caml_ephe_clean(e)[1])' <=> White(caml_ephe_clean(e)[1])
  BY <1>p DEF caml_ephe_clean, ShortCircuit, White, Keys, Index, KeyDead
<1>9. EpheSnapshot'
  BY <1>1, <1>3, <1>6, <1>8, <1>p DEF EpheSnapshot
<1>10. Cleaned'
  BY <1>1, <1>3, <1>8, <1>p DEF Cleaned, CleanFindsDataMarked, Index, White
<1> QED BY <1>2, <1>3, <1>4, <1>5, <1>7, <1>9, <1>10 DEF IInv

\* A slice begins, and with it perhaps a cycle.
LEMMA SliceInv ==
    ASSUME IInv, Slice, prog' = prog
    PROVE  IInv'
<1>1. CASE start_cycle
  BY <1>1, StartCycleInv
<1>2. CASE /\ inSlice' = TRUE
           /\ UNCHANGED <<mk, fld, root, phase, sub, marking, lists, sweep, finals>>
  BY <1>2, SameInv DEF marking, lists, finals
<1> QED BY <1>1, <1>2 DEF Slice

\* Every step of the collector preserves the invariant.
LEMMA CollectorInv ==
    ASSUME IInv, Collector, prog' = prog
    PROVE  IInv'
  BY PopGrayInv, MarkFieldInv, MarkNoScanInv, ScanHeapInv, StartScanInv, MarkRootsInv, EpheAuxInv,
     EpheRescanInv, MarkMainDoneInv, MarkFinalDoneInv, CleanSliceInv, SweepSliceInv DEF Collector
=============================================================================
