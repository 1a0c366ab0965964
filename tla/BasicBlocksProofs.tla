-------------------------- MODULE BasicBlocksProofs --------------------------
(***************************************************************************)
(* The inductive invariant of BasicBlocks and the theorems it gives, for   *)
(* every closure.  A run is a block as far as convert_dfs has come with    *)
(* it: an activation on its stack or a finished block.  Runs have          *)
(* different entries, go straight from a block start to the next and do    *)
(* not overlap, so one function D gives the size before every instruction  *)
(* gone through; every size in it, every size in seen and every size of a  *)
(* visit still to be made is a depth the interpreter really can have       *)
(* there, after at most as many steps as D has instructions.  When the     *)
(* stack is empty no visit is left, so D is all the interpreter reaches.   *)
(***************************************************************************)
EXTENDS BasicBlocks, NaturalsInduction, FiniteSetTheorems, TLAPS

-----------------------------------------------------------------------------
(* The inductive invariant *)

Label == Nat \ {0}
ScanSet == [at : Label, todo : Seq(Label), last : BOOLEAN]
VisitSet == [to : Label, size : Nat]
FrameSet == [entry : Label, at : Label, size : Nat, todo : Seq(VisitSet), ended : BOOLEAN,
             exit : Seq(Label)]
BlockSet == [offset : Label, last : Label, exit : Seq(Label), end : Nat]
PendingSet == [type : {"First", "Normal"}, size : Nat, preds : SUBSET Label]

CodeOK == code \in Seq(Instruction) /\ code # <<>>

\* Control runs from l to p without a jump.
Straight(c, l, p) == l <= p /\ \A q \in l..(p - 1) : q <= Len(c) /\ c[q].op \notin Ends

\* Where an instruction jumps to, or goes on to when it ends a block.
LabelSet(c, p) == {c[p].to[k] : k \in DOMAIN c[p].to} \union (IF c[p].op \in Falls THEN {p + 1} ELSE {})

\* The labels of p are a frame's business: it has still to come to p, or has just read it.
Covers(c, S, f, p) ==
    \/ ~f.last /\ Straight(c, f.at, p)
    \/ p = f.at - 1 /\ LabelSet(c, p) \subseteq S \union {f.todo[k] : k \in DOMAIN f.todo}

Closing(c, S, fr) ==
    \A l \in S, p \in 1..Len(c) :
      Straight(c, l, p) => LabelSet(c, p) \subseteq S \/ \E k \in 1..Len(fr) : Covers(c, S, fr[k], p)

ScanInv ==
    /\ frames \in Seq(ScanSet) /\ frames # <<>>
    /\ starts \subseteq Label /\ 1 \in starts
    /\ finished = <<>> /\ maxSize = 0 /\ hasTraps = FALSE
    /\ Closing(code, starts, frames)

\* Once the search has returned, whatever can be jumped to is a block start.
Closed(c, S) == \A l \in S, p \in 1..Len(c) : Straight(c, l, p) => LabelSet(c, p) \subseteq S

\* A finished block as the activation it was when it returned.
BlockRun(b) ==
    [entry |-> b.offset, at |-> b.last, size |-> b.end, todo |-> <<>>, ended |-> TRUE, exit |-> b.exit]
Runs(fr, fi) == {fr[k] : k \in 1..Len(fr)} \union {BlockRun(fi[j]) : j \in 1..Len(fi)}

Joins(S, r) == r.at # r.entry /\ r.at \in S

\* The instructions a run has been through.
Mem(S, r) == r.entry .. (IF r.ended /\ ~Joins(S, r) THEN r.at ELSE r.at - 1)

SearchTypes ==
    /\ starts \subseteq Label /\ 1 \in starts
    /\ frames \in Seq(FrameSet) /\ finished \in Seq(BlockSet)
    /\ DOMAIN seen \subseteq Label /\ seen \in [DOMAIN seen -> PendingSet]
    /\ maxSize \in Nat /\ hasTraps \in BOOLEAN

Entries(fr, fi, se) ==
    /\ \A j, k \in 1..Len(fr) : fr[j].entry = fr[k].entry => j = k
    /\ \A j, k \in 1..Len(fi) : fi[j].offset = fi[k].offset => j = k
    /\ \A j \in 1..Len(fr), k \in 1..Len(fi) : fr[j].entry # fi[k].offset
    /\ DOMAIN se = {r.entry : r \in Runs(fr, fi)}

Pendings(se) ==
    \A l \in DOMAIN se : se[l].preds \subseteq DOMAIN se /\ se[l].type = (IF l = 1 THEN "First" ELSE "Normal")

RunShape(c, S, r) ==
    /\ r.entry \in S /\ r.entry <= r.at
    /\ \A p \in r.entry..(r.at - 1) :
         p <= Len(c) /\ c[p].op \notin Ends /\ (p # r.entry => p \notin S)
    /\ r.ended => r.at <= Len(c)
    /\ (r.ended /\ ~Joins(S, r)) => c[r.at].op \in Ends
    /\ ~r.ended => r.todo = <<>> /\ r.exit = <<>>

\* D gives the stack size found before each instruction gone through so far: Arrive is the one
\* the instruction before, or the jump to the block, leaves.
Arrive(c, se, r, D, p) == IF p = r.entry THEN se[r.entry].size ELSE D[p - 1] + Effect(c[p - 1])

RunDepth(c, S, se, mx, r, D) ==
    /\ \A p \in Mem(S, r) : D[p] = Arrive(c, se, r, D, p)
    /\ (~r.ended \/ Joins(S, r)) => r.size = Arrive(c, se, r, D, r.at)
    /\ (r.ended /\ ~Joins(S, r)) => r.size = ExitSize(c[r.at], D[r.at])
    /\ (r.ended /\ Joins(S, r)) => r.size <= mx

\* The visits at the end of a run, and those made already.
Visits(c, S, r, D) == IF Joins(S, r) THEN <<Visit(r.at, r.size)>> ELSE ExitVisits(c[r.at], r.at, D[r.at])
Visited(se, r, v) ==
    v.to \in DOMAIN se /\ se[v.to].size = v.size /\ v.to # 1 /\ r.entry \in se[v.to].preds
RunExits(c, S, se, r, D) ==
    r.ended =>
      /\ DOMAIN r.exit = DOMAIN Visits(c, S, r, D)
      /\ \A k \in DOMAIN r.exit :
           /\ r.exit[k] = Visits(c, S, r, D)[k].to
           /\ \/ Visited(se, r, Visits(c, S, r, D)[k])
              \/ \E j \in DOMAIN r.todo : r.todo[j] = Visits(c, S, r, D)[k]
      /\ \A j \in DOMAIN r.todo : \E k \in DOMAIN r.exit : r.todo[j] = Visits(c, S, r, D)[k]

Checked(c, mx, ht, D) ==
    \A p \in DOMAIN D :
      /\ p \in 1..Len(c) /\ D[p] \in Nat /\ D[p] <= mx
      /\ IF c[p].op \in Ends THEN ExitAllowed(c[p], D[p]) ELSE Enough(c[p], D[p])
      /\ c[p].op = "pushtrap" => ht

\* Everything found so far can be reached, in W.
RunFound(W, r) ==
    /\ ~r.ended => <<r.at, r.size>> \in W
    /\ \A j \in DOMAIN r.todo : <<r.todo[j].to, r.todo[j].size>> \in W
Found(W, se, R, D) ==
    /\ \A p \in DOMAIN D : <<p, D[p]>> \in W
    /\ \A l \in DOMAIN se : <<l, se[l].size>> \in W
    /\ \A r \in R : RunFound(W, r)

\* What the interpreter can reach in as many steps as there are instructions in D.
Walk == ReachedIn(code, <<1, Arity>>)
Walked(w, D) == w[Cardinality(DOMAIN D)]

ExitsTo(r, l) == \E e \in DOMAIN r.exit : r.exit[e] = l
StackShape(fr, fi) ==
    /\ fr # <<>> => fr[1].entry = 1
    /\ fr = <<>> => fi # <<>> /\ fi[Len(fi)].offset = 1
    /\ \A k \in 1..Len(fr) : k < Len(fr) => fr[k].ended /\ ExitsTo(fr[k], fr[k + 1].entry)

\* Every finished block but the entry is the exit of one that is finished later.
JumpedTo(fr, fi, j) ==
    \/ fi[j].offset = 1
    \/ \E k \in (j + 1)..Len(fi) : ExitsTo(fi[k], fi[j].offset)
    \/ \E k \in 1..Len(fr) : ExitsTo(fr[k], fi[j].offset)
PostOrder(fr, fi) == \A j \in 1..Len(fi) : JumpedTo(fr, fi, j)

SearchInv ==
    /\ SearchTypes /\ Closed(code, starts) /\ Entries(frames, finished, seen) /\ Pendings(seen)
    /\ StackShape(frames, finished) /\ PostOrder(frames, finished)
    /\ \A r \in Runs(frames, finished) : RunShape(code, starts, r)
    /\ seen[1].size = Arity

AllMembers(S, R) == UNION {Mem(S, r) : r \in R}
RunsDeep(c, S, se, mx, R, D) == \A r \in R : RunDepth(c, S, se, mx, r, D) /\ RunExits(c, S, se, r, D)

Deep(c, S, w, fr, fi, se, mx, ht, D) ==
    /\ DOMAIN D = AllMembers(S, Runs(fr, fi))
    /\ RunsDeep(c, S, se, mx, Runs(fr, fi), D)
    /\ Checked(c, mx, ht, D)
    /\ Found(Walked(w, D), se, Runs(fr, fi), D)
Depths(D) == Deep(code, starts, Walk, frames, finished, seen, maxSize, hasTraps, D)

ConvertInv == SearchInv /\ \E D : Depths(D)

\* A set of numbers that is not empty has a least one: induction over the naturals, as the provers
\* can use it.
LEMMA LeastNat ==
    ASSUME NEW T \in SUBSET Nat, T # {}
    PROVE  \E x \in T : \A y \in T : x <= y
<1> DEFINE R == OpToRel(<, Nat)
<1>1. IsWellFoundedOn(R, Nat)
  BY NatLessThanWellFounded
<1>2. PICK x \in T : \A y \in T : ~ (<<y, x>> \in R)
  <2> HIDE DEF R
  <2> QED BY <1>1, WFMin
<1>3. \A y \in T : ~(y < x)
  BY <1>2 DEF OpToRel
<1> QED BY <1>3

Grow(c, S) == S \union UNION {Successors(c[y[1]], y[1], y[2]) : y \in {z \in S : z[1] <= Len(c)}}

\* A function on 0..n that follows the recursion of ReachedIn.
IsWalk(c, x, n, f) == f = [k \in 0..n |-> IF k = 0 THEN {x} ELSE Grow(c, f[k - 1])]

\* Such a function begins with the entry and grows by one step of the interpreter at a time.
LEMMA WalkSteps ==
    ASSUME NEW c, NEW x, NEW n \in Nat, NEW f, IsWalk(c, x, n, f)
    PROVE  /\ f[0] = {x}
           /\ \A k \in 1..n : f[k] = Grow(c, f[k - 1])
<1> DEFINE h == [k \in 0..n |-> IF k = 0 THEN {x} ELSE Grow(c, f[k - 1])]
<1>1. f = h
  BY DEF IsWalk
<1>2. h[0] = {x} /\ \A k \in 1..n : h[k] = Grow(c, f[k - 1])
  OBVIOUS
<1> HIDE DEF h
<1> QED BY <1>1, <1>2

\* There is one, for every bound: the least bound without one would have one.
LEMMA WalkExists ==
    ASSUME NEW c, NEW x, NEW n \in Nat
    PROVE  \E f : IsWalk(c, x, n, f)
<1> DEFINE T == {k \in Nat : ~ \E f : IsWalk(c, x, k, f)}
<1>1. SUFFICES ASSUME T # {} PROVE FALSE
  OBVIOUS
<1>2. PICK m \in T : \A y \in T : m <= y
  BY <1>1, LeastNat
<1>3. m # 0
  <2>1. IsWalk(c, x, 0, [k \in 0..0 |-> {x}])
    BY DEF IsWalk
  <2> QED BY <2>1, <1>2
<1>4. PICK n1 \in Nat : n1 = m - 1 /\ n1 \notin T
  BY <1>2, <1>3
<1>5. PICK f : IsWalk(c, x, n1, f)
  BY <1>4
<1>6. f[0] = {x} /\ \A k \in 1..n1 : f[k] = Grow(c, f[k - 1])
  BY ONLY <1>5, n1 \in Nat, WalkSteps
<1> DEFINE g == [k \in 0..m |-> IF k = m THEN Grow(c, f[n1]) ELSE f[k]]
<1>7. IsWalk(c, x, m, g)
  <2>1. \A k \in 0..n1 : g[k] = f[k]
    BY <1>4
  <2>2. ASSUME NEW k \in 0..m PROVE g[k] = IF k = 0 THEN {x} ELSE Grow(c, g[k - 1])
    <3>1. CASE k = m
      BY <3>1, <1>3, <1>4, <2>1
    <3>2. CASE k # m
      <4>1. k = 0 \/ k \in 1..n1
        BY <3>2, <1>4
      <4>2. CASE k = 0
        BY <4>2, <1>6, <2>1, <1>4
      <4>3. CASE k \in 1..n1
        <5>1. k \in 0..n1 /\ k - 1 \in 0..n1 /\ k # 0
          BY <4>3
        <5>2. g[k] = f[k] /\ g[k - 1] = f[k - 1]
          BY <5>1, <2>1
        <5>3. f[k] = Grow(c, f[k - 1])
          BY <4>3, <1>6
        <5> HIDE DEF g
        <5> QED BY <5>1, <5>2, <5>3
      <4> QED BY <4>1, <4>2, <4>3
    <3> QED BY <3>1, <3>2
  <2> QED BY <2>2 DEF IsWalk
<1> QED BY <1>2, <1>7

\* So ReachedIn is what its recursive definition says.
LEMMA ReachedInIs ==
    ASSUME NEW c, NEW x, Len(c) \in Nat
    PROVE  IsWalk(c, x, 2 * Len(c), ReachedIn(c, x))
<1>1. PICK f : IsWalk(c, x, 2 * Len(c), f)
  BY WalkExists
<1> QED BY <1>1 DEF ReachedIn, IsWalk, Grow

-----------------------------------------------------------------------------
(* Instructions *)

\* Every element of the code is an instruction.
LEMMA CodeFacts ==
    ASSUME CodeOK, NEW p \in 1..Len(code)
    PROVE  code[p] \in Instruction
  BY DEF CodeOK

\* The code is not empty, and the arity is a number.
LEMMA LenFacts ==
    ASSUME CodeOK
    PROVE  Len(code) \in Nat /\ Len(code) >= 1 /\ Arity \in Nat
<1>1. Len(code) \in Nat /\ Len(code) >= 1
  BY DEF CodeOK
<1>2. code[1] \in Instruction
  BY <1>1, CodeFacts
<1> QED BY <1>1, <1>2 DEF Arity, Instruction

\* What the fields of an instruction are.
LEMMA InsFacts ==
    ASSUME NEW i \in Instruction
    PROVE  /\ i.op \in STRING /\ i.n \in Nat /\ i.m \in Nat /\ i.to \in Seq(Label)
           /\ i.op \in Falls \union {"branch"} => Len(i.to) = 1
           /\ i.op \notin Falls \union {"branch", "switch"} => i.to = <<>>
  BY DEF Instruction, Label

\* One less, and never below zero.
LEMMA LessOneFacts ==
    ASSUME NEW n \in Nat
    PROVE  LessOne(n) \in Nat /\ (n > 0 => LessOne(n) = n - 1) /\ (n = 0 => LessOne(n) = 0)
  BY DEF LessOne

\* visit's count of an instruction that ends no block is the interpreter's.
LEMMA EffectIsInterpreters ==
    ASSUME NEW i \in Instruction, i.op \notin Ends
    PROVE  /\ Effect(i) \in Int /\ Need(i) \in Nat
           /\ Effect(i) = InterpPushes(i) - InterpPops(i) + (IF i.op = "closurerec" THEN i.m ELSE 0)
<1>1. i.n \in Nat /\ i.m \in Nat /\ i.op # "pushtrap"
  BY InsFacts DEF Ends, Falls
<1>2. LessOne(i.n) \in Nat /\ (i.n > 0 => LessOne(i.n) = i.n - 1) /\ (i.n = 0 => LessOne(i.n) = 0)
  BY <1>1, LessOneFacts
<1> QED BY <1>1, <1>2 DEF Effect, Growth, Need, InterpPushes, InterpPops

\* The size after an instruction visit accepts is a size again.
LEMMA EffectNat ==
    ASSUME NEW i \in Instruction, i.op \notin Ends, NEW s \in Nat, Enough(i, s)
    PROVE  s + Effect(i) \in Nat
<1>1. i.n \in Nat /\ i.m \in Nat
  BY InsFacts
<1>2. Need(i) \in Nat
  BY EffectIsInterpreters
<1>3. Growth(i) \in Nat
  BY <1>1 DEF Growth
<1> QED BY <1>2, <1>3 DEF Effect, Enough

\* What does not end a block has one successor.
LEMMA SuccessorInside ==
    ASSUME NEW i \in Instruction, i.op \notin Ends, NEW p \in Nat, NEW d \in Nat
    PROVE  Successors(i, p, d) = {<<p + 1, d + Effect(i)>>}
<1>1. i.op \notin {"return", "appterm", "raise", "stop", "branch", "switch"} /\ i.to = <<>>
  BY InsFacts DEF Ends, Falls
<1>2. PICK e : e = d + InterpPushes(i) - InterpPops(i) + (IF i.op = "closurerec" THEN i.m ELSE 0)
  OBVIOUS
<1>3. Successors(i, p, d) = {<<i.to[k], d>> : k \in DOMAIN i.to} \union {<<p + 1, e>>}
  BY <1>1, <1>2 DEF Successors
<1>4. DOMAIN i.to = {}
  BY <1>1
<1>5. e = d + Effect(i)
  <2>1. InterpPushes(i) \in Int /\ InterpPops(i) \in Int /\ i.m \in Int
    BY InsFacts, LessOneFacts DEF InterpPushes, InterpPops
  <2>2. Effect(i) = InterpPushes(i) - InterpPops(i) + (IF i.op = "closurerec" THEN i.m ELSE 0)
    BY EffectIsInterpreters
  <2> QED BY <1>2, <2>1, <2>2
<1> QED BY <1>3, <1>4, <1>5

\* The blocks an exit visits are the interpreter's successors.
VisitsAll(X, vs) == \A x \in X : \E k \in DOMAIN vs : x = <<vs[k].to, vs[k].size>>
Targets(i, p, vs) ==
    \A k \in DOMAIN vs : \/ vs[k].to = p + 1 /\ i.op \in Falls
                         \/ \E j \in DOMAIN i.to : vs[k].to = i.to[j]

\* The visits visit makes from the last instruction of a block are to where the interpreter can go
\* from there, with the interpreter's depth.
LEMMA ExitVisitsAre ==
    ASSUME NEW i \in Instruction, i.op \in Ends, NEW p \in Label, NEW d \in Nat, NEW vs, vs = ExitVisits(i, p, d)
    PROVE  /\ vs \in Seq(VisitSet) /\ ExitSize(i, d) \in Nat
           /\ \A k \in DOMAIN vs : <<vs[k].to, vs[k].size>> \in Successors(i, p, d)
           /\ VisitsAll(Successors(i, p, d), vs)
           /\ Targets(i, p, vs)
<1> USE DEF Label
<1>1. i.op \in STRING /\ i.to \in Seq(Label)
  BY InsFacts
<1>2. ExitSize(i, d) \in Nat
  BY DEF ExitSize, TrapFrame
<1>3. CASE i.op \in Falls
  <2>1. i.to[1] \in Label /\ DOMAIN i.to = {1}
    <3>1. Len(i.to) = 1
      BY <1>3, InsFacts
    <3> QED BY <3>1, <1>1
  <2>2. PICK e : e = IF i.op = "pushtrap" THEN d + 4 ELSE d
    OBVIOUS
  <2>3. Successors(i, p, d) = {<<i.to[1], d>>, <<p + 1, e>>}
    <3>1. i.op \notin {"return", "appterm", "raise", "stop", "branch", "switch", "closurerec"}
      BY <1>3 DEF Falls
    <3>2. InterpPushes(i) = (IF i.op = "pushtrap" THEN 4 ELSE 0) /\ InterpPops(i) = 0
      BY <1>3 DEF Falls, InterpPushes, InterpPops
    <3>3. d + InterpPushes(i) - InterpPops(i) + (IF i.op = "closurerec" THEN i.m ELSE 0) = e
      BY <3>1, <3>2, <2>2
    <3>4. {<<i.to[k], d>> : k \in DOMAIN i.to} = {<<i.to[1], d>>}
      BY <2>1
    <3> QED BY <3>1, <3>3, <3>4 DEF Successors
  <2>4. \/ vs = <<Visit(i.to[1], d), Visit(p + 1, e)>>
        \/ vs = <<Visit(p + 1, e), Visit(i.to[1], d)>>
    BY <1>3, <2>2 DEF ExitVisits, Falls, TrapFrame
  <2>5. Visit(i.to[1], d) \in VisitSet /\ Visit(p + 1, e) \in VisitSet
    BY <2>1, <2>2 DEF Visit, VisitSet
  <2>6. DOMAIN vs = {1, 2} /\ vs \in Seq(VisitSet)
    <3>1. PICK v : v = Visit(i.to[1], d)
      OBVIOUS
    <3>2. PICK w : w = Visit(p + 1, e)
      OBVIOUS
    <3>3. \/ vs = <<v, w>> \/ vs = <<w, v>>
      BY <2>4, <3>1, <3>2
    <3>4. v \in VisitSet /\ w \in VisitSet
      BY <2>5, <3>1, <3>2
    <3>5. <<v, w>> \in Seq(VisitSet) /\ <<w, v>> \in Seq(VisitSet)
      BY ONLY <3>4
    <3>6. 1..2 = {1, 2}
      OBVIOUS
    <3>7. DOMAIN <<v, w>> = 1..2 /\ DOMAIN <<w, v>> = 1..2
      OBVIOUS
    <3> QED BY ONLY <3>3, <3>5, <3>6, <3>7
  <2>7. /\ Visit(i.to[1], d).to = i.to[1] /\ Visit(i.to[1], d).size = d
        /\ Visit(p + 1, e).to = p + 1 /\ Visit(p + 1, e).size = e
    BY DEF Visit
  <2>8. Targets(i, p, vs)
    BY <2>1, <2>4, <2>6, <2>7, <1>3 DEF Targets
  <2>9. VisitsAll(Successors(i, p, d), vs)
    BY <2>3, <2>4, <2>6, <2>7 DEF VisitsAll
  <2> QED BY <2>1, <2>3, <2>4, <2>6, <2>7, <2>8, <2>9, <1>2
<1>4. CASE i.op \in {"branch", "switch"}
  <2>1. vs = [k \in DOMAIN i.to |-> Visit(i.to[k], d)]
    BY <1>4 DEF ExitVisits
  <2>2. Successors(i, p, d) = {<<i.to[k], d>> : k \in DOMAIN i.to}
    BY <1>4 DEF Successors
  <2>3. vs \in Seq(VisitSet) /\ DOMAIN vs = DOMAIN i.to
    <3>1. PICK m \in Nat : DOMAIN i.to = 1..m /\ \A k \in 1..m : i.to[k] \in Label
      BY <1>1
    <3>2. \A k \in 1..m : vs[k] \in VisitSet
      BY <2>1, <3>1 DEF Visit, VisitSet
    <3>3. vs = [k \in 1..m |-> vs[k]]
      BY <2>1, <3>1
    <3> QED BY ONLY <3>1, <3>2, <3>3
  <2>4. \A k \in DOMAIN i.to : vs[k].to = i.to[k] /\ vs[k].size = d
    BY <2>1 DEF Visit
  <2>5. Targets(i, p, vs)
    BY <2>3, <2>4 DEF Targets
  <2>6. VisitsAll(Successors(i, p, d), vs)
    BY <2>2, <2>3, <2>4 DEF VisitsAll
  <2> QED BY <1>2, <2>2, <2>3, <2>4, <2>5, <2>6
<1>5. CASE i.op \notin Falls \union {"branch", "switch"}
  <2>1. vs = [k \in DOMAIN i.to |-> Visit(i.to[k], d)] /\ i.to = <<>>
    BY <1>5, InsFacts DEF ExitVisits, Falls
  <2>2. Successors(i, p, d) = {}
    BY <1>5 DEF Successors, Ends
  <2>3. DOMAIN i.to = {}
    BY <2>1
  <2>4. vs = <<>>
    BY <2>1, <2>3
  <2>5. Targets(i, p, vs)
    BY <2>4 DEF Targets
  <2>6. VisitsAll(Successors(i, p, d), vs)
    BY <2>2 DEF VisitsAll
  <2> QED BY <1>2, <2>2, <2>4, <2>5, <2>6
<1> QED BY <1>3, <1>4, <1>5

-----------------------------------------------------------------------------
(* Stacks of activations *)

\* The stack without its top: its length and its elements.
LEMMA TopFacts ==
    ASSUME NEW S, NEW s \in Seq(S), s # <<>>, NEW b, b = SubSeq(s, 1, Len(s) - 1)
    PROVE  /\ Len(s) \in Nat /\ Len(s) >= 1 /\ s[Len(s)] \in S
           /\ b \in Seq(S) /\ Len(b) = Len(s) - 1
           /\ \A j \in 1..(Len(s) - 1) : b[j] = s[j] /\ s[j] \in S
           /\ b = <<>> <=> Len(s) = 1
<1>1. Len(s) \in Nat /\ Len(s) >= 1
  OBVIOUS
<1>2. PICK m \in Nat : m = Len(s) - 1
  BY <1>1
<1>3. b = SubSeq(s, 1, m) /\ m \in 0..Len(s)
  BY <1>1, <1>2
<1>4. b \in Seq(S) /\ Len(b) = m /\ \A j \in 1..m : b[j] = s[j] /\ j \in 1..Len(s)
  BY ONLY <1>3, s \in Seq(S)
<1>5. b = <<>> <=> m = 0
  <2>1. Len(<<>>) = 0
    OBVIOUS
  <2>2. b = <<>> => m = 0
    BY <2>1, <1>4
  <2>3. m = 0 => b = <<>>
    BY <1>4
  <2> QED BY <2>2, <2>3
<1>6. s[Len(s)] \in S
  BY <1>1
<1>7. 1..(Len(s) - 1) = 1..m /\ (m = 0 <=> Len(s) = 1)
  BY <1>1, <1>2
<1>8. \A j \in 1..m : b[j] = s[j] /\ s[j] \in S
  BY ONLY <1>4, s \in Seq(S)
<1> QED BY <1>1, <1>2, <1>4, <1>5, <1>6, <1>7, <1>8

ReplacesTop(s, x, t) == t = Append(SubSeq(s, 1, Len(s) - 1), x)
TopIs(n, s, x, t) ==
    /\ Len(t) = n /\ t # <<>> /\ t[n] = x
    /\ \A j \in 1..(n - 1) : t[j] = s[j]

\* The stack with its top replaced.
LEMMA ReplaceTop ==
    ASSUME NEW S, NEW s \in Seq(S), s # <<>>, NEW x \in S, NEW t, ReplacesTop(s, x, t)
    PROVE  t \in Seq(S) /\ TopIs(Len(s), s, x, t)
<1>1. PICK b : b = SubSeq(s, 1, Len(s) - 1)
  OBVIOUS
<1>2. /\ Len(s) \in Nat /\ Len(s) >= 1
      /\ b \in Seq(S) /\ Len(b) = Len(s) - 1
      /\ \A j \in 1..(Len(s) - 1) : b[j] = s[j]
  BY <1>1, TopFacts
<1>3. t = Append(b, x)
  BY <1>1 DEF ReplacesTop
<1>4. t \in Seq(S) /\ Len(t) = Len(b) + 1 /\ t[Len(b) + 1] = x /\ \A j \in 1..Len(b) : t[j] = b[j]
  BY ONLY <1>3, <1>2, x \in S
<1>5. PICK n \in Nat : n = Len(s) /\ n >= 1
  BY <1>2
<1>6. Len(t) = n
  BY <1>2, <1>4, <1>5
<1>7. t # <<>>
  BY <1>6, <1>5
<1> QED BY <1>2, <1>4, <1>5, <1>6, <1>7 DEF TopIs

\* The stack with an activation pushed.
LEMMA PushFacts ==
    ASSUME NEW S, NEW s \in Seq(S), NEW x \in S, NEW t, t = Append(s, x)
    PROVE  /\ t \in Seq(S) /\ Len(t) = Len(s) + 1 /\ t # <<>> /\ Len(s) \in Nat
           /\ \A j \in 1..Len(s) : t[j] = s[j]
           /\ t[Len(s) + 1] = x
<1>1. t \in Seq(S) /\ Len(t) = Len(s) + 1 /\ t[Len(s) + 1] = x /\ (\A j \in 1..Len(s) : t[j] = s[j]) /\ Len(s) \in Nat
  OBVIOUS
<1>2. t # <<>>
  BY <1>1
<1> QED BY <1>1, <1>2

\* What follows the first element of a sequence.
LEMMA TailFacts ==
    ASSUME NEW S, NEW s \in Seq(S), s # <<>>
    PROVE  /\ Head(s) \in S /\ Tail(s) \in Seq(S) /\ 1 \in DOMAIN s /\ s[1] = Head(s)
           /\ \A j \in DOMAIN s : s[j] = Head(s) \/ \E k \in DOMAIN Tail(s) : Tail(s)[k] = s[j]
           /\ \A k \in DOMAIN Tail(s) : \E j \in DOMAIN s : s[j] = Tail(s)[k]
<1>1. PICK n \in Nat : n = Len(s) /\ n >= 1 /\ DOMAIN s = 1..n
  OBVIOUS
<1>2. Head(s) = s[1] /\ Head(s) \in S /\ Tail(s) \in Seq(S)
  BY <1>1
<1>3. DOMAIN Tail(s) = 1..(n - 1) /\ \A k \in 1..(n - 1) : Tail(s)[k] = s[k + 1]
  BY <1>1
<1>4. \A j \in 1..n : j = 1 \/ (j - 1 \in 1..(n - 1) /\ (j - 1) + 1 = j)
  BY <1>1
<1>5. \A k \in 1..(n - 1) : k + 1 \in 1..n
  BY <1>1
<1>6. ASSUME NEW j \in DOMAIN s PROVE s[j] = Head(s) \/ \E k \in DOMAIN Tail(s) : Tail(s)[k] = s[j]
  BY <1>1, <1>2, <1>3, <1>4
<1> QED BY <1>1, <1>2, <1>3, <1>5, <1>6

-----------------------------------------------------------------------------
(* find_block_starts_dfs *)

\* The labels find_block_starts_dfs follows are the targets of the instruction.
LEMMA LabelsAre ==
    ASSUME CodeOK, NEW p \in 1..Len(code), NEW ls, ls = Labels(code[p], p)
    PROVE  ls \in Seq(Label) /\ {ls[k] : k \in DOMAIN ls} = LabelSet(code, p)
<1>1. PICK to : to = code[p].to
  OBVIOUS
<1>2. to \in Seq(Label)
  BY <1>1, CodeFacts, InsFacts
<1>3. CASE code[p].op \in Falls
  <2>1. ls = to \o <<p + 1>>
    BY <1>3, <1>1 DEF Labels
  <2>2. p + 1 \in Label
    BY DEF Label
  <2>3. PICK n \in Nat : n = Len(to) /\ DOMAIN to = 1..n
    BY <1>2
  <2>4. ls \in Seq(Label) /\ DOMAIN ls = 1..(n + 1) /\ ls[n + 1] = p + 1 /\ \A k \in 1..n : ls[k] = to[k]
    BY <2>1, <2>2, <2>3, <1>2
  <2>5. LabelSet(code, p) = {to[k] : k \in 1..n} \union {p + 1}
    BY <1>3, <1>1, <2>3 DEF LabelSet
  <2>6. 1..(n + 1) = (1..n) \union {n + 1}
    BY <2>3
  <2>7. \A x : x \in {ls[k] : k \in 1..(n + 1)} <=> x \in {to[k] : k \in 1..n} \union {p + 1}
    BY <2>4, <2>6
  <2>8. {ls[k] : k \in DOMAIN ls} = {ls[k] : k \in 1..(n + 1)}
    BY <2>4
  <2> QED BY <2>4, <2>5, <2>7, <2>8
<1>4. CASE code[p].op \notin Falls
  <2>1. ls = to \o << >>
    BY <1>4, <1>1 DEF Labels
  <2>2. ls = to
    BY <2>1, <1>2
  <2>3. LabelSet(code, p) = {to[k] : k \in DOMAIN to}
    BY <1>4, <1>1 DEF LabelSet
  <2> QED BY <2>2, <2>3, <1>2
<1> QED BY <1>3, <1>4

\* A frame covers no more than its successor does.
LEMMA ScanInstructionKeeps ==
    ASSUME CodeOK, ScanInv, ScanInstruction
    PROVE  ScanInv'
<1> DEFINE n == Len(frames)
           f == [at |-> Top.at + 1, todo |-> Labels(code[Top.at], Top.at), last |-> code[Top.at].op \in Ends]
<1>1. /\ frames \in Seq(ScanSet) /\ frames # <<>> /\ Top.todo = <<>> /\ ~Top.last /\ Top.at <= Len(code)
      /\ frames' = Append(Below, f) /\ starts' = starts /\ code' = code
      /\ finished' = finished /\ maxSize' = maxSize /\ hasTraps' = hasTraps
  BY DEF ScanInv, ScanInstruction
<1>2. n \in Nat /\ n >= 1 /\ Top \in ScanSet /\ Top = frames[n]
  BY <1>1, TopFacts DEF Top
<1>3. Top.at \in 1..Len(code)
  BY <1>1, <1>2, LenFacts DEF ScanSet, Label
<1>4. f \in ScanSet
  <2>1. Labels(code[Top.at], Top.at) \in Seq(Label)
    BY <1>3, LabelsAre
  <2>2. Top.at + 1 \in Label
    BY <1>3 DEF Label
  <2> QED BY <2>1, <2>2 DEF ScanSet
<1> HIDE DEF f
<1>5. frames' \in Seq(ScanSet) /\ Len(frames') = n /\ frames' # <<>> /\ frames'[n] = f /\ \A j \in 1..(n - 1) : frames'[j] = frames[j]
  <2>1. frames \in Seq(ScanSet) /\ frames # <<>> /\ f \in ScanSet
    BY <1>1, <1>4
  <2>2. ReplacesTop(frames, f, frames')
    BY <1>1 DEF Below, ReplacesTop
  <2>3. frames' \in Seq(ScanSet) /\ TopIs(n, frames, f, frames')
    BY ONLY <2>1, <2>2, ReplaceTop
  <2> QED BY <2>3 DEF TopIs
<1>6. ASSUME NEW p \in 1..Len(code), Covers(code, starts, Top, p), ~(LabelSet(code, p) \subseteq starts)
      PROVE  Covers(code, starts, f, p)
  <2>1. p # Top.at - 1
    <3>1. {Top.todo[k] : k \in DOMAIN Top.todo} = {}
      BY <1>1
    <3>2. Straight(code, Top.at, p) => p # Top.at - 1
      BY <1>3 DEF Straight
    <3> QED BY <3>1, <3>2, <1>6 DEF Covers
  <2>2. Straight(code, Top.at, p)
    BY <2>1, <1>6 DEF Covers
  <2>3. CASE p = Top.at
    <3>1. LabelSet(code, p) = {f.todo[k] : k \in DOMAIN f.todo}
      BY <2>3, <1>3, LabelsAre DEF f
    <3>2. p = f.at - 1
      BY <2>3, <1>3 DEF f
    <3> QED BY <3>1, <3>2 DEF Covers
  <2>4. CASE p # Top.at
    <3>1. PICK a \in 1..Len(code) : a = Top.at
      BY <1>3
    <3>2. a < p
      BY <2>2, <2>4, <3>1 DEF Straight
    <3>3. a \in a..(p - 1)
      BY <3>2
    <3>4. code[a].op \notin Ends
      BY <2>2, <3>1, <3>3 DEF Straight
    <3>5. Straight(code, a + 1, p)
      <4>1. \A q \in (a + 1)..(p - 1) : q \in a..(p - 1)
        OBVIOUS
      <4> QED BY <2>2, <3>1, <3>2, <4>1 DEF Straight
    <3>6. ~f.last /\ f.at = a + 1
      BY <3>4, <3>1 DEF f
    <3> QED BY <3>5, <3>6 DEF Covers
  <2> QED BY <2>3, <2>4
<1>7. ASSUME NEW l \in starts, NEW p \in 1..Len(code), Straight(code, l, p), ~(LabelSet(code, p) \subseteq starts)
      PROVE  \E k \in 1..n : Covers(code, starts, frames'[k], p)
  <2>1. PICK k \in 1..n : Covers(code, starts, frames[k], p)
    BY <1>7 DEF ScanInv, Closing
  <2>2. CASE k = n
    <3>1. Covers(code, starts, f, p)
      BY <2>1, <2>2, <1>2, <1>6, <1>7
    <3> QED BY <3>1, <1>5, <1>2
  <2>3. CASE k # n
    BY <2>1, <2>3, <1>5, <1>2
  <2> QED BY <2>2, <2>3
<1>8. Closing(code, starts, frames')
  BY <1>7, <1>5 DEF Closing
<1> QED BY <1>1, <1>5, <1>8 DEF ScanInv

\* Going into a label, or skipping one that is a block start already, keeps the invariant.
LEMMA ScanLabelKeeps ==
    ASSUME CodeOK, ScanInv, ScanLabel
    PROVE  ScanInv'
<1> DEFINE n == Len(frames)
           l == Head(Top.todo)
           g == [Top EXCEPT !.todo = Tail(Top.todo)]
           rest == Append(Below, g)
<1>1. /\ frames \in Seq(ScanSet) /\ frames # <<>> /\ Top.todo # <<>>
      /\ frames' = IF l \in starts THEN rest ELSE Append(rest, Scan(l))
      /\ starts' = starts \union {l} /\ code' = code
      /\ finished' = finished /\ maxSize' = maxSize /\ hasTraps' = hasTraps
      /\ starts \subseteq Label /\ 1 \in starts /\ Closing(code, starts, frames)
      /\ finished = <<>> /\ maxSize = 0 /\ hasTraps = FALSE
  BY DEF ScanInv, ScanLabel
<1>2. n \in Nat /\ n >= 1 /\ Top \in ScanSet /\ Top = frames[n]
  BY <1>1, TopFacts DEF Top
<1>3. /\ l \in Label /\ Tail(Top.todo) \in Seq(Label)
      /\ \A j \in DOMAIN Top.todo : Top.todo[j] = l \/ \E k \in DOMAIN Tail(Top.todo) : Tail(Top.todo)[k] = Top.todo[j]
  <2>1. Top.todo \in Seq(Label) /\ Top.todo # <<>>
    BY <1>1, <1>2 DEF ScanSet
  <2> QED BY ONLY <2>1, TailFacts
<1>4. g \in ScanSet /\ g.at = Top.at /\ g.last = Top.last /\ g.todo = Tail(Top.todo)
  BY <1>2, <1>3 DEF ScanSet
<1>5. Scan(l) \in ScanSet /\ Scan(l).at = l /\ ~Scan(l).last
  BY <1>3 DEF Scan, ScanSet
<1> HIDE DEF l, g
<1>6. rest \in Seq(ScanSet) /\ TopIs(n, frames, g, rest)
  <2>1. ReplacesTop(frames, g, rest)
    BY DEF Below, ReplacesTop
  <2> HIDE DEF rest
  <2>2. frames \in Seq(ScanSet) /\ frames # <<>> /\ g \in ScanSet
    BY <1>1, <1>4
  <2> QED BY ONLY <2>1, <2>2, ReplaceTop
<1> HIDE DEF rest
<1>7. PICK t : t = frames'
  OBVIOUS
<1>8. /\ t \in Seq(ScanSet) /\ Len(t) \in Nat /\ Len(t) >= n /\ t # <<>>
      /\ \A j \in 1..(n - 1) : t[j] = frames[j]
      /\ t[n] = g
      /\ l \notin starts => Len(t) = n + 1 /\ t[n + 1] = Scan(l)
  <2>1. CASE l \in starts
    <3>1. t = rest
      BY <1>1, <1>7, <2>1
    <3> QED BY <3>1, <1>6, <1>2, <2>1 DEF TopIs
  <2>2. CASE l \notin starts
    <3>1. t = Append(rest, Scan(l))
      BY <1>1, <1>7, <2>2
    <3>2. /\ t \in Seq(ScanSet) /\ Len(t) = Len(rest) + 1 /\ t # <<>>
          /\ \A j \in 1..Len(rest) : t[j] = rest[j]
          /\ t[Len(rest) + 1] = Scan(l)
      BY ONLY <3>1, <1>6, <1>5, PushFacts
    <3>3. Len(rest) = n /\ rest[n] = g /\ \A j \in 1..(n - 1) : rest[j] = frames[j]
      BY <1>6 DEF TopIs
    <3> QED BY <3>2, <3>3, <1>2
  <2> QED BY <2>1, <2>2
<1> DEFINE S == starts \union {l}
<1>9. ASSUME NEW f, NEW p, Covers(code, starts, f, p) PROVE Covers(code, S, f, p)
  BY <1>9 DEF Covers
<1>10. ASSUME NEW p, Covers(code, starts, Top, p) PROVE Covers(code, S, g, p)
  <2>1. CASE ~Top.last /\ Straight(code, Top.at, p)
    BY <2>1, <1>4 DEF Covers
  <2>2. CASE p = Top.at - 1 /\ LabelSet(code, p) \subseteq starts \union {Top.todo[k] : k \in DOMAIN Top.todo}
    <3>1. {Top.todo[k] : k \in DOMAIN Top.todo} \subseteq {l} \union {g.todo[k] : k \in DOMAIN g.todo}
      BY <1>3, <1>4
    <3>2. LabelSet(code, p) \subseteq S \union {g.todo[k] : k \in DOMAIN g.todo}
      BY <2>2, <3>1
    <3> QED BY <2>2, <3>2, <1>4 DEF Covers
  <2> QED BY <1>10, <2>1, <2>2 DEF Covers
<1>11. ASSUME NEW m \in S, NEW p \in 1..Len(code), Straight(code, m, p), ~(LabelSet(code, p) \subseteq S)
       PROVE  \E k \in 1..Len(t) : Covers(code, S, t[k], p)
  <2>1. CASE m \in starts
    <3>1. PICK k \in 1..n : Covers(code, starts, frames[k], p)
      BY <2>1, <1>11, <1>1 DEF Closing
    <3>2. k \in 1..Len(t)
      BY <1>8, <1>2
    <3>3. CASE k = n
      BY <3>1, <3>2, <3>3, <1>2, <1>10, <1>8
    <3>4. CASE k # n
      <4>1. t[k] = frames[k]
        BY <3>4, <1>2, <1>8
      <4> QED BY <4>1, <3>1, <3>2, <1>9
    <3> QED BY <3>3, <3>4
  <2>2. CASE m \notin starts
    <3>1. m = l /\ l \notin starts
      BY <2>2
    <3>2. t[n + 1] = Scan(l) /\ n + 1 \in 1..Len(t)
      BY <3>1, <1>8, <1>2
    <3>3. Covers(code, S, Scan(l), p)
      BY <3>1, <1>5, <1>11 DEF Covers
    <3> QED BY <3>2, <3>3
  <2> QED BY <2>1, <2>2
<1>12. Closing(code, S, t)
  BY <1>11 DEF Closing
<1>13. S \subseteq Label /\ 1 \in S
  BY <1>1, <1>3
<1> QED BY <1>1, <1>7, <1>8, <1>12, <1>13 DEF ScanInv

\* What the innermost activation leaves behind when it returns is closed.
LEMMA ScanReturnCovers ==
    ASSUME CodeOK, ScanInv, ScanReturn, NEW p \in 1..Len(code), Covers(code, starts, Top, p)
    PROVE  LabelSet(code, p) \subseteq starts
<1>1. /\ frames \in Seq(ScanSet) /\ frames # <<>>
      /\ Top.todo = <<>> /\ (Top.last \/ Top.at > Len(code))
  BY DEF ScanInv, ScanReturn
<1>2. Top \in ScanSet
  BY <1>1, TopFacts DEF Top
<1>3. Top.at \in Nat
  BY <1>2 DEF ScanSet, Label
<1>4. CASE ~Top.last /\ Straight(code, Top.at, p)
  BY <1>1, <1>3, <1>4, LenFacts DEF Straight
<1>5. CASE LabelSet(code, p) \subseteq starts \union {Top.todo[k] : k \in DOMAIN Top.todo}
  <2>1. {Top.todo[k] : k \in DOMAIN Top.todo} = {}
    BY <1>1
  <2> QED BY <2>1, <1>5
<1> QED BY <1>4, <1>5 DEF Covers

\* An activation that returns to its caller keeps the invariant.
LEMMA ScanReturnKeeps ==
    ASSUME CodeOK, ScanInv, ScanReturn, Below # <<>>
    PROVE  ScanInv'
<1> DEFINE n == Len(frames)
<1>1. /\ frames \in Seq(ScanSet) /\ frames # <<>> /\ frames' = Below /\ starts' = starts /\ code' = code
      /\ finished' = finished /\ maxSize' = maxSize /\ hasTraps' = hasTraps
      /\ starts \subseteq Label /\ 1 \in starts /\ Closing(code, starts, frames)
      /\ finished = <<>> /\ maxSize = 0 /\ hasTraps = FALSE
  BY DEF ScanInv, ScanReturn
<1>2. /\ n \in Nat /\ n >= 1 /\ Top = frames[n]
      /\ Below \in Seq(ScanSet) /\ Len(Below) = n - 1 /\ \A j \in 1..(n - 1) : Below[j] = frames[j]
  BY <1>1, TopFacts DEF Top, Below
<1>3. ASSUME NEW l \in starts, NEW p \in 1..Len(code), Straight(code, l, p), ~(LabelSet(code, p) \subseteq starts)
      PROVE  \E k \in 1..Len(Below) : Covers(code, starts, Below[k], p)
  <2>1. PICK k \in 1..n : Covers(code, starts, frames[k], p)
    BY <1>3, <1>1 DEF Closing
  <2>2. k # n
    BY <2>1, <1>2, <1>3, ScanReturnCovers
  <2> QED BY <2>1, <2>2, <1>2
<1>4. Closing(code, starts, Below)
  BY <1>3 DEF Closing
<1> QED BY <1>1, <1>2, <1>4 DEF ScanInv

\* When the outermost search returns, the starts are closed.
LEMMA ScanCloses ==
    ASSUME CodeOK, ScanInv, ScanReturn, Below = <<>>
    PROVE  Closed(code, starts)
<1> DEFINE n == Len(frames)
<1>1. frames \in Seq(ScanSet) /\ frames # <<>> /\ Closing(code, starts, frames)
  BY DEF ScanInv
<1>2. n = 1 /\ Top = frames[n]
  BY <1>1, TopFacts DEF Top, Below
<1>3. ASSUME NEW l \in starts, NEW p \in 1..Len(code), Straight(code, l, p)
      PROVE  LabelSet(code, p) \subseteq starts
  <2>1. LabelSet(code, p) \subseteq starts \/ \E k \in 1..n : Covers(code, starts, frames[k], p)
    BY <1>3, <1>1 DEF Closing
  <2>2. LabelSet(code, p) \subseteq starts \/ Covers(code, starts, Top, p)
    BY <2>1, <1>2
  <2> QED BY <2>2, ScanReturnCovers
<1> QED BY <1>3 DEF Closed

-----------------------------------------------------------------------------
(* What the interpreter can reach *)

\* Walk starts at the entry, with the arguments on the stack.
LEMMA WalkIs ==
    ASSUME CodeOK
    PROVE  /\ Walk[0] = {<<1, Arity>>}
           /\ \A k \in 1..(2 * Len(code)) : Walk[k] = Grow(code, Walk[k - 1])
           /\ Reached = Walk[2 * Len(code)]
<1>1. PICK m \in Nat : m = 2 * Len(code)
  BY LenFacts
<1>2. PICK x : x = <<1, Arity>>
  OBVIOUS
<1>3. IsWalk(code, x, m, Walk)
  BY <1>1, <1>2, LenFacts, ReachedInIs DEF Walk
<1>4. Walk[0] = {x} /\ \A k \in 1..m : Walk[k] = Grow(code, Walk[k - 1])
  BY ONLY <1>3, m \in Nat, WalkSteps
<1> QED BY <1>1, <1>2, <1>4 DEF Reached, Walk

\* One more step of the interpreter.
LEMMA WalkStep ==
    ASSUME CodeOK, NEW n \in Nat, n < 2 * Len(code)
    PROVE  /\ Walk[n] \subseteq Walk[n + 1]
           /\ \A p \in 1..Len(code) : \A d :
                <<p, d>> \in Walk[n] => Successors(code[p], p, d) \subseteq Walk[n + 1]
<1>1. PICK m \in Nat : m = n + 1
  OBVIOUS
<1>2. m \in 1..(2 * Len(code)) /\ m - 1 = n
  BY <1>1, LenFacts
<1>3. Walk[m] = Grow(code, Walk[n])
  BY <1>2, WalkIs
<1>4. ASSUME NEW p \in 1..Len(code), NEW d, <<p, d>> \in Walk[n]
      PROVE  Successors(code[p], p, d) \subseteq Walk[m]
  <2>1. PICK y : y = <<p, d>>
    OBVIOUS
  <2>2. y[1] = p /\ y[2] = d /\ y[1] <= Len(code) /\ y \in Walk[n]
    BY <2>1, <1>4, LenFacts
  <2>3. y \in {z \in Walk[n] : z[1] <= Len(code)}
    BY <2>2
  <2>4. Successors(code[y[1]], y[1], y[2]) \subseteq Grow(code, Walk[n])
    BY <2>3 DEF Grow
  <2> QED BY <2>4, <2>2, <1>3
<1>5. Walk[n] \subseteq Walk[m]
  BY <1>3 DEF Grow
<1> QED BY <1>1, <1>4, <1>5

\* Whatever is reached in fewer steps than the bound is Reached.
LEMMA WalkReaches ==
    ASSUME CodeOK, NEW n \in Nat, n <= 2 * Len(code)
    PROVE  Walk[n] \subseteq Reached
<1>1. PICK m \in Nat : m = 2 * Len(code)
  BY LenFacts
<1> DEFINE T == {j \in Nat : j <= m /\ ~(Walk[m - j] \subseteq Walk[m])}
<1>2. T = {}
  <2>1. SUFFICES ASSUME T # {} PROVE FALSE
    OBVIOUS
  <2>2. PICK j \in T : \A y \in T : j <= y
    BY <2>1, LeastNat
  <2>3. j # 0 /\ j \in Nat /\ j <= m
    <3>1. m - 0 = m
      OBVIOUS
    <3> QED BY <2>2, <3>1
  <2>4. j - 1 \in Nat /\ j - 1 \notin T
    <3>1. j - 1 \in Nat /\ ~(j <= j - 1)
      BY <2>3
    <3> HIDE DEF T
    <3> QED BY <2>2, <3>1
  <2>5. Walk[m - (j - 1)] \subseteq Walk[m]
    <3>1. PICK i \in Nat : i = j - 1 /\ i \notin T /\ i <= m
      BY <2>4, <2>3
    <3> QED BY <3>1
  <2>6. PICK k \in Nat : k = m - j
    BY <2>3
  <2>7. k + 1 = m - (j - 1) /\ k < m
    BY <2>3, <2>6
  <2>8. Walk[k] \subseteq Walk[k + 1]
    BY <2>7, <1>1, WalkStep
  <2>9. Walk[k] \subseteq Walk[m]
    BY <2>5, <2>7, <2>8
  <2> QED BY <2>9, <2>6, <2>2
<1>3. m - n \in Nat /\ m - n <= m /\ m - (m - n) = n
  BY <1>1
<1>4. m - n \notin T
  BY <1>2
<1>5. Walk[n] \subseteq Walk[m]
  <2> HIDE DEF T
  <2>1. Walk[m - (m - n)] \subseteq Walk[m]
    BY <1>3, <1>4 DEF T
  <2> QED BY <2>1, <1>3
<1> QED BY <1>5, <1>1, WalkIs

\* A set closed under the interpreter's steps that has the start in it has all of Reached.
LEMMA ReachedClosed ==
    ASSUME CodeOK, NEW G, <<1, Arity>> \in G,
           \A x \in G : x[1] <= Len(code) => Successors(code[x[1]], x[1], x[2]) \subseteq G
    PROVE  Reached \subseteq G
<1>1. PICK m \in Nat : m = 2 * Len(code)
  BY LenFacts
<1> DEFINE T == {j \in Nat : j <= m /\ ~(Walk[j] \subseteq G)}
<1>2. T = {}
  <2>1. SUFFICES ASSUME T # {} PROVE FALSE
    OBVIOUS
  <2>2. PICK j \in T : \A y \in T : j <= y
    BY <2>1, LeastNat
  <2>3. j # 0 /\ j \in Nat /\ j <= m
    BY <2>2, WalkIs
  <2>4. j - 1 \in Nat /\ j - 1 \notin T
    BY <2>2, <2>3
  <2>5. Walk[j - 1] \subseteq G
    BY <2>4, <2>3
  <2>6. j \in 1..(2 * Len(code))
    BY <2>3, <1>1
  <2>7. Walk[j] = Grow(code, Walk[j - 1])
    BY <2>6, WalkIs
  <2>8. Grow(code, Walk[j - 1]) \subseteq G
    BY <2>5 DEF Grow
  <2> QED BY <2>2, <2>7, <2>8
<1>3. m \notin T
  BY <1>2
<1>4. Walk[m] \subseteq G
  BY <1>3
<1> QED BY <1>4, <1>1, WalkIs

-----------------------------------------------------------------------------
(* Runs *)

\* The fields of a finished block, seen as a run.
LEMMA BlockRunFacts ==
    ASSUME NEW b \in BlockSet
    PROVE  /\ BlockRun(b) \in FrameSet /\ BlockRun(b).entry = b.offset /\ BlockRun(b).at = b.last
           /\ BlockRun(b).size = b.end /\ BlockRun(b).todo = <<>> /\ BlockRun(b).ended
           /\ BlockRun(b).exit = b.exit
  BY DEF BlockRun, BlockSet, FrameSet

\* The fields of an activation have their types.
LEMMA FrameFacts ==
    ASSUME NEW r \in FrameSet
    PROVE  /\ r.entry \in Label /\ r.at \in Label /\ r.size \in Nat /\ r.todo \in Seq(VisitSet)
           /\ r.ended \in BOOLEAN /\ r.exit \in Seq(Label)
           /\ r.entry \in Nat /\ r.entry >= 1 /\ r.at \in Nat /\ r.at >= 1
  BY DEF FrameSet, Label

\* The runs other than the innermost activation.
Others(fr, fi) == {fr[k] : k \in 1..(Len(fr) - 1)} \union {BlockRun(fi[j]) : j \in 1..Len(fi)}

\* All runs are activations.
LEMMA RunsTyped ==
    ASSUME NEW fr \in Seq(FrameSet), NEW fi \in Seq(BlockSet)
    PROVE  /\ Runs(fr, fi) \subseteq FrameSet /\ Others(fr, fi) \subseteq FrameSet
           /\ fr # <<>> => fr[Len(fr)] \in FrameSet /\ Runs(fr, fi) = {fr[Len(fr)]} \union Others(fr, fi)
           /\ fr = <<>> => Runs(fr, fi) = {BlockRun(fi[j]) : j \in 1..Len(fi)}
<1>1. PICK n \in Nat : n = Len(fr)
  OBVIOUS
<1>2. \A k \in 1..n : fr[k] \in FrameSet
  BY <1>1
<1>3. \A j \in 1..Len(fi) : BlockRun(fi[j]) \in FrameSet
  BY BlockRunFacts
<1>4. Runs(fr, fi) \subseteq FrameSet
  BY <1>1, <1>2, <1>3 DEF Runs
<1>5. \A k \in 1..(n - 1) : k \in 1..n
  BY <1>1
<1>6. Others(fr, fi) \subseteq FrameSet
  BY <1>1, <1>2, <1>3, <1>5 DEF Others
<1>7. ASSUME fr # <<>> PROVE fr[n] \in FrameSet /\ Runs(fr, fi) = {fr[n]} \union Others(fr, fi)
  <2>1. n \in 1..n /\ 1..n = {n} \union 1..(n - 1)
    BY <1>7, <1>1
  <2> QED BY <2>1, <1>1, <1>2 DEF Runs, Others
<1>8. ASSUME fr = <<>> PROVE Runs(fr, fi) = {BlockRun(fi[j]) : j \in 1..Len(fi)}
  <2>1. 1..Len(fr) = {}
    BY <1>8
  <2>2. {fr[k] : k \in 1..Len(fr)} = {}
    BY <2>1
  <2> QED BY <2>2 DEF Runs
<1> QED BY <1>1, <1>4, <1>6, <1>7, <1>8

\* Replacing the top of the stack replaces one run.
LEMMA RunsReplaced ==
    ASSUME NEW fr \in Seq(FrameSet), NEW fi \in Seq(BlockSet), fr # <<>>, NEW x, NEW t \in Seq(FrameSet),
           TopIs(Len(fr), fr, x, t)
    PROVE  Runs(t, fi) = {x} \union Others(fr, fi) /\ Others(t, fi) = Others(fr, fi)
<1>1. PICK n \in Nat : n = Len(fr) /\ n >= 1
  OBVIOUS
<1>2. Len(t) = n /\ t # <<>> /\ t[n] = x /\ \A j \in 1..(n - 1) : t[j] = fr[j]
  BY <1>1 DEF TopIs
<1>3. {t[j] : j \in 1..(n - 1)} = {fr[j] : j \in 1..(n - 1)}
  BY <1>2
<1>4. Others(t, fi) = Others(fr, fi)
  BY <1>1, <1>2, <1>3 DEF Others
<1>5. Runs(t, fi) = {t[Len(t)]} \union Others(t, fi)
  BY <1>2, RunsTyped
<1> QED BY <1>4, <1>5, <1>2

\* No other run has the entry of the top of the stack.
LEMMA OthersEnterElsewhere ==
    ASSUME NEW fr \in Seq(FrameSet), NEW fi \in Seq(BlockSet), NEW se, Entries(fr, fi, se), fr # <<>>,
           NEW r \in Others(fr, fi)
    PROVE  r.entry # fr[Len(fr)].entry
<1>1. PICK n \in Nat : n = Len(fr) /\ n >= 1
  OBVIOUS
<1>2. CASE \E k \in 1..(n - 1) : r = fr[k]
  <2>1. PICK k \in 1..(n - 1) : r = fr[k]
    BY <1>2
  <2>2. k \in 1..n /\ n \in 1..n /\ k # n
    BY <1>1
  <2> QED BY <2>1, <2>2, <1>1 DEF Entries
<1>3. CASE \E j \in 1..Len(fi) : r = BlockRun(fi[j])
  <2>1. PICK j \in 1..Len(fi) : r = BlockRun(fi[j])
    BY <1>3
  <2>2. r.entry = fi[j].offset
    BY <2>1, BlockRunFacts
  <2>3. n \in 1..n
    BY <1>1
  <2> QED BY <2>2, <2>3, <1>1 DEF Entries
<1> QED BY <1>1, <1>2, <1>3 DEF Others

\* Where the instructions of a run are, and what they are.
LEMMA MemFacts ==
    ASSUME NEW c, Len(c) \in Nat, NEW S, NEW r \in FrameSet, RunShape(c, S, r), NEW p \in Mem(S, r)
    PROVE  /\ p \in Nat /\ p \in 1..Len(c) /\ r.entry <= p /\ p <= r.at
           /\ p # r.entry => p \notin S /\ p - 1 \in Mem(S, r)
           /\ p = r.at => r.ended /\ ~Joins(S, r) /\ c[p].op \in Ends
           /\ p # r.at => c[p].op \notin Ends
<1>1. r.entry \in Nat /\ r.entry >= 1 /\ r.at \in Nat /\ r.at >= 1 /\ r.ended \in BOOLEAN
  BY FrameFacts
<1>2. CASE r.ended /\ ~Joins(S, r)
  <2>1. Mem(S, r) = r.entry..r.at
    BY <1>2 DEF Mem
  <2>2. p \in Nat /\ r.entry <= p /\ p <= r.at /\ r.at <= Len(c) /\ c[r.at].op \in Ends
    BY <2>1, <1>1, <1>2 DEF RunShape
  <2>3. CASE p = r.at
    <3>1. p # r.entry => p \notin S
      BY <2>3, <1>2 DEF Joins
    <3>2. p # r.entry => p - 1 \in r.entry..r.at
      BY <2>2, <1>1
    <3> QED BY <2>1, <2>2, <2>3, <3>1, <3>2, <1>1, <1>2
  <2>4. CASE p # r.at
    <3>1. p \in r.entry..(r.at - 1)
      BY <2>2, <2>4, <1>1
    <3>2. c[p].op \notin Ends /\ (p # r.entry => p \notin S)
      BY <3>1 DEF RunShape
    <3>3. p # r.entry => p - 1 \in r.entry..r.at
      BY <2>2, <1>1
    <3> QED BY <2>1, <2>2, <2>4, <3>2, <3>3, <1>1
  <2> QED BY <2>3, <2>4
<1>3. CASE ~(r.ended /\ ~Joins(S, r))
  <2>1. Mem(S, r) = r.entry..(r.at - 1)
    BY <1>3 DEF Mem
  <2>2. p \in Nat /\ r.entry <= p /\ p <= r.at - 1
    BY <2>1, <1>1
  <2>3. p <= Len(c) /\ c[p].op \notin Ends /\ (p # r.entry => p \notin S)
    BY <2>1 DEF RunShape
  <2>4. p # r.entry => p - 1 \in r.entry..(r.at - 1)
    BY <2>2, <1>1
  <2> QED BY <2>1, <2>2, <2>3, <2>4, <1>1
<1> QED BY <1>2, <1>3

\* Which offsets a run has been through.
LEMMA MemHas ==
    ASSUME NEW c, NEW S, NEW r \in FrameSet, RunShape(c, S, r)
    PROVE  /\ \A p \in r.entry..(r.at - 1) : p \in Mem(S, r)
           /\ r.ended => r.entry \in Mem(S, r)
           /\ r.at # r.entry => r.entry \in Mem(S, r) /\ r.at - 1 \in Mem(S, r)
           /\ r.ended /\ ~Joins(S, r) => r.at \in Mem(S, r)
<1>1. r.entry \in Nat /\ r.entry >= 1 /\ r.at \in Nat /\ r.at >= 1 /\ r.ended \in BOOLEAN /\ r.entry <= r.at
  BY FrameFacts DEF RunShape
<1>2. CASE r.ended /\ ~Joins(S, r)
  <2>1. Mem(S, r) = r.entry..r.at
    BY <1>2 DEF Mem
  <2> QED BY <2>1, <1>1
<1>3. CASE ~(r.ended /\ ~Joins(S, r))
  <2>1. Mem(S, r) = r.entry..(r.at - 1)
    BY <1>3 DEF Mem
  <2>2. r.ended => r.at # r.entry
    BY <1>3 DEF Joins
  <2> QED BY <2>1, <2>2, <1>1, <1>3
<1> QED BY <1>2, <1>3

\* Two blocks with different entries have no instruction in common.
LEMMA RunsApart ==
    ASSUME NEW c, Len(c) \in Nat, NEW S, NEW r \in FrameSet, RunShape(c, S, r), NEW q \in FrameSet, RunShape(c, S, q),
           r.entry # q.entry
    PROVE  Mem(S, r) \intersect Mem(S, q) = {}
<1> SUFFICES ASSUME NEW p \in Mem(S, r), p \in Mem(S, q) PROVE FALSE
  OBVIOUS
<1>1. r.entry \in Nat /\ q.entry \in Nat /\ r.entry \in S /\ q.entry \in S /\ r.at \in Nat /\ q.at \in Nat
  BY FrameFacts DEF RunShape
<1>2. p \in Nat /\ r.entry <= p /\ q.entry <= p /\ p <= r.at /\ p <= q.at
  BY MemFacts
<1>3. CASE r.entry < q.entry
  <2>1. q.entry = p => FALSE
    BY <1>1, <1>3, MemFacts
  <2>2. q.entry \in r.entry..(r.at - 1)
    BY <1>1, <1>2, <1>3, <2>1
  <2> QED BY <2>2, <1>3, <1>1 DEF RunShape
<1>4. CASE q.entry < r.entry
  <2>1. r.entry = p => FALSE
    BY <1>1, <1>4, MemFacts
  <2>2. r.entry \in q.entry..(q.at - 1)
    BY <1>1, <1>2, <1>4, <2>1
  <2> QED BY <2>2, <1>4, <1>1 DEF RunShape
<1> QED BY <1>1, <1>3, <1>4

\* The instruction a block has come to is in no other block, unless a block starts there.
LEMMA AtIsNew ==
    ASSUME NEW c, Len(c) \in Nat, NEW S, NEW r \in FrameSet, RunShape(c, S, r), NEW q \in FrameSet, RunShape(c, S, q),
           r.entry # q.entry, ~r.ended, ~Joins(S, r)
    PROVE  r.at \notin Mem(S, q)
<1> SUFFICES ASSUME r.at \in Mem(S, q) PROVE FALSE
  OBVIOUS
<1>1. r.entry \in Nat /\ q.entry \in Nat /\ r.entry \in S /\ q.entry \in S /\ r.at \in Nat /\ q.at \in Nat /\ r.entry <= r.at
  BY FrameFacts DEF RunShape
<1>2. q.entry <= r.at /\ r.at <= q.at /\ (r.at # q.entry => r.at \notin S)
  BY MemFacts
<1>3. CASE r.entry < q.entry
  <2>1. q.entry # r.at
    BY <1>1, <1>3 DEF Joins
  <2>2. q.entry \in r.entry..(r.at - 1)
    BY <1>1, <1>2, <1>3, <2>1
  <2> QED BY <2>2, <1>3, <1>1 DEF RunShape
<1>4. CASE q.entry < r.entry
  <2>1. r.entry # r.at
    BY <1>1, <1>2, <1>4
  <2>2. r.entry \in q.entry..(q.at - 1)
    BY <1>1, <1>2, <1>4, <2>1
  <2> QED BY <2>2, <1>4, <1>1 DEF RunShape
<1> QED BY <1>1, <1>3, <1>4

\* What is known of a run stays known when more instructions are gone through, the largest
\* stack size grows, or blocks and predecessors are added to seen.
SeenGrows(se, st) ==
    \A l \in DOMAIN se : l \in DOMAIN st /\ st[l].size = se[l].size /\ se[l].preds \subseteq st[l].preds
DepthGrows(D, E) == \A p \in DOMAIN D : p \in DOMAIN E /\ E[p] = D[p]

ArriveAlike(c, S, se, D, st, E, r) ==
    /\ \A p \in Mem(S, r) : Arrive(c, st, r, E, p) = Arrive(c, se, r, D, p)
    /\ Arrive(c, st, r, E, r.at) = Arrive(c, se, r, D, r.at)

\* Finding more instructions does not change the size a run arrives with.
LEMMA ArriveKept ==
    ASSUME NEW c, Len(c) \in Nat, NEW S, NEW se, NEW st, NEW r \in FrameSet, NEW D, NEW E,
           RunShape(c, S, r), Mem(S, r) \subseteq DOMAIN D, r.entry \in DOMAIN se, SeenGrows(se, st), DepthGrows(D, E)
    PROVE  ArriveAlike(c, S, se, D, st, E, r)
<1>1. st[r.entry].size = se[r.entry].size
  BY DEF SeenGrows
<1>2. ASSUME NEW p \in Mem(S, r) PROVE Arrive(c, st, r, E, p) = Arrive(c, se, r, D, p)
  <2>1. CASE p = r.entry
    BY <2>1, <1>1 DEF Arrive
  <2>2. CASE p # r.entry
    <3>1. p - 1 \in DOMAIN D
      BY <2>2, MemFacts
    <3>2. E[p - 1] = D[p - 1]
      BY <3>1 DEF DepthGrows
    <3> QED BY <2>2, <3>2 DEF Arrive
  <2> QED BY <2>1, <2>2
<1>3. CASE r.at = r.entry
  <2>1. Arrive(c, st, r, E, r.at) = Arrive(c, se, r, D, r.at)
    BY <1>3, <1>1 DEF Arrive
  <2> QED BY <1>2, <2>1 DEF ArriveAlike
<1>4. CASE r.at # r.entry
  <2>1. r.at - 1 \in DOMAIN D
    BY <1>4, MemHas
  <2>2. E[r.at - 1] = D[r.at - 1]
    BY <2>1 DEF DepthGrows
  <2>3. Arrive(c, st, r, E, r.at) = Arrive(c, se, r, D, r.at)
    BY <1>4, <2>2 DEF Arrive
  <2> QED BY <1>2, <2>3 DEF ArriveAlike
<1> QED BY <1>3, <1>4

\* Nor the sizes inside a run.
LEMMA RunDepthKept ==
    ASSUME NEW c, Len(c) \in Nat, NEW S, NEW se, NEW st, NEW r \in FrameSet, NEW D, NEW E, NEW mx \in Nat, NEW my \in Nat,
           RunShape(c, S, r), Mem(S, r) \subseteq DOMAIN D, r.entry \in DOMAIN se, SeenGrows(se, st), DepthGrows(D, E),
           mx <= my, RunDepth(c, S, se, mx, r, D)
    PROVE  RunDepth(c, S, st, my, r, E)
<1>1. /\ \A p \in Mem(S, r) : Arrive(c, st, r, E, p) = Arrive(c, se, r, D, p)
      /\ Arrive(c, st, r, E, r.at) = Arrive(c, se, r, D, r.at)
  <2>1. ArriveAlike(c, S, se, D, st, E, r)
    BY ArriveKept
  <2> QED BY ONLY <2>1 DEF ArriveAlike
<1>2. \A p \in Mem(S, r) : E[p] = D[p]
  BY DEF DepthGrows
<1>3. \A p \in Mem(S, r) : E[p] = Arrive(c, st, r, E, p)
  BY <1>1, <1>2 DEF RunDepth
<1>4. (~r.ended \/ Joins(S, r)) => r.size = Arrive(c, st, r, E, r.at)
  BY <1>1 DEF RunDepth
<1>5. (r.ended /\ ~Joins(S, r)) => r.size = ExitSize(c[r.at], E[r.at])
  <2>1. (r.ended /\ ~Joins(S, r)) => E[r.at] = D[r.at]
    BY <1>2, MemHas
  <2> QED BY <2>1 DEF RunDepth
<1>6. (r.ended /\ Joins(S, r)) => r.size <= my
  <2>1. r.size \in Nat
    BY FrameFacts
  <2>2. (r.ended /\ Joins(S, r)) => r.size <= mx
    BY DEF RunDepth
  <2> QED BY <2>1, <2>2
<1> QED BY <1>3, <1>4, <1>5, <1>6 DEF RunDepth

\* Nor the visits at the end of a run.
LEMMA RunExitsKept ==
    ASSUME NEW c, Len(c) \in Nat, NEW S, NEW se, NEW st, NEW r \in FrameSet, NEW D, NEW E,
           RunShape(c, S, r), Mem(S, r) \subseteq DOMAIN D, SeenGrows(se, st), DepthGrows(D, E),
           RunExits(c, S, se, r, D)
    PROVE  RunExits(c, S, st, r, E)
<1> SUFFICES ASSUME r.ended PROVE RunExits(c, S, st, r, E)
  BY DEF RunExits
<1>1. Visits(c, S, r, E) = Visits(c, S, r, D)
  <2>1. CASE Joins(S, r)
    BY <2>1 DEF Visits
  <2>2. CASE ~Joins(S, r)
    <3>1. r.at \in Mem(S, r)
      BY <2>2, MemHas
    <3>2. E[r.at] = D[r.at]
      BY <3>1 DEF DepthGrows
    <3> QED BY <2>2, <3>2 DEF Visits
  <2> QED BY <2>1, <2>2
<1>2. ASSUME NEW v, Visited(se, r, v) PROVE Visited(st, r, v)
  BY <1>2 DEF Visited, SeenGrows
<1>3. PICK vs : vs = Visits(c, S, r, D)
  OBVIOUS
<1> QED BY <1>1, <1>2, <1>3 DEF RunExits

\* The same for all runs but the innermost.
LEMMA RunsDeepKept ==
    ASSUME NEW c, Len(c) \in Nat, NEW S, NEW se, NEW st, NEW R \in SUBSET FrameSet, NEW D, NEW E, NEW mx \in Nat, NEW my \in Nat,
           \A r \in R : RunShape(c, S, r) /\ Mem(S, r) \subseteq DOMAIN D /\ r.entry \in DOMAIN se,
           SeenGrows(se, st), DepthGrows(D, E), mx <= my, RunsDeep(c, S, se, mx, R, D)
    PROVE  RunsDeep(c, S, st, my, R, E)
<1>1. ASSUME NEW r \in R PROVE RunDepth(c, S, st, my, r, E) /\ RunExits(c, S, st, r, E)
  <2>1. r \in FrameSet /\ RunShape(c, S, r) /\ Mem(S, r) \subseteq DOMAIN D /\ r.entry \in DOMAIN se
    OBVIOUS
  <2>2. RunDepth(c, S, se, mx, r, D) /\ RunExits(c, S, se, r, D)
    BY DEF RunsDeep
  <2>3. RunDepth(c, S, st, my, r, E)
    BY <2>1, <2>2, RunDepthKept
  <2>4. RunExits(c, S, st, r, E)
    BY <2>1, <2>2, RunExitsKept
  <2> QED BY <2>3, <2>4
<1> QED BY <1>1 DEF RunsDeep

\* Larger is the maximum.
LEMMA LargerFacts ==
    ASSUME NEW m \in Nat, NEW n \in Nat
    PROVE  Larger(m, n) \in Nat /\ m <= Larger(m, n) /\ n <= Larger(m, n)
  BY DEF Larger

\* One more instruction in D.
Extend(D, a, s) == [p \in DOMAIN D \union {a} |-> IF p = a THEN s ELSE D[p]]

\* D with one more instruction.
LEMMA ExtendFacts ==
    ASSUME NEW D, NEW a, NEW s, a \notin DOMAIN D, NEW n \in Nat, DOMAIN D \subseteq 1..n, a \in 1..n
    PROVE  /\ DepthGrows(D, Extend(D, a, s)) /\ DOMAIN Extend(D, a, s) = DOMAIN D \union {a} /\ Extend(D, a, s)[a] = s
           /\ Cardinality(DOMAIN D) \in Nat /\ Cardinality(DOMAIN D) < n
           /\ Cardinality(DOMAIN Extend(D, a, s)) = Cardinality(DOMAIN D) + 1
<1>1. DepthGrows(D, Extend(D, a, s)) /\ DOMAIN Extend(D, a, s) = DOMAIN D \union {a} /\ Extend(D, a, s)[a] = s
  BY DEF DepthGrows, Extend
<1>2. IsFiniteSet(1..n) /\ Cardinality(1..n) = n
  <2>1. 1 \in Int /\ n \in Int
    OBVIOUS
  <2>2. IsFiniteSet(1..n) /\ Cardinality(1..n) = IF 1 > n THEN 0 ELSE n - 1 + 1
    BY ONLY <2>1, FS_Interval
  <2> QED BY <2>2
<1>3. PICK X : X = DOMAIN D
  OBVIOUS
<1>4. PICK Y : Y = X \union {a}
  OBVIOUS
<1>5. IsFiniteSet(X) /\ IsFiniteSet(Y) /\ Cardinality(X) \in Nat /\ Cardinality(Y) <= n
  <2>1. X \in SUBSET (1..n) /\ Y \in SUBSET (1..n)
    BY <1>3, <1>4
  <2>2. IsFiniteSet(X) /\ Cardinality(X) <= Cardinality(1..n)
    BY <2>1, <1>2, FS_Subset
  <2>3. IsFiniteSet(Y) /\ Cardinality(Y) <= Cardinality(1..n)
    BY <2>1, <1>2, FS_Subset
  <2>4. Cardinality(X) \in Nat
    BY <2>2, FS_CardinalityType
  <2> QED BY <2>2, <2>3, <2>4, <1>2
<1>6. Cardinality(Y) = Cardinality(X) + 1
  <2>1. Cardinality(X \union {a}) = IF a \in X THEN Cardinality(X) ELSE Cardinality(X) + 1
    BY <1>5, FS_AddElement
  <2> QED BY <2>1, <1>3, <1>4
<1> QED BY <1>1, <1>3, <1>4, <1>5, <1>6

\* A set of offsets has no more elements than the closure has instructions.
LEMMA DomainSize ==
    ASSUME NEW X, NEW n \in Nat, X \subseteq 1..n
    PROVE  Cardinality(X) \in Nat /\ Cardinality(X) <= n
<1>1. IsFiniteSet(1..n) /\ Cardinality(1..n) = n
  <2>1. 1 \in Int /\ n \in Int
    OBVIOUS
  <2>2. IsFiniteSet(1..n) /\ Cardinality(1..n) = IF 1 > n THEN 0 ELSE n - 1 + 1
    BY ONLY <2>1, FS_Interval
  <2> QED BY <2>2
<1>2. X \in SUBSET (1..n)
  OBVIOUS
<1>3. IsFiniteSet(X) /\ Cardinality(X) <= Cardinality(1..n)
  BY <1>2, <1>1, FS_Subset
<1>4. Cardinality(X) \in Nat
  BY <1>3, FS_CardinalityType
<1> QED BY <1>1, <1>3, <1>4

-----------------------------------------------------------------------------
(* convert_dfs *)

\* The fields of a new activation.
LEMMA ActivationFacts ==
    ASSUME NEW l \in Label, NEW s \in Nat, NEW a, a = Activation(l, s)
    PROVE  /\ a \in FrameSet /\ a.entry = l /\ a.at = l /\ a.size = s /\ a.todo = <<>> /\ ~a.ended /\ a.exit = <<>>
           /\ \A S : Mem(S, a) = {} /\ ~Joins(S, a)
<1>1. /\ a \in FrameSet /\ a.entry = l /\ a.at = l /\ a.size = s /\ a.todo = <<>> /\ ~a.ended /\ a.exit = <<>>
  BY DEF Activation, FrameSet
<1>2. l..(l - 1) = {}
  BY DEF Label
<1> QED BY <1>1, <1>2 DEF Mem, Joins

\* A block just started.
LEMMA ActivationKeeps ==
    ASSUME NEW l \in Label, NEW s \in Nat, NEW a, a = Activation(l, s), NEW c, NEW S, l \in S, NEW se, se[l].size = s,
           NEW mx, NEW D, NEW W, <<l, s>> \in W
    PROVE  RunShape(c, S, a) /\ RunDepth(c, S, se, mx, a, D) /\ RunExits(c, S, se, a, D) /\ RunFound(W, a)
<1>1. /\ a \in FrameSet /\ a.entry = l /\ a.at = l /\ a.size = s /\ a.todo = <<>> /\ ~a.ended /\ a.exit = <<>>
      /\ Mem(S, a) = {} /\ ~Joins(S, a)
  BY ActivationFacts
<1>2. l..(l - 1) = {} /\ l <= l
  BY DEF Label
<1>3. RunShape(c, S, a)
  BY <1>1, <1>2 DEF RunShape
<1>4. RunDepth(c, S, se, mx, a, D)
  BY <1>1 DEF RunDepth, Arrive
<1>5. RunExits(c, S, se, a, D)
  BY <1>1 DEF RunExits
<1>6. DOMAIN a.todo = {}
  BY <1>1
<1>7. RunFound(W, a)
  BY <1>1, <1>6 DEF RunFound
<1> QED BY <1>3, <1>4, <1>5, <1>7

\* When find_block_starts_dfs is over, the first activation of convert_dfs has the invariant.
LEMMA ConvertStarts ==
    ASSUME CodeOK, ScanInv, ScanReturn, Below = <<>>
    PROVE  ConvertInv' /\ phase' = "convert" /\ frames' # <<>>
<1>1. /\ phase' = "convert" /\ frames' = <<Activation(1, Arity)>>
      /\ seen' = [l \in {1} |-> Pending("First", Arity, {})]
      /\ code' = code /\ starts' = starts /\ finished' = <<>> /\ maxSize' = 0 /\ hasTraps' = FALSE
      /\ starts \subseteq Label /\ 1 \in starts
  BY DEF ScanReturn, ScanInv
<1>2. Closed(code, starts)
  BY ScanCloses
<1>3. Arity \in Nat /\ Arity' = Arity /\ Walk' = Walk /\ 1 \in Label
  BY <1>1, LenFacts DEF Arity, Walk, Label
<1>4. PICK a : a = Activation(1, Arity)
  OBVIOUS
<1>5. /\ a \in FrameSet /\ a.entry = 1 /\ a.at = 1 /\ a.size = Arity /\ a.todo = <<>> /\ ~a.ended /\ a.exit = <<>>
      /\ \A S : Mem(S, a) = {} /\ ~Joins(S, a)
  BY <1>3, <1>4, ActivationFacts
<1>6. PICK se : se = seen'
  OBVIOUS
<1>7. DOMAIN se = {1} /\ se[1] = Pending("First", Arity, {}) /\ se \in [{1} -> PendingSet] /\ se[1].size = Arity /\ se[1].preds = {}
  BY <1>1, <1>3, <1>6 DEF Pending, PendingSet
<1>8. PICK fr : fr = frames'
  OBVIOUS
<1>9. fr = <<a>> /\ fr \in Seq(FrameSet) /\ Len(fr) = 1 /\ fr[1] = a /\ fr # <<>>
  BY <1>8, <1>1, <1>4, <1>5
<1>10. Runs(fr, <<>>) = {a}
  <2>1. Len(<<>>) = 0 /\ 1..0 = {}
    OBVIOUS
  <2>2. {BlockRun(<<>>[j]) : j \in 1..Len(<<>>)} = {}
    BY <2>1
  <2>3. 1..1 = {1}
    OBVIOUS
  <2>4. {fr[k] : k \in 1..Len(fr)} = {a}
    BY <2>3, <1>9
  <2> QED BY <2>2, <2>4 DEF Runs
<1>11. PICK D : D = [p \in {} |-> 0]
  OBVIOUS
<1>12. DOMAIN D = {} /\ Cardinality(DOMAIN D) = 0
  BY <1>11, FS_EmptySet
<1>13. Walked(Walk, D) = {<<1, Arity>>}
  BY <1>12, WalkIs DEF Walked
<1>14. \A mx : /\ RunShape(code, starts, a) /\ RunDepth(code, starts, se, mx, a, D) /\ RunExits(code, starts, se, a, D)
               /\ RunFound(Walked(Walk, D), a)
  BY <1>1, <1>3, <1>4, <1>7, <1>13, ActivationKeeps
<1>15. AllMembers(starts, {a}) = {}
  BY <1>5 DEF AllMembers
<1>16. Found(Walked(Walk, D), se, {a}, D)
  BY <1>12, <1>13, <1>14, <1>7 DEF Found
<1>17. RunsDeep(code, starts, se, 0, {a}, D) /\ Checked(code, 0, FALSE, D)
  BY <1>12, <1>14 DEF RunsDeep, Checked
<1>18. Depths(D)'
  BY <1>1, <1>3, <1>6, <1>8, <1>10, <1>12, <1>15, <1>16, <1>17 DEF Depths, Deep
<1>19. SearchTypes'
  <2>1. <<>> \in Seq(BlockSet)
    OBVIOUS
  <2> QED BY <1>1, <1>3, <1>6, <1>7, <1>8, <1>9, <2>1 DEF SearchTypes
<1>20. Entries(fr, <<>>, se)
  <2>1. Len(<<>>) = 0 /\ 1..0 = {}
    OBVIOUS
  <2>2. {r.entry : r \in {a}} = {1}
    BY <1>5
  <2> QED BY <2>1, <2>2, <1>7, <1>9, <1>10 DEF Entries
<1>21. Pendings(se)
  BY <1>7 DEF Pendings, Pending
<1>22. StackShape(fr, <<>>) /\ PostOrder(fr, <<>>)
  <2>1. Len(<<>>) = 0 /\ 1..0 = {}
    OBVIOUS
  <2>2. StackShape(fr, <<>>)
    BY <1>9, <1>5 DEF StackShape
  <2> QED BY <2>1, <2>2 DEF PostOrder
<1>23. SearchInv'
  BY <1>1, <1>2, <1>3, <1>6, <1>7, <1>8, <1>10, <1>14, <1>19, <1>20, <1>21, <1>22 DEF SearchInv
<1> QED BY <1>1, <1>8, <1>9, <1>18, <1>23 DEF ConvertInv

\* The search tree: where its runs are and how they hang together.
Tree(c, S, fr, fi, se) ==
    /\ Entries(fr, fi, se) /\ StackShape(fr, fi) /\ PostOrder(fr, fi)
    /\ \A r \in Runs(fr, fi) : RunShape(c, S, r)

\* The stack of activations stays a path of the search when its top changes.
LEMMA TreeReplaced ==
    ASSUME NEW c, NEW S, NEW fr \in Seq(FrameSet), NEW fi \in Seq(BlockSet), NEW se, Tree(c, S, fr, fi, se), fr # <<>>,
           NEW x \in FrameSet, NEW t \in Seq(FrameSet), TopIs(Len(fr), fr, x, t),
           x.entry = fr[Len(fr)].entry, RunShape(c, S, x),
           \A l : ExitsTo(fr[Len(fr)], l) => ExitsTo(x, l)
    PROVE  Tree(c, S, t, fi, se)
<1>1. PICK n \in Nat : n = Len(fr) /\ n >= 1
  OBVIOUS
<1>2. Len(t) = n /\ t # <<>> /\ t[n] = x /\ \A j \in 1..(n - 1) : t[j] = fr[j]
  BY <1>1 DEF TopIs
<1>3. \A j \in 1..n : j = n \/ j \in 1..(n - 1)
  BY <1>1
<1>4. \A j \in 1..n : t[j].entry = fr[j].entry
  BY <1>1, <1>2, <1>3
<1>5. Runs(t, fi) = {x} \union Others(fr, fi) /\ Runs(fr, fi) = {fr[n]} \union Others(fr, fi)
  BY <1>1, RunsReplaced, RunsTyped
<1>6. {r.entry : r \in Runs(t, fi)} = {r.entry : r \in Runs(fr, fi)}
  BY <1>5, <1>1
<1>7. Entries(t, fi, se)
  <2>1. /\ \A j, k \in 1..n : fr[j].entry = fr[k].entry => j = k
        /\ \A j, k \in 1..Len(fi) : fi[j].offset = fi[k].offset => j = k
        /\ \A j \in 1..n, k \in 1..Len(fi) : fr[j].entry # fi[k].offset
        /\ DOMAIN se = {r.entry : r \in Runs(fr, fi)}
    BY <1>1 DEF Tree, Entries
  <2>2. \A j, k \in 1..n : t[j].entry = t[k].entry => j = k
    BY <2>1, <1>4
  <2>3. \A j \in 1..n, k \in 1..Len(fi) : t[j].entry # fi[k].offset
    BY <2>1, <1>4
  <2> QED BY <2>1, <2>2, <2>3, <1>2, <1>6 DEF Entries
<1>8. ASSUME NEW j \in 1..n, NEW l, ExitsTo(fr[j], l) PROVE ExitsTo(t[j], l)
  BY <1>1, <1>2, <1>3, <1>8
<1>9. StackShape(t, fi)
  <2>1. t[1].entry = 1
    <3>1. fr[1].entry = 1 /\ 1 \in 1..n
      BY <1>1 DEF Tree, StackShape
    <3> QED BY <3>1, <1>4
  <2>2. ASSUME NEW k \in 1..n, k < n PROVE t[k].ended /\ ExitsTo(t[k], t[k + 1].entry)
    <3>1. k \in 1..(n - 1) /\ k + 1 \in 1..n
      BY <2>2, <1>1
    <3>2. fr[k].ended /\ ExitsTo(fr[k], fr[k + 1].entry)
      BY <2>2, <1>1 DEF Tree, StackShape
    <3> QED BY <3>1, <3>2, <1>2, <1>4
  <2> QED BY <1>2, <2>1, <2>2 DEF StackShape
<1>10. PostOrder(t, fi)
  <2>1. ASSUME NEW j \in 1..Len(fi) PROVE JumpedTo(t, fi, j)
    <3>1. JumpedTo(fr, fi, j)
      BY DEF Tree, PostOrder
    <3> QED BY <3>1, <1>1, <1>2, <1>8 DEF JumpedTo
  <2> QED BY <2>1 DEF PostOrder
<1>11. \A r \in Runs(t, fi) : RunShape(c, S, r)
  BY <1>5 DEF Tree
<1> QED BY <1>7, <1>9, <1>10, <1>11 DEF Tree

Plus(X, e, Y) == Y = X \union {e}

\* When the top goes into one of its exits.
LEMMA TreePushed ==
    ASSUME NEW c, NEW S, NEW fr \in Seq(FrameSet), NEW fi \in Seq(BlockSet), NEW se, Tree(c, S, fr, fi, se), fr # <<>>,
           NEW x \in FrameSet, x.entry \notin DOMAIN se, RunShape(c, S, x),
           fr[Len(fr)].ended, ExitsTo(fr[Len(fr)], x.entry),
           NEW st, Plus(DOMAIN se, x.entry, DOMAIN st), NEW t, t = Append(fr, x)
    PROVE  /\ Tree(c, S, t, fi, st) /\ Plus(Runs(fr, fi), x, Runs(t, fi))
           /\ t \in Seq(FrameSet) /\ t # <<>>
<1>1. PICK n \in Nat : n = Len(fr) /\ n >= 1
  OBVIOUS
<1>2. t \in Seq(FrameSet) /\ Len(t) = n + 1 /\ t # <<>> /\ t[n + 1] = x /\ \A j \in 1..n : t[j] = fr[j]
  <2>1. /\ t \in Seq(FrameSet) /\ Len(t) = Len(fr) + 1 /\ t # <<>>
        /\ \A j \in 1..Len(fr) : t[j] = fr[j]
        /\ t[Len(fr) + 1] = x
    <3>1. fr \in Seq(FrameSet) /\ x \in FrameSet /\ t = Append(fr, x)
      OBVIOUS
    <3> QED BY ONLY <3>1, PushFacts
  <2> QED BY <2>1, <1>1
<1>3. 1..(n + 1) = 1..n \union {n + 1}
  BY <1>1
<1>4. Runs(t, fi) = {x} \union Runs(fr, fi)
  <2>1. {t[j] : j \in 1..(n + 1)} = {x} \union {fr[j] : j \in 1..n}
    BY <1>2, <1>3
  <2> QED BY <2>1, <1>1, <1>2 DEF Runs
<1>5. \A j \in 1..n : fr[j].entry \in DOMAIN se
  BY <1>1 DEF Tree, Entries, Runs
<1>6. \A j \in 1..Len(fi) : fi[j].offset \in DOMAIN se
  <2>1. ASSUME NEW j \in 1..Len(fi) PROVE fi[j].offset \in DOMAIN se
    <3>1. BlockRun(fi[j]) \in Runs(fr, fi) /\ BlockRun(fi[j]).entry = fi[j].offset
      BY BlockRunFacts DEF Runs
    <3> QED BY <3>1 DEF Tree, Entries
  <2> QED BY <2>1
<1>7. Entries(t, fi, st)
  <2>1. ASSUME NEW j \in 1..(n + 1), NEW k \in 1..(n + 1), t[j].entry = t[k].entry PROVE j = k
    <3>1. CASE j \in 1..n /\ k \in 1..n
      <4>1. fr[j].entry = fr[k].entry
        BY <2>1, <3>1, <1>2
      <4> QED BY <4>1, <3>1, <1>1 DEF Tree, Entries
    <3>2. CASE j = n + 1 /\ k # n + 1
      <4>1. k \in 1..n
        BY <3>2, <1>3
      <4> QED BY <4>1, <3>2, <2>1, <1>2, <1>5
    <3>3. CASE k = n + 1 /\ j # n + 1
      <4>1. j \in 1..n
        BY <3>3, <1>3
      <4> QED BY <4>1, <3>3, <2>1, <1>2, <1>5
    <3> QED BY <3>1, <3>2, <3>3, <1>3
  <2>2. ASSUME NEW j \in 1..(n + 1), NEW k \in 1..Len(fi) PROVE t[j].entry # fi[k].offset
    <3>1. CASE j \in 1..n
      <4>1. fr[j].entry # fi[k].offset
        BY <3>1, <1>1 DEF Tree, Entries
      <4> QED BY <4>1, <3>1, <1>2
    <3>2. CASE j = n + 1
      BY <3>2, <1>2, <1>6
    <3> QED BY <3>1, <3>2, <1>3
  <2>3. DOMAIN st = {r.entry : r \in Runs(t, fi)}
    <3>1. DOMAIN se = {r.entry : r \in Runs(fr, fi)}
      BY DEF Tree, Entries
    <3>2. DOMAIN st = DOMAIN se \union {x.entry}
      BY DEF Plus
    <3> QED BY <3>1, <3>2, <1>4
  <2>4. \A j, k \in 1..Len(fi) : fi[j].offset = fi[k].offset => j = k
    BY DEF Tree, Entries
  <2> QED BY <2>1, <2>2, <2>3, <2>4, <1>2 DEF Entries
<1>8. StackShape(t, fi)
  <2>1. t[1].entry = 1
    <3>1. fr[1].entry = 1 /\ 1 \in 1..n
      BY <1>1 DEF Tree, StackShape
    <3> QED BY <3>1, <1>2
  <2>2. ASSUME NEW k \in 1..(n + 1), k < n + 1 PROVE t[k].ended /\ ExitsTo(t[k], t[k + 1].entry)
    <3>1. k \in 1..n /\ t[k] = fr[k]
      BY <2>2, <1>1, <1>2
    <3>2. CASE k = n
      BY <3>1, <3>2, <1>1, <1>2
    <3>3. CASE k # n
      <4>1. k < n /\ k + 1 \in 1..n
        BY <3>1, <3>3, <1>1
      <4>2. fr[k].ended /\ ExitsTo(fr[k], fr[k + 1].entry)
        BY <4>1, <3>1, <1>1 DEF Tree, StackShape
      <4> QED BY <3>1, <4>1, <4>2, <1>2
    <3> QED BY <3>2, <3>3
  <2> QED BY <1>2, <2>1, <2>2 DEF StackShape
<1>9. PostOrder(t, fi)
  <2>1. ASSUME NEW j \in 1..Len(fi) PROVE JumpedTo(t, fi, j)
    <3>1. JumpedTo(fr, fi, j)
      BY DEF Tree, PostOrder
    <3> QED BY <3>1, <1>1, <1>2, <1>3 DEF JumpedTo
  <2> QED BY <2>1 DEF PostOrder
<1>10. \A r \in Runs(t, fi) : RunShape(c, S, r)
  BY <1>4 DEF Tree
<1>11. Plus(Runs(fr, fi), x, Runs(t, fi))
  BY <1>4 DEF Plus
<1> QED BY <1>2, <1>7, <1>8, <1>9, <1>10, <1>11 DEF Tree

\* The innermost activation returns and its block is finished: it is the same run.
Moves(fr, fi, b, t, u) ==
    BlockRun(b) = fr[Len(fr)] /\ t = SubSeq(fr, 1, Len(fr) - 1) /\ u = Append(fi, b)

\* When the top returns: its block is finished before that of its caller.
LEMMA TreePopped ==
    ASSUME NEW c, NEW S, NEW fr \in Seq(FrameSet), NEW fi \in Seq(BlockSet), NEW se, Tree(c, S, fr, fi, se), fr # <<>>,
           NEW b \in BlockSet, NEW t, NEW u, Moves(fr, fi, b, t, u)
    PROVE  /\ Tree(c, S, t, u, se) /\ Runs(t, u) = Runs(fr, fi)
           /\ t \in Seq(FrameSet) /\ u \in Seq(BlockSet)
<1>0. BlockRun(b) = fr[Len(fr)] /\ t = SubSeq(fr, 1, Len(fr) - 1) /\ u = Append(fi, b)
  BY DEF Moves
<1> USE <1>0
<1>1. PICK n \in Nat : n = Len(fr) /\ n >= 1
  OBVIOUS
<1>2. t \in Seq(FrameSet) /\ Len(t) = n - 1 /\ (\A j \in 1..(n - 1) : t[j] = fr[j]) /\ (t = <<>> <=> n = 1)
  BY <1>1, TopFacts
<1>3. PICK m \in Nat : m = Len(fi)
  OBVIOUS
<1>4. u \in Seq(BlockSet) /\ Len(u) = m + 1 /\ u # <<>> /\ u[m + 1] = b /\ \A j \in 1..m : u[j] = fi[j]
  <2>1. /\ u \in Seq(BlockSet) /\ Len(u) = Len(fi) + 1 /\ u # <<>>
        /\ \A j \in 1..Len(fi) : u[j] = fi[j]
        /\ u[Len(fi) + 1] = b
    <3>1. fi \in Seq(BlockSet) /\ b \in BlockSet /\ u = Append(fi, b)
      OBVIOUS
    <3> QED BY ONLY <3>1, PushFacts
  <2> QED BY <2>1, <1>3
<1>5. 1..(m + 1) = 1..m \union {m + 1} /\ 1..n = 1..(n - 1) \union {n}
  BY <1>1
<1>6. Runs(t, u) = Runs(fr, fi)
  <2>1. {BlockRun(u[j]) : j \in 1..(m + 1)} = {BlockRun(fi[j]) : j \in 1..m} \union {fr[n]}
    BY <1>1, <1>4, <1>5
  <2>2. {fr[j] : j \in 1..n} = {t[j] : j \in 1..(n - 1)} \union {fr[n]}
    <3>1. {fr[j] : j \in 1..(n - 1)} = {t[j] : j \in 1..(n - 1)}
      BY <1>2
    <3>2. {fr[j] : j \in 1..n} = {fr[j] : j \in 1..(n - 1)} \union {fr[n]}
      BY ONLY <1>5
    <3> QED BY ONLY <3>1, <3>2
  <2> QED BY <2>1, <2>2, <1>1, <1>2, <1>3, <1>4 DEF Runs
<1>7. b.offset = fr[n].entry /\ b.exit = fr[n].exit
  BY <1>1, BlockRunFacts
<1>8. Entries(t, u, se)
  <2>0. /\ \A j, k \in 1..n : fr[j].entry = fr[k].entry => j = k
        /\ \A j, k \in 1..m : fi[j].offset = fi[k].offset => j = k
        /\ \A j \in 1..n, k \in 1..m : fr[j].entry # fi[k].offset
        /\ DOMAIN se = {r.entry : r \in Runs(fr, fi)}
    BY <1>1, <1>3 DEF Tree, Entries
  <2>1. \A j, k \in 1..(n - 1) : t[j].entry = t[k].entry => j = k
    BY <2>0, <1>2, <1>5
  <2>2. \A j, k \in 1..(m + 1) : u[j].offset = u[k].offset => j = k
    <3>1. \A k \in 1..m : u[k].offset # u[m + 1].offset
      <4>1. n \in 1..n
        BY <1>1
      <4>2. \A k \in 1..m : fr[n].entry # fi[k].offset
        BY <4>1, <2>0
      <4> QED BY <4>2, <1>4, <1>7
    <3>2. \A j, k \in 1..m : u[j].offset = u[k].offset => j = k
      BY <2>0, <1>4
    <3> QED BY ONLY <3>1, <3>2, <1>5
  <2>3. \A j \in 1..(n - 1), k \in 1..(m + 1) : t[j].entry # u[k].offset
    <3>1. \A j \in 1..(n - 1) : j \in 1..n /\ n \in 1..n /\ j # n
      BY <1>1
    <3>2. \A j \in 1..(n - 1) : t[j].entry # u[m + 1].offset
      BY <3>1, <2>0, <1>2, <1>4, <1>7
    <3>3. \A j \in 1..(n - 1), k \in 1..m : t[j].entry # u[k].offset
      BY <3>1, <2>0, <1>2, <1>4
    <3> QED BY ONLY <3>2, <3>3, <1>5
  <2>4. DOMAIN se = {r.entry : r \in Runs(t, u)}
    BY <2>0, <1>6
  <2>5. Len(t) = n - 1 /\ Len(u) = m + 1
    BY <1>2, <1>4
  <2> QED BY ONLY <2>1, <2>2, <2>3, <2>4, <2>5 DEF Entries
<1>9. StackShape(t, u)
  <2>1. t # <<>> => t[1].entry = 1
    <3>1. t # <<>> => 1 \in 1..(n - 1)
      BY <1>1, <1>2
    <3>2. fr[1].entry = 1
      BY DEF Tree, StackShape
    <3> QED BY <3>1, <3>2, <1>2
  <2>2. t = <<>> => u[Len(u)].offset = 1
    <3>1. t = <<>> => n = 1
      BY <1>2
    <3>2. fr[1].entry = 1
      BY DEF Tree, StackShape
    <3> QED BY <3>1, <3>2, <1>4, <1>7
  <2>3. ASSUME NEW k \in 1..(n - 1), k < n - 1 PROVE t[k].ended /\ ExitsTo(t[k], t[k + 1].entry)
    <3>1. k \in 1..n /\ k < n /\ k + 1 \in 1..(n - 1)
      BY <2>3, <1>1
    <3>2. fr[k].ended /\ ExitsTo(fr[k], fr[k + 1].entry)
      BY <3>1, <1>1 DEF Tree, StackShape
    <3> QED BY <3>1, <3>2, <1>2
  <2> QED BY <2>1, <2>2, <2>3, <1>2, <1>4 DEF StackShape
<1>10. ASSUME NEW j \in 1..(m + 1) PROVE JumpedTo(t, u, j)
  <2>1. CASE j = m + 1
    <3>1. CASE n = 1
      <4>1. fr[1].entry = 1
        BY DEF Tree, StackShape
      <4> QED BY <4>1, <3>1, <2>1, <1>4, <1>7 DEF JumpedTo
    <3>2. CASE n # 1
      <4>1. PICK k \in 1..(n - 1) : k + 1 = n /\ k < n /\ k \in 1..n
        BY <3>2, <1>1
      <4>2. ExitsTo(fr[k], fr[n].entry)
        BY <4>1, <1>1 DEF Tree, StackShape
      <4>3. ExitsTo(t[k], u[j].offset) /\ k \in 1..Len(t)
        BY <4>1, <4>2, <2>1, <1>2, <1>4, <1>7
      <4> QED BY <4>3 DEF JumpedTo
    <3> QED BY <3>1, <3>2
  <2>2. CASE j \in 1..m
    <3>1. JumpedTo(fr, fi, j) /\ u[j] = fi[j]
      BY <2>2, <1>3, <1>4 DEF Tree, PostOrder
    <3>2. CASE fi[j].offset = 1
      BY <3>1, <3>2 DEF JumpedTo
    <3>3. CASE \E k \in (j + 1)..m : ExitsTo(fi[k], fi[j].offset)
      <4>1. PICK k \in (j + 1)..m : ExitsTo(fi[k], fi[j].offset)
        BY <3>3
      <4>2. k \in 1..m /\ k \in (j + 1)..(m + 1)
        BY <2>2
      <4>3. ExitsTo(u[k], u[j].offset)
        BY <4>1, <4>2, <3>1, <1>4
      <4> QED BY <4>2, <4>3, <1>4 DEF JumpedTo
    <3>4. CASE \E k \in 1..n : ExitsTo(fr[k], fi[j].offset)
      <4>1. PICK k \in 1..n : ExitsTo(fr[k], fi[j].offset)
        BY <3>4
      <4>2. CASE k \in 1..(n - 1)
        BY <4>1, <4>2, <3>1, <1>2 DEF JumpedTo
      <4>3. CASE k = n
        <5>1. ExitsTo(u[m + 1], u[j].offset)
          BY <4>1, <4>3, <3>1, <1>4, <1>7 DEF ExitsTo
        <5>2. m + 1 \in (j + 1)..Len(u)
          BY <2>2, <1>4
        <5> QED BY <5>1, <5>2 DEF JumpedTo
      <4> QED BY <4>2, <4>3, <1>5
    <3> QED BY <3>1, <3>2, <3>3, <3>4, <1>1, <1>3 DEF JumpedTo
  <2> QED BY <2>1, <2>2, <1>5
<1>11. PostOrder(t, u)
  BY <1>10, <1>4 DEF PostOrder
<1>12. \A r \in Runs(t, u) : RunShape(c, S, r)
  BY <1>6 DEF Tree
<1> QED BY <1>2, <1>4, <1>6, <1>8, <1>9, <1>11, <1>12 DEF Tree

\* The innermost activation and the other runs.
LEMMA TopSetup ==
    ASSUME CodeOK, SearchInv, frames # <<>>
    PROVE  /\ Len(code) \in Nat /\ Top \in FrameSet /\ Top = frames[Len(frames)]
           /\ frames \in Seq(FrameSet) /\ finished \in Seq(BlockSet) /\ maxSize \in Nat /\ hasTraps \in BOOLEAN
           /\ Runs(frames, finished) = {Top} \union Others(frames, finished)
           /\ Others(frames, finished) \subseteq FrameSet
           /\ RunShape(code, starts, Top) /\ Top.entry \in DOMAIN seen
           /\ \A r \in Others(frames, finished) :
                RunShape(code, starts, r) /\ r.entry \in DOMAIN seen /\ r.entry # Top.entry
           /\ Tree(code, starts, frames, finished, seen)
<1>1. frames \in Seq(FrameSet) /\ finished \in Seq(BlockSet) /\ maxSize \in Nat /\ hasTraps \in BOOLEAN
  BY DEF SearchInv, SearchTypes
<1>2. Top = frames[Len(frames)]
  BY DEF Top
<1>3. /\ Top \in FrameSet /\ Runs(frames, finished) = {Top} \union Others(frames, finished)
      /\ Others(frames, finished) \subseteq FrameSet
  BY <1>1, <1>2, RunsTyped
<1>4. /\ \A r \in Runs(frames, finished) : RunShape(code, starts, r)
      /\ Entries(frames, finished, seen)
  BY DEF SearchInv
<1>5. \A r \in Runs(frames, finished) : r.entry \in DOMAIN seen
  BY <1>4 DEF Entries
<1>6. \A r \in Others(frames, finished) : r.entry # Top.entry
  BY <1>1, <1>2, <1>4, OthersEnterElsewhere
<1>7. Len(code) \in Nat
  BY LenFacts
<1>8. Tree(code, starts, frames, finished, seen)
  BY DEF SearchInv, Tree
<1> QED BY <1>1, <1>2, <1>3, <1>4, <1>5, <1>6, <1>7, <1>8

\* What the invariant says of one run.
LEMMA DepthsSetup ==
    ASSUME CodeOK, SearchInv, NEW D, Depths(D)
    PROVE  /\ DOMAIN D \subseteq 1..Len(code)
           /\ \A r \in Runs(frames, finished) :
                /\ Mem(starts, r) \subseteq DOMAIN D
                /\ RunDepth(code, starts, seen, maxSize, r, D) /\ RunExits(code, starts, seen, r, D)
                /\ RunFound(Walked(Walk, D), r)
           /\ \A l \in DOMAIN seen : <<l, seen[l].size>> \in Walked(Walk, D)
           /\ \A p \in DOMAIN D : <<p, D[p]>> \in Walked(Walk, D)
           /\ Walked(Walk, D) \subseteq Reached
           /\ Cardinality(DOMAIN D) \in Nat /\ Cardinality(DOMAIN D) <= Len(code)
<1>1. DOMAIN D \subseteq 1..Len(code)
  BY DEF Depths, Deep, Checked
<1>2. \A r \in Runs(frames, finished) : Mem(starts, r) \subseteq DOMAIN D
  BY DEF Depths, Deep, AllMembers
<1>3. Cardinality(DOMAIN D) \in Nat /\ Cardinality(DOMAIN D) <= Len(code)
  BY <1>1, LenFacts, DomainSize
<1>4. Walked(Walk, D) \subseteq Reached
  <2>1. PICK k \in Nat : k = Cardinality(DOMAIN D) /\ k <= 2 * Len(code)
    BY <1>3, LenFacts
  <2> QED BY <2>1, WalkReaches DEF Walked
<1> QED BY <1>1, <1>2, <1>3, <1>4 DEF Depths, Deep, RunsDeep, Found

\* The instruction come to is gone through for the first time, and its successors are
\* within the interpreter's reach.
LEMMA NewInstruction ==
    ASSUME CodeOK, SearchInv, NEW D, Depths(D), frames # <<>>, ~Top.ended, ~Joins(starts, Top),
           Top.at <= Len(code), NEW E, E = Extend(D, Top.at, Top.size)
    PROVE  /\ Top.at \in 1..Len(code) /\ Top.at \notin DOMAIN D /\ Top.at \notin Mem(starts, Top)
           /\ DepthGrows(D, E) /\ DOMAIN E = DOMAIN D \union {Top.at} /\ E[Top.at] = Top.size
           /\ Walked(Walk, D) \subseteq Walked(Walk, E)
           /\ <<Top.at, Top.size>> \in Walked(Walk, D)
           /\ Successors(code[Top.at], Top.at, Top.size) \subseteq Walked(Walk, E)
<1>1. /\ Len(code) \in Nat /\ Top \in FrameSet
      /\ Runs(frames, finished) = {Top} \union Others(frames, finished)
      /\ Others(frames, finished) \subseteq FrameSet
      /\ RunShape(code, starts, Top)
      /\ \A r \in Others(frames, finished) : RunShape(code, starts, r) /\ r.entry # Top.entry
  BY TopSetup
<1>2. PICK a : a = Top.at
  OBVIOUS
<1>3. a \in 1..Len(code)
  BY <1>1, <1>2, FrameFacts
<1>4. a \notin Mem(starts, Top)
  BY <1>1, <1>2, MemFacts
<1>5. \A r \in Others(frames, finished) : a \notin Mem(starts, r)
  BY <1>1, <1>2, AtIsNew
<1>6. DOMAIN D = AllMembers(starts, Runs(frames, finished))
  BY DEF Depths, Deep
<1>7. a \notin DOMAIN D
  BY <1>1, <1>4, <1>5, <1>6 DEF AllMembers
<1>8. DOMAIN D \subseteq 1..Len(code)
  BY DepthsSetup
<1>9. PICK s : s = Top.size
  OBVIOUS
<1>10. /\ DepthGrows(D, E) /\ DOMAIN E = DOMAIN D \union {a} /\ E[a] = s
       /\ Cardinality(DOMAIN D) \in Nat /\ Cardinality(DOMAIN D) < Len(code)
       /\ Cardinality(DOMAIN E) = Cardinality(DOMAIN D) + 1
  <2>1. PICK m \in Nat : m = Len(code)
    BY <1>1
  <2>2. E = Extend(D, a, s)
    BY <1>2, <1>9
  <2>3. a \in 1..m /\ DOMAIN D \subseteq 1..m
    BY <2>1, <1>3, <1>8
  <2>4. /\ DepthGrows(D, Extend(D, a, s)) /\ DOMAIN Extend(D, a, s) = DOMAIN D \union {a} /\ Extend(D, a, s)[a] = s
        /\ Cardinality(DOMAIN D) \in Nat /\ Cardinality(DOMAIN D) < m
        /\ Cardinality(DOMAIN Extend(D, a, s)) = Cardinality(DOMAIN D) + 1
    BY ONLY <2>3, <1>7, m \in Nat, ExtendFacts
  <2> QED BY <2>1, <2>2, <2>4
<1>11. PICK k \in Nat : k = Cardinality(DOMAIN D)
  BY <1>10
<1>12. k < 2 * Len(code) /\ Cardinality(DOMAIN E) = k + 1
  BY <1>10, <1>11, <1>1
<1>13. /\ Walk[k] \subseteq Walk[k + 1]
       /\ \A p \in 1..Len(code) : \A d : <<p, d>> \in Walk[k] => Successors(code[p], p, d) \subseteq Walk[k + 1]
  BY <1>12, WalkStep
<1>14. Walked(Walk, D) = Walk[k] /\ Walked(Walk, E) = Walk[k + 1]
  BY <1>11, <1>12 DEF Walked
<1>15. <<a, s>> \in Walk[k]
  <2>1. RunFound(Walked(Walk, D), Top)
    BY <1>1, DepthsSetup
  <2> QED BY <2>1, <1>2, <1>9, <1>14 DEF RunFound
<1> QED BY <1>2, <1>3, <1>4, <1>7, <1>9, <1>10, <1>13, <1>14, <1>15

\* The sizes when the top and one entry of seen change, and nothing else.
LEMMA TopAndSeenChanged ==
    ASSUME CodeOK, SearchInv, NEW D, Depths(D), frames # <<>>,
           NEW x \in FrameSet, x.entry = Top.entry, RunShape(code, starts, x),
           \A l : ExitsTo(Top, l) => ExitsTo(x, l),
           NEW E, DepthGrows(D, E), DOMAIN E = DOMAIN D \union Mem(starts, x), Mem(starts, Top) \subseteq Mem(starts, x),
           Walked(Walk, D) \subseteq Walked(Walk, E),
           NEW my \in Nat, maxSize <= my, NEW ht, Checked(code, my, ht, E),
           NEW st, SeenGrows(seen, st), \A l \in DOMAIN st : <<l, st[l].size>> \in Walked(Walk, E),
           RunDepth(code, starts, st, my, x, E), RunExits(code, starts, st, x, E), RunFound(Walked(Walk, E), x),
           \A p \in DOMAIN E : <<p, E[p]>> \in Walked(Walk, E),
           NEW t, ReplacesTop(frames, x, t)
    PROVE  /\ t \in Seq(FrameSet) /\ t # <<>> /\ TopIs(Len(frames), frames, x, t)
           /\ Tree(code, starts, t, finished, seen)
           /\ Deep(code, starts, Walk, t, finished, st, my, ht, E)
<1>1. /\ Len(code) \in Nat /\ Top \in FrameSet /\ Top = frames[Len(frames)]
      /\ frames \in Seq(FrameSet) /\ finished \in Seq(BlockSet) /\ maxSize \in Nat
      /\ Runs(frames, finished) = {Top} \union Others(frames, finished)
      /\ Others(frames, finished) \subseteq FrameSet
      /\ Top.entry \in DOMAIN seen
      /\ \A r \in Others(frames, finished) : RunShape(code, starts, r) /\ r.entry \in DOMAIN seen
      /\ Tree(code, starts, frames, finished, seen)
  BY TopSetup
<1>2. /\ \A r \in Runs(frames, finished) :
           /\ Mem(starts, r) \subseteq DOMAIN D
           /\ RunDepth(code, starts, seen, maxSize, r, D) /\ RunExits(code, starts, seen, r, D)
           /\ RunFound(Walked(Walk, D), r)
      /\ \A l \in DOMAIN seen : <<l, seen[l].size>> \in Walked(Walk, D)
  BY DepthsSetup
<1>3. t \in Seq(FrameSet) /\ TopIs(Len(frames), frames, x, t)
  <2>1. frames \in Seq(FrameSet) /\ frames # <<>> /\ x \in FrameSet /\ ReplacesTop(frames, x, t)
    BY <1>1
  <2> QED BY ONLY <2>1, ReplaceTop
<1>4. t # <<>>
  BY <1>3 DEF TopIs
<1>5. Runs(t, finished) = {x} \union Others(frames, finished)
  BY <1>1, <1>3, RunsReplaced
<1>6. Tree(code, starts, t, finished, seen)
  <2>1. /\ frames \in Seq(FrameSet) /\ finished \in Seq(BlockSet) /\ Tree(code, starts, frames, finished, seen)
        /\ x.entry = frames[Len(frames)].entry /\ \A l : ExitsTo(frames[Len(frames)], l) => ExitsTo(x, l)
    BY <1>1
  <2> QED BY <2>1, <1>3, TreeReplaced
<1>7. DOMAIN E = AllMembers(starts, Runs(t, finished))
  <2>1. DOMAIN D = AllMembers(starts, {Top} \union Others(frames, finished))
    BY <1>1 DEF Depths, Deep
  <2>2. DOMAIN D = Mem(starts, Top) \union AllMembers(starts, Others(frames, finished))
    BY <2>1 DEF AllMembers
  <2>3. AllMembers(starts, Runs(t, finished)) = Mem(starts, x) \union AllMembers(starts, Others(frames, finished))
    BY <1>5 DEF AllMembers
  <2> QED BY <2>2, <2>3
<1>8. RunsDeep(code, starts, st, my, Others(frames, finished), E)
  <2>1. PICK R : R = Others(frames, finished)
    OBVIOUS
  <2>2. /\ R \in SUBSET FrameSet
        /\ \A r \in R : RunShape(code, starts, r) /\ Mem(starts, r) \subseteq DOMAIN D /\ r.entry \in DOMAIN seen
    BY <2>1, <1>1, <1>2
  <2>3. RunsDeep(code, starts, seen, maxSize, R, D)
    BY <2>1, <1>1, <1>2 DEF RunsDeep
  <2>4. Len(code) \in Nat /\ maxSize \in Nat /\ my \in Nat /\ maxSize <= my /\ SeenGrows(seen, st) /\ DepthGrows(D, E)
    BY <1>1
  <2>5. RunsDeep(code, starts, st, my, R, E)
    BY ONLY <2>2, <2>3, <2>4, RunsDeepKept
  <2> QED BY <2>1, <2>5
<1>9. RunsDeep(code, starts, st, my, Runs(t, finished), E)
  BY <1>5, <1>8 DEF RunsDeep
<1>10. Found(Walked(Walk, E), st, Runs(t, finished), E)
  <2>1. \A r \in Runs(t, finished) : RunFound(Walked(Walk, E), r)
    <3>1. ASSUME NEW r \in Others(frames, finished) PROVE RunFound(Walked(Walk, E), r)
      <4>1. RunFound(Walked(Walk, D), r)
        BY <1>1, <1>2
      <4> QED BY <4>1 DEF RunFound
    <3> QED BY <3>1, <1>5
  <2> QED BY <2>1 DEF Found
<1>11. Deep(code, starts, Walk, t, finished, st, my, ht, E)
  BY <1>7, <1>9, <1>10 DEF Deep
<1> QED BY <1>3, <1>4, <1>6, <1>11

\* The sizes when only the top changes.
LEMMA TopChanged ==
    ASSUME CodeOK, SearchInv, NEW D, Depths(D), frames # <<>>,
           NEW x \in FrameSet, x.entry = Top.entry, RunShape(code, starts, x),
           \A l : ExitsTo(Top, l) => ExitsTo(x, l),
           NEW E, DepthGrows(D, E), DOMAIN E = DOMAIN D \union Mem(starts, x), Mem(starts, Top) \subseteq Mem(starts, x),
           Walked(Walk, D) \subseteq Walked(Walk, E),
           NEW my \in Nat, maxSize <= my, NEW ht, Checked(code, my, ht, E),
           NEW st, SeenGrows(seen, st), DOMAIN st = DOMAIN seen,
           RunDepth(code, starts, st, my, x, E), RunExits(code, starts, st, x, E), RunFound(Walked(Walk, E), x),
           \A p \in DOMAIN E : <<p, E[p]>> \in Walked(Walk, E),
           NEW t, ReplacesTop(frames, x, t)
    PROVE  /\ t \in Seq(FrameSet) /\ t # <<>> /\ TopIs(Len(frames), frames, x, t)
           /\ Tree(code, starts, t, finished, st)
           /\ Deep(code, starts, Walk, t, finished, st, my, ht, E)
<1>1. \A l \in DOMAIN st : <<l, st[l].size>> \in Walked(Walk, E)
  <2>1. \A l \in DOMAIN seen : <<l, seen[l].size>> \in Walked(Walk, D)
    BY DepthsSetup
  <2> QED BY <2>1 DEF SeenGrows
<1>2. /\ t \in Seq(FrameSet) /\ t # <<>> /\ TopIs(Len(frames), frames, x, t)
      /\ Tree(code, starts, t, finished, seen)
      /\ Deep(code, starts, Walk, t, finished, st, my, ht, E)
  BY <1>1, TopAndSeenChanged
<1>3. Tree(code, starts, t, finished, st)
  BY <1>2 DEF Tree, Entries
<1> QED BY <1>2, <1>3

\* The search invariant from its parts.
LEMMA Reassemble ==
    ASSUME SearchInv, code' = code, starts' = starts,
           frames' \in Seq(FrameSet), finished' \in Seq(BlockSet),
           Tree(code, starts, frames', finished', seen'),
           DOMAIN seen' \subseteq Label, seen' \in [DOMAIN seen' -> PendingSet], Pendings(seen'), seen'[1].size = Arity,
           maxSize' \in Nat, hasTraps' \in BOOLEAN,
           NEW E, Deep(code, starts, Walk, frames', finished', seen', maxSize', hasTraps', E)
    PROVE  ConvertInv'
<1>1. Arity' = Arity /\ Walk' = Walk
  BY DEF Arity, Walk
<1>2. SearchTypes'
  BY DEF SearchInv, SearchTypes
<1>3. Closed(code, starts)
  BY DEF SearchInv
<1>4. SearchInv'
  BY <1>1, <1>2, <1>3 DEF SearchInv, Tree
<1>5. Depths(E)'
  BY <1>1 DEF Depths
<1> QED BY <1>4, <1>5 DEF ConvertInv

Advances(r, s, x) == x = [r EXCEPT !.at = @ + 1, !.size = s]

\* The fields of the top after an instruction inside a block.
LEMMA AdvanceFacts ==
    ASSUME NEW r \in FrameSet, NEW s \in Nat, NEW x, Advances(r, s, x)
    PROVE  /\ x \in FrameSet /\ x.entry = r.entry /\ x.at = r.at + 1 /\ x.size = s /\ x.todo = r.todo
           /\ x.ended = r.ended /\ x.exit = r.exit
<1>1. r.at + 1 \in Label
  BY FrameFacts DEF Label
<1> QED BY <1>1 DEF FrameSet, Advances

EndsWith(r, s, vs, x) ==
    x = [r EXCEPT !.size = s, !.todo = vs, !.ended = TRUE, !.exit = [k \in DOMAIN vs |-> vs[k].to]]

\* The fields of the top after the last instruction of a block.
LEMMA EndFacts ==
    ASSUME NEW r \in FrameSet, NEW s \in Nat, NEW vs \in Seq(VisitSet), NEW x, EndsWith(r, s, vs, x)
    PROVE  /\ x \in FrameSet /\ x.entry = r.entry /\ x.at = r.at /\ x.size = s /\ x.todo = vs
           /\ x.ended /\ DOMAIN x.exit = DOMAIN vs /\ \A k \in DOMAIN vs : x.exit[k] = vs[k].to
<1>1. PICK e : e = [k \in DOMAIN vs |-> vs[k].to]
  OBVIOUS
<1>2. e \in Seq(Label)
  <2>1. PICK m \in Nat : DOMAIN vs = 1..m /\ \A k \in 1..m : vs[k] \in VisitSet
    OBVIOUS
  <2>2. \A k \in 1..m : vs[k].to \in Label
    BY <2>1 DEF VisitSet
  <2>3. e = [k \in 1..m |-> vs[k].to]
    BY <1>1, <2>1
  <2> QED BY ONLY <2>2, <2>3, m \in Nat
<1>3. DOMAIN e = DOMAIN vs /\ \A k \in DOMAIN vs : e[k] = vs[k].to
  BY <1>1
<1>4. x = [r EXCEPT !.size = s, !.todo = vs, !.ended = TRUE, !.exit = e]
  BY <1>1 DEF EndsWith
<1>5. /\ x \in FrameSet /\ x.entry = r.entry /\ x.at = r.at /\ x.size = s /\ x.todo = vs
      /\ x.ended /\ x.exit = e
  BY <1>4, <1>2 DEF FrameSet
<1> QED BY <1>3, <1>5

Allowed(c, mx, ht, a, s) ==
    /\ a \in 1..Len(c) /\ s \in Nat /\ s <= mx
    /\ IF c[a].op \in Ends THEN ExitAllowed(c[a], s) ELSE Enough(c[a], s)
    /\ c[a].op = "pushtrap" => ht

\* One more instruction has passed the checks of visit.
LEMMA CheckedExtended ==
    ASSUME NEW c, NEW mx \in Nat, NEW ht \in BOOLEAN, NEW D, Checked(c, mx, ht, D), NEW my \in Nat, mx <= my, NEW hu \in BOOLEAN,
           ht => hu, NEW a, NEW s, NEW E, DepthGrows(D, E), DOMAIN E = DOMAIN D \union {a}, E[a] = s,
           Allowed(c, my, hu, a, s)
    PROVE  Checked(c, my, hu, E)
<1>1. ASSUME NEW p \in DOMAIN D
      PROVE  /\ p \in 1..Len(c) /\ E[p] \in Nat /\ E[p] <= my
             /\ IF c[p].op \in Ends THEN ExitAllowed(c[p], E[p]) ELSE Enough(c[p], E[p])
             /\ c[p].op = "pushtrap" => hu
  <2>1. E[p] = D[p]
    BY DEF DepthGrows
  <2>2. /\ p \in 1..Len(c) /\ D[p] \in Nat /\ D[p] <= mx
        /\ IF c[p].op \in Ends THEN ExitAllowed(c[p], D[p]) ELSE Enough(c[p], D[p])
        /\ c[p].op = "pushtrap" => ht
    BY DEF Checked
  <2> QED BY <2>1, <2>2
<1>2. /\ a \in 1..Len(c) /\ E[a] \in Nat /\ E[a] <= my
      /\ IF c[a].op \in Ends THEN ExitAllowed(c[a], E[a]) ELSE Enough(c[a], E[a])
      /\ c[a].op = "pushtrap" => hu
  BY DEF Allowed
<1> QED BY <1>1, <1>2 DEF Checked

\* The checks passed so far are not affected by a larger maximum.
LEMMA CheckedKept ==
    ASSUME NEW c, NEW mx \in Nat, NEW ht, NEW D, Checked(c, mx, ht, D), NEW my \in Nat, mx <= my
    PROVE  Checked(c, my, ht, D)
<1>1. \A p \in DOMAIN D : D[p] \in Nat /\ D[p] <= my
  BY DEF Checked
<1> QED BY <1>1 DEF Checked

\* The stack sizes of the run the innermost activation becomes, where it has gone through
\* one more instruction.
LEMMA AdvancedDepths ==
    ASSUME CodeOK, SearchInv, NEW D, Depths(D), frames # <<>>, ~Top.ended, ~Joins(starts, Top),
           Top.at <= Len(code), NEW E, E = Extend(D, Top.at, Top.size), NEW x \in FrameSet, x.entry = Top.entry
    PROVE  /\ \A p \in Mem(starts, Top) \union {Top.at} : E[p] = Arrive(code, seen, x, E, p)
           /\ Mem(starts, Top) \union {Top.at} = Top.entry..Top.at
<1>1. /\ Len(code) \in Nat /\ Top \in FrameSet /\ RunShape(code, starts, Top) /\ Top \in Runs(frames, finished) /\ Top.entry \in DOMAIN seen
  BY TopSetup
<1>2. Mem(starts, Top) \subseteq DOMAIN D /\ RunDepth(code, starts, seen, maxSize, Top, D)
  BY <1>1, DepthsSetup
<1>3. DepthGrows(D, E) /\ E[Top.at] = Top.size
  BY NewInstruction
<1>4. SeenGrows(seen, seen)
  BY DEF SeenGrows
<1>5. /\ \A p \in Mem(starts, Top) : Arrive(code, seen, Top, E, p) = Arrive(code, seen, Top, D, p)
      /\ Arrive(code, seen, Top, E, Top.at) = Arrive(code, seen, Top, D, Top.at)
  <2>1. ArriveAlike(code, starts, seen, D, seen, E, Top)
    BY ONLY <1>1, <1>2, <1>3, <1>4, ArriveKept
  <2> QED BY <2>1 DEF ArriveAlike
<1>6. \A p : Arrive(code, seen, x, E, p) = Arrive(code, seen, Top, E, p)
  BY DEF Arrive
<1>7. /\ \A p \in Mem(starts, Top) : D[p] = Arrive(code, seen, Top, D, p)
      /\ Top.size = Arrive(code, seen, Top, D, Top.at)
  BY <1>2 DEF RunDepth
<1>8. \A p \in Mem(starts, Top) : E[p] = D[p]
  BY <1>2, <1>3 DEF DepthGrows
<1>9. Mem(starts, Top) = Top.entry..(Top.at - 1)
  BY DEF Mem
<1>10. Top.entry \in Nat /\ Top.at \in Nat /\ Top.entry <= Top.at
  BY <1>1, FrameFacts DEF RunShape
<1>11. Top.entry..(Top.at - 1) \union {Top.at} = Top.entry..Top.at
  BY <1>10
<1> QED BY <1>3, <1>5, <1>6, <1>7, <1>8, <1>9, <1>11

\* An instruction inside a block keeps the invariant.
LEMMA GoOnKeeps ==
    ASSUME CodeOK, SearchInv, NEW D, Depths(D), frames # <<>>, Top.todo = <<>>, ~Top.ended,
           Top.at <= Len(code), ~Joins(starts, Top), code[Top.at].op \notin Ends, Enough(code[Top.at], Top.size),
           GoOn(Top.size + Effect(code[Top.at])), maxSize' = Larger(maxSize, Top.size),
           code' = code, starts' = starts, seen' = seen, finished' = finished
    PROVE  ConvertInv' /\ frames' # <<>>
<1> DEFINE a == Top.at
           E == Extend(D, Top.at, Top.size)
<1>1. /\ Len(code) \in Nat /\ Top \in FrameSet /\ Top = frames[Len(frames)]
      /\ finished \in Seq(BlockSet) /\ maxSize \in Nat /\ hasTraps \in BOOLEAN
      /\ RunShape(code, starts, Top)
  BY TopSetup
<1>2. Top.entry \in Nat /\ a \in Nat /\ Top.size \in Nat /\ Top.entry <= a /\ a \in 1..Len(code)
  BY <1>1, FrameFacts DEF RunShape
<1>3. code[a] \in Instruction
  BY <1>2, CodeFacts
<1>4. PICK s \in Nat : s = Top.size + Effect(code[a])
  BY <1>2, <1>3, EffectNat
<1>0. PICK x : Advances(Top, s, x)
  BY DEF Advances
<1>5. /\ x \in FrameSet /\ x.entry = Top.entry /\ x.at = a + 1 /\ x.size = s /\ x.todo = <<>> /\ ~x.ended /\ x.exit = Top.exit
  <2>1. /\ x \in FrameSet /\ x.entry = Top.entry /\ x.at = Top.at + 1 /\ x.size = s /\ x.todo = Top.todo
        /\ x.ended = Top.ended /\ x.exit = Top.exit
    BY ONLY <1>0, <1>1, s \in Nat, AdvanceFacts
  <2> QED BY <2>1
<1>6. ReplacesTop(frames, x, frames') /\ hasTraps' = hasTraps
  BY <1>0, <1>4 DEF GoOn, Below, ReplacesTop, Advances
<1>7. /\ DepthGrows(D, E) /\ DOMAIN E = DOMAIN D \union {a} /\ E[a] = Top.size
      /\ Walked(Walk, D) \subseteq Walked(Walk, E) /\ <<a, Top.size>> \in Walked(Walk, D)
      /\ Successors(code[a], a, Top.size) \subseteq Walked(Walk, E)
  BY NewInstruction
<1>8. Mem(starts, x) = Mem(starts, Top) \union {a} /\ Mem(starts, x) = Top.entry..a
  <2>1. Mem(starts, x) = Top.entry..((a + 1) - 1) /\ (a + 1) - 1 = a
    BY <1>5, <1>2 DEF Mem
  <2> QED BY <2>1, <1>5, AdvancedDepths
<1>9. \A p \in Mem(starts, x) : E[p] = Arrive(code, seen, x, E, p)
  <2>1. \A p \in Mem(starts, Top) \union {Top.at} : E[p] = Arrive(code, seen, x, E, p)
    <3> HIDE DEF a
    <3> QED BY <1>5, AdvancedDepths
  <2> QED BY <2>1, <1>8
<1> HIDE DEF E
<1>10. RunShape(code, starts, x)
  <2>1. x.entry \in starts /\ x.entry <= x.at /\ x.exit = <<>>
    BY <1>1, <1>2, <1>5 DEF RunShape
  <2>2. ASSUME NEW p \in x.entry..(x.at - 1)
        PROVE  p <= Len(code) /\ code[p].op \notin Ends /\ (p # x.entry => p \notin starts)
    <3>1. CASE p = a
      BY <3>1, <1>5 DEF Joins
    <3>2. CASE p # a
      <4>1. p \in Top.entry..(a - 1)
        BY <3>2, <1>2, <1>5
      <4> QED BY <4>1, <1>1, <1>5 DEF RunShape
    <3> QED BY <3>1, <3>2
  <2> QED BY <2>1, <2>2, <1>5 DEF RunShape
<1>11. PICK my \in Nat : my = maxSize' /\ maxSize <= my /\ Top.size <= my
  BY <1>1, <1>2, LargerFacts
<1>12. RunDepth(code, starts, seen, my, x, E)
  <2>1. x.at # x.entry /\ x.at - 1 = a
    BY <1>2, <1>5
  <2>2. Arrive(code, seen, x, E, x.at) = E[a] + Effect(code[a])
    BY <2>1 DEF Arrive
  <2>3. x.size = Arrive(code, seen, x, E, x.at)
    BY <2>2, <1>4, <1>5, <1>7
  <2> QED BY <2>3, <1>5, <1>9 DEF RunDepth
<1>13. RunExits(code, starts, seen, x, E)
  BY <1>5 DEF RunExits
<1>14. RunFound(Walked(Walk, E), x)
  <2>1. <<a + 1, s>> \in Successors(code[a], a, Top.size)
    BY <1>2, <1>3, <1>4, SuccessorInside
  <2>2. DOMAIN x.todo = {}
    BY <1>5
  <2> QED BY <2>1, <2>2, <1>5, <1>7 DEF RunFound
<1>15. Checked(code, my, hasTraps, E)
  <2>1. Checked(code, maxSize, hasTraps, D)
    BY DEF Depths, Deep
  <2>2. code[a].op # "pushtrap"
    BY DEF Ends, Falls
  <2>3. IF code[a].op \in Ends THEN ExitAllowed(code[a], Top.size) ELSE Enough(code[a], Top.size)
    OBVIOUS
  <2>4. hasTraps \in BOOLEAN /\ maxSize \in Nat /\ my \in Nat /\ maxSize <= my
    BY <1>1, <1>11
  <2>5. Allowed(code, my, hasTraps, Top.at, Top.size)
    BY <2>2, <2>3, <1>2, <1>11 DEF Allowed
  <2>6. DepthGrows(D, E) /\ DOMAIN E = DOMAIN D \union {Top.at} /\ E[Top.at] = Top.size
    BY <1>7
  <2> QED BY ONLY <2>1, <2>4, <2>5, <2>6, CheckedExtended
<1>16. \A p \in DOMAIN E : <<p, E[p]>> \in Walked(Walk, E)
  <2>1. \A p \in DOMAIN D : <<p, D[p]>> \in Walked(Walk, D)
    BY DepthsSetup
  <2> QED BY <2>1, <1>7 DEF DepthGrows
<1>17. SeenGrows(seen, seen)
  BY DEF SeenGrows
<1>18. DOMAIN E = DOMAIN D \union Mem(starts, x) /\ Mem(starts, Top) \subseteq Mem(starts, x)
  <2>1. Mem(starts, Top) \subseteq DOMAIN D
    BY TopSetup, DepthsSetup
  <2> QED BY <2>1, <1>7, <1>8
<1>19. \A l : ExitsTo(Top, l) => ExitsTo(x, l)
  BY <1>5 DEF ExitsTo
<1>20. /\ frames' \in Seq(FrameSet) /\ frames' # <<>>
       /\ Tree(code, starts, frames', finished, seen)
       /\ Deep(code, starts, Walk, frames', finished, seen, my, hasTraps, E)
  BY <1>5, <1>6, <1>7, <1>10, <1>11, <1>12, <1>13, <1>14, <1>15, <1>16, <1>17, <1>18, <1>19, TopChanged
<1>21. /\ DOMAIN seen \subseteq Label /\ seen \in [DOMAIN seen -> PendingSet] /\ Pendings(seen) /\ seen[1].size = Arity
  BY DEF SearchInv, SearchTypes
<1> QED BY <1>1, <1>6, <1>11, <1>20, <1>21, Reassemble

\* The instruction that ends a block keeps the invariant.
LEMMA ExitKeeps ==
    ASSUME CodeOK, SearchInv, NEW D, Depths(D), frames # <<>>, Top.todo = <<>>, ~Top.ended,
           Top.at <= Len(code), ~Joins(starts, Top), code[Top.at].op \in Ends, ExitAllowed(code[Top.at], Top.size),
           End(ExitSize(code[Top.at], Top.size), ExitVisits(code[Top.at], Top.at, Top.size)),
           hasTraps' = (hasTraps \/ code[Top.at].op = "pushtrap"), maxSize' = Larger(maxSize, Top.size),
           code' = code, starts' = starts, seen' = seen, finished' = finished
    PROVE  ConvertInv' /\ frames' # <<>>
<1> DEFINE a == Top.at
           E == Extend(D, Top.at, Top.size)
<1>1. /\ Len(code) \in Nat /\ Top \in FrameSet /\ Top = frames[Len(frames)]
      /\ finished \in Seq(BlockSet) /\ maxSize \in Nat /\ hasTraps \in BOOLEAN
      /\ RunShape(code, starts, Top)
  BY TopSetup
<1>2. Top.entry \in Nat /\ a \in Nat /\ Top.size \in Nat /\ Top.entry <= a /\ a \in 1..Len(code) /\ a \in Label
  BY <1>1, FrameFacts DEF RunShape
<1>3. code[a] \in Instruction
  BY <1>2, CodeFacts
<1>4. PICK vs : vs = ExitVisits(code[a], a, Top.size)
  OBVIOUS
<1>5. PICK s : s = ExitSize(code[a], Top.size)
  OBVIOUS
<1>6. /\ vs \in Seq(VisitSet) /\ s \in Nat
      /\ \A k \in DOMAIN vs : <<vs[k].to, vs[k].size>> \in Successors(code[a], a, Top.size)
  BY <1>2, <1>3, <1>4, <1>5, ExitVisitsAre
<1>7. PICK x : EndsWith(Top, s, vs, x)
  BY DEF EndsWith
<1>8. /\ x \in FrameSet /\ x.entry = Top.entry /\ x.at = a /\ x.size = s /\ x.todo = vs
      /\ x.ended /\ DOMAIN x.exit = DOMAIN vs /\ \A k \in DOMAIN vs : x.exit[k] = vs[k].to
  <2>1. Top \in FrameSet /\ s \in Nat /\ vs \in Seq(VisitSet)
    BY <1>1, <1>6
  <2> QED BY ONLY <1>7, <2>1, EndFacts
<1>9. ReplacesTop(frames, x, frames')
  BY <1>4, <1>5, <1>7 DEF End, Below, ReplacesTop, EndsWith
<1>10. /\ DepthGrows(D, E) /\ DOMAIN E = DOMAIN D \union {a} /\ E[a] = Top.size
       /\ Walked(Walk, D) \subseteq Walked(Walk, E) /\ <<a, Top.size>> \in Walked(Walk, D)
       /\ Successors(code[a], a, Top.size) \subseteq Walked(Walk, E)
  BY NewInstruction
<1>11. ~Joins(starts, x)
  BY <1>8 DEF Joins
<1>12. Mem(starts, x) = Mem(starts, Top) \union {a} /\ Mem(starts, x) = Top.entry..a
  <2>1. Mem(starts, x) = Top.entry..a
    BY <1>8, <1>11 DEF Mem
  <2> QED BY <2>1, <1>8, AdvancedDepths
<1>13. \A p \in Mem(starts, x) : E[p] = Arrive(code, seen, x, E, p)
  <2>1. \A p \in Mem(starts, Top) \union {Top.at} : E[p] = Arrive(code, seen, x, E, p)
    <3> HIDE DEF a
    <3> QED BY <1>8, AdvancedDepths
  <2> QED BY <2>1, <1>12
<1> HIDE DEF E
<1>14. RunShape(code, starts, x)
  <2>1. \A p \in Top.entry..(a - 1) : p <= Len(code) /\ code[p].op \notin Ends /\ (p # Top.entry => p \notin starts)
    BY <1>1 DEF RunShape
  <2> QED BY <2>1, <1>1, <1>2, <1>8 DEF RunShape
<1>15. PICK my \in Nat : my = maxSize' /\ maxSize <= my /\ Top.size <= my
  BY <1>1, <1>2, LargerFacts
<1>16. RunDepth(code, starts, seen, my, x, E)
  <2>1. x.size = ExitSize(code[x.at], E[x.at])
    BY <1>5, <1>8, <1>10
  <2> QED BY <2>1, <1>8, <1>11, <1>13 DEF RunDepth
<1>17. RunExits(code, starts, seen, x, E)
  <2>1. Visits(code, starts, x, E) = vs
    BY <1>4, <1>8, <1>10, <1>11 DEF Visits
  <2> QED BY <2>1, <1>8 DEF RunExits
<1>18. RunFound(Walked(Walk, E), x)
  BY <1>6, <1>8, <1>10 DEF RunFound
<1>19. PICK ht \in BOOLEAN : ht = hasTraps' /\ (hasTraps => ht) /\ (code[a].op = "pushtrap" => ht)
  BY <1>1
<1>20. Checked(code, my, ht, E)
  <2>1. Checked(code, maxSize, hasTraps, D)
    BY DEF Depths, Deep
  <2>2. hasTraps \in BOOLEAN /\ ht \in BOOLEAN /\ (hasTraps => ht) /\ maxSize \in Nat /\ my \in Nat /\ maxSize <= my
    BY <1>1, <1>15, <1>19
  <2>3. Allowed(code, my, ht, Top.at, Top.size)
    BY <1>2, <1>15, <1>19 DEF Allowed
  <2>4. DepthGrows(D, E) /\ DOMAIN E = DOMAIN D \union {Top.at} /\ E[Top.at] = Top.size
    BY <1>10
  <2> QED BY ONLY <2>1, <2>2, <2>3, <2>4, CheckedExtended
<1>21. \A p \in DOMAIN E : <<p, E[p]>> \in Walked(Walk, E)
  <2>1. \A p \in DOMAIN D : <<p, D[p]>> \in Walked(Walk, D)
    BY DepthsSetup
  <2> QED BY <2>1, <1>10 DEF DepthGrows
<1>22. SeenGrows(seen, seen)
  BY DEF SeenGrows
<1>23. DOMAIN E = DOMAIN D \union Mem(starts, x) /\ Mem(starts, Top) \subseteq Mem(starts, x)
  <2>1. Mem(starts, Top) \subseteq DOMAIN D
    BY TopSetup, DepthsSetup
  <2> QED BY <2>1, <1>10, <1>12
<1>24. \A l : ExitsTo(Top, l) => ExitsTo(x, l)
  <2>1. Top.exit = <<>>
    BY <1>1 DEF RunShape
  <2> QED BY <2>1 DEF ExitsTo
<1>25. /\ frames' \in Seq(FrameSet) /\ frames' # <<>>
       /\ Tree(code, starts, frames', finished, seen)
       /\ Deep(code, starts, Walk, frames', finished, seen, my, ht, E)
  BY <1>8, <1>9, <1>10, <1>14, <1>15, <1>16, <1>17, <1>18, <1>20, <1>21, <1>22, <1>23, <1>24, TopChanged
<1>26. /\ DOMAIN seen \subseteq Label /\ seen \in [DOMAIN seen -> PendingSet] /\ Pendings(seen) /\ seen[1].size = Arity
  BY DEF SearchInv, SearchTypes
<1> QED BY <1>1, <1>15, <1>19, <1>25, <1>26, Reassemble

\* Running into the next block start keeps the invariant.
LEMMA JoinKeeps ==
    ASSUME CodeOK, SearchInv, NEW D, Depths(D), frames # <<>>, Top.todo = <<>>, ~Top.ended,
           Top.at <= Len(code), Joins(starts, Top), End(Top.size, <<Visit(Top.at, Top.size)>>),
           hasTraps' = hasTraps, maxSize' = Larger(maxSize, Top.size),
           code' = code, starts' = starts, seen' = seen, finished' = finished
    PROVE  ConvertInv' /\ frames' # <<>>
<1> DEFINE a == Top.at
<1>1. /\ Len(code) \in Nat /\ Top \in FrameSet /\ Top = frames[Len(frames)]
      /\ finished \in Seq(BlockSet) /\ maxSize \in Nat /\ hasTraps \in BOOLEAN
      /\ RunShape(code, starts, Top) /\ Top \in Runs(frames, finished)
  BY TopSetup
<1>2. Top.entry \in Nat /\ a \in Nat /\ Top.size \in Nat /\ Top.entry <= a /\ a \in 1..Len(code) /\ a \in Label
  BY <1>1, FrameFacts DEF RunShape
<1>3. /\ Mem(starts, Top) \subseteq DOMAIN D /\ RunDepth(code, starts, seen, maxSize, Top, D)
      /\ RunFound(Walked(Walk, D), Top)
      /\ \A p \in DOMAIN D : <<p, D[p]>> \in Walked(Walk, D)
  BY <1>1, DepthsSetup
<1>4. PICK vs : vs = <<Visit(a, Top.size)>>
  OBVIOUS
<1>5. vs \in Seq(VisitSet) /\ DOMAIN vs = {1} /\ vs[1].to = a /\ vs[1].size = Top.size
  <2>1. PICK v : v = Visit(a, Top.size)
    OBVIOUS
  <2>2. v \in VisitSet /\ v.to = a /\ v.size = Top.size
    BY <2>1, <1>2 DEF Visit, VisitSet
  <2>3. vs = <<v>>
    BY <1>4, <2>1
  <2>4. vs \in Seq(VisitSet) /\ DOMAIN vs = 1..1 /\ vs[1] = v
    BY ONLY <2>2, <2>3
  <2>5. 1..1 = {1}
    OBVIOUS
  <2> QED BY <2>2, <2>4, <2>5
<1>6. PICK s : s = Top.size
  OBVIOUS
<1>7. PICK x : EndsWith(Top, s, vs, x)
  BY DEF EndsWith
<1>8. /\ x \in FrameSet /\ x.entry = Top.entry /\ x.at = a /\ x.size = s /\ x.todo = vs
      /\ x.ended /\ DOMAIN x.exit = DOMAIN vs /\ \A k \in DOMAIN vs : x.exit[k] = vs[k].to
  <2>1. Top \in FrameSet /\ s \in Nat /\ vs \in Seq(VisitSet)
    BY <1>1, <1>2, <1>5, <1>6
  <2> QED BY ONLY <1>7, <2>1, EndFacts
<1>9. ReplacesTop(frames, x, frames')
  BY <1>4, <1>6, <1>7 DEF End, Below, ReplacesTop, EndsWith
<1>10. Joins(starts, x)
  BY <1>8 DEF Joins
<1>11. Mem(starts, x) = Mem(starts, Top)
  BY <1>8, <1>10 DEF Mem
<1>12. RunShape(code, starts, x)
  <2>1. \A p \in Top.entry..(a - 1) : p <= Len(code) /\ code[p].op \notin Ends /\ (p # Top.entry => p \notin starts)
    BY <1>1 DEF RunShape
  <2> QED BY <2>1, <1>1, <1>2, <1>8, <1>10 DEF RunShape
<1>13. PICK my \in Nat : my = maxSize' /\ maxSize <= my /\ Top.size <= my
  BY <1>1, <1>2, LargerFacts
<1>14. RunDepth(code, starts, seen, my, x, D)
  <2>1. \A p : Arrive(code, seen, x, D, p) = Arrive(code, seen, Top, D, p)
    BY <1>8 DEF Arrive
  <2>2. \A p \in Mem(starts, x) : D[p] = Arrive(code, seen, x, D, p)
    BY <2>1, <1>3, <1>11 DEF RunDepth
  <2>3. x.size = Arrive(code, seen, x, D, x.at)
    BY <2>1, <1>3, <1>6, <1>8 DEF RunDepth
  <2> QED BY <2>2, <2>3, <1>6, <1>8, <1>10, <1>13 DEF RunDepth
<1>15. RunExits(code, starts, seen, x, D)
  <2>1. Visits(code, starts, x, D) = vs
    BY <1>4, <1>6, <1>8, <1>10 DEF Visits
  <2> QED BY <2>1, <1>8 DEF RunExits
<1>16. RunFound(Walked(Walk, D), x)
  BY <1>3, <1>5, <1>8 DEF RunFound
<1>17. Checked(code, my, hasTraps, D)
  <2>1. Checked(code, maxSize, hasTraps, D)
    BY DEF Depths, Deep
  <2> QED BY <2>1, <1>1, <1>13, CheckedKept
<1>18. SeenGrows(seen, seen) /\ DepthGrows(D, D)
  BY DEF SeenGrows, DepthGrows
<1>19. DOMAIN D = DOMAIN D \union Mem(starts, x) /\ Mem(starts, Top) \subseteq Mem(starts, x)
  BY <1>3, <1>11
<1>20. \A l : ExitsTo(Top, l) => ExitsTo(x, l)
  <2>1. Top.exit = <<>>
    BY <1>1 DEF RunShape
  <2> QED BY <2>1 DEF ExitsTo
<1>21. /\ frames' \in Seq(FrameSet) /\ frames' # <<>>
       /\ Tree(code, starts, frames', finished, seen)
       /\ Deep(code, starts, Walk, frames', finished, seen, my, hasTraps, D)
  BY <1>3, <1>8, <1>9, <1>12, <1>13, <1>14, <1>15, <1>16, <1>17, <1>18, <1>19, <1>20, TopChanged
<1>22. /\ DOMAIN seen \subseteq Label /\ seen \in [DOMAIN seen -> PendingSet] /\ Pendings(seen) /\ seen[1].size = Arity
  BY DEF SearchInv, SearchTypes
<1> QED BY <1>1, <1>13, <1>21, <1>22, Reassemble

DropsFirst(r, x) == x = [r EXCEPT !.todo = Tail(@)]

\* The top with one visit less to make.
LEMMA DropFacts ==
    ASSUME NEW r \in FrameSet, r.todo # <<>>, NEW x, DropsFirst(r, x)
    PROVE  /\ x \in FrameSet /\ x.entry = r.entry /\ x.at = r.at /\ x.size = r.size /\ x.ended = r.ended
           /\ x.exit = r.exit /\ x.todo = Tail(r.todo) /\ Head(r.todo) \in VisitSet
<1>1. r.todo \in Seq(VisitSet)
  BY FrameFacts
<1>2. Head(r.todo) \in VisitSet /\ Tail(r.todo) \in Seq(VisitSet)
  BY <1>1, TailFacts
<1>3. PICK u : u = Tail(r.todo)
  OBVIOUS
<1>4. x = [r EXCEPT !.todo = u]
  BY <1>3 DEF DropsFirst
<1>5. u \in Seq(VisitSet)
  BY <1>2, <1>3
<1>6. /\ x \in FrameSet /\ x.entry = r.entry /\ x.at = r.at /\ x.size = r.size /\ x.ended = r.ended
      /\ x.exit = r.exit /\ x.todo = u
  BY <1>4, <1>5 DEF FrameSet
<1> QED BY <1>2, <1>3, <1>6

\* A run is as it was, except that the first of its visits has been made.
LEMMA VisitMade ==
    ASSUME NEW c, NEW S, NEW se, NEW mx, NEW D, NEW W, NEW r \in FrameSet, r.todo # <<>>, NEW x, DropsFirst(r, x),
           RunShape(c, S, r), RunDepth(c, S, se, mx, r, D), RunExits(c, S, se, r, D), RunFound(W, r),
           Visited(se, r, Head(r.todo))
    PROVE  /\ RunShape(c, S, x) /\ RunDepth(c, S, se, mx, x, D) /\ RunExits(c, S, se, x, D) /\ RunFound(W, x)
           /\ Mem(S, x) = Mem(S, r) /\ \A l : ExitsTo(r, l) <=> ExitsTo(x, l)
<1>1. /\ x \in FrameSet /\ x.entry = r.entry /\ x.at = r.at /\ x.size = r.size /\ x.ended = r.ended
      /\ x.exit = r.exit /\ x.todo = Tail(r.todo)
  BY DropFacts
<1>2. r.ended
  BY DEF RunShape
<1>3. Joins(S, x) = Joins(S, r)
  BY <1>1 DEF Joins
<1>4. Mem(S, x) = Mem(S, r)
  BY <1>1, <1>3 DEF Mem
<1>5. RunShape(c, S, x)
  BY <1>1, <1>2, <1>3 DEF RunShape
<1>6. \A p : Arrive(c, se, x, D, p) = Arrive(c, se, r, D, p)
  BY <1>1 DEF Arrive
<1>7. RunDepth(c, S, se, mx, x, D)
  BY <1>1, <1>3, <1>4, <1>6 DEF RunDepth
<1>8. Visits(c, S, x, D) = Visits(c, S, r, D)
  BY <1>1, <1>3 DEF Visits
<1>9. r.todo \in Seq(VisitSet)
  BY FrameFacts
<1>10. /\ \A j \in DOMAIN r.todo : r.todo[j] = Head(r.todo) \/ \E k \in DOMAIN Tail(r.todo) : Tail(r.todo)[k] = r.todo[j]
       /\ \A k \in DOMAIN Tail(r.todo) : \E j \in DOMAIN r.todo : r.todo[j] = Tail(r.todo)[k]
  BY <1>9, TailFacts
<1>11. RunExits(c, S, se, x, D)
  <2>1. PICK vs : vs = Visits(c, S, r, D)
    OBVIOUS
  <2>2. /\ DOMAIN r.exit = DOMAIN vs
        /\ \A k \in DOMAIN r.exit :
             /\ r.exit[k] = vs[k].to
             /\ \/ Visited(se, r, vs[k])
                \/ \E j \in DOMAIN r.todo : r.todo[j] = vs[k]
        /\ \A j \in DOMAIN r.todo : \E k \in DOMAIN r.exit : r.todo[j] = vs[k]
    BY <2>1, <1>2 DEF RunExits
  <2>3. \A v : Visited(se, x, v) <=> Visited(se, r, v)
    BY <1>1 DEF Visited
  <2>4. \A k \in DOMAIN r.exit : Visited(se, r, vs[k]) \/ \E j \in DOMAIN x.todo : x.todo[j] = vs[k]
    BY <2>2, <1>1, <1>10
  <2>5. \A j \in DOMAIN x.todo : \E k \in DOMAIN r.exit : x.todo[j] = vs[k]
    BY <2>2, <1>1, <1>10
  <2> QED BY <2>1, <2>2, <2>3, <2>4, <2>5, <1>1, <1>8 DEF RunExits
<1>12. RunFound(W, x)
  <2>1. \A j \in DOMAIN r.todo : <<r.todo[j].to, r.todo[j].size>> \in W
    BY DEF RunFound
  <2>2. ASSUME NEW k \in DOMAIN x.todo PROVE <<x.todo[k].to, x.todo[k].size>> \in W
    <3>1. PICK j \in DOMAIN r.todo : r.todo[j] = x.todo[k]
      BY <1>1, <1>10
    <3> QED BY <2>1, <3>1
  <2> QED BY <2>2, <1>1, <1>2 DEF RunFound
<1>13. \A l : ExitsTo(r, l) <=> ExitsTo(x, l)
  BY <1>1 DEF ExitsTo
<1> QED BY <1>4, <1>5, <1>7, <1>11, <1>12, <1>13

\* The sizes after a visit.
LEMMA VisitDeep ==
    ASSUME CodeOK, SearchInv, NEW D, Depths(D), frames # <<>>, Top.todo # <<>>,
           NEW x, DropsFirst(Top, x), NEW st, SeenGrows(seen, st), Visited(st, Top, Head(Top.todo)),
           \A l \in DOMAIN st : <<l, st[l].size>> \in Walked(Walk, D),
           NEW t, ReplacesTop(frames, x, t)
    PROVE  /\ t \in Seq(FrameSet) /\ t # <<>> /\ TopIs(Len(frames), frames, x, t)
           /\ x \in FrameSet /\ x.ended /\ \A l : ExitsTo(Top, l) <=> ExitsTo(x, l)
           /\ Tree(code, starts, t, finished, seen)
           /\ Deep(code, starts, Walk, t, finished, st, maxSize, hasTraps, D)
<1>1. /\ Len(code) \in Nat /\ Top \in FrameSet /\ maxSize \in Nat
      /\ Runs(frames, finished) = {Top} \union Others(frames, finished)
      /\ RunShape(code, starts, Top) /\ Top.entry \in DOMAIN seen
  BY TopSetup
<1>2. /\ Mem(starts, Top) \subseteq DOMAIN D /\ RunDepth(code, starts, seen, maxSize, Top, D)
      /\ RunExits(code, starts, seen, Top, D) /\ RunFound(Walked(Walk, D), Top)
      /\ \A p \in DOMAIN D : <<p, D[p]>> \in Walked(Walk, D)
  BY <1>1, DepthsSetup
<1>3. DepthGrows(D, D)
  BY DEF DepthGrows
<1>4. RunDepth(code, starts, st, maxSize, Top, D) /\ RunExits(code, starts, st, Top, D)
  <2>1. RunDepth(code, starts, st, maxSize, Top, D)
    BY <1>1, <1>2, <1>3, RunDepthKept
  <2> QED BY <2>1, <1>1, <1>2, <1>3, RunExitsKept
<1>5. PICK r : r = Top
  OBVIOUS
<1>6. PICK W : W = Walked(Walk, D)
  OBVIOUS
<1>7. /\ r \in FrameSet /\ r.todo # <<>> /\ DropsFirst(r, x) /\ RunShape(code, starts, r)
      /\ RunDepth(code, starts, st, maxSize, r, D) /\ RunExits(code, starts, st, r, D) /\ RunFound(W, r)
      /\ Visited(st, r, Head(r.todo))
  BY <1>1, <1>2, <1>4, <1>5, <1>6
<1>8. /\ RunShape(code, starts, x) /\ RunDepth(code, starts, st, maxSize, x, D) /\ RunExits(code, starts, st, x, D)
      /\ RunFound(W, x) /\ Mem(starts, x) = Mem(starts, r) /\ \A l : ExitsTo(r, l) <=> ExitsTo(x, l)
  BY ONLY <1>7, VisitMade
<1>9. x \in FrameSet /\ x.entry = r.entry /\ x.ended = r.ended
  BY ONLY <1>7, DropFacts
<1>10. r.ended
  BY <1>7 DEF RunShape
<1>11. Checked(code, maxSize, hasTraps, D)
  BY DEF Depths, Deep
<1>12. /\ t \in Seq(FrameSet) /\ t # <<>> /\ TopIs(Len(frames), frames, x, t)
       /\ Tree(code, starts, t, finished, seen)
       /\ Deep(code, starts, Walk, t, finished, st, maxSize, hasTraps, D)
  <2>1. /\ x.entry = Top.entry /\ (\A l : ExitsTo(Top, l) => ExitsTo(x, l)) /\ RunFound(Walked(Walk, D), x)
        /\ DOMAIN D = DOMAIN D \union Mem(starts, x) /\ Mem(starts, Top) \subseteq Mem(starts, x)
        /\ Walked(Walk, D) \subseteq Walked(Walk, D) /\ maxSize <= maxSize
    <3>1. x.entry = Top.entry /\ (\A l : ExitsTo(Top, l) => ExitsTo(x, l)) /\ RunFound(Walked(Walk, D), x)
      BY ONLY <1>5, <1>6, <1>8, <1>9
    <3>2. Mem(starts, x) \subseteq DOMAIN D /\ Mem(starts, Top) \subseteq Mem(starts, x)
      BY ONLY <1>2, <1>5, <1>8
    <3>3. DOMAIN D = DOMAIN D \union Mem(starts, x)
      BY ONLY <3>2
    <3>4. maxSize <= maxSize
      BY ONLY <1>1
    <3> QED BY ONLY <3>1, <3>2, <3>3, <3>4
  <2>2. /\ CodeOK /\ SearchInv /\ Depths(D) /\ frames # <<>> /\ SeenGrows(seen, st) /\ ReplacesTop(frames, x, t)
        /\ \A l \in DOMAIN st : <<l, st[l].size>> \in Walked(Walk, D)
    OBVIOUS
  <2>3. /\ maxSize \in Nat /\ x \in FrameSet /\ RunShape(code, starts, x)
        /\ RunDepth(code, starts, st, maxSize, x, D) /\ RunExits(code, starts, st, x, D)
        /\ \A p \in DOMAIN D : <<p, D[p]>> \in Walked(Walk, D)
    BY <1>1, <1>2, <1>8, <1>9
  <2> QED BY ONLY <2>1, <2>2, <2>3, <1>3, <1>11, TopAndSeenChanged
<1> QED BY <1>5, <1>8, <1>9, <1>10, <1>12

\* The entry of the closure is in seen.
LEMMA EntrySeen ==
    ASSUME SearchInv
    PROVE  1 \in DOMAIN seen
<1>1. frames \in Seq(FrameSet) /\ finished \in Seq(BlockSet)
  BY DEF SearchInv, SearchTypes
<1>2. PICK n \in Nat : n = Len(frames) /\ (frames # <<>> => n >= 1)
  BY <1>1
<1>3. PICK m \in Nat : m = Len(finished) /\ (finished # <<>> => m >= 1)
  BY <1>1
<1>4. \E r \in Runs(frames, finished) : r.entry = 1
  <2>1. CASE frames # <<>>
    <3>1. frames[1].entry = 1
      BY <2>1 DEF SearchInv, StackShape
    <3>2. frames[1] \in Runs(frames, finished)
      BY <2>1, <1>2 DEF Runs
    <3> QED BY <3>1, <3>2
  <2>2. CASE frames = <<>>
    <3>1. finished # <<>> /\ finished[m].offset = 1
      BY <2>2, <1>3 DEF SearchInv, StackShape
    <3>2. m \in 1..Len(finished)
      BY <3>1, <1>3
    <3>3. BlockRun(finished[m]) \in Runs(frames, finished)
      BY <3>2 DEF Runs
    <3>4. BlockRun(finished[m]).entry = 1
      BY <3>1 DEF BlockRun
    <3> QED BY <3>3, <3>4
  <2> QED BY <2>1, <2>2
<1> QED BY <1>4 DEF SearchInv, Entries

\* What a run visits at its end is a block start, which the first search has found.
LEMMA VisitTargets ==
    ASSUME CodeOK, SearchInv, NEW D, Depths(D), NEW r \in Runs(frames, finished), r \in FrameSet, r.ended,
           NEW k \in DOMAIN Visits(code, starts, r, D), NEW v, v = Visits(code, starts, r, D)[k]
    PROVE  v.to \in starts
<1>1. RunShape(code, starts, r) /\ Closed(code, starts)
  BY DEF SearchInv
<1>2. Len(code) \in Nat
  BY LenFacts
<1>3. CASE Joins(starts, r)
  <2>1. Visits(code, starts, r, D) = <<Visit(r.at, r.size)>>
    BY <1>3 DEF Visits
  <2>2. k = 1
    BY <2>1
  <2>3. v = Visit(r.at, r.size)
    BY <2>1, <2>2
  <2>4. v.to = r.at
    BY <2>3 DEF Visit
  <2> QED BY <2>4, <1>3 DEF Joins
<1>4. CASE ~Joins(starts, r)
  <2>1. r.at \in Mem(starts, r)
    BY <1>1, <1>4, MemHas
  <2>2. r.at \in 1..Len(code) /\ code[r.at].op \in Ends
    BY <2>1, <1>1, <1>2, MemFacts
  <2>3. r.at \in DOMAIN D
    BY <2>1, DepthsSetup
  <2>4. D[r.at] \in Nat
    BY <2>3 DEF Depths, Deep, Checked
  <2>5. PICK a : a = r.at
    OBVIOUS
  <2>6. a \in Label /\ a \in 1..Len(code) /\ r.entry \in Nat /\ a \in Nat /\ r.entry <= a
    BY <2>5, <2>2, <1>1, FrameFacts DEF RunShape
  <2>7. code[a] \in Instruction
    BY <2>6, CodeFacts
  <2>8. PICK vs : vs = ExitVisits(code[a], a, D[a])
    OBVIOUS
  <2>9. Visits(code, starts, r, D) = vs
    BY <2>5, <2>8, <1>4 DEF Visits
  <2>10. PICK d \in Nat : d = D[a]
    BY <2>4, <2>5
  <2>11. PICK i \in Instruction : i = code[a] /\ i.op \in Ends
    BY <2>7, <2>5, <2>2
  <2>12. Targets(i, a, vs)
    <3>1. vs = ExitVisits(i, a, d)
      BY <2>8, <2>10, <2>11
    <3>2. i.op \in Ends /\ a \in Label /\ d \in Nat /\ i \in Instruction
      BY <2>6, <2>11
    <3> QED BY ONLY <3>1, <3>2, ExitVisitsAre
  <2>13. v.to \in LabelSet(code, a)
    BY <2>9, <2>11, <2>12 DEF LabelSet, Targets
  <2>14. Straight(code, r.entry, a)
    BY <2>5, <2>6, <1>1 DEF Straight, RunShape
  <2>15. r.entry \in starts
    BY <1>1 DEF RunShape
  <2> QED BY <2>6, <2>13, <2>14, <2>15, <1>1 DEF Closed
<1> QED BY <1>3, <1>4

\* The next visit is one of the exits, and the interpreter can get there.
LEMMA VisitNext ==
    ASSUME CodeOK, SearchInv, NEW D, Depths(D), frames # <<>>, Top.todo # <<>>, NEW v, v = Head(Top.todo)
    PROVE  /\ v \in VisitSet /\ v.to \in starts /\ Top.ended /\ ExitsTo(Top, v.to)
           /\ <<v.to, v.size>> \in Walked(Walk, D)
           /\ \E k \in DOMAIN Top.exit :
                k \in DOMAIN Visits(code, starts, Top, D) /\ v = Visits(code, starts, Top, D)[k]
<1>1. /\ Len(code) \in Nat /\ Top \in FrameSet /\ Top \in Runs(frames, finished) /\ RunShape(code, starts, Top)
  BY TopSetup
<1>2. RunExits(code, starts, seen, Top, D) /\ RunFound(Walked(Walk, D), Top)
  BY <1>1, DepthsSetup
<1>3. Top.ended
  BY <1>1 DEF RunShape
<1>4. Top.todo \in Seq(VisitSet)
  BY <1>1, FrameFacts
<1>5. v \in VisitSet /\ 1 \in DOMAIN Top.todo /\ Top.todo[1] = v
  BY <1>4, TailFacts
<1>6. <<v.to, v.size>> \in Walked(Walk, D)
  BY <1>2, <1>5 DEF RunFound
<1>7. PICK k \in DOMAIN Top.exit : k \in DOMAIN Visits(code, starts, Top, D) /\ v = Visits(code, starts, Top, D)[k] /\ Top.exit[k] = v.to
  BY <1>2, <1>3, <1>5 DEF RunExits
<1>8. ExitsTo(Top, v.to)
  BY <1>7 DEF ExitsTo
<1>9. v.to \in starts
  <2>1. PICK r : r = Top
    OBVIOUS
  <2>2. /\ CodeOK /\ SearchInv /\ Depths(D) /\ r \in Runs(frames, finished) /\ r \in FrameSet /\ r.ended
        /\ k \in DOMAIN Visits(code, starts, r, D) /\ v = Visits(code, starts, r, D)[k]
    BY <2>1, <1>1, <1>3, <1>7
  <2> QED BY ONLY <2>2, VisitTargets
<1> QED BY <1>3, <1>5, <1>6, <1>7, <1>8, <1>9

\* What seen is, and what it holds for a label.
LEMMA SeenMap ==
    ASSUME SearchInv
    PROVE  /\ DOMAIN seen \subseteq Label /\ seen \in [DOMAIN seen -> PendingSet] /\ Pendings(seen) /\ seen[1].size = Arity
           /\ \A l \in DOMAIN seen : seen[l] \in PendingSet /\ seen[l].size \in Nat /\ seen[l].preds \subseteq DOMAIN seen
                                      /\ seen[l].preds \subseteq Label
<1>1. DOMAIN seen \subseteq Label /\ seen \in [DOMAIN seen -> PendingSet] /\ Pendings(seen) /\ seen[1].size = Arity
  BY DEF SearchInv, SearchTypes
<1>2. \A l \in DOMAIN seen : seen[l] \in PendingSet
  BY <1>1
<1>3. \A l \in DOMAIN seen : seen[l].size \in Nat /\ seen[l].preds \subseteq Label
  BY <1>2 DEF PendingSet
<1> QED BY <1>1, <1>2, <1>3 DEF Pendings

AddsPred(se, l, e, st) == st = [se EXCEPT ![l].preds = @ \union {e}]

\* seen with one more predecessor of a block.
LEMMA AddPredFacts ==
    ASSUME NEW se, se \in [DOMAIN se -> PendingSet], DOMAIN se \subseteq Label, Pendings(se),
           NEW l \in DOMAIN se, NEW e \in DOMAIN se, NEW st, AddsPred(se, l, e, st)
    PROVE  /\ DOMAIN st = DOMAIN se /\ st \in [DOMAIN st -> PendingSet] /\ Pendings(st)
           /\ SeenGrows(se, st) /\ e \in st[l].preds /\ \A k \in DOMAIN se : st[k].size = se[k].size
<1>1. PICK b : b = [se[l] EXCEPT !.preds = @ \union {e}]
  OBVIOUS
<1>2. se[l] \in PendingSet /\ e \in Label
  OBVIOUS
<1>3. b \in PendingSet /\ b.size = se[l].size /\ b.type = se[l].type /\ b.preds = se[l].preds \union {e}
  BY <1>1, <1>2 DEF PendingSet
<1>4. st = [se EXCEPT ![l] = b]
  BY <1>1 DEF AddsPred
<1>5. /\ DOMAIN st = DOMAIN se /\ st[l] = b /\ \A k \in DOMAIN se : k # l => st[k] = se[k]
  BY <1>4
<1>6. st \in [DOMAIN st -> PendingSet]
  BY <1>3, <1>4, <1>5
<1>7. SeenGrows(se, st)
  BY <1>3, <1>5 DEF SeenGrows
<1>8. Pendings(st)
  BY <1>3, <1>5 DEF Pendings
<1>9. \A k \in DOMAIN se : st[k].size = se[k].size
  BY <1>3, <1>5
<1> QED BY <1>3, <1>5, <1>6, <1>7, <1>8, <1>9

\* A visit to a block that was seen before with the same size keeps the invariant.
LEMMA SeenAgainKeeps ==
    ASSUME CodeOK, SearchInv, NEW D, Depths(D), frames # <<>>, Top.todo # <<>>,
           Head(Top.todo).to \in DOMAIN seen, SeenBefore(Head(Top.todo).to, Head(Top.todo).size),
           seen' = [seen EXCEPT ![Head(Top.todo).to].preds = @ \union {Top.entry}],
           frames' = Append(Below, [Top EXCEPT !.todo = Tail(@)]),
           code' = code, starts' = starts, finished' = finished, maxSize' = maxSize, hasTraps' = hasTraps
    PROVE  ConvertInv' /\ frames' # <<>>
<1>1. PICK v : v = Head(Top.todo)
  OBVIOUS
<1>2. v.to \in DOMAIN seen /\ seen[v.to].size = v.size /\ seen[v.to].type = "Normal"
  BY <1>1 DEF SeenBefore
<1>3. /\ DOMAIN seen \subseteq Label /\ seen \in [DOMAIN seen -> PendingSet] /\ Pendings(seen) /\ seen[1].size = Arity
  BY SeenMap
<1>4. 1 \in DOMAIN seen /\ v.to # 1
  BY <1>2, <1>3, EntrySeen DEF Pendings
<1>5. /\ Top \in FrameSet /\ Top.entry \in DOMAIN seen /\ finished \in Seq(BlockSet) /\ maxSize \in Nat /\ hasTraps \in BOOLEAN
  BY TopSetup
<1>6. PICK st : st = seen'
  OBVIOUS
<1>7. AddsPred(seen, v.to, Top.entry, st)
  BY <1>1, <1>6 DEF AddsPred
<1>8. /\ DOMAIN st = DOMAIN seen /\ st \in [DOMAIN st -> PendingSet] /\ Pendings(st)
      /\ SeenGrows(seen, st) /\ Top.entry \in st[v.to].preds /\ \A k \in DOMAIN seen : st[k].size = seen[k].size
  <2>1. PICK l : l = v.to
    OBVIOUS
  <2>2. PICK e : e = Top.entry
    OBVIOUS
  <2>3. l \in DOMAIN seen /\ e \in DOMAIN seen /\ AddsPred(seen, l, e, st)
    BY <2>1, <2>2, <1>2, <1>5, <1>7
  <2>4. /\ DOMAIN st = DOMAIN seen /\ st \in [DOMAIN st -> PendingSet] /\ Pendings(st)
        /\ SeenGrows(seen, st) /\ e \in st[l].preds /\ \A k \in DOMAIN seen : st[k].size = seen[k].size
    BY ONLY <2>3, <1>3, AddPredFacts
  <2> QED BY <2>1, <2>2, <2>4
<1>9. Visited(st, Top, v)
  BY <1>2, <1>4, <1>8 DEF Visited
<1>10. \A l \in DOMAIN st : <<l, st[l].size>> \in Walked(Walk, D)
  BY <1>8, DepthsSetup
<1>11. PICK x : DropsFirst(Top, x)
  BY DEF DropsFirst
<1>12. ReplacesTop(frames, x, frames')
  BY <1>11 DEF ReplacesTop, DropsFirst, Below
<1>13. PICK t : t = frames'
  OBVIOUS
<1>14. /\ CodeOK /\ SearchInv /\ Depths(D) /\ frames # <<>> /\ Top.todo # <<>>
       /\ Visited(st, Top, Head(Top.todo)) /\ SeenGrows(seen, st) /\ ReplacesTop(frames, x, t)
  BY <1>1, <1>8, <1>9, <1>12, <1>13
<1>15. /\ t \in Seq(FrameSet) /\ t # <<>> /\ Tree(code, starts, t, finished, seen)
       /\ Deep(code, starts, Walk, t, finished, st, maxSize, hasTraps, D)
  BY ONLY <1>10, <1>11, <1>14, VisitDeep
<1>16. Tree(code, starts, t, finished, st)
  BY <1>8, <1>15 DEF Tree, Entries
<1>17. st[1].size = Arity /\ DOMAIN st \subseteq Label
  BY <1>3, <1>4, <1>8
<1>18. /\ SearchInv /\ code' = code /\ starts' = starts
       /\ frames' \in Seq(FrameSet) /\ finished' \in Seq(BlockSet)
       /\ Tree(code, starts, frames', finished', seen')
       /\ DOMAIN seen' \subseteq Label /\ seen' \in [DOMAIN seen' -> PendingSet] /\ Pendings(seen') /\ seen'[1].size = Arity
       /\ maxSize' \in Nat /\ hasTraps' \in BOOLEAN
       /\ Deep(code, starts, Walk, frames', finished', seen', maxSize', hasTraps', D)
  BY <1>5, <1>6, <1>8, <1>13, <1>15, <1>16, <1>17
<1>19. ConvertInv'
  BY ONLY <1>18, Reassemble
<1> QED BY <1>13, <1>15, <1>19

AddsPending(se, l, s, e, st) ==
    st = [k \in DOMAIN se \union {l} |-> IF k = l THEN Pending("Normal", s, {e}) ELSE se[k]]

PendingMap(se) ==
    DOMAIN se \subseteq Label /\ se \in [DOMAIN se -> PendingSet] /\ Pendings(se) /\ 1 \in DOMAIN se

\* seen with one more block.
LEMMA AddPendingFacts ==
    ASSUME NEW se, PendingMap(se),
           NEW l \in Label, l \notin DOMAIN se, NEW e \in DOMAIN se, NEW s \in Nat,
           NEW st, AddsPending(se, l, s, e, st)
    PROVE  /\ Plus(DOMAIN se, l, DOMAIN st) /\ PendingMap(st)
           /\ SeenGrows(se, st) /\ e \in st[l].preds /\ st[l].size = s /\ \A k \in DOMAIN se : st[k].size = se[k].size
<1>1. /\ DOMAIN se \subseteq Label /\ se \in [DOMAIN se -> PendingSet] /\ Pendings(se) /\ 1 \in DOMAIN se
      /\ e \in Label /\ l # 1
  BY DEF PendingMap
<1>0. PICK b : b = Pending("Normal", s, {e})
  OBVIOUS
<1>2. b \in PendingSet /\ b.size = s /\ b.type = "Normal" /\ b.preds = {e}
  BY <1>0, <1>1 DEF PendingSet, Pending
<1>3. /\ DOMAIN st = DOMAIN se \union {l} /\ st[l] = b /\ \A k \in DOMAIN se : st[k] = se[k]
  BY <1>0 DEF AddsPending
<1>4. st \in [DOMAIN st -> PendingSet]
  <2>1. st = [k \in DOMAIN st |-> st[k]]
    BY <1>3 DEF AddsPending
  <2>2. \A k \in DOMAIN st : st[k] \in PendingSet
    BY <1>1, <1>2, <1>3
  <2> QED BY <2>1, <2>2
<1>5. SeenGrows(se, st)
  BY <1>3 DEF SeenGrows
<1>6. Pendings(st)
  BY <1>1, <1>2, <1>3 DEF Pendings
<1>7. Plus(DOMAIN se, l, DOMAIN st)
  BY <1>3 DEF Plus
<1>8. PendingMap(st)
  BY <1>1, <1>3, <1>4, <1>6 DEF PendingMap
<1> QED BY <1>2, <1>3, <1>5, <1>7, <1>8

\* An activation that has not begun adds nothing to what has been found.
LEMMA ActivationDeep ==
    ASSUME NEW c, NEW S, NEW w, NEW fr, NEW fi, NEW se, NEW mx, NEW ht, NEW D, Deep(c, S, w, fr, fi, se, mx, ht, D),
           NEW l \in Label, NEW s \in Nat, l \in S, l \in DOMAIN se, se[l].size = s,
           NEW t, Runs(t, fi) = {Activation(l, s)} \union Runs(fr, fi)
    PROVE  Deep(c, S, w, t, fi, se, mx, ht, D)
<1>1. PICK a : a = Activation(l, s)
  OBVIOUS
<1>2. PICK W : W = Walked(w, D)
  OBVIOUS
<1>3. PICK R : R = Runs(fr, fi)
  OBVIOUS
<1>4. Found(W, se, R, D) /\ RunsDeep(c, S, se, mx, R, D) /\ Checked(c, mx, ht, D) /\ DOMAIN D = AllMembers(S, R)
  BY <1>2, <1>3 DEF Deep
<1>5. <<l, s>> \in W
  BY <1>4 DEF Found
<1>6. RunDepth(c, S, se, mx, a, D) /\ RunExits(c, S, se, a, D) /\ RunFound(W, a)
  BY <1>1, <1>5, ActivationKeeps
<1>7. Mem(S, a) = {}
  BY <1>1, ActivationFacts
<1>8. AllMembers(S, {a} \union R) = AllMembers(S, R)
  BY <1>7 DEF AllMembers
<1>9. RunsDeep(c, S, se, mx, {a} \union R, D)
  BY <1>4, <1>6 DEF RunsDeep
<1>10. Found(W, se, {a} \union R, D)
  BY <1>4, <1>6 DEF Found
<1>11. Runs(t, fi) = {a} \union R
  BY <1>1, <1>3
<1> QED BY <1>2, <1>4, <1>8, <1>9, <1>10, <1>11 DEF Deep

\* A visit to a block that is new keeps the invariant.
LEMMA NewVisitKeeps ==
    ASSUME CodeOK, SearchInv, NEW D, Depths(D), frames # <<>>, Top.todo # <<>>,
           Head(Top.todo).to \notin DOMAIN seen,
           seen' = [l \in DOMAIN seen \union {Head(Top.todo).to} |->
                      IF l = Head(Top.todo).to THEN Pending("Normal", Head(Top.todo).size, {Top.entry}) ELSE seen[l]],
           frames' = Append(Append(Below, [Top EXCEPT !.todo = Tail(@)]),
                            Activation(Head(Top.todo).to, Head(Top.todo).size)),
           code' = code, starts' = starts, finished' = finished, maxSize' = maxSize, hasTraps' = hasTraps
    PROVE  ConvertInv' /\ frames' # <<>>
<1>1. PICK v : v = Head(Top.todo)
  OBVIOUS
<1>2. /\ v \in VisitSet /\ v.to \in starts /\ ExitsTo(Top, v.to) /\ <<v.to, v.size>> \in Walked(Walk, D)
  BY <1>1, VisitNext
<1>3. PICK l \in Label : l = v.to
  BY <1>2 DEF VisitSet
<1>4. PICK s \in Nat : s = v.size
  BY <1>2 DEF VisitSet
<1>5. PICK e : e = Top.entry
  OBVIOUS
<1>7. PICK st : st = seen'
  OBVIOUS
<1>8. AddsPending(seen, l, s, e, st)
  BY <1>1, <1>3, <1>4, <1>5, <1>7 DEF AddsPending
<1>9. /\ DOMAIN seen \subseteq Label /\ seen \in [DOMAIN seen -> PendingSet] /\ Pendings(seen) /\ seen[1].size = Arity
      /\ 1 \in DOMAIN seen
  BY SeenMap, EntrySeen
<1>10. /\ Top \in FrameSet /\ e \in DOMAIN seen /\ finished \in Seq(BlockSet) /\ maxSize \in Nat /\ hasTraps \in BOOLEAN
  BY <1>5, TopSetup
<1>11. l \notin DOMAIN seen
  BY <1>1, <1>3
<1>12. /\ DOMAIN st = DOMAIN seen \union {l} /\ DOMAIN st \subseteq Label /\ st \in [DOMAIN st -> PendingSet] /\ Pendings(st)
       /\ SeenGrows(seen, st) /\ e \in st[l].preds /\ st[l].size = s /\ \A k \in DOMAIN seen : st[k].size = seen[k].size
  <2>1. l \in Label /\ s \in Nat /\ e \in DOMAIN seen /\ PendingMap(seen)
    BY <1>9, <1>10 DEF PendingMap
  <2>2. /\ Plus(DOMAIN seen, l, DOMAIN st) /\ PendingMap(st)
        /\ SeenGrows(seen, st) /\ e \in st[l].preds /\ st[l].size = s /\ \A k \in DOMAIN seen : st[k].size = seen[k].size
    BY ONLY <2>1, <1>8, <1>11, AddPendingFacts
  <2> QED BY <2>2 DEF Plus, PendingMap
<1>13. Visited(st, Top, v)
  <2>1. l \in DOMAIN st /\ st[l].size = s /\ l # 1 /\ e \in st[l].preds
    BY ONLY <1>9, <1>11, <1>12
  <2> QED BY ONLY <2>1, <1>3, <1>4, <1>5 DEF Visited
<1>14. \A k \in DOMAIN st : <<k, st[k].size>> \in Walked(Walk, D)
  <2>1. \A k \in DOMAIN seen : <<k, seen[k].size>> \in Walked(Walk, D)
    BY DepthsSetup
  <2>2. <<l, s>> \in Walked(Walk, D)
    BY <1>2, <1>3, <1>4
  <2> QED BY ONLY <2>1, <2>2, <1>12
<1>15. PICK x : DropsFirst(Top, x)
  BY DEF DropsFirst
<1>16. PICK t : ReplacesTop(frames, x, t)
  BY DEF ReplacesTop
<1>17. PICK a : a = Activation(l, s)
  OBVIOUS
<1>18. PICK u : u = frames'
  OBVIOUS
<1>19. u = Append(t, a)
  BY <1>1, <1>3, <1>4, <1>15, <1>16, <1>17, <1>18 DEF ReplacesTop, DropsFirst, Below
<1>20. /\ CodeOK /\ SearchInv /\ Depths(D) /\ frames # <<>> /\ Top.todo # <<>>
       /\ Visited(st, Top, Head(Top.todo)) /\ SeenGrows(seen, st) /\ ReplacesTop(frames, x, t)
  BY <1>1, <1>12, <1>13, <1>16
<1>21. /\ t \in Seq(FrameSet) /\ t # <<>> /\ TopIs(Len(frames), frames, x, t)
       /\ x \in FrameSet /\ x.ended /\ (\A k : ExitsTo(Top, k) <=> ExitsTo(x, k))
       /\ Tree(code, starts, t, finished, seen)
       /\ Deep(code, starts, Walk, t, finished, st, maxSize, hasTraps, D)
  BY ONLY <1>14, <1>15, <1>20, VisitDeep
<1>22. t[Len(t)] = x
  BY <1>21 DEF TopIs
<1>23. a \in FrameSet /\ a.entry = l
  BY <1>17, ActivationFacts
<1>24. RunShape(code, starts, a)
  <2>1. l \in starts /\ st[l].size = s
    BY <1>2, <1>3, <1>12
  <2>2. <<l, s>> \in {<<l, s>>}
    OBVIOUS
  <2> QED BY ONLY <2>1, <2>2, <1>17, l \in Label, s \in Nat, ActivationKeeps
<1>25. ExitsTo(x, l)
  BY <1>2, <1>3, <1>21
<1>26. /\ Tree(code, starts, u, finished, st) /\ Plus(Runs(t, finished), a, Runs(u, finished))
       /\ u \in Seq(FrameSet) /\ u # <<>>
  <2>1. /\ t[Len(t)].ended /\ ExitsTo(t[Len(t)], a.entry) /\ a.entry \notin DOMAIN seen
        /\ Plus(DOMAIN seen, a.entry, DOMAIN st) /\ a \in FrameSet /\ finished \in Seq(BlockSet)
    BY <1>10, <1>11, <1>12, <1>21, <1>22, <1>23, <1>25 DEF Plus
  <2>2. /\ t \in Seq(FrameSet) /\ t # <<>> /\ Tree(code, starts, t, finished, seen)
    BY <1>21
  <2> QED BY ONLY <2>1, <2>2, <1>19, <1>24, TreePushed
<1>27. Deep(code, starts, Walk, u, finished, st, maxSize, hasTraps, D)
  <2>1. /\ l \in starts /\ l \in DOMAIN st /\ st[l].size = s
        /\ Runs(u, finished) = {Activation(l, s)} \union Runs(t, finished)
    BY <1>2, <1>3, <1>12, <1>17, <1>26 DEF Plus
  <2> QED BY ONLY <2>1, <1>21, l \in Label, s \in Nat, ActivationDeep
<1>28. st[1].size = Arity
  BY <1>9, <1>12
<1>29. /\ SearchInv /\ code' = code /\ starts' = starts
       /\ frames' \in Seq(FrameSet) /\ finished' \in Seq(BlockSet)
       /\ Tree(code, starts, frames', finished', seen')
       /\ DOMAIN seen' \subseteq Label /\ seen' \in [DOMAIN seen' -> PendingSet] /\ Pendings(seen') /\ seen'[1].size = Arity
       /\ maxSize' \in Nat /\ hasTraps' \in BOOLEAN
       /\ Deep(code, starts, Walk, frames', finished', seen', maxSize', hasTraps', D)
  BY <1>7, <1>10, <1>12, <1>18, <1>26, <1>27, <1>28
<1>30. ConvertInv'
  BY ONLY <1>29, Reassemble
<1> QED BY <1>18, <1>26, <1>30

\* A finished block is the run its activation was.
LEMMA FinishedRun ==
    ASSUME NEW r \in FrameSet, r.todo = <<>>, r.ended,
           NEW b, b = [offset |-> r.entry, last |-> r.at, exit |-> r.exit, end |-> r.size]
    PROVE  b \in BlockSet /\ BlockRun(b) = r
<1>1. b \in BlockSet /\ b.offset = r.entry /\ b.last = r.at /\ b.exit = r.exit /\ b.end = r.size
  BY FrameFacts DEF BlockSet
<1>2. r = [entry |-> r.entry, at |-> r.at, size |-> r.size, todo |-> r.todo, ended |-> r.ended, exit |-> r.exit]
  BY DEF FrameSet
<1>3. r.ended = TRUE
  BY FrameFacts
<1> QED BY <1>1, <1>2, <1>3 DEF BlockRun

\* The end of an activation keeps the invariant.
LEMMA FinishKeeps ==
    ASSUME CodeOK, SearchInv, NEW D, Depths(D), frames # <<>>, Top.todo = <<>>, Top.ended,
           maxSize' = Larger(maxSize, Top.size), frames' = Below,
           finished' = Append(finished, [offset |-> Top.entry, last |-> Top.at, exit |-> Top.exit, end |-> Top.size]),
           code' = code, starts' = starts, seen' = seen, hasTraps' = hasTraps
    PROVE  ConvertInv'
<1>1. /\ Len(code) \in Nat /\ Top \in FrameSet /\ Top = frames[Len(frames)] /\ frames \in Seq(FrameSet)
      /\ finished \in Seq(BlockSet) /\ maxSize \in Nat /\ hasTraps \in BOOLEAN
      /\ Tree(code, starts, frames, finished, seen)
      /\ Runs(frames, finished) = {Top} \union Others(frames, finished)
      /\ Others(frames, finished) \subseteq FrameSet
      /\ RunShape(code, starts, Top) /\ Top.entry \in DOMAIN seen
      /\ \A r \in Others(frames, finished) : RunShape(code, starts, r) /\ r.entry \in DOMAIN seen
  BY TopSetup
<1>2. PICK b : b = [offset |-> Top.entry, last |-> Top.at, exit |-> Top.exit, end |-> Top.size]
  OBVIOUS
<1>3. b \in BlockSet /\ BlockRun(b) = Top
  <2>1. PICK r : r = Top
    OBVIOUS
  <2>2. r \in FrameSet /\ r.todo = <<>> /\ r.ended /\ b = [offset |-> r.entry, last |-> r.at, exit |-> r.exit, end |-> r.size]
    BY <2>1, <1>1, <1>2
  <2>3. b \in BlockSet /\ BlockRun(b) = r
    BY ONLY <2>2, FinishedRun
  <2> QED BY <2>1, <2>3
<1>4. PICK t : t = frames' /\ t = SubSeq(frames, 1, Len(frames) - 1)
  BY DEF Below
<1>5. PICK u : u = finished' /\ u = Append(finished, b)
  BY <1>2
<1>6. /\ Tree(code, starts, t, u, seen) /\ Runs(t, u) = Runs(frames, finished)
      /\ t \in Seq(FrameSet) /\ u \in Seq(BlockSet)
  <2>1. /\ frames \in Seq(FrameSet) /\ finished \in Seq(BlockSet) /\ Tree(code, starts, frames, finished, seen) /\ frames # <<>>
        /\ b \in BlockSet /\ Moves(frames, finished, b, t, u)
    BY <1>1, <1>3, <1>4, <1>5 DEF Moves
  <2> QED BY ONLY <2>1, TreePopped
<1>7. PICK my \in Nat : my = maxSize' /\ maxSize <= my
  BY <1>1, FrameFacts, LargerFacts
<1>8. PICK R : R = Runs(frames, finished)
  OBVIOUS
<1>9. /\ RunsDeep(code, starts, seen, maxSize, R, D) /\ Checked(code, maxSize, hasTraps, D)
      /\ Found(Walked(Walk, D), seen, R, D) /\ DOMAIN D = AllMembers(starts, R)
  BY <1>8 DEF Depths, Deep
<1>10. RunsDeep(code, starts, seen, my, R, D)
  <2>1. R \in SUBSET FrameSet
    BY <1>1, <1>8
  <2>2. \A r \in R : RunShape(code, starts, r) /\ Mem(starts, r) \subseteq DOMAIN D /\ r.entry \in DOMAIN seen
    BY <1>1, <1>8, DepthsSetup
  <2>3. SeenGrows(seen, seen) /\ DepthGrows(D, D)
    BY DEF SeenGrows, DepthGrows
  <2>4. Len(code) \in Nat /\ maxSize \in Nat /\ my \in Nat /\ maxSize <= my
    BY <1>1, <1>7
  <2> QED BY ONLY <2>1, <2>2, <2>3, <2>4, <1>9, RunsDeepKept
<1>11. Checked(code, my, hasTraps, D)
  BY <1>1, <1>7, <1>9, CheckedKept
<1>12. Deep(code, starts, Walk, t, u, seen, my, hasTraps, D)
  BY <1>6, <1>8, <1>9, <1>10, <1>11 DEF Deep
<1>13. /\ SearchInv /\ code' = code /\ starts' = starts
       /\ frames' \in Seq(FrameSet) /\ finished' \in Seq(BlockSet)
       /\ Tree(code, starts, frames', finished', seen')
       /\ DOMAIN seen' \subseteq Label /\ seen' \in [DOMAIN seen' -> PendingSet] /\ Pendings(seen') /\ seen'[1].size = Arity
       /\ maxSize' \in Nat /\ hasTraps' \in BOOLEAN
       /\ Deep(code, starts, Walk, frames', finished', seen', maxSize', hasTraps', D)
  BY <1>1, <1>4, <1>5, <1>6, <1>7, <1>12, SeenMap
<1> QED BY ONLY <1>13, Reassemble

-----------------------------------------------------------------------------
(* A closure is given up for breaking a rule *)

\* visit asks no more of the stack than the interpreter needs.
LEMMA EnoughForInterpreter ==
    ASSUME NEW i \in Instruction, i.op \notin Ends, NEW s \in Nat,
           s >= InterpReads(i), s + InterpPushes(i) >= InterpPops(i)
    PROVE  Enough(i, s)
<1>1. i.n \in Nat /\ i.m \in Nat /\ i.op # "pushtrap"
  BY InsFacts DEF Ends, Falls
<1>2. LessOne(i.n) \in Nat /\ (i.n > 0 => LessOne(i.n) = i.n - 1) /\ (i.n = 0 => LessOne(i.n) = 0)
  BY <1>1, LessOneFacts
<1>3. CASE i.op \in {"pop", "apply"}
  BY <1>1, <1>3 DEF Enough, Need, InterpPushes, InterpPops
<1>4. CASE i.op \in {"assign", "getdynmet", "getmethod"}
  BY <1>1, <1>4 DEF Enough, Need, InterpReads
<1>5. CASE i.op \in {"closure", "closurerec"}
  BY <1>1, <1>2, <1>5 DEF Enough, Need, InterpPushes, InterpPops
<1>6. CASE i.op \in {"makeblock", "ccall", "ccalln", "applyn"}
  BY <1>1, <1>2, <1>6 DEF Enough, Need, InterpPushes, InterpPops
<1>7. CASE i.op \in {"binary", "ternary", "poptrap"}
  BY <1>7 DEF Enough, Need, InterpPushes, InterpPops
<1>8. CASE i.op \notin {"pop", "apply", "assign", "getdynmet", "getmethod", "closure", "closurerec", "makeblock",
                        "ccall", "ccalln", "applyn", "binary", "ternary", "poptrap"}
  BY <1>8 DEF Enough, Need
<1> QED BY <1>3, <1>4, <1>5, <1>6, <1>7, <1>8

\* What the compiler's rules say at an instruction the interpreter can reach.
LEMMA RegularAt ==
    ASSUME Regular, NEW p, NEW d, <<p, d>> \in Reached
    PROVE  /\ p <= Len(code) /\ d >= InterpReads(code[p]) /\ d + InterpPushes(code[p]) >= InterpPops(code[p])
           /\ ExitAllowed(code[p], d) /\ \A k \in DOMAIN code[p].to : code[p].to[k] # 1
           /\ code[p].op = "poptrap" => \E y \in Reached : code[y[1]].op = "pushtrap"
           /\ \A e : <<p, e>> \in Reached => d = e
<1>1. <<p, d>>[1] = p /\ <<p, d>>[2] = d
  OBVIOUS
<1>2. /\ p <= Len(code) /\ d >= InterpReads(code[p]) /\ d + InterpPushes(code[p]) >= InterpPops(code[p])
      /\ ExitAllowed(code[p], d) /\ \A k \in DOMAIN code[p].to : code[p].to[k] # 1
      /\ code[p].op = "poptrap" => \E y \in Reached : code[y[1]].op = "pushtrap"
  BY <1>1 DEF Regular
<1>3. ASSUME NEW e, <<p, e>> \in Reached PROVE d = e
  <2>1. <<p, d>> = <<p, e>>
    BY <1>3, <1>1 DEF Regular
  <2> QED BY <2>1
<1> QED BY <1>2, <1>3

\* visit gives a closure up for an instruction only when the closure breaks a rule.
LEMMA InstructionRejected ==
    ASSUME CodeOK, SearchInv, NEW D, Depths(D), frames # <<>>, ~Top.ended,
           \/ Top.at > Len(code)
           \/ Top.at <= Len(code) /\ code[Top.at].op \in Ends /\ ~ExitAllowed(code[Top.at], Top.size)
           \/ Top.at <= Len(code) /\ code[Top.at].op \notin Ends /\ ~Enough(code[Top.at], Top.size)
    PROVE  ~Regular
<1> SUFFICES ASSUME Regular PROVE FALSE
  OBVIOUS
<1>1. Len(code) \in Nat /\ Top \in FrameSet /\ Top \in Runs(frames, finished)
  BY TopSetup
<1>2. Top.at \in Nat /\ Top.at >= 1 /\ Top.size \in Nat
  BY <1>1, FrameFacts
<1>3. <<Top.at, Top.size>> \in Reached
  <2>1. RunFound(Walked(Walk, D), Top) /\ Walked(Walk, D) \subseteq Reached
    BY <1>1, DepthsSetup
  <2> QED BY <2>1 DEF RunFound
<1>4. PICK p : p = Top.at
  OBVIOUS
<1>5. PICK d : d = Top.size
  OBVIOUS
<1>6. /\ p <= Len(code) /\ d >= InterpReads(code[p]) /\ d + InterpPushes(code[p]) >= InterpPops(code[p])
      /\ ExitAllowed(code[p], d)
  BY <1>3, <1>4, <1>5, RegularAt
<1>7. p \in 1..Len(code) /\ d \in Nat
  BY <1>1, <1>2, <1>4, <1>5, <1>6
<1>8. code[p].op \notin Ends => Enough(code[p], d)
  <2>1. PICK i \in Instruction : i = code[p]
    BY <1>7, CodeFacts
  <2> QED BY <2>1, <1>6, <1>7, EnoughForInterpreter
<1> QED BY <1>1, <1>2, <1>4, <1>5, <1>6, <1>8

\* And for a second visit with another size only when two ways lead there with different depths.
LEMMA VisitRejected ==
    ASSUME CodeOK, SearchInv, NEW D, Depths(D), frames # <<>>, Top.todo # <<>>,
           Head(Top.todo).to \in DOMAIN seen, ~SeenBefore(Head(Top.todo).to, Head(Top.todo).size)
    PROVE  ~Regular
<1> SUFFICES ASSUME Regular PROVE FALSE
  OBVIOUS
<1>1. PICK v : v = Head(Top.todo)
  OBVIOUS
<1>2. /\ v \in VisitSet /\ Top.ended /\ <<v.to, v.size>> \in Walked(Walk, D)
  BY <1>1, VisitNext
<1>3. PICK k : k \in DOMAIN Visits(code, starts, Top, D) /\ v = Visits(code, starts, Top, D)[k]
  <2>1. \E k \in DOMAIN Top.exit : k \in DOMAIN Visits(code, starts, Top, D) /\ v = Visits(code, starts, Top, D)[k]
    BY <1>1, VisitNext
  <2> QED BY ONLY <2>1
<1>4. /\ Len(code) \in Nat /\ Top \in FrameSet /\ Top \in Runs(frames, finished) /\ RunShape(code, starts, Top)
  BY TopSetup
<1>5. Walked(Walk, D) \subseteq Reached /\ \A l \in DOMAIN seen : <<l, seen[l].size>> \in Walked(Walk, D)
  BY DepthsSetup
<1>6. seen[v.to].size = v.size
  <2>1. <<v.to, v.size>> \in Reached /\ <<v.to, seen[v.to].size>> \in Reached
    BY <1>1, <1>2, <1>5
  <2>2. PICK p : p = v.to
    OBVIOUS
  <2> QED BY <2>1, <2>2, RegularAt
<1>7. seen[v.to].type # "Normal"
  BY <1>1, <1>6 DEF SeenBefore
<1>8. v.to = 1
  BY <1>1, <1>7, SeenMap DEF Pendings
<1>9. Top.entry \in Nat /\ Top.entry >= 1 /\ Top.at \in Nat /\ Top.entry <= Top.at /\ Top.at \in Label
  BY <1>4, FrameFacts DEF RunShape
<1>10. CASE Joins(starts, Top)
  <2>1. Visits(code, starts, Top, D) = <<Visit(Top.at, Top.size)>>
    BY <1>10 DEF Visits
  <2>2. v = Visit(Top.at, Top.size)
    BY <2>1, <1>3
  <2>3. v.to = Top.at
    BY <2>2 DEF Visit
  <2> QED BY <2>3, <1>8, <1>9, <1>10 DEF Joins
<1>11. CASE ~Joins(starts, Top)
  <2>1. PICK a : a = Top.at
    OBVIOUS
  <2>2. a \in Mem(starts, Top)
    BY <2>1, <1>2, <1>4, <1>11, MemHas
  <2>3. a \in 1..Len(code) /\ code[a].op \in Ends /\ a \in DOMAIN D
    <3>1. a \in 1..Len(code) /\ code[a].op \in Ends
      BY <2>1, <2>2, <1>4, MemFacts
    <3> QED BY <3>1, <2>2, <1>4, DepthsSetup
  <2>4. PICK d \in Nat : d = D[a] /\ <<a, d>> \in Reached
    <3>1. D[a] \in Nat
      BY <2>3 DEF Depths, Deep, Checked
    <3> QED BY <3>1, <2>3, <1>5, DepthsSetup
  <2>5. PICK i \in Instruction : i = code[a] /\ i.op \in Ends
    BY <2>3, CodeFacts
  <2>6. PICK vs : vs = ExitVisits(i, a, d)
    OBVIOUS
  <2>7. Visits(code, starts, Top, D) = vs
    BY <2>1, <2>4, <2>5, <2>6, <1>11 DEF Visits
  <2>8. Targets(i, a, vs)
    <3>1. i \in Instruction /\ i.op \in Ends /\ a \in Label /\ d \in Nat
      BY <2>1, <2>5, <1>9
    <3> QED BY ONLY <3>1, <2>6, ExitVisitsAre
  <2>9. k \in DOMAIN vs /\ vs[k].to = 1
    BY <2>7, <1>3, <1>8
  <2>10. \E j \in DOMAIN i.to : i.to[j] = 1
    BY <2>1, <2>8, <2>9, <1>9 DEF Targets
  <2>11. \A j \in DOMAIN i.to : i.to[j] # 1
    BY <2>4, <2>5, RegularAt
  <2> QED BY <2>10, <2>11
<1> QED BY <1>10, <1>11

-----------------------------------------------------------------------------
(* When the search is over *)

\* Every run is a finished block, and every pending block is one of them.
LEMMA OverFacts ==
    ASSUME CodeOK, SearchInv, frames = <<>>
    PROVE  /\ finished \in Seq(BlockSet) /\ Len(finished) \in Nat /\ Len(finished) >= 1
           /\ finished[Len(finished)].offset = 1
           /\ Runs(frames, finished) = {BlockRun(finished[j]) : j \in 1..Len(finished)}
           /\ \A j \in 1..Len(finished) :
                /\ finished[j] \in BlockSet /\ BlockRun(finished[j]) \in FrameSet
                /\ BlockRun(finished[j]).entry = finished[j].offset /\ finished[j].offset \in DOMAIN seen
           /\ \A l \in DOMAIN seen : \E j \in 1..Len(finished) : finished[j].offset = l
           /\ \A j, k \in 1..Len(finished) : finished[j].offset = finished[k].offset => j = k
<1>1. frames \in Seq(FrameSet) /\ finished \in Seq(BlockSet)
  BY DEF SearchInv, SearchTypes
<1>2. finished # <<>> /\ finished[Len(finished)].offset = 1
  BY DEF SearchInv, StackShape
<1>3. Len(finished) \in Nat /\ Len(finished) >= 1
  BY <1>1, <1>2
<1>4. Runs(frames, finished) = {BlockRun(finished[j]) : j \in 1..Len(finished)}
  BY <1>1, RunsTyped
<1>5. \A j, k \in 1..Len(finished) : finished[j].offset = finished[k].offset => j = k
  BY DEF SearchInv, Entries
<1>6. DOMAIN seen = {r.entry : r \in Runs(frames, finished)}
  BY DEF SearchInv, Entries
<1>7. ASSUME NEW j \in 1..Len(finished)
      PROVE  /\ finished[j] \in BlockSet /\ BlockRun(finished[j]) \in FrameSet
             /\ BlockRun(finished[j]).entry = finished[j].offset /\ finished[j].offset \in DOMAIN seen
  <2>1. finished[j] \in BlockSet
    BY <1>1
  <2>2. BlockRun(finished[j]) \in FrameSet /\ BlockRun(finished[j]).entry = finished[j].offset
    BY <2>1, BlockRunFacts
  <2> QED BY <2>1, <2>2, <1>4, <1>6
<1>8. ASSUME NEW l \in DOMAIN seen PROVE \E j \in 1..Len(finished) : finished[j].offset = l
  <2>1. PICK r \in Runs(frames, finished) : r.entry = l
    BY <1>6
  <2>2. PICK j \in 1..Len(finished) : r = BlockRun(finished[j])
    BY <1>4
  <2> QED BY <2>1, <2>2, <1>7
<1> QED BY <1>1, <1>2, <1>3, <1>4, <1>5, <1>7, <1>8

\* The depths found at the blocks and their exits.
LEMMA OverDepths ==
    ASSUME CodeOK, SearchInv, frames = <<>>, NEW D, Depths(D)
    PROVE  /\ \A l \in DOMAIN seen : l \in DOMAIN D /\ D[l] = seen[l].size
           /\ \A r \in Runs(frames, finished) :
                /\ r \in FrameSet /\ r.ended /\ r.todo = <<>> /\ RunShape(code, starts, r)
                /\ Mem(starts, r) \subseteq DOMAIN D /\ RunDepth(code, starts, seen, maxSize, r, D)
                /\ DOMAIN r.exit = DOMAIN Visits(code, starts, r, D)
                /\ \A k \in DOMAIN r.exit :
                     /\ r.exit[k] = Visits(code, starts, r, D)[k].to
                     /\ Visited(seen, r, Visits(code, starts, r, D)[k])
<1>1. ASSUME NEW r \in Runs(frames, finished)
      PROVE  /\ r \in FrameSet /\ r.ended /\ r.todo = <<>> /\ RunShape(code, starts, r)
             /\ Mem(starts, r) \subseteq DOMAIN D /\ RunDepth(code, starts, seen, maxSize, r, D)
             /\ RunExits(code, starts, seen, r, D)
  <2>1. PICK j \in 1..Len(finished) : r = BlockRun(finished[j]) /\ finished[j] \in BlockSet
    BY OverFacts
  <2>2. r \in FrameSet /\ r.ended /\ r.todo = <<>>
    BY <2>1, BlockRunFacts
  <2> QED BY <2>2, DepthsSetup DEF SearchInv
<1>2. ASSUME NEW r \in Runs(frames, finished)
      PROVE  /\ DOMAIN r.exit = DOMAIN Visits(code, starts, r, D)
             /\ \A k \in DOMAIN r.exit :
                  /\ r.exit[k] = Visits(code, starts, r, D)[k].to
                  /\ Visited(seen, r, Visits(code, starts, r, D)[k])
  <2>1. DOMAIN r.todo = {}
    BY <1>1
  <2> QED BY <2>1, <1>1 DEF RunExits
<1>3. ASSUME NEW l \in DOMAIN seen PROVE l \in DOMAIN D /\ D[l] = seen[l].size
  <2>1. PICK j \in 1..Len(finished) : finished[j].offset = l
    BY OverFacts
  <2>2. PICK r : r = BlockRun(finished[j])
    OBVIOUS
  <2>3. r \in Runs(frames, finished) /\ r.entry = l
    BY <2>1, <2>2, OverFacts
  <2>4. l \in Mem(starts, r)
    BY <2>3, <1>1, MemHas
  <2>5. D[l] = Arrive(code, seen, r, D, l)
    BY <2>3, <2>4, <1>1 DEF RunDepth
  <2> QED BY <2>3, <2>4, <2>5, <1>1 DEF Arrive
<1> QED BY <1>1, <1>2, <1>3

\* The search has been to the places an execution can come to, and found its stack sizes.
LEMMA ReachedIs ==
    ASSUME CodeOK, SearchInv, frames = <<>>, NEW D, Depths(D)
    PROVE  Reached = {<<p, D[p]>> : p \in DOMAIN D}
<1> DEFINE G == {<<p, D[p]>> : p \in DOMAIN D}
<1>1. G \subseteq Reached
  BY DepthsSetup
<1>2. \A l \in DOMAIN seen : l \in DOMAIN D /\ D[l] = seen[l].size
  BY OverDepths
<1>3. \A r, v : Visited(seen, r, v) => <<v.to, v.size>> \in G
  BY <1>2 DEF Visited
<1>4. <<1, Arity>> \in G
  BY <1>2, EntrySeen, SeenMap
<1>5. Len(code) \in Nat
  BY LenFacts
<1>6. ASSUME NEW p \in DOMAIN D PROVE Successors(code[p], p, D[p]) \subseteq G
  <2>1. p \in 1..Len(code) /\ D[p] \in Nat
    BY DEF Depths, Deep, Checked
  <2>2. PICK d \in Nat : d = D[p]
    BY <2>1
  <2>3. PICK i \in Instruction : i = code[p]
    BY <2>1, CodeFacts
  <2>4. PICK r \in Runs(frames, finished) : p \in Mem(starts, r)
    BY DEF Depths, Deep, AllMembers
  <2>5. /\ r \in FrameSet /\ r.ended /\ RunShape(code, starts, r)
        /\ Mem(starts, r) \subseteq DOMAIN D /\ RunDepth(code, starts, seen, maxSize, r, D)
        /\ DOMAIN r.exit = DOMAIN Visits(code, starts, r, D)
        /\ \A k \in DOMAIN r.exit : Visited(seen, r, Visits(code, starts, r, D)[k])
    BY OverDepths
  <2>6. \A k \in DOMAIN Visits(code, starts, r, D) :
          <<Visits(code, starts, r, D)[k].to, Visits(code, starts, r, D)[k].size>> \in G
    BY <2>5, <1>3
  <2>7. /\ r.entry \in Nat /\ r.at \in Nat /\ r.entry <= p /\ p <= r.at /\ p \in Nat /\ p \in Label
        /\ p = r.at => ~Joins(starts, r) /\ i.op \in Ends
        /\ p # r.at => i.op \notin Ends
    <3>1. /\ p \in Nat /\ r.entry <= p /\ p <= r.at
          /\ p = r.at => ~Joins(starts, r) /\ code[p].op \in Ends
          /\ p # r.at => code[p].op \notin Ends
      BY <2>4, <2>5, <1>5, MemFacts
    <3> QED BY <3>1, <2>1, <2>3, <2>5, FrameFacts DEF Label
  <2>8. CASE p = r.at
    <3>1. PICK vs : vs = ExitVisits(i, p, d)
      OBVIOUS
    <3>2. Visits(code, starts, r, D) = vs
      BY <2>2, <2>3, <2>7, <2>8, <3>1 DEF Visits
    <3>3. i.op \in Ends
      BY <2>7, <2>8
    <3>4. VisitsAll(Successors(i, p, d), vs)
      <4>1. i \in Instruction /\ i.op \in Ends /\ p \in Label /\ d \in Nat
        BY <2>7, <3>3
      <4> QED BY ONLY <4>1, <3>1, ExitVisitsAre
    <3>5. Successors(i, p, d) \subseteq G
      BY <2>6, <3>2, <3>4 DEF VisitsAll
    <3> QED BY <3>5, <2>2, <2>3
  <2>9. CASE p # r.at
    <3>1. i.op \notin Ends
      BY <2>7, <2>9
    <3>2. Successors(i, p, d) = {<<p + 1, d + Effect(i)>>}
      BY <3>1, <2>7, SuccessorInside
    <3>3. PICK q \in Nat : q = p + 1 /\ q # r.entry /\ q - 1 = p /\ q <= r.at
      BY <2>7, <2>9
    <3>4. Arrive(code, seen, r, D, q) = d + Effect(i)
      BY <3>3, <2>2, <2>3 DEF Arrive
    <3>5. CASE q \in Mem(starts, r)
      <4>1. D[q] = d + Effect(i) /\ q \in DOMAIN D
        BY <3>4, <3>5, <2>5 DEF RunDepth
      <4>2. <<q, d + Effect(i)>> \in G
        BY <4>1
      <4> QED BY <4>2, <3>2, <3>3, <2>2, <2>3
    <3>6. CASE q \notin Mem(starts, r)
      <4>1. q = r.at /\ Joins(starts, r)
        BY <3>3, <3>6, <2>5, <2>7 DEF Mem
      <4>2. r.size = d + Effect(i)
        BY <3>4, <4>1, <2>5 DEF RunDepth
      <4>3. Visits(code, starts, r, D) = <<Visit(q, d + Effect(i))>>
        BY <4>1, <4>2 DEF Visits
      <4>4. PICK v : v = Visit(q, d + Effect(i))
        OBVIOUS
      <4>5. v.to = q /\ v.size = d + Effect(i)
        BY <4>4 DEF Visit
      <4>6. Visits(code, starts, r, D) = <<v>>
        BY <4>3, <4>4
      <4>7. 1 \in DOMAIN <<v>> /\ <<v>>[1] = v
        OBVIOUS
      <4>8. <<q, d + Effect(i)>> \in G
        BY <4>5, <4>6, <4>7, <2>6
      <4> QED BY <4>8, <3>2, <3>3, <2>2, <2>3
    <3> QED BY <3>5, <3>6
  <2> QED BY <2>8, <2>9
<1>7. Reached \subseteq G
  <2>1. \A x \in G : x[1] <= Len(code) => Successors(code[x[1]], x[1], x[2]) \subseteq G
    <3>1. ASSUME NEW x \in G PROVE Successors(code[x[1]], x[1], x[2]) \subseteq G
      <4>1. PICK p \in DOMAIN D : x = <<p, D[p]>>
        OBVIOUS
      <4>2. x[1] = p /\ x[2] = D[p]
        BY <4>1
      <4> QED BY <4>2, <1>6
    <3> QED BY <3>1
  <2> HIDE DEF G
  <2> QED BY <2>1, <1>4, ReachedClosed
<1> QED BY <1>1, <1>7

-----------------------------------------------------------------------------
(* The blocks in reverse post-order *)

\* Numbers of blocks count from the one finished last.
LEMMA BlockIdIs ==
    ASSUME CodeOK, SearchInv, frames = <<>>, NEW j \in 1..Len(finished)
    PROVE  /\ BlockId(finished[j].offset) = Len(finished) + 1 - j
           /\ Len(finished) + 1 - j \in 1..Len(finished)
<1>1. PICK n \in Nat : n = Len(finished) /\ \A h, k \in 1..n : finished[h].offset = finished[k].offset => h = k
  BY OverFacts
<1>2. n + 1 - j \in 1..n /\ n + 1 - (n + 1 - j) = j
  BY <1>1
<1>3. ASSUME NEW k \in 1..n, finished[n + 1 - k].offset = finished[j].offset PROVE k = n + 1 - j
  <2>1. n + 1 - k \in 1..n
    BY <1>1
  <2>2. n + 1 - k = j
    BY <2>1, <1>1, <1>3
  <2> QED BY <2>2, <1>1
<1>4. BlockId(finished[j].offset) = CHOOSE k \in 1..n : finished[n + 1 - k].offset = finished[j].offset
  BY <1>1 DEF BlockId
<1>5. \E k \in 1..n : finished[n + 1 - k].offset = finished[j].offset
  BY <1>2
<1> QED BY <1>1, <1>2, <1>3, <1>4, <1>5

\* Block k is the k-th from the end.
LEMMA FinishedBlockIs ==
    ASSUME CodeOK, SearchInv, frames = <<>>, NEW k \in 1..Len(finished)
    PROVE  FinishedBlock(k) = finished[Len(finished) + 1 - k] /\ Len(finished) + 1 - k \in 1..Len(finished)
<1>1. PICK n \in Nat : n = Len(finished) /\ DOMAIN finished = 1..n
  BY OverFacts
<1>0. k \in 1..n
  BY <1>1
<1>2. PICK j \in 1..n : j = n + 1 - k
  <2>1. n + 1 - k \in 1..n
    BY ONLY <1>0, n \in Nat
  <2> QED BY ONLY <2>1
<1>3. BlockId(finished[j].offset) = k
  BY <1>1, <1>2, BlockIdIs
<1>4. ASSUME NEW h \in 1..n, BlockId(finished[h].offset) = k PROVE h = j
  <2>1. BlockId(finished[h].offset) = n + 1 - h
    BY <1>1, BlockIdIs
  <2> QED BY <2>1, <1>1, <1>2, <1>4
<1>5. PICK B : B = {finished[h] : h \in 1..n}
  OBVIOUS
<1>6. finished[j] \in B /\ \A b \in B : BlockId(b.offset) = k => b = finished[j]
  BY <1>4, <1>5
<1>7. FinishedBlock(k) = CHOOSE b \in B : BlockId(b.offset) = k
  BY <1>1, <1>5 DEF FinishedBlock
<1>8. FinishedBlock(k) = finished[j]
  BY <1>3, <1>6, <1>7
<1> QED BY <1>1, <1>2, <1>8

\* Different blocks have different numbers.
LEMMA BlockIdsDiffer ==
    ASSUME CodeOK, SearchInv, frames = <<>>, NEW l \in DOMAIN seen
    PROVE  BlockId(l) \in 1..Len(finished) /\ \A m \in DOMAIN seen : BlockId(m) = BlockId(l) => m = l
<1>1. PICK n \in Nat : n = Len(finished)
  BY OverFacts
<1>2. PICK j \in 1..n : finished[j].offset = l
  BY <1>1, OverFacts
<1>3. BlockId(l) = n + 1 - j
  BY <1>1, <1>2, BlockIdIs
<1>4. ASSUME NEW m \in DOMAIN seen, BlockId(m) = BlockId(l) PROVE m = l
  <2>1. PICK k \in 1..n : finished[k].offset = m
    BY <1>1, OverFacts
  <2>2. BlockId(m) = n + 1 - k
    BY <2>1, <1>1, BlockIdIs
  <2>3. k = j
    BY <2>2, <1>3, <1>4, <1>1
  <2> QED BY <2>1, <2>3, <1>2
<1> QED BY <1>1, <1>3, <1>4

\* The maximum of a set of block numbers is one of them, and the largest.
LEMMA MaxFacts ==
    ASSUME NEW T, NEW n \in Nat, T \subseteq 1..n, T # {}
    PROVE  Max(T) \in T /\ \A y \in T : y <= Max(T)
<1> DEFINE U == {n - x : x \in T}
<1>1. U \in SUBSET Nat /\ U # {}
  <2>1. ASSUME NEW u \in U PROVE u \in Nat
    <3>1. PICK x \in T : u = n - x
      OBVIOUS
    <3>2. x \in 1..n
      OBVIOUS
    <3> QED BY <3>1, <3>2
  <2>2. PICK x : x \in T
    OBVIOUS
  <2>3. n - x \in U
    BY <2>2
  <2> QED BY <2>1, <2>3
<1>2. PICK u \in U : \A v \in U : u <= v
  <2> HIDE DEF U
  <2> QED BY <1>1, LeastNat
<1>3. PICK x \in T : u = n - x
  OBVIOUS
<1>4. \A y \in T : x >= y
  <2>1. ASSUME NEW y \in T PROVE x >= y
    <3>1. n - y \in U
      OBVIOUS
    <3>2. u <= n - y
      BY <3>1, <1>2
    <3>3. x \in 1..n /\ y \in 1..n
      OBVIOUS
    <3> QED BY <3>2, <3>3, <1>3
  <2> QED BY <2>1
<1>5. Max(T) \in T /\ \A y \in T : Max(T) >= y
  <2>1. \E z \in T : \A y \in T : z >= y
    BY <1>4
  <2>2. PICK m : m = CHOOSE z \in T : \A y \in T : z >= y
    OBVIOUS
  <2>3. m \in T /\ \A y \in T : m >= y
    BY ONLY <2>1, <2>2, Zenon
  <2> QED BY <2>2, <2>3 DEF Max
<1>6. PICK m \in 1..n : m = Max(T)
  BY <1>5
<1>7. \A y \in T : y \in 1..n /\ m >= y
  BY <1>5, <1>6
<1>8. \A y \in T : y <= m
  BY <1>7
<1> QED BY <1>5, <1>6, <1>8

AllBlocks == [k \in 1..Len(finished) |-> BasicBlock(k)]

\* Block k, as the search left it, and what became of its fields.
LEMMA BlocksAre ==
    ASSUME CodeOK, SearchInv, frames = <<>>, blocks = AllBlocks, NEW k \in DOMAIN blocks
    PROVE  /\ k \in 1..Len(finished)
           /\ \E f \in BlockSet :
                /\ f = finished[Len(finished) + 1 - k] /\ BlockRun(f) \in Runs(frames, finished) /\ BlockId(f.offset) = k
                /\ blocks[k].offset = f.offset /\ blocks[k].last = f.last /\ blocks[k].start = seen[f.offset].size
                /\ blocks[k].end = f.end /\ blocks[k].exit = {BlockId(f.exit[j]) : j \in DOMAIN f.exit}
                /\ blocks[k].seals = Seals(k)
                /\ Members(blocks[k]) = Mem(starts, BlockRun(f)) /\ (RunsOn(blocks[k]) <=> Joins(starts, BlockRun(f)))
<1>1. k \in 1..Len(finished) /\ blocks[k] = BasicBlock(k)
  BY DEF AllBlocks
<1>2. PICK f : f = FinishedBlock(k)
  OBVIOUS
<1>3. f = finished[Len(finished) + 1 - k] /\ Len(finished) + 1 - k \in 1..Len(finished)
  BY <1>1, <1>2, FinishedBlockIs
<1>4. PICK j \in 1..Len(finished) : j = Len(finished) + 1 - k
  BY <1>3
<1>5. f \in BlockSet /\ BlockRun(f) \in Runs(frames, finished)
  BY <1>3, <1>4, OverFacts
<1>6. BlockId(f.offset) = k
  <2>1. BlockId(f.offset) = Len(finished) + 1 - j
    BY <1>3, <1>4, BlockIdIs
  <2>2. Len(finished) \in Nat
    BY OverFacts
  <2> QED BY <2>1, <2>2, <1>1, <1>4
<1>7. /\ blocks[k].offset = f.offset /\ blocks[k].last = f.last /\ blocks[k].start = seen[f.offset].size
      /\ blocks[k].end = f.end /\ blocks[k].exit = {BlockId(f.exit[e]) : e \in DOMAIN f.exit}
      /\ blocks[k].seals = Seals(k)
  <2>1. blocks[k] = [offset |-> f.offset, last |-> f.last, start |-> seen[f.offset].size, end |-> f.end,
                     exit |-> {BlockId(f.exit[e]) : e \in DOMAIN f.exit}, seals |-> Seals(k)]
    BY <1>1, <1>2 DEF BasicBlock
  <2> QED BY <2>1
<1>8. RunsOn(blocks[k]) <=> Joins(starts, BlockRun(f))
  BY <1>5, <1>7, BlockRunFacts DEF RunsOn, Joins
<1>9. Members(blocks[k]) = Mem(starts, BlockRun(f))
  BY <1>5, <1>7, <1>8, BlockRunFacts DEF Members, Mem
<1> QED BY <1>1, <1>3, <1>5, <1>6, <1>7, <1>8, <1>9

\* The blocks start with the interpreter's depth.
LEMMA DepthsHold ==
    ASSUME CodeOK, SearchInv, frames = <<>>, blocks = AllBlocks, NEW D, Depths(D)
    PROVE  DepthsAreInterpreters
<1>1. Reached = {<<p, D[p]>> : p \in DOMAIN D}
  BY ReachedIs
<1>2. ASSUME NEW x \in Reached
      PROVE  /\ x[2] <= maxSize
             /\ \A k \in DOMAIN blocks : blocks[k].offset = x[1] => blocks[k].start = x[2]
  <2>1. PICK p \in DOMAIN D : x = <<p, D[p]>>
    BY <1>1
  <2>2. x[1] = p /\ x[2] = D[p]
    BY <2>1
  <2>3. D[p] <= maxSize
    BY DEF Depths, Deep, Checked
  <2>4. ASSUME NEW k \in DOMAIN blocks, blocks[k].offset = p PROVE blocks[k].start = D[p]
    <3>1. PICK f \in BlockSet : f.offset = p /\ blocks[k].start = seen[p].size /\ BlockRun(f) \in Runs(frames, finished)
      BY <2>4, BlocksAre
    <3>2. BlockRun(f).entry = p
      BY <3>1, BlockRunFacts
    <3>3. p \in DOMAIN seen
      BY <3>1, <3>2 DEF SearchInv, Entries
    <3> QED BY <3>1, <3>3, OverDepths
  <2> QED BY <2>2, <2>3, <2>4
<1> QED BY <1>2 DEF DepthsAreInterpreters

\* The blocks are a partition of what can be executed, in an order that has every block after one
\* that jumps to it.
LEMMA OnceHold ==
    ASSUME CodeOK, SearchInv, frames = <<>>, blocks = AllBlocks, NEW D, Depths(D)
    PROVE  EachInstructionOnceInOrder
<1>1. Reached = {<<p, D[p]>> : p \in DOMAIN D}
  BY ReachedIs
<1>2. PICK n \in Nat : n = Len(finished) /\ n >= 1 /\ DOMAIN blocks = 1..n
  BY OverFacts DEF AllBlocks
<1>3. Len(code) \in Nat
  BY LenFacts
<1>4. \A x \in Reached : \E k \in DOMAIN blocks : x[1] \in Members(blocks[k])
  <2>1. ASSUME NEW p \in DOMAIN D PROVE \E k \in DOMAIN blocks : p \in Members(blocks[k])
    <3>1. PICK r \in Runs(frames, finished) : p \in Mem(starts, r)
      BY DEF Depths, Deep, AllMembers
    <3>2. PICK j \in 1..n : r = BlockRun(finished[j])
      BY <1>2, OverFacts
    <3>3. PICK k \in 1..n : k = n + 1 - j /\ n + 1 - k = j
      <4>1. n + 1 - j \in 1..n /\ n + 1 - (n + 1 - j) = j
        BY <3>2, <1>2
      <4> QED BY <4>1
    <3>4. Members(blocks[k]) = Mem(starts, BlockRun(finished[j]))
      <4>1. k \in DOMAIN blocks /\ Len(finished) + 1 - k = j
        BY <3>3, <1>2
      <4>2. \E f \in BlockSet : f = finished[Len(finished) + 1 - k] /\ Members(blocks[k]) = Mem(starts, BlockRun(f))
        BY <4>1, BlocksAre
      <4> QED BY <4>1, <4>2
    <3> QED BY <3>1, <3>2, <3>4, <1>2
  <2>2. ASSUME NEW x \in Reached PROVE \E k \in DOMAIN blocks : x[1] \in Members(blocks[k])
    <3>1. PICK p \in DOMAIN D : x = <<p, D[p]>>
      BY <1>1
    <3> QED BY <3>1, <2>1
  <2> QED BY <2>2
<1>5. \A j, k \in DOMAIN blocks : j # k => Members(blocks[j]) \intersect Members(blocks[k]) = {}
  <2>1. ASSUME NEW j \in DOMAIN blocks, NEW k \in DOMAIN blocks, j # k
        PROVE  Members(blocks[j]) \intersect Members(blocks[k]) = {}
    <3>1. PICK f \in BlockSet : /\ BlockRun(f) \in Runs(frames, finished) /\ BlockId(f.offset) = j
                                /\ Members(blocks[j]) = Mem(starts, BlockRun(f))
      BY BlocksAre
    <3>2. PICK g \in BlockSet : /\ BlockRun(g) \in Runs(frames, finished) /\ BlockId(g.offset) = k
                                /\ Members(blocks[k]) = Mem(starts, BlockRun(g))
      BY BlocksAre
    <3>3. PICK r : r = BlockRun(f)
      OBVIOUS
    <3>4. PICK q : q = BlockRun(g)
      OBVIOUS
    <3>5. r.entry # q.entry
      BY <3>1, <3>2, <3>3, <3>4, <2>1, BlockRunFacts
    <3>6. r \in FrameSet /\ RunShape(code, starts, r) /\ q \in FrameSet /\ RunShape(code, starts, q)
      BY <3>1, <3>2, <3>3, <3>4, OverDepths
    <3>7. Mem(starts, r) \intersect Mem(starts, q) = {}
      BY <3>5, <3>6, <1>3, RunsApart
    <3> QED BY <3>1, <3>2, <3>3, <3>4, <3>7
  <2> QED BY <2>1
<1>6. \A k \in DOMAIN blocks : \A p \in Members(blocks[k]) : \E x \in Reached : x[1] = p
  <2>1. ASSUME NEW k \in DOMAIN blocks, NEW p \in Members(blocks[k]) PROVE \E x \in Reached : x[1] = p
    <3>1. PICK f \in BlockSet : BlockRun(f) \in Runs(frames, finished) /\ Members(blocks[k]) = Mem(starts, BlockRun(f))
      BY BlocksAre
    <3>2. p \in DOMAIN D
      BY <3>1, OverDepths
    <3>3. <<p, D[p]>> \in Reached /\ <<p, D[p]>>[1] = p
      BY <3>2, <1>1
    <3> QED BY <3>3
  <2> QED BY <2>1
<1>7. blocks[1].offset = 1
  <2>1. n + 1 - 1 = n /\ 1 \in DOMAIN blocks
    BY <1>2
  <2>2. blocks[1].offset = finished[n].offset
    BY <2>1, <1>2, BlocksAre
  <2> QED BY <2>2, <1>2, OverFacts
<1>8. \A k \in DOMAIN blocks \ {1} : \E j \in 1..(k - 1) : k \in blocks[j].exit
  <2>1. ASSUME NEW k \in DOMAIN blocks, k # 1 PROVE \E j \in 1..(k - 1) : k \in blocks[j].exit
    <3>1. PICK h \in 1..n : h = n + 1 - k /\ h # n /\ k \in 1..n /\ k = n + 1 - h
      BY <2>1, <1>2
    <3>2. BlockId(finished[h].offset) = k
      BY <3>1, <1>2, BlockIdIs
    <3>3. JumpedTo(frames, finished, h)
      BY <1>2 DEF SearchInv, PostOrder
    <3>4. finished[h].offset # 1
      <4>1. finished[n].offset = 1 /\ n \in 1..n
        BY <1>2, OverFacts
      <4> QED BY <4>1, <3>1, <1>2, OverFacts
    <3>5. \A e \in 1..Len(frames) : FALSE
      <4>1. Len(<<>>) = 0
        OBVIOUS
      <4> QED BY <4>1
    <3>6. PICK e \in (h + 1)..n : ExitsTo(finished[e], finished[h].offset)
      BY <3>3, <3>4, <3>5, <1>2 DEF JumpedTo
    <3>7. PICK j \in 1..(k - 1) : j = n + 1 - e /\ n + 1 - j = e /\ j \in 1..n
      <4>1. e \in Nat /\ h + 1 <= e /\ e <= n /\ h \in Nat /\ h >= 1 /\ k \in Nat
        BY <3>1, <3>6, <1>2
      <4>2. n + 1 - e \in 1..(k - 1) /\ n + 1 - (n + 1 - e) = e /\ n + 1 - e \in 1..n
        BY <4>1, <3>1, <1>2
      <4> QED BY <4>2
    <3>8. PICK f \in BlockSet : f = finished[e] /\ blocks[j].exit = {BlockId(f.exit[d]) : d \in DOMAIN f.exit}
      <4>1. j \in DOMAIN blocks /\ Len(finished) + 1 - j = e
        BY <3>7, <1>2
      <4>2. \E f \in BlockSet : /\ f = finished[Len(finished) + 1 - j]
                               /\ blocks[j].exit = {BlockId(f.exit[d]) : d \in DOMAIN f.exit}
        BY <4>1, BlocksAre
      <4> QED BY <4>1, <4>2
    <3>9. PICK d \in DOMAIN f.exit : f.exit[d] = finished[h].offset
      BY <3>6, <3>8 DEF ExitsTo
    <3>10. BlockId(f.exit[d]) = k
      BY <3>2, <3>9
    <3>11. k \in blocks[j].exit
      BY <3>8, <3>10
    <3> QED BY <3>11
  <2> QED BY <2>1
<1> QED BY <1>4, <1>5, <1>6, <1>7, <1>8 DEF EachInstructionOnceInOrder

\* Blocks sealed so far: the entry, and those whose last predecessor has been translated.
SealedSoFar == sealed \subseteq {1} \union UNION {Seals(j) : j \in 1..(next - 1)}

\* A block is sealed after the last jump to it.
LEMMA SealsHold ==
    ASSUME CodeOK, SearchInv, frames = <<>>, blocks = AllBlocks, NEW D, Depths(D), next \in Nat, SealedSoFar
    PROVE  SealedAfterLastJump
<1>1. PICK n \in Nat : n = Len(finished) /\ n >= 1 /\ DOMAIN blocks = 1..n
  BY OverFacts DEF AllBlocks
<1>2. ASSUME NEW s \in sealed, NEW k \in DOMAIN blocks, s \in blocks[k].exit PROVE k < next
  <2>1. PICK f \in BlockSet : /\ BlockRun(f) \in Runs(frames, finished) /\ BlockId(f.offset) = k
                              /\ blocks[k].exit = {BlockId(f.exit[d]) : d \in DOMAIN f.exit}
    BY BlocksAre
  <2>2. PICK d \in DOMAIN f.exit : s = BlockId(f.exit[d])
    BY <2>1, <1>2
  <2>3. PICK r : r = BlockRun(f)
    OBVIOUS
  <2>4. r.exit = f.exit /\ r.entry = f.offset /\ r \in Runs(frames, finished)
    BY <2>1, <2>3, BlockRunFacts
  <2>5. PICK t : t = f.exit[d]
    OBVIOUS
  <2>6. t \in DOMAIN seen /\ t # 1 /\ f.offset \in seen[t].preds
    <3>1. /\ r.exit[d] = Visits(code, starts, r, D)[d].to
          /\ Visited(seen, r, Visits(code, starts, r, D)[d])
      BY <2>2, <2>4, OverDepths
    <3> QED BY <3>1, <2>4, <2>5 DEF Visited
  <2>7. s # 1
    <3>1. 1 \in DOMAIN seen /\ finished[n].offset = 1 /\ n \in 1..n
      BY <1>1, EntrySeen, OverFacts
    <3>2. BlockId(finished[n].offset) = n + 1 - n
      BY <1>1, BlockIdIs
    <3>3. BlockId(1) = 1
      BY <3>1, <3>2, <1>1
    <3> QED BY <3>1, <3>3, <2>2, <2>5, <2>6, BlockIdsDiffer
  <2>8. PICK j \in 1..(next - 1) : s \in Seals(j)
    BY <2>7, <1>2 DEF SealedSoFar
  <2>9. PICK l \in DOMAIN seen : s = BlockId(l) /\ seen[l].preds # {} /\ LastPred(seen[l].preds) = j
    BY <2>8 DEF Seals
  <2>10. l = t
    BY <2>9, <2>2, <2>5, <2>6, BlockIdsDiffer
  <2>11. PICK P : P = {BlockId(p) : p \in seen[l].preds}
    OBVIOUS
  <2>12. P \subseteq 1..n /\ P # {}
    <3>1. seen[l].preds \subseteq DOMAIN seen
      BY SeenMap
    <3>2. \A p \in seen[l].preds : BlockId(p) \in 1..n
      BY <3>1, <1>1, BlockIdsDiffer
    <3> QED BY <3>2, <2>9, <2>11
  <2>13. k \in P
    BY <2>1, <2>6, <2>10, <2>11
  <2>14. k <= Max(P)
    BY <2>12, <2>13, <1>1, MaxFacts
  <2>15. Max(P) = j
    BY <2>9, <2>11 DEF LastPred
  <2> QED BY <2>14, <2>15, <1>1
<1> QED BY <1>2 DEF SealedAfterLastJump

-----------------------------------------------------------------------------
(* The translator's count of the stack *)

\* A function on a..n that follows the recursion of SizeBefore.
IsSizes(a, n, s, f) ==
    f = [p \in a..n |-> IF p = a THEN s ELSE TranslateInstruction(code[p - 1], f[p - 1])]

\* The sizes inside a block follow from one instruction to the next.
LEMMA SizesSteps ==
    ASSUME NEW a \in Nat, NEW n \in Nat, a <= n, NEW s, NEW f, IsSizes(a, n, s, f)
    PROVE  /\ f[a] = s
           /\ \A p \in (a + 1)..n : f[p] = TranslateInstruction(code[p - 1], f[p - 1])
<1> DEFINE h == [p \in a..n |-> IF p = a THEN s ELSE TranslateInstruction(code[p - 1], f[p - 1])]
<1>1. f = h
  BY DEF IsSizes
<1>2. h[a] = s /\ \A p \in (a + 1)..n : h[p] = TranslateInstruction(code[p - 1], f[p - 1])
  OBVIOUS
<1> HIDE DEF h
<1> QED BY <1>1, <1>2

\* The function SizeBefore defines exists, for a block of any length.
LEMMA SizesExist ==
    ASSUME NEW a \in Nat, NEW n \in Nat, a <= n, NEW s
    PROVE  \E f : IsSizes(a, n, s, f)
<1> DEFINE T == {k \in Nat : a <= k /\ ~ \E f : IsSizes(a, k, s, f)}
<1>1. SUFFICES ASSUME T # {} PROVE FALSE
  OBVIOUS
<1>2. PICK m \in T : \A y \in T : m <= y
  BY <1>1, LeastNat
<1>3. m # a
  <2>1. IsSizes(a, a, s, [p \in a..a |-> s])
    BY DEF IsSizes
  <2> QED BY <2>1, <1>2
<1>4. PICK n1 \in Nat : n1 = m - 1 /\ a <= n1 /\ n1 \notin T
  BY <1>2, <1>3
<1>5. PICK f : IsSizes(a, n1, s, f)
  BY <1>4
<1>6. f[a] = s /\ \A p \in (a + 1)..n1 : f[p] = TranslateInstruction(code[p - 1], f[p - 1])
  BY ONLY <1>4, <1>5, n1 \in Nat, a \in Nat, SizesSteps
<1> DEFINE g == [p \in a..m |-> IF p = m THEN TranslateInstruction(code[n1], f[n1]) ELSE f[p]]
<1>7. IsSizes(a, m, s, g)
  <2>1. \A p \in a..n1 : g[p] = f[p]
    BY <1>4
  <2>2. ASSUME NEW p \in a..m PROVE g[p] = IF p = a THEN s ELSE TranslateInstruction(code[p - 1], g[p - 1])
    <3>1. CASE p = m
      <4>1. p - 1 = n1 /\ n1 \in a..n1
        BY <3>1, <1>4
      <4>2. g[n1] = f[n1]
        BY <4>1, <2>1
      <4>3. g[p] = TranslateInstruction(code[n1], f[n1])
        BY <3>1
      <4> HIDE DEF g
      <4> QED BY <4>1, <4>2, <4>3, <3>1, <1>3
    <3>2. CASE p # m
      <4>1. p = a \/ p \in (a + 1)..n1
        BY <3>2, <1>4
      <4>2. CASE p = a
        BY <4>2, <1>6, <2>1, <1>4
      <4>3. CASE p \in (a + 1)..n1
        <5>1. p \in a..n1 /\ p - 1 \in a..n1 /\ p # a
          BY <4>3, <1>4
        <5>2. g[p] = f[p] /\ g[p - 1] = f[p - 1]
          BY <5>1, <2>1
        <5>3. f[p] = TranslateInstruction(code[p - 1], f[p - 1])
          BY <4>3, <1>6
        <5> HIDE DEF g
        <5> QED BY <5>1, <5>2, <5>3
      <4> QED BY <4>1, <4>2, <4>3
    <3> QED BY <3>1, <3>2
  <2> QED BY <2>2 DEF IsSizes
<1> QED BY <1>2, <1>7

\* So SizeBefore is what its recursive definition says.
LEMMA SizeBeforeIs ==
    ASSUME NEW b, b.offset \in Nat, b.last \in Nat, b.offset <= b.last, NEW f, f = SizeBefore(b)
    PROVE  /\ f[b.offset] = b.start
           /\ \A p \in (b.offset + 1)..b.last : f[p] = TranslateInstruction(code[p - 1], f[p - 1])
<1>1. PICK a \in Nat : a = b.offset
  OBVIOUS
<1>2. PICK n \in Nat : n = b.last
  OBVIOUS
<1>3. PICK s : s = b.start
  OBVIOUS
<1>4. \E h : IsSizes(a, n, s, h)
  BY <1>1, <1>2, SizesExist
<1>5. f = CHOOSE h : IsSizes(a, n, s, h)
  BY <1>1, <1>2, <1>3 DEF SizeBefore, IsSizes
<1>6. IsSizes(a, n, s, f)
  BY ONLY <1>4, <1>5, Zenon
<1>7. /\ f[a] = s
      /\ \A p \in (a + 1)..n : f[p] = TranslateInstruction(code[p - 1], f[p - 1])
  <2>1. a <= n
    BY <1>1, <1>2
  <2> QED BY ONLY <2>1, <1>6, a \in Nat, n \in Nat, SizesSteps
<1> QED BY <1>1, <1>2, <1>3, <1>7

\* The translator keeps visit's count, or has one of the errors X.
LEMMA InstructionKeepsCount ==
    ASSUME NEW i \in Instruction, i.op \notin Ends, i.op # "poptrap", maxSize \in Nat,
           NEW d \in Nat, d <= maxSize, d + Effect(i) <= maxSize, Enough(i, d),
           NEW X, Unimplemented \in X,
           Underflow \in X \/ (d >= InterpReads(i) /\ d + InterpPushes(i) >= InterpPops(i))
    PROVE  TranslateInstruction(i, d) = d + Effect(i) \/ TranslateInstruction(i, d) \in X
<1>1. i.n \in Nat /\ i.m \in Nat /\ i.op # "pushtrap"
  BY InsFacts DEF Ends, Falls
<1>2. LessOne(i.n) \in Nat /\ (i.n > 0 => LessOne(i.n) = i.n - 1) /\ (i.n = 0 => LessOne(i.n) = 0)
  BY <1>1, LessOneFacts
<1>3. CASE i.op \in {"ccalln", "getmethod", "setglobal"}
  <2>1. TranslateInstruction(i, d) = Unimplemented
    BY <1>3 DEF TranslateInstruction
  <2> QED BY <2>1
<1>4. CASE i.op \notin {"ccalln", "getmethod", "setglobal"}
  <2>1. /\ PushesFirst(i) \in Nat /\ Pops(i) \in Nat /\ PushesAfter(i) \in Nat /\ Picks(i) \in Nat
        /\ Effect(i) \in Int /\ PushesFirst(i) - Pops(i) + PushesAfter(i) = Effect(i)
        /\ PushesFirst(i) > 0 => PushesFirst(i) = 1 \/ Effect(i) = PushesFirst(i)
        /\ Picks(i) <= InterpReads(i) /\ PushesFirst(i) = InterpPushes(i) /\ Pops(i) = InterpPops(i)
        /\ InterpReads(i) \in Nat
    <3>1. CASE i.op \in {"pop", "apply", "applyn"}
      BY <3>1, <1>1 DEF PushesFirst, Pops, PushesAfter, Picks, Effect, Growth, Need, InterpReads, InterpPushes, InterpPops
    <3>2. CASE i.op \in {"acc", "assign", "getdynmet"}
      BY <3>2, <1>1 DEF PushesFirst, Pops, PushesAfter, Picks, Effect, Growth, Need, InterpReads, InterpPushes, InterpPops
    <3>3. CASE i.op \in {"closure", "closurerec"}
      <4>1. /\ PushesFirst(i) = (IF i.n > 0 THEN 1 ELSE 0) /\ InterpPushes(i) = (IF i.n > 0 THEN 1 ELSE 0)
            /\ Pops(i) = i.n /\ InterpPops(i) = i.n /\ Picks(i) = 0 /\ InterpReads(i) = 0
        BY <3>3, <1>1 DEF PushesFirst, InterpPushes, Pops, InterpPops, Picks, InterpReads
      <4>2. PICK m \in Nat : m = (IF i.op = "closurerec" THEN i.m ELSE 0)
        BY <1>1
      <4>3. PushesAfter(i) = m /\ Effect(i) = m - LessOne(i.n)
        BY <3>3, <4>2, <1>1, <1>2 DEF PushesAfter, Effect, Growth, Need
      <4> QED BY <4>1, <4>3, <1>1, <1>2
    <3>4. CASE i.op \in {"makeblock", "ccall"}
      BY <3>4, <1>1, <1>2 DEF PushesFirst, Pops, PushesAfter, Picks, Effect, Growth, Need, InterpReads, InterpPushes, InterpPops
    <3>5. CASE i.op \in {"binary", "ternary", "push", "setuppubmet", "retaddr"}
      BY <3>5, <1>1 DEF PushesFirst, Pops, PushesAfter, Picks, Effect, Growth, Need, InterpReads, InterpPushes, InterpPops
    <3>6. CASE i.op \notin {"pop", "apply", "applyn", "acc", "assign", "getdynmet", "closure", "closurerec", "makeblock",
                            "ccall", "binary", "ternary", "push", "setuppubmet", "retaddr"}
      <4>1. i.op # "appterm"
        BY DEF Ends
      <4> QED BY <3>6, <4>1, <1>1, <1>4
            DEF PushesFirst, Pops, PushesAfter, Picks, Effect, Growth, Need, InterpReads, InterpPushes, InterpPops
    <3> QED BY <3>1, <3>2, <3>3, <3>4, <3>5, <3>6
  <2>2. PICK u \in Nat : u = PushesFirst(i)
    BY <2>1
  <2>3. PICK o \in Nat : o = Pops(i)
    BY <2>1
  <2>4. PICK w \in Nat : w = PushesAfter(i)
    BY <2>1
  <2>5. PICK e \in Int : e = Effect(i) /\ u - o + w = e
    BY <2>1, <2>2, <2>3, <2>4
  <2>6. ~(u > 0 /\ d + u > maxSize + 1)
    BY <2>1, <2>2, <2>5
  <2>7. (d + u) - o + w = d + e
    BY <2>5
  <2>8. ~(w > 0 /\ d + e > maxSize + 1)
    BY <2>5
  <2>9. TranslateInstruction(i, d) = IF d < Picks(i) \/ d + u < o THEN Underflow ELSE d + e
    BY <2>2, <2>3, <2>4, <2>6, <2>7, <2>8, <1>4 DEF TranslateInstruction, StackVars
  <2>10. Underflow \in X \/ ~(d < Picks(i) \/ d + u < o)
    BY <2>1, <2>2, <2>3
  <2> QED BY <2>5, <2>9, <2>10
<1> QED BY <1>3, <1>4

\* The last instruction leaves the size visit found, unless it is one the translator lacks.
LEMMA ExitKeepsCount ==
    ASSUME NEW i \in Instruction, i.op \in Ends, i.op # "pushtrap", NEW d \in Nat, ExitAllowed(i, d),
           NEW X, Unimplemented \in X, Underflow \in X \/ d >= InterpReads(i)
    PROVE  TranslateExit(i, d) = ExitSize(i, d) \/ TranslateExit(i, d) \in X
<1>1. i.n \in Nat /\ i.m \in Nat
  BY InsFacts
<1>2. CASE i.op = "stop"
  BY <1>2 DEF TranslateExit
<1>3. CASE i.op = "return"
  BY <1>1, <1>3 DEF TranslateExit, ExitSize, ExitAllowed
<1>4. CASE i.op = "appterm"
  <2>1. InterpReads(i) = i.n
    BY <1>4 DEF InterpReads
  <2> QED BY <2>1, <1>1, <1>4 DEF TranslateExit, ExitSize, ExitAllowed
<1>5. CASE i.op \notin {"stop", "return", "appterm"}
  BY <1>5 DEF TranslateExit, ExitSize
<1> QED BY <1>2, <1>3, <1>4, <1>5

\* Every size between the first instruction of a finished block and its exit is a depth found.
LEMMA ArriveBounds ==
    ASSUME CodeOK, SearchInv, frames = <<>>, NEW D, Depths(D), NEW r \in Runs(frames, finished), NEW p \in r.entry..r.at
    PROVE  /\ Arrive(code, seen, r, D, p) \in Nat /\ Arrive(code, seen, r, D, p) <= maxSize
           /\ p # r.at => /\ p \in DOMAIN D /\ p \in 1..Len(code) /\ D[p] = Arrive(code, seen, r, D, p)
                          /\ code[p].op \notin Ends /\ Enough(code[p], D[p]) /\ <<p, D[p]>> \in Reached
           /\ ~Joins(starts, r) => /\ r.at \in DOMAIN D /\ r.at \in 1..Len(code) /\ D[r.at] = Arrive(code, seen, r, D, r.at)
                                   /\ code[r.at].op \in Ends /\ ExitAllowed(code[r.at], D[r.at])
                                   /\ r.size = ExitSize(code[r.at], D[r.at]) /\ <<r.at, D[r.at]>> \in Reached
           /\ Joins(starts, r) => r.size = Arrive(code, seen, r, D, r.at)
<1>1. /\ r \in FrameSet /\ r.ended /\ RunShape(code, starts, r) /\ Mem(starts, r) \subseteq DOMAIN D
      /\ RunDepth(code, starts, seen, maxSize, r, D)
  BY OverDepths
<1>2. Len(code) \in Nat
  BY LenFacts
<1>3. ASSUME NEW q \in Mem(starts, r)
      PROVE  /\ q \in DOMAIN D /\ q \in 1..Len(code) /\ D[q] = Arrive(code, seen, r, D, q)
             /\ D[q] \in Nat /\ D[q] <= maxSize /\ <<q, D[q]>> \in Reached
             /\ IF code[q].op \in Ends THEN ExitAllowed(code[q], D[q]) ELSE Enough(code[q], D[q])
             /\ q = r.at => code[q].op \in Ends
             /\ q # r.at => code[q].op \notin Ends
  <2>1. q \in DOMAIN D /\ D[q] = Arrive(code, seen, r, D, q)
    BY <1>1 DEF RunDepth
  <2>2. /\ q \in 1..Len(code) /\ D[q] \in Nat /\ D[q] <= maxSize
        /\ IF code[q].op \in Ends THEN ExitAllowed(code[q], D[q]) ELSE Enough(code[q], D[q])
    BY <2>1 DEF Depths, Deep, Checked
  <2>3. <<q, D[q]>> \in Reached
    BY <2>1, DepthsSetup
  <2>4. /\ q = r.at => code[q].op \in Ends
        /\ q # r.at => code[q].op \notin Ends
    BY <1>1, <1>2, MemFacts
  <2> QED BY <2>1, <2>2, <2>3, <2>4
<1>4. r.entry \in Nat /\ r.at \in Nat /\ r.entry <= r.at /\ r.size \in Nat
  BY <1>1, FrameFacts DEF RunShape
<1>5. p # r.at => p \in Mem(starts, r)
  <2>1. p # r.at => p \in r.entry..(r.at - 1)
    BY <1>4
  <2> QED BY <2>1, <1>1, MemHas
<1>6. ~Joins(starts, r) => r.at \in Mem(starts, r) /\ r.size = ExitSize(code[r.at], D[r.at])
  <2>1. ASSUME ~Joins(starts, r) PROVE r.at \in Mem(starts, r)
    BY <2>1, <1>1, MemHas
  <2> QED BY <2>1, <1>1 DEF RunDepth
<1>7. Joins(starts, r) => r.size = Arrive(code, seen, r, D, r.at) /\ r.size <= maxSize
  BY <1>1 DEF RunDepth
<1>8. Arrive(code, seen, r, D, p) \in Nat /\ Arrive(code, seen, r, D, p) <= maxSize
  <2>1. CASE p \in Mem(starts, r)
    BY <2>1, <1>3
  <2>2. CASE p \notin Mem(starts, r)
    <3>1. p = r.at /\ Joins(starts, r)
      BY <2>2, <1>5, <1>6
    <3> QED BY <3>1, <1>4, <1>7
  <2> QED BY <2>1, <2>2
<1>9. p # r.at => /\ p \in DOMAIN D /\ p \in 1..Len(code) /\ D[p] = Arrive(code, seen, r, D, p)
                  /\ code[p].op \notin Ends /\ Enough(code[p], D[p]) /\ <<p, D[p]>> \in Reached
  BY <1>3, <1>5
<1>10. ~Joins(starts, r) => /\ r.at \in DOMAIN D /\ r.at \in 1..Len(code) /\ D[r.at] = Arrive(code, seen, r, D, r.at)
                            /\ code[r.at].op \in Ends /\ ExitAllowed(code[r.at], D[r.at])
                            /\ r.size = ExitSize(code[r.at], D[r.at]) /\ <<r.at, D[r.at]>> \in Reached
  BY <1>3, <1>6
<1> QED BY <1>7, <1>8, <1>9, <1>10

\* The translator's count at the end of a block is that of visit, or it has stopped for underflow
\* or for an instruction it lacks.
LEMMA TranslatedAs ==
    ASSUME CodeOK, SearchInv, frames = <<>>, blocks = AllBlocks, NEW D, Depths(D), ~hasTraps, NEW k \in DOMAIN blocks,
           NEW X \in SUBSET {Underflow, Unimplemented}, Unimplemented \in X, Underflow \in X \/ Regular,
           \A p \in DOMAIN D : code[p].op # "poptrap"
    PROVE  /\ blocks[k].end \in Nat
           /\ TranslatedSize(blocks[k]) = blocks[k].end \/ TranslatedSize(blocks[k]) \in X
<1>1. PICK f \in BlockSet : /\ BlockRun(f) \in Runs(frames, finished)
                            /\ blocks[k].offset = f.offset /\ blocks[k].last = f.last /\ blocks[k].start = seen[f.offset].size
                            /\ blocks[k].end = f.end /\ (RunsOn(blocks[k]) <=> Joins(starts, BlockRun(f)))
  BY BlocksAre
<1>2. PICK r : r = BlockRun(f)
  OBVIOUS
<1>3. PICK b : b = blocks[k]
  OBVIOUS
<1>4. /\ r \in Runs(frames, finished) /\ r \in FrameSet /\ b.offset = r.entry /\ b.last = r.at
      /\ b.start = seen[r.entry].size /\ b.end = r.size /\ (RunsOn(b) <=> Joins(starts, r))
  BY <1>1, <1>2, <1>3, BlockRunFacts
<1>5. r.entry \in Nat /\ r.at \in Nat /\ r.entry <= r.at /\ r.size \in Nat /\ maxSize \in Nat
  BY <1>4, FrameFacts, OverDepths DEF RunShape, SearchInv, SearchTypes
<1>6. PICK sz : sz = SizeBefore(b)
  OBVIOUS
<1>7. /\ sz[r.entry] = seen[r.entry].size
      /\ \A p \in (r.entry + 1)..r.at : sz[p] = TranslateInstruction(code[p - 1], sz[p - 1])
  BY <1>4, <1>5, <1>6, SizeBeforeIs
<1> DEFINE A(p) == Arrive(code, seen, r, D, p)
           T == {p \in r.entry..r.at : ~(sz[p] = A(p) \/ sz[p] \in X)}
<1>8. T = {}
  <2> SUFFICES ASSUME T # {} PROVE FALSE
    OBVIOUS
  <2>1. T \in SUBSET Nat
    BY <1>5
  <2>2. PICK p \in T : \A y \in T : p <= y
    <3> HIDE DEF T
    <3> QED BY <2>1, LeastNat
  <2>3. p \in r.entry..r.at /\ sz[p] # A(p) /\ sz[p] \notin X
    BY <2>2
  <2>4. p # r.entry
    BY <2>3, <1>7 DEF Arrive
  <2>5. PICK q \in r.entry..r.at : q = p - 1 /\ q # r.at
    BY <2>3, <2>4, <1>5
  <2>6. q \notin T
    BY <2>2, <2>3, <2>5, <1>5
  <2>7. sz[q] = A(q) \/ sz[q] \in X
    BY <2>5, <2>6
  <2>8. sz[p] = TranslateInstruction(code[q], sz[q])
    <3>1. p \in (r.entry + 1)..r.at
      BY <2>3, <2>4, <1>5
    <3> QED BY <3>1, <2>5, <1>7
  <2>9. /\ q \in DOMAIN D /\ q \in 1..Len(code) /\ D[q] = A(q)
        /\ code[q].op \notin Ends /\ Enough(code[q], D[q]) /\ <<q, D[q]>> \in Reached
        /\ A(q) \in Nat /\ A(q) <= maxSize /\ A(p) \in Nat /\ A(p) <= maxSize
    <3>1. r \in Runs(frames, finished) /\ q \in r.entry..r.at /\ p \in r.entry..r.at /\ q # r.at
      BY <2>3, <2>5, <1>4
    <3>2. A(p) \in Nat /\ A(p) <= maxSize
      BY <3>1, ArriveBounds
    <3>3. A(q) \in Nat /\ A(q) <= maxSize
      BY <3>1, ArriveBounds
    <3>4. /\ q \in DOMAIN D /\ q \in 1..Len(code) /\ D[q] = A(q)
          /\ code[q].op \notin Ends /\ Enough(code[q], D[q]) /\ <<q, D[q]>> \in Reached
      BY <3>1, ArriveBounds
    <3> QED BY <3>2, <3>3, <3>4
  <2>10. PICK i \in Instruction : i = code[q]
    BY <2>9, CodeFacts
  <2>11. PICK d \in Nat : d = D[q] /\ d <= maxSize
    BY <2>9
  <2>12. A(p) = d + Effect(i)
    BY <2>4, <2>5, <2>10, <2>11 DEF Arrive
  <2>13. sz[q] \notin X
    <3>1. ASSUME sz[q] \in X PROVE FALSE
      <4>1. sz[q] = -1 \/ sz[q] = -3
        BY <3>1 DEF Underflow, Unimplemented
      <4>2. TranslateInstruction(code[q], sz[q]) = sz[q]
        BY <4>1 DEF TranslateInstruction
      <4> QED BY <4>2, <3>1, <2>3, <2>8
    <3> QED BY <3>1
  <2>14. sz[q] = d
    BY <2>7, <2>9, <2>11, <2>13
  <2>15. Underflow \in X \/ (d >= InterpReads(i) /\ d + InterpPushes(i) >= InterpPops(i))
    BY <2>9, <2>10, <2>11, RegularAt
  <2>16. TranslateInstruction(i, d) = d + Effect(i) \/ TranslateInstruction(i, d) \in X
    <3>1. i.op \notin Ends /\ i.op # "poptrap" /\ Enough(i, d) /\ d + Effect(i) <= maxSize
      BY <2>9, <2>10, <2>11, <2>12
    <3> QED BY <3>1, <2>11, <2>15, <1>5, InstructionKeepsCount
  <2> QED BY <2>3, <2>8, <2>10, <2>12, <2>14, <2>16
<1>9. sz[r.at] = A(r.at) \/ sz[r.at] \in X
  <2>1. r.at \in r.entry..r.at
    BY <1>5
  <2> QED BY <2>1, <1>8
<1>10. TranslatedSize(b) = IF Joins(starts, r) THEN sz[r.at] ELSE TranslateExit(code[r.at], sz[r.at])
  BY <1>4, <1>6 DEF TranslatedSize
<1>11. TranslatedSize(b) = r.size \/ TranslatedSize(b) \in X
  <2>0. r.at \in r.entry..r.at
    BY <1>5
  <2>1. CASE Joins(starts, r)
    <3>1. r.size = A(r.at)
      BY <2>0, <2>1, <1>4, ArriveBounds
    <3> QED BY <3>1, <2>1, <1>9, <1>10
  <2>2. CASE ~Joins(starts, r)
    <3>1. PICK a : a = r.at
      OBVIOUS
    <3>2. /\ a \in DOMAIN D /\ a \in 1..Len(code) /\ D[a] = A(a)
          /\ code[a].op \in Ends /\ ExitAllowed(code[a], D[a])
          /\ r.size = ExitSize(code[a], D[a]) /\ <<a, D[a]>> \in Reached /\ A(a) \in Nat
      BY <2>0, <2>2, <3>1, <1>4, ArriveBounds
    <3>3. PICK i \in Instruction : i = code[a]
      BY <3>2, CodeFacts
    <3>4. PICK d \in Nat : d = D[a]
      BY <3>2
    <3>5. i.op # "pushtrap"
      BY <3>2, <3>3 DEF Depths, Deep, Checked
    <3>6. Underflow \in X \/ d >= InterpReads(i)
      BY <3>2, <3>3, <3>4, RegularAt
    <3>7. TranslateExit(i, d) = ExitSize(i, d) \/ TranslateExit(i, d) \in X
      <4>1. i.op \in Ends /\ ExitAllowed(i, d)
        BY <3>2, <3>3, <3>4
      <4> QED BY <4>1, <3>5, <3>6, ExitKeepsCount
    <3>8. CASE sz[a] = A(a)
      BY <3>1, <3>2, <3>3, <3>4, <3>7, <3>8, <2>2, <1>10
    <3>9. CASE sz[a] \in X
      <4>1. sz[a] = -1 \/ sz[a] = -3
        BY <3>9 DEF Underflow, Unimplemented
      <4>2. TranslateExit(i, sz[a]) = sz[a]
        <5>1. PICK z : z = sz[a] /\ (z = -1 \/ z = -3)
          BY <4>1
        <5>2. z \in Int /\ z < 0
          BY <5>1
        <5>3. TranslateExit(i, z) = z
          BY ONLY <5>2 DEF TranslateExit
        <5> QED BY <5>1, <5>3
      <4> QED BY <4>2, <3>1, <3>3, <3>9, <2>2, <1>10
    <3> QED BY <3>1, <3>8, <3>9, <1>9
  <2> QED BY <2>1, <2>2
<1> QED BY <1>3, <1>4, <1>5, <1>11

-----------------------------------------------------------------------------
(* The inductive invariant and the theorems *)

\* The blocks depend on the result of the search only.
LEMMA BlocksSame ==
    ASSUME finished' = finished, seen' = seen
    PROVE  AllBlocks' = AllBlocks /\ \A j : Seals(j)' = Seals(j)
<1>1. \A l : BlockId(l)' = BlockId(l)
  BY DEF BlockId
<1>2. \A j : Seals(j)' = Seals(j)
  BY <1>1 DEF Seals, LastPred
<1>3. \A k : FinishedBlock(k)' = FinishedBlock(k)
  BY <1>1 DEF FinishedBlock
<1>4. \A k : BasicBlock(k)' = BasicBlock(k)
  BY <1>1, <1>2, <1>3 DEF BasicBlock
<1> QED BY <1>2, <1>4 DEF AllBlocks

\* Whether a closure keeps the rules depends on its code only.
LEMMA RegularSame ==
    ASSUME code' = code
    PROVE  Regular' <=> Regular
<1>1. Reached' = Reached
  BY DEF Reached, Arity
<1> QED BY <1>1 DEF Regular

\* The invariant of the search depends on the state of the search only.
LEMMA ConvertSame ==
    ASSUME ConvertInv, UNCHANGED <<code, search>>
    PROVE  ConvertInv'
<1>1. /\ code' = code /\ starts' = starts /\ frames' = frames /\ seen' = seen /\ finished' = finished
      /\ maxSize' = maxSize /\ hasTraps' = hasTraps
  BY DEF search
<1>2. Arity' = Arity
  BY <1>1 DEF Arity
<1>3. Walk' = Walk
  BY <1>1, <1>2 DEF Walk
<1>4. SearchTypes'
  BY <1>1 DEF ConvertInv, SearchInv, SearchTypes
<1>5. SearchInv'
  BY <1>1, <1>2, <1>4 DEF ConvertInv, SearchInv
<1>6. \A D : Depths(D) => Depths(D)'
  BY <1>1, <1>3 DEF Depths
<1> QED BY <1>5, <1>6 DEF ConvertInv

\* The whole invariant: which of the parts hold in which phase.
Phases == {"starts", "convert", "assemble", "translate", "done"}
Control ==
    /\ phase \in Phases /\ (phase # "done" => result = "none")
    /\ phase = "convert" => frames # <<>>
    /\ phase = "assemble" \/ Converted => frames = <<>>
    /\ phase = "translate" => ~hasTraps
Emitted ==
    /\ next \in Nat /\ next >= 1
    /\ IF Converted THEN blocks = AllBlocks /\ SealedSoFar ELSE sealed = {}
IInv ==
    /\ CodeOK /\ Control /\ Emitted
    /\ phase = "starts" => ScanInv
    /\ phase \in {"convert", "assemble"} \/ Converted => ConvertInv
    /\ RejectsOnlyIrregular /\ TranslatorKeepsCount

\* The invariant holds at the start.
LEMMA InitHolds == Init => IInv
<1> SUFFICES ASSUME Init PROVE IInv
  OBVIOUS
<1>1. CodeOK
  BY ProgramsAssumption DEF Init, CodeOK
<1>2. ScanInv
  <2>1. PICK s : s = Scan(1)
    OBVIOUS
  <2>2. s \in ScanSet /\ s.at = 1 /\ s.last = FALSE
    BY <2>1 DEF Scan, ScanSet, Label
  <2>3. frames = <<s>> /\ frames \in Seq(ScanSet) /\ frames # <<>> /\ Len(frames) = 1 /\ frames[1] = s
    BY <2>1, <2>2 DEF Init
  <2>4. Closing(code, starts, frames)
    <3>1. ASSUME NEW l \in starts, NEW p \in 1..Len(code), Straight(code, l, p)
          PROVE  \E k \in 1..Len(frames) : Covers(code, starts, frames[k], p)
      <4>1. l = 1
        BY DEF Init
      <4>2. Covers(code, starts, frames[1], p)
        BY <4>1, <3>1, <2>2, <2>3 DEF Covers
      <4> QED BY <4>2, <2>3
    <3> QED BY <3>1 DEF Closing
  <2> QED BY <2>3, <2>4 DEF ScanInv, Init, Label
<1> QED BY <1>1, <1>2 DEF IInv, Init, Control, Phases, Emitted, Converted, RejectsOnlyIrregular, TranslatorKeepsCount

\* What is left to show of a step that neither gives the closure up nor emits anything.
LEMMA KeepsRest ==
    ASSUME IInv, code' = code, result' = result, phase # "done", next' = next, sealed' = sealed,
           phase' \in {"starts", "convert", "assemble"}, phase # "translate",
           phase' = "convert" => frames' # <<>>, phase' = "assemble" => frames' = <<>>,
           phase' = "starts" => ScanInv', phase' # "starts" => ConvertInv'
    PROVE  IInv'
<1>1. result = "none" /\ sealed = {} /\ next \in Nat /\ next >= 1 /\ CodeOK
  BY DEF IInv, Control, Emitted, Converted
<1>2. CodeOK'
  BY <1>1 DEF CodeOK
<1>3. Control'
  BY <1>1 DEF Control, Phases, Converted
<1>4. Emitted'
  BY <1>1 DEF Emitted, Converted
<1>5. RejectsOnlyIrregular' /\ TranslatorKeepsCount'
  BY <1>1 DEF RejectsOnlyIrregular, TranslatorKeepsCount
<1> QED BY <1>2, <1>3, <1>4, <1>5 DEF IInv, Converted

\* A closure that breaks a rule may be given up.
LEMMA GivenUp ==
    ASSUME IInv, code' = code, phase \in {"starts", "convert", "assemble"}, phase' = "done", result' = "error",
           next' = next, sealed' = sealed, ~Regular
    PROVE  IInv'
<1>1. sealed = {} /\ next \in Nat /\ next >= 1 /\ CodeOK
  BY DEF IInv, Control, Emitted, Converted
<1>2. CodeOK'
  BY <1>1 DEF CodeOK
<1>3. Control'
  BY DEF Control, Phases, Converted
<1>4. Emitted'
  BY <1>1 DEF Emitted, Converted
<1>5. RejectsOnlyIrregular' /\ TranslatorKeepsCount'
  BY RegularSame DEF RejectsOnlyIrregular, TranslatorKeepsCount
<1> QED BY <1>2, <1>3, <1>4, <1>5 DEF IInv, Converted

\* find_block_starts_dfs keeps the invariant.
LEMMA ScanKeeps ==
    ASSUME IInv, ScanInstruction \/ ScanLabel \/ ScanReturn
    PROVE  IInv'
<1>1. /\ phase = "starts" /\ ScanInv /\ CodeOK
      /\ code' = code /\ result' = result /\ next' = next /\ sealed' = sealed
  BY DEF IInv, ScanInstruction, ScanLabel, ScanReturn, output
<1>2. CASE ScanInstruction
  BY <1>1, <1>2, ScanInstructionKeeps, KeepsRest DEF ScanInstruction
<1>3. CASE ScanLabel
  BY <1>1, <1>3, ScanLabelKeeps, KeepsRest DEF ScanLabel
<1>4. CASE ScanReturn /\ Below # <<>>
  BY <1>1, <1>4, ScanReturnKeeps, KeepsRest DEF ScanReturn
<1>5. CASE ScanReturn /\ Below = <<>>
  <2>1. ConvertInv' /\ phase' = "convert" /\ frames' # <<>>
    BY <1>1, <1>5, ConvertStarts
  <2> QED BY <2>1, <1>1, KeepsRest
<1> QED BY <1>2, <1>3, <1>4, <1>5

\* The loop of convert_dfs keeps it.
LEMMA ConvertInstructionKeeps ==
    ASSUME IInv, ConvertInstruction
    PROVE  IInv'
<1>1. /\ phase = "convert" /\ CodeOK /\ SearchInv /\ frames # <<>> /\ Top.todo = <<>> /\ ~Top.ended
      /\ maxSize' = Larger(maxSize, Top.size) /\ code' = code /\ starts' = starts /\ seen' = seen
      /\ finished' = finished /\ next' = next /\ sealed' = sealed
  BY DEF IInv, ConvertInv, ConvertInstruction, output
<1>2. PICK D : Depths(D)
  BY <1>1 DEF IInv, ConvertInv
<1>3. JoinsNext <=> Joins(starts, Top)
  BY DEF JoinsNext, Joins
<1>4. Len(code) \in Nat /\ Top.at \in Nat
  BY <1>1, TopSetup, FrameFacts
<1>5. CASE ConvertInv' /\ frames' # <<>> /\ phase' = phase /\ result' = result
  BY <1>1, <1>5, KeepsRest
<1>6. CASE ~Regular /\ phase' = "done" /\ result' = "error"
  BY <1>1, <1>6, GivenUp
<1>7. CASE Top.at > Len(code)
  <2>1. ~Regular
    BY <1>1, <1>2, <1>7, InstructionRejected
  <2>2. phase' = "done" /\ result' = "error"
    BY <1>7 DEF ConvertInstruction, Fail
  <2> QED BY <2>1, <2>2, <1>6
<1>8. CASE Top.at <= Len(code) /\ JoinsNext
  <2>1. End(Top.size, <<Visit(Top.at, Top.size)>>) /\ hasTraps' = hasTraps
    BY <1>4, <1>8 DEF ConvertInstruction
  <2>2. ConvertInv' /\ frames' # <<>>
    BY <2>1, <1>1, <1>2, <1>3, <1>8, JoinKeeps
  <2>3. phase' = phase /\ result' = result
    BY <2>1 DEF End
  <2> QED BY <2>2, <2>3, <1>5
<1>9. CASE Top.at <= Len(code) /\ ~JoinsNext /\ code[Top.at].op \in Ends /\ ExitAllowed(code[Top.at], Top.size)
  <2>1. /\ End(ExitSize(code[Top.at], Top.size), ExitVisits(code[Top.at], Top.at, Top.size))
        /\ hasTraps' = (hasTraps \/ code[Top.at].op = "pushtrap")
    BY <1>4, <1>9 DEF ConvertInstruction
  <2>2. ConvertInv' /\ frames' # <<>>
    BY <2>1, <1>1, <1>2, <1>3, <1>9, ExitKeeps
  <2>3. phase' = phase /\ result' = result
    BY <2>1 DEF End
  <2> QED BY <2>2, <2>3, <1>5
<1>10. CASE Top.at <= Len(code) /\ ~JoinsNext /\ code[Top.at].op \in Ends /\ ~ExitAllowed(code[Top.at], Top.size)
  <2>1. ~Regular
    BY <1>1, <1>2, <1>10, InstructionRejected
  <2>2. phase' = "done" /\ result' = "error"
    BY <1>4, <1>10 DEF ConvertInstruction, Fail
  <2> QED BY <2>1, <2>2, <1>6
<1>11. CASE Top.at <= Len(code) /\ ~JoinsNext /\ code[Top.at].op \notin Ends /\ Enough(code[Top.at], Top.size)
  <2>1. GoOn(Top.size + Effect(code[Top.at]))
    BY <1>4, <1>11 DEF ConvertInstruction
  <2>2. ConvertInv' /\ frames' # <<>>
    BY <2>1, <1>1, <1>2, <1>3, <1>11, GoOnKeeps
  <2>3. phase' = phase /\ result' = result
    BY <2>1 DEF GoOn
  <2> QED BY <2>2, <2>3, <1>5
<1>12. CASE Top.at <= Len(code) /\ ~JoinsNext /\ code[Top.at].op \notin Ends /\ ~Enough(code[Top.at], Top.size)
  <2>1. ~Regular
    BY <1>1, <1>2, <1>12, InstructionRejected
  <2>2. phase' = "done" /\ result' = "error"
    BY <1>4, <1>12 DEF ConvertInstruction, Fail
  <2> QED BY <2>1, <2>2, <1>6
<1> QED BY <1>4, <1>7, <1>8, <1>9, <1>10, <1>11, <1>12

\* The calls of convert_dfs keep it.
LEMMA ConvertVisitKeeps ==
    ASSUME IInv, ConvertVisit
    PROVE  IInv'
<1>1. /\ phase = "convert" /\ CodeOK /\ SearchInv /\ frames # <<>> /\ Top.todo # <<>>
      /\ maxSize' = maxSize /\ hasTraps' = hasTraps /\ code' = code /\ starts' = starts
      /\ finished' = finished /\ next' = next /\ sealed' = sealed
  BY DEF IInv, ConvertInv, ConvertVisit, output
<1>2. PICK D : Depths(D)
  BY <1>1 DEF IInv, ConvertInv
<1>3. CASE Head(Top.todo).to \notin DOMAIN seen
  <2>1. /\ seen' = [l \in DOMAIN seen \union {Head(Top.todo).to} |->
                      IF l = Head(Top.todo).to THEN Pending("Normal", Head(Top.todo).size, {Top.entry}) ELSE seen[l]]
        /\ frames' = Append(Append(Below, [Top EXCEPT !.todo = Tail(@)]),
                            Activation(Head(Top.todo).to, Head(Top.todo).size))
        /\ phase' = phase /\ result' = result
    BY <1>3 DEF ConvertVisit
  <2>2. ConvertInv' /\ frames' # <<>>
    BY ONLY <2>1, <1>1, <1>2, <1>3, NewVisitKeeps
  <2> QED BY <2>1, <2>2, <1>1, KeepsRest
<1>4. CASE Head(Top.todo).to \in DOMAIN seen /\ SeenBefore(Head(Top.todo).to, Head(Top.todo).size)
  <2>1. /\ seen' = [seen EXCEPT ![Head(Top.todo).to].preds = @ \union {Top.entry}]
        /\ frames' = Append(Below, [Top EXCEPT !.todo = Tail(@)])
        /\ phase' = phase /\ result' = result
    BY <1>4 DEF ConvertVisit
  <2>2. ConvertInv' /\ frames' # <<>>
    BY ONLY <2>1, <1>1, <1>2, <1>4, SeenAgainKeeps
  <2> QED BY <2>1, <2>2, <1>1, KeepsRest
<1>5. CASE Head(Top.todo).to \in DOMAIN seen /\ ~SeenBefore(Head(Top.todo).to, Head(Top.todo).size)
  <2>1. ~Regular
    BY <1>1, <1>2, <1>5, VisitRejected
  <2>2. phase' = "done" /\ result' = "error"
    BY <1>5 DEF ConvertVisit, Fail
  <2> QED BY <2>1, <2>2, <1>1, GivenUp
<1> QED BY <1>3, <1>4, <1>5

\* The return from convert_dfs keeps it.
LEMMA ConvertFinishKeeps ==
    ASSUME IInv, ConvertFinish
    PROVE  IInv'
<1>1. /\ phase = "convert" /\ CodeOK /\ SearchInv /\ frames # <<>> /\ Top.todo = <<>> /\ Top.ended
      /\ maxSize' = Larger(maxSize, Top.size) /\ hasTraps' = hasTraps /\ code' = code /\ starts' = starts
      /\ seen' = seen /\ result' = result /\ next' = next /\ sealed' = sealed /\ frames' = Below
      /\ finished' = Append(finished, [offset |-> Top.entry, last |-> Top.at, exit |-> Top.exit, end |-> Top.size])
  BY DEF IInv, ConvertInv, ConvertFinish, output
<1>2. PICK D : Depths(D)
  BY <1>1 DEF IInv, ConvertInv
<1>3. ConvertInv'
  BY <1>1, <1>2, FinishKeeps
<1>4. phase' = IF Below = <<>> THEN "assemble" ELSE "convert"
  BY <1>1 DEF ConvertFinish
<1> QED BY <1>1, <1>3, <1>4, KeepsRest

\* Reversing the blocks and the checks before the translation keep it.
LEMMA AssembleKeeps ==
    ASSUME IInv, Assemble
    PROVE  IInv'
<1>1. /\ phase = "assemble" /\ CodeOK /\ frames = <<>> /\ ConvertInv /\ result = "none" /\ sealed = {} /\ next \in Nat /\ next >= 1
      /\ UNCHANGED <<code, search>> /\ code' = code /\ finished' = finished /\ seen' = seen /\ frames' = frames
      /\ hasTraps' = hasTraps
  BY DEF IInv, Control, Emitted, Converted, Assemble, search
<1>2. blocks' = AllBlocks'
  BY <1>1, BlocksSame DEF Assemble, AllBlocks
<1>3. ConvertInv' /\ CodeOK'
  BY <1>1, ConvertSame DEF CodeOK
<1>4. \/ phase' = "done" /\ result' \in {"unsupported", "arity"} /\ next' = next /\ sealed' = {}
      \/ phase' = "translate" /\ result' = "none" /\ next' = 1 /\ sealed' = {1} /\ ~hasTraps
  BY <1>1 DEF Assemble, Fail
<1>5. Control'
  BY <1>1, <1>4 DEF Control, Phases, Converted
<1>6. Emitted'
  <2>1. next' \in Nat /\ next' >= 1
    BY <1>1, <1>4
  <2>2. sealed' \subseteq {1}
    BY <1>4
  <2>3. SealedSoFar'
    BY <2>2 DEF SealedSoFar
  <2>4. CASE Converted'
    BY <2>1, <2>3, <2>4, <1>2 DEF Emitted
  <2>5. CASE ~Converted'
    BY <2>1, <2>5, <1>4 DEF Emitted, Converted
  <2> QED BY <2>4, <2>5
<1>7. RejectsOnlyIrregular' /\ TranslatorKeepsCount'
  BY <1>4 DEF RejectsOnlyIrregular, TranslatorKeepsCount
<1> QED BY <1>3, <1>4, <1>5, <1>6, <1>7 DEF IInv

\* Translating a block keeps it: the count agrees with that of visit wherever the closure keeps the
\* rules.
LEMMA TranslateBlockKeeps ==
    ASSUME IInv, TranslateBlock
    PROVE  IInv'
<1>1. /\ phase = "translate" /\ CodeOK /\ frames = <<>> /\ ConvertInv /\ SearchInv /\ result = "none" /\ next \in Nat
      /\ next >= 1 /\ ~hasTraps
      /\ blocks = AllBlocks /\ SealedSoFar
      /\ UNCHANGED <<code, search>> /\ code' = code /\ finished' = finished /\ seen' = seen /\ frames' = frames
      /\ hasTraps' = hasTraps /\ blocks' = blocks
  BY DEF IInv, Control, Emitted, Converted, TranslateBlock, search, ConvertInv
<1>2. PICK D : Depths(D)
  BY <1>1 DEF ConvertInv
<1>3. ConvertInv' /\ CodeOK' /\ blocks' = AllBlocks' /\ \A j : Seals(j)' = Seals(j)
  BY <1>1, ConvertSame, BlocksSame DEF CodeOK
<1>0. next \in DOMAIN blocks
  <2>1. PICK n \in Nat : n = Len(finished) /\ DOMAIN blocks = 1..n /\ Len(blocks) = n
    BY <1>1, OverFacts DEF AllBlocks
  <2> QED BY <2>1, <1>1 DEF TranslateBlock
<1>4. CASE TranslatedSize(blocks[next]) = blocks[next].end
  <2>1. next' = next + 1 /\ sealed' = sealed \union blocks[next].seals /\ phase' = phase /\ result' = result
    BY <1>4 DEF TranslateBlock
  <2>2. SealedSoFar'
    <3>1. ASSUME NEW s \in sealed' PROVE s = 1 \/ \E j \in 1..(next' - 1) : s \in Seals(j)'
      <4>1. CASE s \in sealed
        <5>1. s = 1 \/ \E j \in 1..(next - 1) : s \in Seals(j)
          BY <4>1, <1>1 DEF SealedSoFar
        <5> QED BY <5>1, <2>1, <1>1, <1>3
      <4>2. CASE s \in blocks[next].seals
        <5>1. next \in 1..(next' - 1)
          BY <1>1, <2>1
        <5>2. blocks[next].seals = Seals(next)
          BY <1>0, <1>1, BlocksAre
        <5> QED BY <5>1, <5>2, <4>2, <1>3
      <4> QED BY <4>1, <4>2, <2>1
    <3> QED BY <3>1 DEF SealedSoFar
  <2>3. Control' /\ Emitted'
    BY <2>1, <2>2, <1>1, <1>3 DEF Control, Phases, Converted, Emitted
  <2>4. RejectsOnlyIrregular' /\ TranslatorKeepsCount'
    BY <2>1, <1>1 DEF RejectsOnlyIrregular, TranslatorKeepsCount
  <2> QED BY <2>1, <2>3, <2>4, <1>1, <1>3 DEF IInv
<1>5. CASE TranslatedSize(blocks[next]) # blocks[next].end
  <2>1. PICK z : z = TranslatedSize(blocks[next])
    OBVIOUS
  <2>2. /\ phase' = "done" /\ next' = next /\ sealed' = sealed
        /\ result' = CASE z = Underflow -> "underflow"
                       [] z = Overflow -> "overflow"
                       [] z = Unimplemented -> "unimplemented"
                       [] OTHER -> "mismatch"
    BY <2>1, <1>5 DEF TranslateBlock, Fail
  <2>3. z = Underflow => result' = "underflow"
    BY <2>2 DEF Underflow, Overflow, Unimplemented
  <2>4. z = Unimplemented => result' = "unimplemented"
    BY <2>2 DEF Underflow, Overflow, Unimplemented
  <2>5. result' # "error"
    BY <2>2
  <2>6. TranslatorKeepsCount'
    <3>1. ASSUME \A p \in 1..Len(code) : code[p].op # "poptrap" PROVE result' \in {"underflow", "unimplemented"}
      <4>1. \A p \in DOMAIN D : code[p].op # "poptrap"
        BY <3>1, <1>1, <1>2, DepthsSetup
      <4>2. z \in {Underflow, Unimplemented}
        BY <4>1, <2>1, <1>0, <1>1, <1>2, <1>5, TranslatedAs
      <4> QED BY <4>2, <2>3, <2>4
    <3> QED BY <3>1, <1>1 DEF TranslatorKeepsCount
  <2>7. RejectsOnlyIrregular'
    <3>1. ASSUME Regular PROVE result' = "unimplemented"
      <4>1. ASSUME NEW p \in DOMAIN D, code[p].op = "poptrap" PROVE FALSE
        <5>1. <<p, D[p]>> \in Reached
          BY <1>1, <1>2, DepthsSetup
        <5>2. PICK y \in Reached : code[y[1]].op = "pushtrap"
          BY <5>1, <4>1, <3>1, RegularAt
        <5>3. PICK q \in DOMAIN D : y = <<q, D[q]>>
          BY <5>2, <1>1, <1>2, ReachedIs
        <5>4. code[q].op = "pushtrap"
          BY <5>2, <5>3
        <5> QED BY <5>3, <5>4, <1>1, <1>2 DEF Depths, Deep, Checked
      <4>2. PICK X : X = {Unimplemented}
        OBVIOUS
      <4>3. X \in SUBSET {Underflow, Unimplemented} /\ Unimplemented \in X
        BY <4>2
      <4>4. z \in X
        BY <4>1, <4>3, <3>1, <2>1, <1>0, <1>1, <1>2, <1>5, TranslatedAs
      <4> QED BY <4>2, <4>4, <2>4
    <3> QED BY <3>1, <1>1, RegularSame DEF RejectsOnlyIrregular
  <2>8. SealedSoFar'
    BY <2>2, <1>1, <1>3 DEF SealedSoFar
  <2>9. Control' /\ Emitted'
    BY <2>2, <2>5, <2>8, <1>1, <1>3 DEF Control, Phases, Converted, Emitted
  <2> QED BY <2>2, <2>5, <2>6, <2>7, <2>9, <1>3 DEF IInv
<1> QED BY <1>4, <1>5

\* The end of the translation keeps it.
LEMMA FinaliseKeeps ==
    ASSUME IInv, Finalise
    PROVE  IInv'
<1>1. /\ phase = "translate" /\ CodeOK /\ frames = <<>> /\ ConvertInv /\ next \in Nat /\ next >= 1
      /\ blocks = AllBlocks /\ SealedSoFar /\ phase' = "done" /\ result' = "ok"
      /\ UNCHANGED <<code, search>> /\ code' = code /\ finished' = finished /\ seen' = seen /\ frames' = frames
      /\ blocks' = blocks /\ next' = next /\ sealed' = sealed
  BY DEF IInv, Control, Emitted, Converted, Finalise, search, output
<1>2. ConvertInv' /\ CodeOK' /\ blocks' = AllBlocks' /\ \A j : Seals(j)' = Seals(j)
  BY <1>1, ConvertSame, BlocksSame DEF CodeOK
<1>3. SealedSoFar'
  BY <1>1, <1>2 DEF SealedSoFar
<1>4. Control' /\ Emitted'
  BY <1>1, <1>2, <1>3 DEF Control, Phases, Converted, Emitted
<1>5. RejectsOnlyIrregular' /\ TranslatorKeepsCount'
  BY <1>1 DEF RejectsOnlyIrregular, TranslatorKeepsCount
<1> QED BY <1>1, <1>2, <1>4, <1>5 DEF IInv

\* A step that changes nothing keeps it.
LEMMA StutterKeeps ==
    ASSUME IInv, UNCHANGED vars
    PROVE  IInv'
<1>1. /\ UNCHANGED <<code, search>> /\ code' = code /\ phase' = phase /\ result' = result /\ frames' = frames
      /\ starts' = starts /\ finished' = finished /\ seen' = seen /\ maxSize' = maxSize /\ hasTraps' = hasTraps
      /\ blocks' = blocks /\ next' = next /\ sealed' = sealed
  BY DEF vars, search, output
<1>2. Converted' = Converted
  BY <1>1 DEF Converted
<1>3. AllBlocks' = AllBlocks /\ \A j : Seals(j)' = Seals(j)
  BY <1>1, BlocksSame
<1>4. ConvertInv => ConvertInv'
  BY <1>1, ConvertSame
<1>5. ScanInv => ScanInv'
  BY <1>1 DEF ScanInv
<1>6. CodeOK' /\ Control'
  BY <1>1, <1>2 DEF IInv, CodeOK, Control
<1>7. Emitted'
  BY <1>1, <1>2, <1>3 DEF IInv, Emitted, SealedSoFar
<1>8. RejectsOnlyIrregular'
  BY <1>1, RegularSame DEF IInv, RejectsOnlyIrregular
<1>9. TranslatorKeepsCount'
  BY <1>1 DEF IInv, TranslatorKeepsCount
<1> QED BY <1>1, <1>2, <1>4, <1>5, <1>6, <1>7, <1>8, <1>9 DEF IInv

\* The invariant is inductive.
THEOREM BlocksInvariant == Spec => []IInv
<1>1. Init => IInv
  BY InitHolds
<1>2. IInv /\ [Next]_vars => IInv'
  <2> SUFFICES ASSUME IInv, [Next]_vars PROVE IInv'
    OBVIOUS
  <2>1. CASE ScanInstruction \/ ScanLabel \/ ScanReturn
    BY <2>1, ScanKeeps
  <2>2. CASE ConvertInstruction
    BY <2>2, ConvertInstructionKeeps
  <2>3. CASE ConvertVisit
    BY <2>3, ConvertVisitKeeps
  <2>4. CASE ConvertFinish
    BY <2>4, ConvertFinishKeeps
  <2>5. CASE Assemble
    BY <2>5, AssembleKeeps
  <2>6. CASE TranslateBlock
    BY <2>6, TranslateBlockKeeps
  <2>7. CASE Finalise
    BY <2>7, FinaliseKeeps
  <2>8. CASE Finished \/ UNCHANGED vars
    <3>1. UNCHANGED vars
      BY <2>8 DEF Finished
    <3> QED BY <3>1, StutterKeeps
  <2> QED BY <2>1, <2>2, <2>3, <2>4, <2>5, <2>6, <2>7, <2>8 DEF Next, Step
<1> QED BY <1>1, <1>2, PTL DEF Spec

\* What the invariant says once the blocks are there.
LEMMA ConvertedFacts ==
    ASSUME IInv, Converted
    PROVE  CodeOK /\ SearchInv /\ frames = <<>> /\ blocks = AllBlocks /\ next \in Nat /\ SealedSoFar /\ \E D : Depths(D)
  BY DEF IInv, Control, Emitted, ConvertInv

\* convert_dfs finds, for every block, the stack depth the interpreter has there whichever way it
\* got there, and max_stack_size bounds them all: for every closure, not only the small ones.
THEOREM BlockDepths == Spec => []DepthsAreInterpreters
<1>1. IInv => DepthsAreInterpreters
  <2> SUFFICES ASSUME IInv, Converted PROVE DepthsAreInterpreters
    BY DEF DepthsAreInterpreters
  <2> QED BY ConvertedFacts, DepthsHold
<1> QED BY <1>1, BlocksInvariant, PTL

\* The blocks cover what can be executed and nothing else, each instruction once, in an order
\* in which every block but the entry comes after one that jumps to it.
THEOREM BlocksPartition == Spec => []EachInstructionOnceInOrder
<1>1. IInv => EachInstructionOnceInOrder
  <2> SUFFICES ASSUME IInv, Converted PROVE EachInstructionOnceInOrder
    BY DEF EachInstructionOnceInOrder
  <2> QED BY ConvertedFacts, OnceHold
<1> QED BY <1>1, BlocksInvariant, PTL

\* Cranelift is never told to seal a block while a jump to it is still to be translated.
THEOREM BlocksSealed == Spec => []SealedAfterLastJump
<1>1. IInv => SealedAfterLastJump
  <2>1. ASSUME IInv, Converted PROVE SealedAfterLastJump
    BY <2>1, ConvertedFacts, SealsHold
  <2>2. ASSUME IInv, ~Converted PROVE SealedAfterLastJump
    BY <2>2 DEF IInv, Emitted, SealedAfterLastJump
  <2> QED BY <2>1, <2>2
<1> QED BY <1>1, BlocksInvariant, PTL

\* Neither the checks of visit nor the translator's give up a closure that keeps the compiler's rules.
THEOREM RejectionsJustified == Spec => []RejectsOnlyIrregular
<1>1. IInv => RejectsOnlyIrregular
  BY DEF IInv
<1> QED BY <1>1, BlocksInvariant, PTL

\* The translator counts the stack as visit did, and never runs out of stack variables.
THEOREM TranslatorCounts == Spec => []TranslatorKeepsCount
<1>1. IInv => TranslatorKeepsCount
  BY DEF IInv
<1> QED BY <1>1, BlocksInvariant, PTL
=============================================================================
