-------------------------- MODULE JitApplyProofs --------------------------
(***************************************************************************)
(* The inductive invariant of JitApply: what the two stacks look like at   *)
(* every label of the generated code, and what a cut or a push leaves of   *)
(* it.  The OCaml stack is read from its bottom, as heights, so that a     *)
(* push moves nothing; each native frame waits at a height ht[i] of the    *)
(* OCaml stack, and the words under that height are its continuation.      *)
(* Every action keeps the invariant when callbacks from C have at most     *)
(* four arguments; with it HandlersSound, RootsScanned and                 *)
(* OnlyEscapingReachC hold for every set of functions, every arity and     *)
(* every bound.                                                            *)
(***************************************************************************)
EXTENDS JitApply, TLAPS

-----------------------------------------------------------------------------
(* Words *)

Token == {"tok"} \X Nat \X Nat
Value ==
    {Unit} \union ({"clo", "res"} \X Funs) \union ({"exn"} \X (Funs \union {"c"}))
      \union ({"pap"} \X Funs \X Seq(Token))
Word ==
    Value \union Token \union ({"addr"} \X (Labels \union {"trap"}))
      \union ({"link", "long", "raw"} \X Nat)

\* The word of s at height h.
W(s, h) == s[Len(s) - h + 1]
\* Only arguments between two heights.
Args(s, lo, hi) == \A h \in (lo + 1)..hi : W(s, h)[1] = "tok"
\* Something ->apply can be given.
Callee(v) == v \in Value /\ v[1] \in {"clo", "pap"}

EntryFrame == [k : {"entry"}, initSp : Nat, prev : Nat, reraise : BOOLEAN, narg : Nat]
OptFrame == [k : {"opt"}, f : Funs, args : Seq(Word), caller : {"asm", "opt"}, extra : Nat]
CFrame == [k : {"c"}, from : {"main", "base", "events", "grab", "opt", "opt_events"},
           extra : Nat, saved : Value, exn : BOOLEAN]
Frames == EntryFrame \union OptFrame \union CFrame

Types ==
    /\ pc \in Labels /\ accu \in Value /\ env \in Word /\ extra \in Nat /\ rdx \in Nat
    /\ stack \in Seq(Word) /\ externSp \in Nat /\ trapSp \in Nat /\ extRaise \in Nat
    /\ native \in Seq(Frames) /\ Len(native) > 0 /\ tick \in Nat

-----------------------------------------------------------------------------
(* Continuations on the OCaml stack.  lo is the height the running machine  *)
(* was entered at: what it may return to lies above.                        *)

Zero(w) == w \in {RawZero, ValLong(0)}

\* The three words of a return frame, the topmost at height r.
RetAt(s, r, lo) ==
    /\ r \in 3..Len(s) /\ lo + 3 <= r
    /\ \/ /\ W(s, r) = Addr("base") /\ lo + 4 <= r
          /\ \E f \in Funs, e \in Nat : W(s, r - 1) = Clo(f) /\ W(s, r - 2) = ValLong(e)
       \/ W(s, r) = Addr("stop") /\ Zero(W(s, r - 2))
       \/ W(s, r) = Addr("callback_stop") /\ lo + 4 <= r /\ Zero(W(s, r - 2))

\* n arguments under height h, and under them where their function returns to.
Call(s, n, h, lo) == n \in Nat /\ h \in 0..Len(s) /\ Args(s, h - n, h) /\ RetAt(s, h - n, lo)

TrapFrame(s, t, f, e) ==
    /\ t \in 4..Len(s) /\ W(s, t) = Addr("trap")
    /\ W(s, t - 1)[1] = "link" /\ W(s, t - 2) = Clo(f) /\ W(s, t - 3) = ValLong(e)

\* A baseline body of f with e extra arguments, at height h.
Body(s, f, e, h, lo) ==
    /\ f \in Funs /\ e \in Nat
    /\ \/ TrapFrame(s, h, f, e) /\ lo + 4 <= h
       \/ Call(s, Arity[f] + e, h, lo)

\* The code addresses of the stack: what resumes at each of them can go on.
PointOK(s, h, n, ht) ==
    /\ W(s, h) = Addr("base") /\ h > 1 /\ W(s, h - 1)[1] = "clo" =>
         \E f \in Funs, e \in Nat :
           /\ W(s, h - 1) = Clo(f) /\ W(s, h - 2) = ValLong(e)
           /\ \A j \in 1..Len(n) : ht[j] < h => Body(s, f, e, h - 3, ht[j])
    /\ W(s, h) = Addr("trap") =>
         \E f \in Funs, e \in Nat :
           /\ TrapFrame(s, h, f, e)
           /\ \A j \in 1..Len(n) : ht[j] < h => Body(s, f, e, h - 4, ht[j])
    /\ W(s, h) = Addr("stop") =>
         \E j \in 1..Len(n) : n[j].k = "entry" /\ n[j].reraise /\ ht[j] = h - 3
    /\ W(s, h) = Addr("callback_stop") =>
         \E j \in 1..Len(n) : n[j].k = "entry" /\ ~n[j].reraise /\ ht[j] = h - 4

Points(s, m, n, ht) == \A h \in 1..m : PointOK(s, h, n, ht)

-----------------------------------------------------------------------------
(* Native frames *)

\* C code called at label l, whose state is under height h of the OCaml stack.
EventOK(s, h, lo) ==
    LET ex == W(s, h - 5)[2]
    IN  /\ h >= 6
        /\ W(s, h) \in Value /\ W(s, h - 1) = Unit /\ W(s, h - 2) = Unit
        /\ W(s, h - 5) = ValLong(ex)
        /\ \/ /\ W(s, h - 3) = Addr("base")
              /\ \E f \in Funs : W(s, h - 4) = Clo(f) /\ Body(s, f, ex, h - 6, lo)
           \/ /\ W(s, h - 3) = Addr("dispatch")
              /\ W(s, h - 4) = W(s, h) /\ Callee(W(s, h))
              /\ ex \in Nat /\ Call(s, 1 + ex, h - 6, lo)

\* Frame fr, above one of kind below that waits at height lo, waits at height h.
EntryAt(fr, below, h, lo) ==
    /\ h = lo
    /\ fr.reraise => below = "opt" /\ fr.initSp = h
    /\ ~fr.reraise => below = "c" /\ fr.initSp = h + fr.narg + 4 /\ fr.narg <= 4

OptAt(s, fr, below, h, lo) ==
    /\ fr.caller = "asm" => below = "entry" /\ Call(s, fr.extra, h, lo)
    /\ fr.caller = "opt" => below = "opt" /\ h = lo /\ fr.extra = 0

CAt(s, fr, below, h, lo) ==
    /\ fr.from # "main"
    /\ fr.from \in {"opt", "opt_events"} => below = "opt" /\ h = lo
    /\ fr.from = "base" =>
         /\ below = "entry" /\ h >= 2 /\ W(s, h - 1) = Addr("base")
         /\ \E f \in Funs : W(s, h) = Clo(f) /\ Body(s, f, fr.extra, h - 2, lo)
    /\ fr.from = "events" => below = "entry" /\ EventOK(s, h, lo)
    /\ fr.from = "grab" =>
         /\ below = "entry" /\ h >= 3
         /\ W(s, h)[1] = "clo" /\ W(s, h - 1) = W(s, h) /\ W(s, h - 2) = Unit
         /\ Call(s, 1 + fr.extra, h - 3, lo)

FrameAt(s, fr, below, h, lo) ==
    /\ h <= Len(s)
    /\ fr.k = "entry" => EntryAt(fr, below, h, lo)
    /\ fr.k = "opt" => OptAt(s, fr, below, h, lo)
    /\ fr.k = "c" => CAt(s, fr, below, h, lo)

FrameOK(s, n, ht, i) == FrameAt(s, n[i], n[i - 1].k, ht[i], ht[i - 1])

FramesOK(s, n, ht) ==
    /\ ht[1] = 0 /\ n[1].k = "c" /\ n[1].from = "main"
    /\ Len(n) > 1 => n[2].k = "entry"
    /\ \A i \in 2..Len(n) : FrameOK(s, n, ht, i)

\* The frames wait at growing heights.
Rising(n, ht) ==
    \A i, j \in 1..Len(n) : i < j => ht[i] <= ht[j] /\ (n[i].k = "entry" => ht[i] < ht[j])

-----------------------------------------------------------------------------
(* Control *)

AsmLabels == {"base", "apply", "dispatch", "grab", "check_opt", "return", "raise",
              "stop", "callback_stop"}

\* The height under which everything waits for the code that runs now.
Cur == IF pc = "opt_return" THEN Height - rdx
       ELSE IF pc = "apply_n" THEN externSp ELSE Height

AsmOK(lo) ==
    /\ pc = "base" => \E f \in Funs : env = Clo(f) /\ Body(stack, f, extra, Height, lo)
    /\ pc \in {"apply", "dispatch", "grab"} => Callee(accu) /\ Call(stack, 1 + extra, Height, lo)
    /\ pc \in {"dispatch", "grab", "check_opt"} => env = accu
    /\ pc \in {"grab", "check_opt"} => accu[1] = "clo"
    /\ pc = "check_opt" => Call(stack, Arity[accu[2]] + extra, Height, lo)
    /\ pc = "return" => Call(stack, extra, Height, lo) /\ (extra # 0 => Callee(accu))
    /\ pc = "stop" => Frame.reraise /\ Height = lo
    /\ pc = "callback_stop" => ~Frame.reraise /\ Height = lo + 1
    /\ pc = "raise" => lo <= Height

NativeOK ==
    /\ pc \in {"opt", "opt_return", "c"} => externSp = Height
    /\ pc \in {"opt", "opt_return", "apply_n"} => Frame.k = "opt"
    /\ pc = "c" => Frame.k = "c"
    /\ pc = "opt_return" =>
         /\ rdx <= Height /\ Args(stack, Height - rdx, Height)
         /\ rdx # 0 \/ Frame.extra # 0 => Callee(accu)
    /\ pc = "apply_n" =>
         /\ Callee(accu) /\ Height = externSp + extra + 4
         /\ Args(stack, externSp + 3, Height)
         /\ W(stack, externSp + 3) = Addr("stop")
         /\ Zero(W(stack, externSp + 2)) /\ Zero(W(stack, externSp + 1))

ControlOK(ht) ==
    /\ pc \in AsmLabels => Frame.k = "entry" /\ AsmOK(ht[Len(native)])
    /\ NativeOK
    /\ Frame.k # "entry" => ht[Len(native)] = Cur

\* Both stacks, seen from the heights the native frames wait at; m is how much of
\* the OCaml stack waits with them.
Structure(s, m, n, ht) ==
    /\ n \in Seq(Frames) /\ Len(n) > 0 /\ ht \in [1..Len(n) -> Nat]
    /\ m \in 0..Len(s)
    /\ Rising(n, ht) /\ FramesOK(s, n, ht) /\ Points(s, m, n, ht)

Shape(ht) == Structure(stack, Cur, native, ht) /\ ControlOK(ht)

-----------------------------------------------------------------------------
(* The two chains of handlers *)

\* t is the highest trap frame of s under height m, or 0.
TopTrap(s, m, t) ==
    /\ t \in 0..m /\ (t > 0 => W(s, t) = Addr("trap"))
    /\ \A h \in 1..m : W(s, h) = Addr("trap") => h <= t

TrapsLinked(s, t) ==
    /\ TopTrap(s, Len(s), t)
    /\ \A h \in 1..Len(s) : W(s, h) = Addr("trap") =>
         /\ h > 1 /\ W(s, h - 1) = Link(W(s, h - 1)[2])
         /\ TopTrap(s, h - 1, W(s, h - 1)[2])

\* x is the last entry frame among the first m, or 0.
IsLast(n, m, x) ==
    /\ x \in 0..m /\ (x > 0 => n[x].k = "entry")
    /\ \A i \in 1..m : n[i].k = "entry" => i <= x

Chain(n, x) ==
    /\ IsLast(n, Len(n), x)
    /\ \A i \in 1..Len(n) : n[i].k = "entry" => IsLast(n, i - 1, n[i].prev)

IInv == Types /\ TrapsLinked(stack, trapSp) /\ Chain(native, extRaise) /\ \E ht : Shape(ht)

-----------------------------------------------------------------------------
(* Sequences seen from the bottom *)

\* A push moves no word, and puts the pushed ones above.
LEMMA PushWords ==
    ASSUME NEW S, NEW t \in Seq(S), NEW s \in Seq(S)
    PROVE  /\ t \o s \in Seq(S) /\ Len(t \o s) = Len(t) + Len(s)
           /\ \A h \in 1..Len(s) : W(t \o s, h) = W(s, h)
           /\ \A h \in (Len(s) + 1)..(Len(s) + Len(t)) : W(t \o s, h) = t[Len(t) + Len(s) - h + 1]
<1>1. t \o s \in Seq(S) /\ Len(t \o s) = Len(t) + Len(s) /\ Len(t) \in Nat /\ Len(s) \in Nat
  OBVIOUS
<1>2. \A i \in 1..(Len(t) + Len(s)) : (t \o s)[i] = IF i <= Len(t) THEN t[i] ELSE s[i - Len(t)]
  OBVIOUS
<1>3. ASSUME NEW h \in 1..Len(s) PROVE W(t \o s, h) = W(s, h)
  <2>1. Len(t) + Len(s) - h + 1 \in 1..(Len(t) + Len(s)) /\ ~(Len(t) + Len(s) - h + 1 <= Len(t))
    BY <1>1
  <2>2. (Len(t) + Len(s) - h + 1) - Len(t) = Len(s) - h + 1
    BY <1>1
  <2> QED BY <1>1, <1>2, <2>1, <2>2 DEF W
<1>4. ASSUME NEW h \in (Len(s) + 1)..(Len(s) + Len(t)) PROVE W(t \o s, h) = t[Len(t) + Len(s) - h + 1]
  <2>1. Len(t) + Len(s) - h + 1 \in 1..(Len(t) + Len(s)) /\ Len(t) + Len(s) - h + 1 <= Len(t)
    BY <1>1
  <2> QED BY <1>1, <1>2, <2>1 DEF W
<1> QED BY <1>1, <1>3, <1>4

\* A cut at height h keeps the words under it.
LEMMA CutWords ==
    ASSUME NEW S, NEW s \in Seq(S), NEW h \in 0..Len(s)
    PROVE  /\ From(s, h) \in Seq(S) /\ Len(From(s, h)) = h
           /\ \A g \in 1..h : W(From(s, h), g) = W(s, g)
<1>1. Len(s) \in Nat /\ Len(s) - h + 1 \in 1..(Len(s) + 1)
  OBVIOUS
<1>2. /\ SubSeq(s, Len(s) - h + 1, Len(s)) \in Seq(S)
      /\ Len(SubSeq(s, Len(s) - h + 1, Len(s))) = h
      /\ \A i \in 1..h : SubSeq(s, Len(s) - h + 1, Len(s))[i] = s[Len(s) - h + i]
  <2>1. \A i \in (Len(s) - h + 1)..Len(s) : s[i] \in S
    BY <1>1
  <2> QED BY <1>1, <2>1
<1>3. ASSUME NEW g \in 1..h PROVE W(From(s, h), g) = W(s, g)
  <2>1. h - g + 1 \in 1..h /\ Len(s) - h + (h - g + 1) = Len(s) - g + 1
    BY <1>1
  <2> QED BY <1>2, <2>1 DEF W, From
<1> QED BY <1>2, <1>3 DEF From

-----------------------------------------------------------------------------
(* What tells the words of the stack apart *)

\* The words the code pushes are words.
LEMMA WordsAreWords ==
    /\ Value \subseteq Word /\ Token \subseteq Word
    /\ Unit \in Value /\ CExn \in Value
    /\ \A f \in Funs : Clo(f) \in Value /\ Res(f) \in Value /\ Exn(f) \in Value
    /\ \A f \in Funs, a \in Seq(Token) : Pap(f, a) \in Value
    /\ \A l \in Labels \union {"trap"} : Addr(l) \in Word
    /\ \A i \in Nat : Link(i) \in Word /\ ValLong(i) \in Word
    /\ RawZero \in Word
<1>1. Value \subseteq Word /\ Token \subseteq Word BY DEF Word
<1>2. Unit \in Value BY DEF Value
<1>3. CExn \in Value BY DEF Value, CExn
<1>4. \A f \in Funs : Clo(f) \in Value /\ Res(f) \in Value /\ Exn(f) \in Value
  BY DEF Value, Clo, Res, Exn
<1>5. \A f \in Funs, a \in Seq(Token) : Pap(f, a) \in Value BY DEF Value, Pap
<1>6. \A l \in Labels \union {"trap"} : Addr(l) \in Word BY DEF Word, Addr
<1>7. \A i \in Nat : Link(i) \in Word /\ ValLong(i) \in Word BY DEF Word, Link, ValLong
<1>8. RawZero \in Word BY DEF Word, RawZero
<1> QED BY <1>1, <1>2, <1>3, <1>4, <1>5, <1>6, <1>7, <1>8

\* Their kinds and contents.
LEMMA WordParts ==
    /\ Unit[1] = "unit" /\ RawZero[1] = "raw" /\ RawZero[2] = 0
    /\ \A f : Clo(f)[1] = "clo" /\ Clo(f)[2] = f
    /\ \A l : Addr(l)[1] = "addr" /\ Addr(l)[2] = l
    /\ \A i : Link(i)[1] = "link" /\ Link(i)[2] = i
    /\ \A i : ValLong(i)[1] = "long" /\ ValLong(i)[2] = i
    /\ \A f, a : Pap(f, a)[1] = "pap" /\ Pap(f, a)[2] = f /\ Pap(f, a)[3] = a
    /\ \A f : Res(f)[1] = "res" /\ Exn(f)[1] = "exn"
    /\ CExn[1] = "exn"
  BY DEF Unit, RawZero, Clo, Addr, Link, ValLong, Pap, Res, Exn, CExn

\* What a word of each kind holds.
LEMMA WordKinds ==
    /\ \A w \in Token : w[1] = "tok"
    /\ \A w \in Value : w[1] \in {"unit", "clo", "res", "exn", "pap"}
    /\ \A w \in Value : w[1] = "clo" => w[2] \in Funs /\ w = Clo(w[2])
    /\ \A w \in Value : w[1] = "pap" => w[2] \in Funs /\ w[3] \in Seq(Token)
    /\ \A w \in Word : w[1] = "tok" => w \in Token
    /\ \A w \in Word : w[1] = "link" => w[2] \in Nat /\ w = Link(w[2])
    /\ \A w \in Word : w[1] = "clo" => w[2] \in Funs /\ w = Clo(w[2])
<1>1. \A w \in Token : w[1] = "tok" BY DEF Token
<1>2. \A w \in Value : w[1] \in {"unit", "clo", "res", "exn", "pap"} BY DEF Value, Unit
<1>3. \A w \in Value : w[1] = "clo" => w[2] \in Funs /\ w = Clo(w[2]) BY DEF Value, Unit, Clo
<1>4. \A w \in Value : w[1] = "pap" => w[2] \in Funs /\ w[3] \in Seq(Token) BY DEF Value, Unit
<1>5. \A w \in Word : w[1] = "tok" => w \in Token BY <1>2 DEF Word
<1>6. \A w \in Word : w[1] = "link" => w[2] \in Nat /\ w = Link(w[2])
  BY <1>1, <1>2 DEF Word, Link
<1>7. \A w \in Word : w[1] = "clo" => w[2] \in Funs /\ w = Clo(w[2])
  BY <1>1, <1>2, <1>3 DEF Word
<1> QED BY <1>1, <1>2, <1>3, <1>4, <1>5, <1>6, <1>7

-----------------------------------------------------------------------------
(* Continuations depend only on the words under them *)

\* s2 has the words of s up to height q.
Same(s, s2, q) ==
    /\ s \in Seq(Word) /\ s2 \in Seq(Word) /\ q \in Nat /\ q <= Len(s) /\ q <= Len(s2)
    /\ \A h \in 1..q : W(s2, h) = W(s, h)

\* A stack that agrees up to a continuation has it too.
LEMMA ContinuationKept ==
    ASSUME NEW s, NEW s2, NEW q, Same(s, s2, q), NEW lo \in Nat, NEW h \in Int, h <= q
    PROVE  /\ RetAt(s, h, lo) => RetAt(s2, h, lo)
           /\ \A n : Call(s, n, h, lo) => Call(s2, n, h, lo)
           /\ \A f, e : TrapFrame(s, h, f, e) => TrapFrame(s2, h, f, e)
           /\ \A f, e : Body(s, f, e, h, lo) => Body(s2, f, e, h, lo)
           /\ EventOK(s, h, lo) => EventOK(s2, h, lo)
<1>0. /\ Len(s) \in Nat /\ Len(s2) \in Nat /\ q \in Nat /\ q <= Len(s) /\ q <= Len(s2)
      /\ \A g \in 1..q : W(s2, g) = W(s, g)
  BY DEF Same
<1>1. ASSUME NEW r \in Int, r <= q, RetAt(s, r, lo) PROVE RetAt(s2, r, lo)
  <2>1. r \in 3..Len(s) /\ r \in 1..q /\ r - 1 \in 1..q /\ r - 2 \in 1..q /\ r \in 3..Len(s2)
    BY <1>0, <1>1 DEF RetAt
  <2>2. W(s2, r) = W(s, r) /\ W(s2, r - 1) = W(s, r - 1) /\ W(s2, r - 2) = W(s, r - 2)
    BY <1>0, <2>1
  <2> QED BY <1>1, <2>1, <2>2 DEF RetAt
<1>2. ASSUME NEW g \in Int, g <= q, NEW n, Call(s, n, g, lo) PROVE Call(s2, n, g, lo)
  <2>1. n \in Nat /\ g \in 0..Len(s) /\ g \in 0..Len(s2) /\ Args(s, g - n, g) /\ RetAt(s, g - n, lo)
    BY <1>0, <1>2 DEF Call
  <2>2. RetAt(s2, g - n, lo) /\ g - n >= 3
    <3>1. g - n \in Int /\ g - n <= q
      BY <1>0, <1>2, <2>1
    <3> QED BY <1>1, <2>1, <3>1 DEF RetAt
  <2>3. Args(s2, g - n, g)
    <3>1. \A i \in (g - n + 1)..g : i \in 1..q
      BY <1>0, <1>2, <2>1, <2>2
    <3> QED BY <1>0, <2>1, <3>1 DEF Args
  <2> QED BY <2>1, <2>2, <2>3 DEF Call
<1>3. ASSUME NEW f, NEW e, NEW t \in Int, t <= q, TrapFrame(s, t, f, e) PROVE TrapFrame(s2, t, f, e)
  <2>1. t \in 4..Len(s2) /\ t \in 1..q /\ t - 1 \in 1..q /\ t - 2 \in 1..q /\ t - 3 \in 1..q
    BY <1>0, <1>3 DEF TrapFrame
  <2> QED BY <1>0, <1>3, <2>1 DEF TrapFrame
<1>4. ASSUME NEW f, NEW e, NEW g \in Int, g <= q, Body(s, f, e, g, lo) PROVE Body(s2, f, e, g, lo)
  BY <1>2, <1>3, <1>4 DEF Body
<1>5. ASSUME EventOK(s, h, lo) PROVE EventOK(s2, h, lo)
  <2>1. /\ h \in 1..q /\ h - 1 \in 1..q /\ h - 2 \in 1..q /\ h - 3 \in 1..q /\ h - 4 \in 1..q /\ h - 5 \in 1..q
        /\ h - 6 \in Int /\ h - 6 <= q
    <3>1. h >= 6
      BY <1>5, Zenon DEF EventOK
    <3> QED BY <1>0, <3>1
  <2>2. /\ W(s2, h) = W(s, h) /\ W(s2, h - 1) = W(s, h - 1) /\ W(s2, h - 2) = W(s, h - 2)
        /\ W(s2, h - 3) = W(s, h - 3) /\ W(s2, h - 4) = W(s, h - 4) /\ W(s2, h - 5) = W(s, h - 5)
    BY <1>0, <2>1
  <2>3. \A f, e : Body(s, f, e, h - 6, lo) => Body(s2, f, e, h - 6, lo)
    BY <1>4, <2>1
  <2>4. \A n : Call(s, n, h - 6, lo) => Call(s2, n, h - 6, lo)
    BY <1>2, <2>1
  <2> QED BY <1>5, <2>2, <2>3, <2>4 DEF EventOK
<1> QED BY <1>1, <1>2, <1>3, <1>4, <1>5

\* A lower entry height allows more.
LEMMA LowerEntry ==
    ASSUME NEW s, NEW lo \in Nat, NEW low \in Nat, low <= lo, NEW h \in Int
    PROVE  /\ RetAt(s, h, lo) => RetAt(s, h, low)
           /\ \A n : Call(s, n, h, lo) => Call(s, n, h, low)
           /\ \A f, e : Body(s, f, e, h, lo) => Body(s, f, e, h, low)
<1>1. ASSUME NEW r, RetAt(s, r, lo) PROVE RetAt(s, r, low)
  BY <1>1 DEF RetAt
<1>2. \A n : Call(s, n, h, lo) => Call(s, n, h, low)
  BY <1>1 DEF Call
<1> QED BY <1>1, <1>2 DEF Body

\* A body is above the height its machine was entered at.
LEMMA BodyAbove ==
    ASSUME NEW s \in Seq(Word), NEW lo \in Nat, NEW h \in Int
    PROVE  /\ \A n : Call(s, n, h, lo) => h >= lo + 3 /\ h >= n + 3 /\ h <= Len(s)
           /\ \A f, e : Body(s, f, e, h, lo) => h >= lo + 4 /\ h >= 4 /\ h <= Len(s)
<1>1. ASSUME NEW n, Call(s, n, h, lo)
      PROVE  h >= lo + 3 /\ h >= n + 3 /\ h <= Len(s) /\ (n >= 1 => h >= lo + 4)
  <2>1. n \in Nat /\ h - n \in 3..Len(s) /\ lo + 3 <= h - n /\ h <= Len(s)
    BY <1>1 DEF Call, RetAt
  <2> QED BY <2>1
<1>2. ASSUME NEW f, NEW e, Body(s, f, e, h, lo) PROVE h >= lo + 4 /\ h >= 4 /\ h <= Len(s)
  <2>1. CASE TrapFrame(s, h, f, e) /\ lo + 4 <= h
    BY <2>1 DEF TrapFrame
  <2>2. CASE Call(s, Arity[f] + e, h, lo)
    <3>1. Arity[f] + e >= 1
      BY <1>2, FunsAssumption DEF Body
    <3> QED BY <1>1, <2>2, <3>1
  <2> QED BY <1>2, <2>1, <2>2 DEF Body
<1> QED BY <1>1, <1>2

-----------------------------------------------------------------------------
(* What a push or a cut leaves of the structure *)

\* The two frames differ at most in whether C has been given an exception.
SameFrame(a, b) ==
    /\ a.k = b.k /\ (a.k # "c" => a = b)
    /\ a.k = "c" => a.from = b.from /\ a.extra = b.extra /\ a.saved = b.saved

\* The first c frames of n2 are those of n; what n2 has more waits above m, and so
\* do the entries of n that are gone.
Agree(c, n, ht, n2, ht2, m) ==
    /\ n \in Seq(Frames) /\ n2 \in Seq(Frames)
    /\ ht \in [1..Len(n) -> Nat] /\ ht2 \in [1..Len(n2) -> Nat] /\ ht[1] = 0
    /\ c \in 1..Len(n) /\ c \in 1..Len(n2)
    /\ \A i \in 1..c : ht2[i] = ht[i] /\ SameFrame(n[i], n2[i])
    /\ \A i \in (c + 1)..Len(n) : n[i].k = "entry" => ht[i] >= m
    /\ \A i \in (c + 1)..Len(n2) : ht2[i] >= m

\* Code addresses under the common part still lead somewhere.
LEMMA PointKept ==
    ASSUME NEW s, NEW s2, NEW q, Same(s, s2, q), NEW c, NEW n, NEW ht, NEW n2, NEW ht2,
           Agree(c, n, ht, n2, ht2, q), NEW h \in 1..q, PointOK(s, h, n, ht)
    PROVE  PointOK(s2, h, n2, ht2)
<1>0. /\ Len(s) \in Nat /\ Len(s2) \in Nat /\ q \in Nat /\ q <= Len(s) /\ q <= Len(s2)
      /\ \A g \in 1..q : W(s2, g) = W(s, g)
  BY DEF Same
<1>1. /\ Len(n) \in Nat /\ Len(n2) \in Nat /\ c \in 1..Len(n) /\ c \in 1..Len(n2) /\ ht[1] = 0
      /\ \A i \in 1..Len(n) : ht[i] \in Nat
      /\ \A i \in 1..Len(n2) : ht2[i] \in Nat
  BY DEF Agree
<1>2. \A i \in 1..c : ht2[i] = ht[i] /\ SameFrame(n[i], n2[i])
  BY DEF Agree
<1>3. \A i \in 1..Len(n2) : ht2[i] < h => i \in 1..c
  <2>1. \A i \in (c + 1)..Len(n2) : ht2[i] >= q
    BY DEF Agree
  <2> QED BY <1>0, <1>1, <2>1
<1>4. \A i \in 1..Len(n) : n[i].k = "entry" /\ ht[i] < h => i \in 1..c
  <2>1. \A i \in (c + 1)..Len(n) : n[i].k = "entry" => ht[i] >= q
    BY DEF Agree
  <2> QED BY <1>0, <1>1, <2>1
<1>5. W(s2, h) = W(s, h) /\ (h > 1 => W(s2, h - 1) = W(s, h - 1))
  <2>1. h > 1 => h - 1 \in 1..q
    BY <1>0
  <2> QED BY <1>0, <2>1
<1>6. ASSUME W(s2, h) = Addr("base"), h > 1, W(s2, h - 1)[1] = "clo"
      PROVE  \E f \in Funs, e \in Nat :
               /\ W(s2, h - 1) = Clo(f) /\ W(s2, h - 2) = ValLong(e)
               /\ \A j \in 1..Len(n2) : ht2[j] < h => Body(s2, f, e, h - 3, ht2[j])
  <2>1. PICK f \in Funs, e \in Nat :
               /\ W(s, h - 1) = Clo(f) /\ W(s, h - 2) = ValLong(e)
               /\ \A j \in 1..Len(n) : ht[j] < h => Body(s, f, e, h - 3, ht[j])
    BY <1>5, <1>6 DEF PointOK
  <2>2. Body(s, f, e, h - 3, 0)
    BY <1>1, <2>1
  <2>3. h - 3 >= 4
    BY <2>2, BodyAbove, <1>0 DEF Same
  <2>4. W(s2, h - 2) = W(s, h - 2)
    BY <1>0, <2>3
  <2>5. ASSUME NEW j \in 1..Len(n2), ht2[j] < h PROVE Body(s2, f, e, h - 3, ht2[j])
    <3>1. j \in 1..Len(n) /\ ht2[j] = ht[j] /\ ht[j] \in Nat
      BY <1>1, <1>2, <1>3, <2>5
    <3>2. Body(s, f, e, h - 3, ht[j])
      BY <2>1, <2>5, <3>1
    <3> QED BY <1>0, <3>1, <3>2, ContinuationKept
  <2> QED BY <1>5, <1>6, <2>1, <2>4, <2>5
<1>7. ASSUME W(s2, h) = Addr("trap")
      PROVE  \E f \in Funs, e \in Nat :
               /\ TrapFrame(s2, h, f, e)
               /\ \A j \in 1..Len(n2) : ht2[j] < h => Body(s2, f, e, h - 4, ht2[j])
  <2>1. PICK f \in Funs, e \in Nat :
               /\ TrapFrame(s, h, f, e)
               /\ \A j \in 1..Len(n) : ht[j] < h => Body(s, f, e, h - 4, ht[j])
    BY <1>5, <1>7 DEF PointOK
  <2>2. TrapFrame(s2, h, f, e)
    BY <1>0, <2>1, ContinuationKept
  <2>3. ASSUME NEW j \in 1..Len(n2), ht2[j] < h PROVE Body(s2, f, e, h - 4, ht2[j])
    <3>1. j \in 1..Len(n) /\ ht2[j] = ht[j] /\ ht[j] \in Nat
      BY <1>1, <1>2, <1>3, <2>3
    <3>2. Body(s, f, e, h - 4, ht[j])
      BY <2>1, <2>3, <3>1
    <3> QED BY <1>0, <3>1, <3>2, ContinuationKept
  <2> QED BY <2>2, <2>3
<1>8. ASSUME NEW j \in 1..Len(n), n[j].k = "entry", ht[j] < h
      PROVE  j \in 1..Len(n2) /\ n2[j] = n[j] /\ ht2[j] = ht[j]
  <2>1. j \in 1..c
    BY <1>4, <1>8
  <2> QED BY <1>1, <1>2, <1>8, <2>1 DEF SameFrame
<1>9. ASSUME W(s2, h) = Addr("stop")
       PROVE  \E j \in 1..Len(n2) : n2[j].k = "entry" /\ n2[j].reraise /\ ht2[j] = h - 3
  <2>1. PICK j \in 1..Len(n) : n[j].k = "entry" /\ n[j].reraise /\ ht[j] = h - 3
    BY <1>5, <1>9 DEF PointOK
  <2>2. ht[j] < h
    BY <2>1
  <2> QED BY <1>8, <2>1, <2>2
<1>10. ASSUME W(s2, h) = Addr("callback_stop")
       PROVE  \E j \in 1..Len(n2) : n2[j].k = "entry" /\ ~n2[j].reraise /\ ht2[j] = h - 4
  <2>1. PICK j \in 1..Len(n) : n[j].k = "entry" /\ ~n[j].reraise /\ ht[j] = h - 4
    BY <1>5, <1>10 DEF PointOK
  <2>2. ht[j] < h
    BY <2>1
  <2> QED BY <1>8, <2>1, <2>2
<1> QED BY <1>6, <1>7, <1>9, <1>10 DEF PointOK

\* A frame of the common part still has its continuation.
LEMMA FrameKept ==
    ASSUME NEW s, NEW s2, NEW q, Same(s, s2, q), NEW c, NEW n, NEW ht, NEW n2, NEW ht2, NEW m,
           Agree(c, n, ht, n2, ht2, m), NEW i \in 2..c, ht[i] <= q, FrameOK(s, n, ht, i)
    PROVE  FrameOK(s2, n2, ht2, i)
<1>0. /\ Len(s) \in Nat /\ Len(s2) \in Nat /\ q \in Nat /\ q <= Len(s) /\ q <= Len(s2)
      /\ \A g \in 1..q : W(s2, g) = W(s, g)
  BY DEF Same
<1>1. c \in Nat /\ i \in 1..c /\ i - 1 \in 1..c /\ i \in 1..Len(n) /\ i - 1 \in 1..Len(n)
  BY DEF Agree
<1>2. ht2[i] = ht[i] /\ ht2[i - 1] = ht[i - 1] /\ SameFrame(n[i], n2[i]) /\ SameFrame(n[i - 1], n2[i - 1])
  BY <1>1 DEF Agree
<1>3. ht[i] \in Nat /\ ht[i - 1] \in Nat
  BY <1>1 DEF Agree
<1>4. /\ n2[i].k = n[i].k /\ n2[i - 1].k = n[i - 1].k /\ (n[i].k # "c" => n2[i] = n[i])
      /\ (n[i].k = "c" => n2[i].from = n[i].from /\ n2[i].extra = n[i].extra)
  BY <1>2 DEF SameFrame
<1>5. SUFFICES ASSUME NEW h \in Nat, NEW lo \in Nat, NEW fr, NEW fr2, NEW b, h <= q,
                      fr2.k = fr.k, fr.k # "c" => fr2 = fr,
                      fr.k = "c" => fr2.from = fr.from /\ fr2.extra = fr.extra,
                      FrameAt(s, fr, b, h, lo)
               PROVE  FrameAt(s2, fr2, b, h, lo)
  BY <1>2, <1>3, <1>4 DEF FrameOK
<1>6. /\ \A e : Call(s, e, h, lo) => Call(s2, e, h, lo)
      /\ EventOK(s, h, lo) => EventOK(s2, h, lo)
  BY <1>0, <1>5, ContinuationKept
<1>7. \A f, e : Body(s, f, e, h - 2, lo) => Body(s2, f, e, h - 2, lo)
  <2>1. h - 2 \in Int /\ h - 2 <= q
    BY <1>0, <1>5
  <2> QED BY <1>5, <2>1, ContinuationKept
<1>8. \A e : Call(s, e, h - 3, lo) => Call(s2, e, h - 3, lo)
  <2>1. h - 3 \in Int /\ h - 3 <= q
    BY <1>0, <1>5
  <2> QED BY <1>5, <2>1, ContinuationKept
<1>9. /\ h >= 1 => W(s2, h) = W(s, h)
      /\ h >= 2 => W(s2, h - 1) = W(s, h - 1)
      /\ h >= 3 => W(s2, h - 2) = W(s, h - 2)
  <2>1. (h >= 1 => h \in 1..q) /\ (h >= 2 => h - 1 \in 1..q) /\ (h >= 3 => h - 2 \in 1..q)
    BY <1>0, <1>5
  <2> QED BY <1>0, <2>1
<1>10. h <= Len(s2)
  BY <1>0, <1>5
<1>11. CASE fr.k = "c"
  <2>1. CAt(s, fr, b, h, lo)
    BY <1>5, <1>11 DEF FrameAt
  <2>2. (h >= 2 => h >= 1) /\ (h >= 3 => h >= 1 /\ h >= 2)
    BY <1>5
  <2>3. fr2.from = fr.from /\ fr2.extra = fr.extra
    BY <1>5, <1>11
  <2>4. CAt(s2, fr2, b, h, lo)
    BY <1>6, <1>7, <1>8, <1>9, <2>1, <2>2, <2>3 DEF CAt
  <2> QED BY <1>5, <1>10, <1>11, <2>4 DEF FrameAt
<1>12. CASE fr.k # "c"
  <2>1. fr2 = fr
    BY <1>5, <1>12
  <2>2. fr.k = "opt" => OptAt(s2, fr, b, h, lo)
    BY <1>5, <1>6 DEF FrameAt, OptAt
  <2> QED BY <1>5, <1>10, <1>12, <2>1, <2>2 DEF FrameAt
<1> QED BY <1>11, <1>12

\* Native frames removed from the top, and the OCaml stack cut to where they waited.
LEMMA CutStructure ==
    ASSUME NEW s, NEW s2, NEW q, NEW m, NEW n, NEW ht, Structure(s, m, n, ht), Same(s, s2, q), q <= m,
           NEW c \in 1..Len(n), NEW n2 \in Seq(Frames), Len(n2) = c,
           \A i \in 1..c : SameFrame(n[i], n2[i]), ht[c] <= q,
           \A i \in (c + 1)..Len(n) : n[i].k = "entry" => ht[i] >= q
    PROVE  Structure(s2, q, n2, [i \in 1..c |-> ht[i]])
<1> DEFINE ht2 == [i \in 1..c |-> ht[i]]
<1>0. q \in Nat /\ q <= Len(s2) /\ Len(s2) \in Nat
  BY DEF Same
<1>1. /\ n \in Seq(Frames) /\ Len(n) \in Nat /\ Len(n) > 0 /\ ht \in [1..Len(n) -> Nat] /\ m \in Nat
      /\ Rising(n, ht) /\ FramesOK(s, n, ht) /\ Points(s, m, n, ht)
  BY DEF Structure
<1>2. c \in Nat /\ c >= 1 /\ \A i \in 1..c : i \in 1..Len(n)
  BY <1>1
<1>3. ht2 \in [1..c -> Nat] /\ \A i \in 1..c : ht2[i] = ht[i]
  BY <1>1, <1>2
<1>4. /\ ht[1] = 0 /\ n[1].k = "c" /\ n[1].from = "main" /\ (Len(n) > 1 => n[2].k = "entry")
      /\ \A i \in 2..Len(n) : FrameOK(s, n, ht, i)
  BY <1>1 DEF FramesOK
<1> HIDE DEF ht2
<1>5. Agree(c, n, ht, n2, ht2, q)
  <2>1. c \in 1..Len(n2) /\ \A i \in (c + 1)..Len(n2) : ht2[i] >= q
    BY <1>2
  <2> QED BY <1>1, <1>3, <1>4, <2>1 DEF Agree
<1>6. ASSUME NEW i \in 1..c PROVE ht[i] <= q
  <2>1. i \in 1..Len(n) /\ c \in 1..Len(n) /\ i \in Int /\ i <= c
    BY <1>2
  <2>2. ht[i] \in Nat /\ ht[c] \in Nat
    BY <1>1, <2>1
  <2>3. ht[i] <= ht[c]
    BY <1>1, <1>2, <2>1, <2>2 DEF Rising
  <2> QED BY <1>0, <2>2, <2>3
<1>7. Rising(n2, ht2)
  <2>1. \A i \in 1..c : n2[i].k = n[i].k
    BY DEF SameFrame
  <2> QED BY <1>1, <1>2, <1>3, <2>1 DEF Rising
<1>8. FramesOK(s2, n2, ht2)
  <2>1. ht2[1] = 0 /\ n2[1].k = "c" /\ n2[1].from = "main"
    <3>1. 1 \in 1..c BY <1>2
    <3> QED BY <1>3, <1>4, <3>1 DEF SameFrame
  <2>2. Len(n2) > 1 => n2[2].k = "entry"
    <3>1. c > 1 => 2 \in 1..c /\ Len(n) > 1 BY <1>1, <1>2
    <3> QED BY <1>4, <3>1 DEF SameFrame
  <2>3. ASSUME NEW i \in 2..c PROVE FrameOK(s2, n2, ht2, i)
    <3>1. i \in 2..Len(n) /\ i \in 1..c BY <1>1, <1>2
    <3>2. FrameOK(s, n, ht, i) /\ ht[i] <= q BY <1>4, <1>6, <3>1
    <3> QED BY <1>5, <3>2, FrameKept
  <2> QED BY <2>1, <2>2, <2>3 DEF FramesOK
<1>9. Points(s2, q, n2, ht2)
  <2>1. ASSUME NEW h \in 1..q PROVE PointOK(s2, h, n2, ht2)
    <3>1. h \in 1..m BY <1>0, <1>1
    <3>2. PointOK(s, h, n, ht) BY <1>1, <3>1 DEF Points
    <3> QED BY <1>5, <3>2, PointKept
  <2> QED BY <2>1 DEF Points
<1>10. Structure(s2, q, n2, ht2)
  BY <1>0, <1>2, <1>3, <1>7, <1>8, <1>9 DEF Structure
<1> QED BY <1>10 DEF ht2

\* The native stack as it is, the OCaml stack changed above height q.
LEMMA KeepStructure ==
    ASSUME NEW s, NEW s2, NEW q, NEW m, NEW n, NEW ht, Structure(s, m, n, ht), Same(s, s2, q), q <= m,
           ht[Len(n)] <= q
    PROVE  Structure(s2, q, n, ht)
<1>1. n \in Seq(Frames) /\ Len(n) \in Nat /\ Len(n) > 0 /\ ht \in [1..Len(n) -> Nat]
  BY DEF Structure
<1>2. Len(n) \in 1..Len(n) /\ \A i \in (Len(n) + 1)..Len(n) : n[i].k = "entry" => ht[i] >= q
  BY <1>1
<1>3. \A i \in 1..Len(n) : SameFrame(n[i], n[i])
  BY DEF SameFrame
<1>4. [i \in 1..Len(n) |-> ht[i]] = ht
  BY <1>1
<1>5. Structure(s2, q, n, [i \in 1..Len(n) |-> ht[i]])
  BY <1>1, <1>2, <1>3, CutStructure
<1> QED BY <1>4, <1>5

\* More of the OCaml stack waits.
LEMMA MoreStructure ==
    ASSUME NEW s \in Seq(Word), NEW q, NEW n, NEW ht, Structure(s, q, n, ht), NEW m \in 0..Len(s), q <= m,
           \A h \in (q + 1)..m : PointOK(s, h, n, ht)
    PROVE  Structure(s, m, n, ht)
<1>1. q \in 0..Len(s) /\ Points(s, q, n, ht)
  BY DEF Structure
<1>2. Points(s, m, n, ht)
  BY <1>1 DEF Points
<1> QED BY <1>2 DEF Structure

\* The heights with one more frame.
Higher(n, ht, e) == [i \in 1..(Len(n) + 1) |-> IF i <= Len(n) THEN ht[i] ELSE e]

\* A native frame pushed.
LEMMA GrowStructure ==
    ASSUME NEW s \in Seq(Word), NEW q, NEW n, NEW ht, Structure(s, q, n, ht), NEW x \in Frames,
           NEW e \in Nat, q <= e, ht[Len(n)] <= e, n[Len(n)].k = "entry" => ht[Len(n)] < e,
           FrameAt(s, x, n[Len(n)].k, e, ht[Len(n)]), Len(n) = 1 => x.k = "entry"
    PROVE  Structure(s, q, Append(n, x), Higher(n, ht, e))
<1> DEFINE n2 == Append(n, x)
           ht2 == Higher(n, ht, e)
           l == Len(n)
<1>1. /\ n \in Seq(Frames) /\ l \in Nat /\ l > 0 /\ ht \in [1..l -> Nat] /\ q \in Nat /\ q \in 0..Len(s)
      /\ Rising(n, ht) /\ FramesOK(s, n, ht) /\ Points(s, q, n, ht)
  BY DEF Structure
<1>2. n2 \in Seq(Frames) /\ Len(n2) = l + 1 /\ n2[l + 1] = x /\ \A i \in 1..l : n2[i] = n[i]
  BY <1>1
<1>3. /\ ht2 \in [1..(l + 1) -> Nat] /\ ht2[l + 1] = e
      /\ \A i \in 1..l : ht2[i] = ht[i]
  BY <1>1 DEF Higher
<1>4. /\ ht[1] = 0 /\ n[1].k = "c" /\ n[1].from = "main" /\ (l > 1 => n[2].k = "entry")
      /\ \A i \in 2..l : FrameOK(s, n, ht, i)
  BY <1>1 DEF FramesOK
<1>11. /\ FrameAt(s, x, n[l].k, e, ht[l]) /\ (l = 1 => x.k = "entry") /\ q <= e /\ ht[l] <= e
       /\ (n[l].k = "entry" => ht[l] < e)
  OBVIOUS
<1> HIDE DEF n2, ht2, l
<1>5. Agree(l, n, ht, n2, ht2, q)
  <2>1. \A i \in 1..l : SameFrame(n[i], n2[i])
    BY <1>2 DEF SameFrame
  <2>2. \A i \in (l + 1)..Len(n2) : ht2[i] >= q
    BY <1>1, <1>2, <1>3, <1>11
  <2>3. l \in 1..l /\ l \in 1..Len(n2) /\ ht2 \in [1..Len(n2) -> Nat]
    BY <1>1, <1>2, <1>3
  <2>4. Len(n) = l /\ \A i \in (l + 1)..Len(n) : n[i].k = "entry" => ht[i] >= q
    BY <1>1 DEF l
  <2> QED BY <1>1, <1>2, <1>3, <1>4, <2>1, <2>2, <2>3, <2>4 DEF Agree
<1>6. Same(s, s, q) /\ Same(s, s, Len(s))
  BY <1>1 DEF Same
<1>7. Rising(n2, ht2)
  <2>1. \A i \in 1..l : ht[i] \in Nat /\ ht[i] <= ht[l] /\ (i < l /\ n[i].k = "entry" => ht[i] < ht[l])
    BY <1>1 DEF Rising, l
  <2>2. \A i, j \in 1..l : i < j => ht[i] <= ht[j] /\ (n[i].k = "entry" => ht[i] < ht[j])
    BY <1>1 DEF Rising, l
  <2>3. ASSUME NEW i \in 1..(l + 1), NEW j \in 1..(l + 1), i < j
        PROVE  ht2[i] <= ht2[j] /\ (n2[i].k = "entry" => ht2[i] < ht2[j])
    <3>1. CASE j \in 1..l
      <4>1. i \in 1..l BY <1>1, <2>3, <3>1
      <4> QED BY <1>2, <1>3, <2>2, <2>3, <3>1, <4>1
    <3>2. CASE j = l + 1
      <4>1. i \in 1..l /\ (i = l \/ i < l) BY <1>1, <2>3, <3>2
      <4>2. ht[i] <= e /\ (n[i].k = "entry" => ht[i] < e)
        BY <1>11, <2>1, <4>1, <1>1
      <4> QED BY <1>2, <1>3, <3>2, <4>1, <4>2
    <3> QED BY <1>1, <3>1, <3>2
  <2> QED BY <1>2, <2>3 DEF Rising
<1>8. FramesOK(s, n2, ht2)
  <2>1. ht2[1] = 0 /\ n2[1].k = "c" /\ n2[1].from = "main"
    BY <1>1, <1>2, <1>3, <1>4
  <2>2. Len(n2) > 1 => n2[2].k = "entry"
    <3>1. CASE l = 1 BY <1>2, <1>11, <3>1
    <3>2. CASE l > 1
      <4>1. 2 \in 1..l BY <1>1, <3>2
      <4> QED BY <1>2, <1>4, <3>2, <4>1
    <3> QED BY <1>1, <3>1, <3>2
  <2>3. ASSUME NEW i \in 2..(l + 1) PROVE FrameOK(s, n2, ht2, i)
    <3>1. CASE i \in 2..l
      <4>1. FrameOK(s, n, ht, i) /\ ht[i] <= Len(s)
        BY <1>4, <3>1 DEF FrameOK, FrameAt
      <4> QED BY <1>5, <1>6, <3>1, <4>1, FrameKept
    <3>2. CASE i = l + 1
      <4>1. n2[i] = x /\ i - 1 = l /\ n2[i - 1] = n[l] /\ ht2[i] = e /\ ht2[i - 1] = ht[l]
        BY <1>1, <1>2, <1>3, <3>2
      <4> QED BY <1>11, <4>1 DEF FrameOK
    <3> QED BY <1>1, <3>1, <3>2
  <2> QED BY <1>2, <2>1, <2>2, <2>3 DEF FramesOK
<1>9. Points(s, q, n2, ht2)
  <2>1. ASSUME NEW h \in 1..q PROVE PointOK(s, h, n2, ht2)
    <3>1. PointOK(s, h, n, ht) BY <1>1 DEF Points
    <3> QED BY <1>5, <1>6, <3>1, PointKept
  <2> QED BY <2>1 DEF Points
<1>10. Structure(s, q, n2, ht2)
  BY <1>1, <1>2, <1>3, <1>7, <1>8, <1>9 DEF Structure
<1> QED BY <1>10 DEF n2, ht2

-----------------------------------------------------------------------------
(* The chains of handlers *)

\* No trap frame comes or goes.
LEMMA TrapsKept ==
    ASSUME NEW s, NEW s2, NEW q, Same(s, s2, q), NEW t, TrapsLinked(s, t),
           \A h \in (q + 1)..Len(s) : W(s, h) # Addr("trap"),
           \A h \in (q + 1)..Len(s2) : W(s2, h) # Addr("trap")
    PROVE  TrapsLinked(s2, t)
<1>0. /\ Len(s) \in Nat /\ Len(s2) \in Nat /\ q \in Nat /\ q <= Len(s) /\ q <= Len(s2)
      /\ \A g \in 1..q : W(s2, g) = W(s, g)
  BY DEF Same
<1>1. t \in 0..Len(s) /\ (t > 0 => W(s, t) = Addr("trap")) /\ \A h \in 1..Len(s) : W(s, h) = Addr("trap") => h <= t
  BY DEF TrapsLinked, TopTrap
<1>2. t \in 0..q
  BY <1>0, <1>1
<1>3. TopTrap(s2, Len(s2), t)
  <2>1. ASSUME NEW h \in 1..Len(s2), W(s2, h) = Addr("trap") PROVE h <= t
    <3>1. h \in 1..q BY <1>0, <2>1
    <3> QED BY <1>0, <1>1, <2>1, <3>1
  <2>2. t \in 0..Len(s2) /\ (t > 0 => t \in 1..q) BY <1>0, <1>2
  <2> QED BY <1>0, <1>1, <2>1, <2>2 DEF TopTrap
<1>4. ASSUME NEW h \in 1..Len(s2), W(s2, h) = Addr("trap")
      PROVE  /\ h > 1 /\ W(s2, h - 1) = Link(W(s2, h - 1)[2])
             /\ TopTrap(s2, h - 1, W(s2, h - 1)[2])
  <2>1. h \in 1..q /\ h \in 1..Len(s) BY <1>0, <1>4
  <2>2. W(s, h) = Addr("trap") BY <1>0, <1>4, <2>1
  <2>3. /\ h > 1 /\ W(s, h - 1) = Link(W(s, h - 1)[2])
        /\ TopTrap(s, h - 1, W(s, h - 1)[2])
    BY <2>1, <2>2 DEF TrapsLinked
  <2>4. h - 1 \in 1..q /\ W(s2, h - 1) = W(s, h - 1) BY <1>0, <2>1, <2>3
  <2>5. TopTrap(s2, h - 1, W(s, h - 1)[2])
    <3>1. PICK g : g = W(s, h - 1)[2] OBVIOUS
    <3>2. TopTrap(s, h - 1, g) BY <2>3, <3>1
    <3>3. \A i \in 1..(h - 1) : i \in 1..q BY <1>0, <2>4
    <3>4. g > 0 /\ g \in 0..(h - 1) => g \in 1..(h - 1) BY <2>4
    <3>5. TopTrap(s2, h - 1, g) BY <1>0, <3>2, <3>3, <3>4 DEF TopTrap
    <3> QED BY <3>1, <3>5
  <2> QED BY <2>3, <2>4, <2>5
<1> QED BY <1>3, <1>4 DEF TrapsLinked

\* PUSHTRAP: four words, of which the first two are a frame of the chain.
LEMMA TrapPushed ==
    ASSUME NEW s, NEW s2, NEW t, TrapsLinked(s, t), Same(s, s2, Len(s)), Len(s2) = Len(s) + 4,
           W(s2, Len(s) + 4) = Addr("trap"), W(s2, Len(s) + 3) = Link(t),
           W(s2, Len(s) + 2) # Addr("trap"), W(s2, Len(s) + 1) # Addr("trap")
    PROVE  TrapsLinked(s2, Len(s) + 4)
<1> DEFINE l == Len(s)
<1>0. l \in Nat /\ Len(s2) = l + 4 /\ \A g \in 1..l : W(s2, g) = W(s, g)
  BY DEF Same
<1>1. t \in 0..l /\ (t > 0 => W(s, t) = Addr("trap")) /\ \A h \in 1..l : W(s, h) = Addr("trap") => h <= t
  BY DEF TrapsLinked, TopTrap
<1>2. \A h \in 1..l : W(s, h) = Addr("trap") =>
         h > 1 /\ W(s, h - 1) = Link(W(s, h - 1)[2]) /\ TopTrap(s, h - 1, W(s, h - 1)[2])
  BY DEF TrapsLinked
<1>3. /\ W(s2, l + 4) = Addr("trap") /\ W(s2, l + 3) = Link(t) /\ W(s2, l + 2) # Addr("trap")
      /\ W(s2, l + 1) # Addr("trap")
  OBVIOUS
<1> HIDE DEF l
<1>4. TopTrap(s2, l + 4, l + 4)
  BY <1>0, <1>3 DEF TopTrap
<1>5. W(s2, l + 3) # Addr("trap") /\ Link(t)[2] = t
  BY <1>3, WordParts
<1>6. TopTrap(s2, l + 3, t)
  <2>1. ASSUME NEW h \in 1..(l + 3), W(s2, h) = Addr("trap") PROVE h <= t
    <3>1. h \in 1..l BY <1>0, <1>3, <1>5, <2>1
    <3> QED BY <1>0, <1>1, <2>1, <3>1
  <2>2. t \in 0..(l + 3) /\ (t > 0 => t \in 1..l) BY <1>0, <1>1
  <2> QED BY <1>0, <1>1, <2>1, <2>2 DEF TopTrap
<1>7. ASSUME NEW h \in 1..(l + 4), W(s2, h) = Addr("trap")
      PROVE  /\ h > 1 /\ W(s2, h - 1) = Link(W(s2, h - 1)[2])
             /\ TopTrap(s2, h - 1, W(s2, h - 1)[2])
  <2>1. CASE h = l + 4
    <3>1. h - 1 = l + 3 /\ h > 1 BY <1>0, <2>1
    <3> QED BY <1>3, <1>5, <1>6, <3>1
  <2>2. CASE h \in 1..l
    <3>1. /\ h > 1 /\ W(s, h - 1) = Link(W(s, h - 1)[2]) /\ TopTrap(s, h - 1, W(s, h - 1)[2])
      BY <1>0, <1>2, <1>7, <2>2
    <3>2. h - 1 \in 1..l /\ W(s2, h - 1) = W(s, h - 1) BY <1>0, <2>2, <3>1
    <3>3. PICK g : g = W(s, h - 1)[2] OBVIOUS
    <3>4. TopTrap(s, h - 1, g) BY <3>1, <3>3
    <3>5. \A i \in 1..(h - 1) : i \in 1..l BY <1>0, <3>2
    <3>6. g > 0 /\ g \in 0..(h - 1) => g \in 1..(h - 1) BY <3>2
    <3>7. TopTrap(s2, h - 1, g) BY <1>0, <3>4, <3>5, <3>6 DEF TopTrap
    <3> QED BY <3>1, <3>2, <3>3, <3>7
  <2> QED BY <1>0, <1>3, <1>5, <1>7, <2>1, <2>2
<1>8. TrapsLinked(s2, l + 4)
  BY <1>0, <1>4, <1>7 DEF TrapsLinked
<1> QED BY <1>8 DEF l

\* POPTRAP and ->raise: everything from the innermost trap frame up is popped.
LEMMA TrapPopped ==
    ASSUME NEW s, NEW s2, NEW t \in Nat, TrapsLinked(s, t), t >= 4, Same(s, s2, t - 4), Len(s2) = t - 4,
           W(s, t - 2) # Addr("trap"), W(s, t - 3) # Addr("trap")
    PROVE  W(s, t - 1)[2] \in Nat /\ TrapsLinked(s2, W(s, t - 1)[2])
<1>0. Len(s) \in Nat /\ t - 4 \in Nat /\ \A g \in 1..(t - 4) : W(s2, g) = W(s, g)
  BY DEF Same
<1>1. t \in 1..Len(s) /\ W(s, t) = Addr("trap")
  BY DEF TrapsLinked, TopTrap
<1>2. \A h \in 1..Len(s) : W(s, h) = Addr("trap") =>
         h > 1 /\ W(s, h - 1) = Link(W(s, h - 1)[2]) /\ TopTrap(s, h - 1, W(s, h - 1)[2])
  BY DEF TrapsLinked
<1>3. PICK g : g = W(s, t - 1)[2]
  OBVIOUS
<1>4. TopTrap(s, t - 1, g) /\ W(s, t - 1) # Addr("trap")
  <2>1. W(s, t - 1) = Link(g) /\ TopTrap(s, t - 1, g) BY <1>1, <1>2, <1>3
  <2> QED BY <2>1, WordParts
<1>5. g \in 0..(t - 1) /\ (g > 0 => W(s, g) = Addr("trap")) /\ \A h \in 1..(t - 1) : W(s, h) = Addr("trap") => h <= g
  BY <1>4 DEF TopTrap
<1>6. g \in 0..(t - 4)
  <2>1. g # t - 1 /\ g # t - 2 /\ g # t - 3 BY <1>0, <1>4, <1>5
  <2> QED BY <1>0, <1>5, <2>1
<1>7. TopTrap(s2, t - 4, g)
  <2>1. \A h \in 1..(t - 4) : h \in 1..(t - 1) BY <1>0
  <2>2. g > 0 => g \in 1..(t - 4) BY <1>6
  <2> QED BY <1>0, <1>5, <1>6, <2>1, <2>2 DEF TopTrap
<1>8. ASSUME NEW h \in 1..(t - 4), W(s2, h) = Addr("trap")
      PROVE  /\ h > 1 /\ W(s2, h - 1) = Link(W(s2, h - 1)[2])
             /\ TopTrap(s2, h - 1, W(s2, h - 1)[2])
  <2>0. h \in 1..Len(s) BY <1>0, <1>1
  <2>1. /\ h > 1 /\ W(s, h - 1) = Link(W(s, h - 1)[2]) /\ TopTrap(s, h - 1, W(s, h - 1)[2])
    BY <1>0, <1>2, <1>8, <2>0
  <2>2. h - 1 \in 1..(t - 4) /\ W(s2, h - 1) = W(s, h - 1) BY <1>0, <2>1
  <2>3. PICK x : x = W(s, h - 1)[2] OBVIOUS
  <2>4. TopTrap(s, h - 1, x) BY <2>1, <2>3
  <2>5. \A i \in 1..(h - 1) : i \in 1..(t - 4) BY <1>0, <2>2
  <2>6. x > 0 /\ x \in 0..(h - 1) => x \in 1..(h - 1) BY <2>2
  <2>7. TopTrap(s2, h - 1, x) BY <1>0, <2>4, <2>5, <2>6 DEF TopTrap
  <2> QED BY <2>1, <2>2, <2>3, <2>7
<1>9. TrapsLinked(s2, g)
  BY <1>7, <1>8 DEF TrapsLinked
<1> QED BY <1>3, <1>6, <1>9

\* A frame pushed on the native stack.
LEMMA ChainPushed ==
    ASSUME NEW n \in Seq(Frames), NEW x, Chain(n, x), NEW fr \in Frames
    PROVE  /\ fr.k # "entry" => Chain(Append(n, fr), x)
           /\ fr.k = "entry" /\ fr.prev = x => Chain(Append(n, fr), Len(n) + 1)
<1>1. PICK n2 : n2 = Append(n, fr)
  OBVIOUS
<1>2. Len(n) \in Nat /\ Len(n2) = Len(n) + 1 /\ n2[Len(n) + 1] = fr /\ \A i \in 1..Len(n) : n2[i] = n[i]
  BY <1>1
<1>3. x \in 0..Len(n) /\ (x > 0 => n[x].k = "entry") /\ \A i \in 1..Len(n) : n[i].k = "entry" => i <= x
  BY DEF Chain, IsLast
<1>4. \A i \in 1..Len(n) : n[i].k = "entry" => IsLast(n2, i - 1, n[i].prev)
  <2>1. ASSUME NEW i \in 1..Len(n), n[i].k = "entry" PROVE IsLast(n2, i - 1, n[i].prev)
    <3>1. PICK y : y = n[i].prev OBVIOUS
    <3>2. IsLast(n, i - 1, y) BY <2>1, <3>1 DEF Chain
    <3>3. \A j \in 1..(i - 1) : j \in 1..Len(n) BY <1>2
    <3>4. y \in 0..(i - 1) /\ y > 0 => y \in 1..(i - 1) BY <1>2
    <3>5. IsLast(n2, i - 1, y) BY <1>2, <3>2, <3>3, <3>4 DEF IsLast
    <3> QED BY <3>1, <3>5
  <2> QED BY <2>1
<1>5. IsLast(n2, Len(n), x)
  BY <1>2, <1>3 DEF IsLast
<1>6. ASSUME fr.k # "entry" PROVE Chain(n2, x)
  <2>1. IsLast(n2, Len(n2), x) BY <1>2, <1>5, <1>6 DEF IsLast
  <2> QED BY <1>2, <1>4, <1>6, <2>1 DEF Chain
<1>7. ASSUME fr.k = "entry", fr.prev = x PROVE Chain(n2, Len(n) + 1)
  <2>1. IsLast(n2, Len(n2), Len(n) + 1) BY <1>2, <1>7 DEF IsLast
  <2>2. ASSUME NEW i \in 1..Len(n2), n2[i].k = "entry" PROVE IsLast(n2, i - 1, n2[i].prev)
    <3>1. CASE i = Len(n) + 1
      <4>1. i - 1 = Len(n) /\ n2[i] = fr BY <1>2, <3>1
      <4> QED BY <1>5, <1>7, <4>1
    <3>2. CASE i \in 1..Len(n) BY <1>2, <1>4, <2>2, <3>2
    <3> QED BY <1>2, <3>1, <3>2
  <2> QED BY <2>1, <2>2 DEF Chain
<1> QED BY <1>1, <1>6, <1>7

\* The native stack cut to its first c frames, of which y is the last entry.
LEMMA ChainCut ==
    ASSUME NEW n \in Seq(Frames), NEW x, Chain(n, x), NEW c \in 0..Len(n), NEW n2 \in Seq(Frames), Len(n2) = c,
           \A i \in 1..c : SameFrame(n[i], n2[i]), NEW y, IsLast(n, c, y)
    PROVE  Chain(n2, y)
<1>1. Len(n) \in Nat /\ \A i \in 1..c : i \in 1..Len(n) /\ n2[i].k = n[i].k /\ (n[i].k = "entry" => n2[i] = n[i])
  BY DEF SameFrame
<1>2. IsLast(n2, c, y)
  <2>1. y > 0 /\ y \in 0..c => y \in 1..c BY <1>1
  <2> QED BY <1>1, <2>1 DEF IsLast
<1>3. ASSUME NEW i \in 1..c, n2[i].k = "entry" PROVE IsLast(n2, i - 1, n2[i].prev)
  <2>1. i \in 1..Len(n) /\ n[i].k = "entry" /\ n2[i] = n[i] BY <1>1, <1>3
  <2>2. PICK z : z = n[i].prev OBVIOUS
  <2>3. IsLast(n, i - 1, z) BY <2>1, <2>2 DEF Chain
  <2>4. \A j \in 1..(i - 1) : j \in 1..c BY <1>1
  <2>5. z \in 0..(i - 1) /\ z > 0 => z \in 1..(i - 1) BY <1>1
  <2>6. IsLast(n2, i - 1, z) BY <1>1, <2>3, <2>4, <2>5 DEF IsLast
  <2> QED BY <2>1, <2>2, <2>6
<1> QED BY <1>2, <1>3 DEF Chain

-----------------------------------------------------------------------------
(* Words pushed *)

\* Words that are no code address, and addresses that nothing returns to.
LEMMA PlainPoint ==
    ASSUME NEW s, NEW h, NEW n, NEW ht,
           \/ W(s, h)[1] # "addr"
           \/ \E l : W(s, h) = Addr(l) /\ l \notin {"base", "trap", "stop", "callback_stop"}
           \/ W(s, h) = Addr("base") /\ W(s, h - 1)[1] # "clo"
    PROVE  PointOK(s, h, n, ht)
<1>1. CASE W(s, h)[1] # "addr"
  <2>1. \A l : W(s, h) # Addr(l) BY <1>1, WordParts
  <2> QED BY <2>1 DEF PointOK
<1>2. CASE \E l : W(s, h) = Addr(l) /\ l \notin {"base", "trap", "stop", "callback_stop"}
  <2>1. PICK l : W(s, h) = Addr(l) /\ l \notin {"base", "trap", "stop", "callback_stop"} BY <1>2
  <2>2. W(s, h)[2] = l /\ \A i : Addr(i)[2] = i BY <2>1, WordParts
  <2>3. W(s, h) \notin {Addr("base"), Addr("trap"), Addr("stop"), Addr("callback_stop")} BY <2>1, <2>2
  <2> QED BY <2>3 DEF PointOK
<1>3. CASE W(s, h) = Addr("base") /\ W(s, h - 1)[1] # "clo"
  <2>1. \A i : Addr(i)[2] = i BY WordParts
  <2>2. W(s, h) \notin {Addr("trap"), Addr("stop"), Addr("callback_stop")} BY <1>3, <2>1
  <2> QED BY <1>3, <2>2 DEF PointOK
<1> QED BY <1>1, <1>2, <1>3

\* A body above the last frame is above every frame.
LEMMA BodyOverAll ==
    ASSUME NEW s, NEW m, NEW n, NEW ht, Structure(s, m, n, ht),
           NEW s2, NEW f, NEW e, NEW h \in Int, Body(s2, f, e, h, ht[Len(n)])
    PROVE  \A j \in 1..Len(n) : Body(s2, f, e, h, ht[j])
<1>1. /\ n \in Seq(Frames) /\ Len(n) \in Nat /\ Len(n) > 0 /\ ht \in [1..Len(n) -> Nat] /\ Rising(n, ht)
  BY DEF Structure
<1>2. ASSUME NEW j \in 1..Len(n) PROVE Body(s2, f, e, h, ht[j])
  <2>1. Len(n) \in 1..Len(n) /\ j <= Len(n) BY <1>1
  <2>2. ht[j] \in Nat /\ ht[Len(n)] \in Nat BY <1>1, <2>1
  <2>3. ht[j] <= ht[Len(n)] BY <1>1, <2>1, <2>2 DEF Rising
  <2> QED BY <2>2, <2>3, LowerEntry
<1> QED BY <1>2

\* A return frame to a baseline body, pushed over that body.
LEMMA BasePoint ==
    ASSUME NEW s, NEW m, NEW n, NEW ht, Structure(s, m, n, ht), NEW s2, NEW h \in Nat, NEW f, NEW e,
           W(s2, h) = Addr("base"), W(s2, h - 1) = Clo(f), W(s2, h - 2) = ValLong(e),
           Body(s2, f, e, h - 3, ht[Len(n)])
    PROVE  PointOK(s2, h, n, ht)
<1>1. \A j \in 1..Len(n) : Body(s2, f, e, h - 3, ht[j])
  <2>1. h - 3 \in Int OBVIOUS
  <2> QED BY <2>1, BodyOverAll
<1>2. f \in Funs /\ e \in Nat
  BY DEF Body
<1>3. \A i : Addr(i)[2] = i
  BY WordParts
<1>4. W(s2, h) \notin {Addr("trap"), Addr("stop"), Addr("callback_stop")}
  BY <1>3
<1> QED BY <1>1, <1>2, <1>4 DEF PointOK

\* A trap frame pushed over the body that installs it.
LEMMA TrapPoint ==
    ASSUME NEW s, NEW m, NEW n, NEW ht, Structure(s, m, n, ht), NEW s2, NEW h \in Nat, NEW f, NEW e,
           TrapFrame(s2, h, f, e), Body(s2, f, e, h - 4, ht[Len(n)])
    PROVE  PointOK(s2, h, n, ht)
<1>1. \A j \in 1..Len(n) : Body(s2, f, e, h - 4, ht[j])
  BY BodyOverAll
<1>2. f \in Funs /\ e \in Nat /\ W(s2, h) = Addr("trap")
  BY DEF Body, TrapFrame
<1>3. \A i : Addr(i)[2] = i
  BY WordParts
<1>4. W(s2, h) \notin {Addr("base"), Addr("stop"), Addr("callback_stop")}
  BY <1>2, <1>3
<1> QED BY <1>1, <1>2, <1>4 DEF PointOK

\* Arguments u over a frame of words x.
LEMMA PushCall ==
    ASSUME NEW u \in Seq(Token), NEW x \in Seq(Word), NEW s \in Seq(Word), NEW s2, s2 = u \o x \o s
    PROVE  /\ s2 \in Seq(Word) /\ Len(s2) = Len(s) + Len(x) + Len(u) /\ Same(s, s2, Len(s))
           /\ \A h \in 1..Len(x) : W(s2, Len(s) + h) = x[Len(x) - h + 1]
           /\ Args(s2, Len(s) + Len(x), Len(s2))
<1>1. /\ u \in Seq(Word) /\ Len(u) \in Nat /\ Len(x) \in Nat /\ Len(s) \in Nat
      /\ \A i \in 1..Len(u) : u[i][1] = "tok"
  <2>1. Token \subseteq Word BY WordsAreWords
  <2>2. \A i \in 1..Len(u) : u[i] \in Token OBVIOUS
  <2> QED BY <2>1, <2>2, WordKinds
<1>2. PICK y : y = u \o x
  OBVIOUS
<1>3. /\ y \in Seq(Word) /\ Len(y) = Len(u) + Len(x)
      /\ \A h \in 1..Len(x) : W(y, h) = W(x, h)
      /\ \A h \in (Len(x) + 1)..(Len(x) + Len(u)) : W(y, h) = u[Len(u) + Len(x) - h + 1]
  BY <1>1, <1>2, PushWords
<1>4. /\ s2 \in Seq(Word) /\ Len(s2) = Len(y) + Len(s)
      /\ \A h \in 1..Len(s) : W(s2, h) = W(s, h)
      /\ \A h \in (Len(s) + 1)..(Len(s) + Len(y)) : W(s2, h) = y[Len(y) + Len(s) - h + 1]
  <2>1. s2 = y \o s BY <1>2
  <2>2. /\ y \o s \in Seq(Word) /\ Len(y \o s) = Len(y) + Len(s)
        /\ \A h \in 1..Len(s) : W(y \o s, h) = W(s, h)
        /\ \A h \in (Len(s) + 1)..(Len(s) + Len(y)) : W(y \o s, h) = y[Len(y) + Len(s) - h + 1]
    <3>1. y \in Seq(Word) BY <1>3
    <3> QED BY ONLY <3>1, s \in Seq(Word), PushWords
  <2> QED BY <2>1, <2>2, Zenon
<1>5. ASSUME NEW h \in 1..Len(y), NEW g, g = Len(s) + h PROVE W(s2, g) = W(y, h)
  <2>1. g \in (Len(s) + 1)..(Len(s) + Len(y)) /\ Len(y) + Len(s) - g + 1 = Len(y) - h + 1
    BY <1>1, <1>3, <1>5
  <2>2. W(s2, g) = y[Len(y) + Len(s) - g + 1] BY <1>4, <2>1
  <2>3. W(y, h) = y[Len(y) - h + 1] BY DEF W
  <2> QED BY <2>1, <2>2, <2>3
<1>6. ASSUME NEW h \in 1..Len(x) PROVE W(s2, Len(s) + h) = x[Len(x) - h + 1]
  <2>1. h \in 1..Len(y) BY <1>1, <1>3
  <2> QED BY <1>3, <1>5, <2>1 DEF W
<1>7. ASSUME NEW h \in (Len(s) + Len(x) + 1)..Len(s2) PROVE W(s2, h)[1] = "tok"
  <2>1. PICK g : g = h - Len(s) OBVIOUS
  <2>2. /\ g \in (Len(x) + 1)..(Len(x) + Len(u)) /\ g \in 1..Len(y) /\ h = Len(s) + g
        /\ Len(u) + Len(x) - g + 1 \in 1..Len(u)
    BY <1>1, <1>3, <1>4, <2>1
  <2>3. W(s2, h) = W(y, g) BY <1>5, <2>2
  <2>4. W(y, g) = u[Len(u) + Len(x) - g + 1] BY <1>3, <2>2
  <2> QED BY <1>1, <2>2, <2>3, <2>4
<1>8. Same(s, s2, Len(s))
  BY <1>1, <1>3, <1>4 DEF Same
<1> QED BY <1>1, <1>3, <1>4, <1>6, <1>7, <1>8 DEF Args

\* Words x pushed.
LEMMA PushFrame ==
    ASSUME NEW x \in Seq(Word), NEW s \in Seq(Word), NEW s2, s2 = x \o s
    PROVE  /\ s2 \in Seq(Word) /\ Len(s2) = Len(s) + Len(x) /\ Same(s, s2, Len(s))
           /\ \A h \in 1..Len(x) : W(s2, Len(s) + h) = x[Len(x) - h + 1]
<1>1. Len(x) \in Nat /\ Len(s) \in Nat
  OBVIOUS
<1>2. /\ s2 \in Seq(Word) /\ Len(s2) = Len(x) + Len(s)
      /\ \A h \in 1..Len(s) : W(s2, h) = W(s, h)
      /\ \A h \in (Len(s) + 1)..(Len(s) + Len(x)) : W(s2, h) = x[Len(x) + Len(s) - h + 1]
  BY PushWords
<1>3. ASSUME NEW h \in 1..Len(x) PROVE W(s2, Len(s) + h) = x[Len(x) - h + 1]
  <2>0. PICK g : g = Len(s) + h OBVIOUS
  <2>1. g \in (Len(s) + 1)..(Len(s) + Len(x)) /\ Len(x) + Len(s) - g + 1 = Len(x) - h + 1
    BY <1>1, <2>0
  <2>2. W(s2, g) = x[Len(x) + Len(s) - g + 1] BY <1>2, <2>1
  <2> QED BY <2>0, <2>1, <2>2
<1>4. Same(s, s2, Len(s))
  BY <1>1, <1>2 DEF Same
<1> QED BY <1>1, <1>2, <1>3, <1>4

\* The stack cut at height q.
LEMMA CutSame ==
    ASSUME NEW s \in Seq(Word), NEW q \in 0..Len(s), NEW s2, s2 = From(s, q) \/ s2 = SubSeq(s, Len(s) - q + 1, Len(s))
    PROVE  s2 \in Seq(Word) /\ Len(s2) = q /\ Same(s, s2, q)
<1>1. s2 = From(s, q) BY DEF From
<1>2. s2 \in Seq(Word) /\ Len(s2) = q /\ \A g \in 1..q : W(s2, g) = W(s, g)
  BY <1>1, CutWords
<1>3. Len(s) \in Nat /\ q \in Nat /\ q <= Len(s)
  OBVIOUS
<1> QED BY <1>2, <1>3 DEF Same

\* The arguments of a call are new tokens.
LEMMA FreshTokens ==
    ASSUME tick \in Nat, NEW n \in Nat
    PROVE  FreshArgs(n) \in Seq(Token) /\ Len(FreshArgs(n)) = n
<1>1. \A i \in 1..n : <<"tok", tick, i>> \in Token
  BY DEF Token
<1> QED BY <1>1 DEF FreshArgs

\* Stacks that agree with a third agree.
LEMMA SameTrans ==
    ASSUME NEW s, NEW s2, NEW s3, NEW q \in Nat, NEW r, Same(s, s2, q), Same(s2, s3, r), q <= r
    PROVE  Same(s, s3, q)
  BY DEF Same

-----------------------------------------------------------------------------
(* The invariant, opened and closed *)

\* Baseline code runs, on the machine entered at height ht[Len(native)].
AsmState(ht) ==
    /\ Types /\ TrapsLinked(stack, trapSp) /\ Chain(native, extRaise)
    /\ Structure(stack, Len(stack), native, ht) /\ Frame.k = "entry"
    /\ AsmOK(ht[Len(native)])

\* Optimised code or C runs.
NativeState(ht) ==
    /\ Types /\ TrapsLinked(stack, trapSp) /\ Chain(native, extRaise)
    /\ Structure(stack, Cur, native, ht)
    /\ NativeOK /\ ht[Len(native)] = Cur

\* What the structure says of the top frame.
LEMMA TopFrame ==
    ASSUME NEW s, NEW m, NEW n, NEW ht, Structure(s, m, n, ht)
    PROVE  /\ Len(n) \in Nat /\ Len(n) > 0 /\ n \in Seq(Frames) /\ n[Len(n)] \in Frames
           /\ ht[Len(n)] \in Nat /\ m \in Nat /\ m <= Len(s)
           /\ n[Len(n)].k = "entry" => Len(n) > 1
           /\ Len(n) > 1 => FrameAt(s, n[Len(n)], n[Len(n) - 1].k, ht[Len(n)], ht[Len(n) - 1])
<1>1. /\ n \in Seq(Frames) /\ Len(n) > 0 /\ ht \in [1..Len(n) -> Nat] /\ m \in 0..Len(s) /\ FramesOK(s, n, ht)
  BY DEF Structure
<1>2. Len(n) \in Nat /\ Len(n) \in 1..Len(n)
  BY <1>1
<1>3. n[1].k = "c" /\ \A i \in 2..Len(n) : FrameOK(s, n, ht, i)
  BY <1>1 DEF FramesOK
<1>4. ASSUME n[Len(n)].k = "entry" PROVE Len(n) > 1
  BY <1>1, <1>2, <1>3, <1>4
<1>5. ASSUME Len(n) > 1 PROVE FrameAt(s, n[Len(n)], n[Len(n) - 1].k, ht[Len(n)], ht[Len(n) - 1])
  <2>1. Len(n) \in 2..Len(n) BY <1>2, <1>5
  <2> QED BY <1>3, <2>1 DEF FrameOK
<1>6. m \in Nat /\ m <= Len(s)
  BY <1>1
<1>7. n[Len(n)] \in Frames /\ ht[Len(n)] \in Nat
  BY <1>1, <1>2
<1> QED BY <1>1, <1>2, <1>4, <1>5, <1>6, <1>7

\* The invariant at a label of baseline code.
LEMMA AsmOpen ==
    ASSUME IInv, pc \in AsmLabels
    PROVE  \E ht : AsmState(ht)
<1>1. PICK ht : Shape(ht)
  BY DEF IInv
<1>2. Cur = Len(stack)
  BY DEF Cur, Height, AsmLabels
<1> QED BY <1>1, <1>2 DEF IInv, Shape, ControlOK, AsmState

\* The invariant elsewhere.
LEMMA NativeOpen ==
    ASSUME IInv, pc \in {"opt", "opt_return", "apply_n", "c"}
    PROVE  \E ht : NativeState(ht)
<1>1. PICK ht : Shape(ht)
  BY DEF IInv
<1>2. Frame.k # "entry"
  BY <1>1 DEF Shape, ControlOK, NativeOK
<1> QED BY <1>1, <1>2 DEF IInv, Shape, ControlOK, NativeState

\* Closing it.
LEMMA AsmClose ==
    ASSUME NEW ht, AsmState(ht)', pc' \in AsmLabels
    PROVE  IInv'
<1>1. Cur' = Len(stack')
  BY DEF Cur, Height, AsmLabels
<1>2. NativeOK'
  BY DEF NativeOK, AsmLabels
<1>3. Shape(ht)'
  BY <1>1, <1>2 DEF Shape, ControlOK, AsmState
<1> QED BY <1>3 DEF IInv, AsmState

\* Closing it.
LEMMA NativeClose ==
    ASSUME NEW ht, NativeState(ht)', pc' \in {"opt", "opt_return", "apply_n", "c"}
    PROVE  IInv'
<1>1. pc' \notin AsmLabels
  BY DEF AsmLabels
<1>2. Shape(ht)'
  BY <1>1 DEF Shape, ControlOK, NativeState
<1> QED BY <1>2 DEF IInv, NativeState

\* A step of baseline code: the native stack stays as it is.
LEMMA AsmKeep ==
    ASSUME NEW ht, AsmState(ht), native' = native, extRaise' = extRaise, Types',
           Structure(stack', Len(stack'), native, ht), TrapsLinked(stack', trapSp'),
           pc' \in AsmLabels, NEW lo, lo = ht[Len(native)], AsmOK(lo)'
    PROVE  IInv'
<1>1. AsmOK(ht[Len(native)])'
  BY Zenon
<1>2. Frame.k = "entry" /\ Chain(native, extRaise)
  BY DEF AsmState
<1>3. Frame' = Frame
  BY DEF Frame
<1>4. AsmState(ht)'
  BY <1>1, <1>2, <1>3 DEF AsmState
<1> QED BY <1>4, AsmClose

-----------------------------------------------------------------------------
(* Steps of baseline code that leave both stacks alone *)

\* Such a step is right when the new label is.
LEMMA AsmOnly ==
    ASSUME NEW ht, AsmState(ht), UNCHANGED <<native, extRaise, stack, trapSp>>, Types',
           pc' \in AsmLabels, NEW lo, lo = ht[Len(native)], AsmOK(lo)'
    PROVE  IInv'
<1>1. Structure(stack', Len(stack'), native, ht) /\ TrapsLinked(stack', trapSp')
  BY DEF AsmState
<1> QED BY <1>1, AsmKeep

\* RAISE: the machine still stands above where it was entered.
LEMMA BaseRaiseStep == ASSUME IInv, BaseRaise PROVE IInv'
<1>1. PICK ht : AsmState(ht)
  BY AsmOpen DEF BaseRaise, AsmLabels
<1>2. PICK lo : lo = ht[Len(native)]
  OBVIOUS
<1>3. PICK f \in Funs : env = Clo(f) /\ Body(stack, f, extra, Len(stack), lo)
  BY <1>1, <1>2 DEF AsmState, AsmOK, BaseRaise, Height
<1>4. stack \in Seq(Word) /\ Len(stack) \in Nat /\ lo \in Nat
  BY <1>1, <1>2, TopFrame DEF AsmState, Types
<1>5. lo <= Len(stack)
  BY <1>3, <1>4, BodyAbove
<1>6. Types'
  <2>1. Self \in Funs BY <1>3, WordParts DEF Self
  <2>2. Exn(Self) \in Value BY <2>1, WordsAreWords
  <2>3. Types BY <1>1 DEF AsmState
  <2> QED BY <2>2, <2>3 DEF Types, BaseRaise, caml, bounds, Labels
<1>7. AsmOK(lo)'
  BY <1>5 DEF AsmOK, BaseRaise, Height
<1> QED BY <1>1, <1>2, <1>6, <1>7, AsmOnly DEF BaseRaise, AsmLabels, caml

\* ->apply without pending actions.
LEMMA ApplyStep1 ==
    ASSUME IInv, pc = "apply", env' = accu, pc' = "dispatch",
           UNCHANGED <<accu, extra, rdx, stack, caml, native, status, todo, bounds>>
    PROVE  IInv'
<1>1. PICK ht : AsmState(ht)
  BY AsmOpen DEF AsmLabels
<1>2. PICK lo : lo = ht[Len(native)]
  OBVIOUS
<1>3. Callee(accu) /\ Call(stack, 1 + extra, Len(stack), lo)
  BY <1>1, <1>2 DEF AsmState, AsmOK, Height
<1>4. Types'
  <2>1. Types /\ Value \subseteq Word BY <1>1, WordsAreWords DEF AsmState
  <2> QED BY <2>1 DEF Types, caml, bounds, Labels
<1>5. AsmOK(lo)'
  BY <1>3 DEF AsmOK, Height
<1> QED BY <1>1, <1>2, <1>4, <1>5, AsmOnly DEF AsmLabels, caml

\* The arity comparison.
LEMMA DispatchStep == ASSUME IInv, Dispatch PROVE IInv'
<1>1. PICK ht : AsmState(ht)
  BY AsmOpen DEF Dispatch, AsmLabels
<1>2. PICK lo : lo = ht[Len(native)]
  OBVIOUS
<1>3. Callee(accu) /\ Call(stack, 1 + extra, Len(stack), lo) /\ env = accu
  BY <1>1, <1>2 DEF AsmState, AsmOK, Height, Dispatch
<1>4. accu[1] = "clo" /\ accu[2] \in Funs
  <2>1. accu \in Value /\ accu[1] \in {"clo", "pap"} /\ accu[1] # "pap" BY <1>3 DEF Callee, Dispatch, IsPap
  <2> QED BY <2>1, WordKinds
<1>5. Types /\ extra \in Nat /\ Arity[accu[2]] \in Nat /\ Arity[accu[2]] >= 1
  BY <1>1, <1>4, FunsAssumption DEF AsmState, Types
<1>6. CASE extra < Arity[accu[2]] - 1
  <2>1. pc' = "grab" /\ UNCHANGED <<extra, accu, env, rdx, stack, caml, native, status, todo, bounds>>
    BY <1>6 DEF Dispatch
  <2>2. Types' BY <1>5, <2>1 DEF Types, caml, bounds, Labels
  <2>3. AsmOK(lo)' BY <1>3, <1>4, <2>1 DEF AsmOK, Height
  <2> QED BY <1>1, <1>2, <2>1, <2>2, <2>3, AsmOnly DEF AsmLabels, caml
<1>7. CASE ~(extra < Arity[accu[2]] - 1)
  <2>1. /\ pc' = "check_opt" /\ extra' = extra - (Arity[accu[2]] - 1)
        /\ UNCHANGED <<accu, env, rdx, stack, caml, native, status, todo, bounds>>
    BY <1>7 DEF Dispatch
  <2>2. extra' \in Nat /\ Arity[accu[2]] + extra' = 1 + extra BY <1>5, <1>7, <2>1
  <2>3. Types' BY <1>5, <2>1, <2>2 DEF Types, caml, bounds, Labels
  <2>4. Call(stack', Arity[accu'[2]] + extra', Len(stack'), lo) BY <1>3, <2>1, <2>2
  <2>5. AsmOK(lo)' BY <1>3, <1>4, <2>1, <2>4 DEF AsmOK, Height
  <2> QED BY <1>1, <1>2, <2>1, <2>3, <2>5, AsmOnly DEF AsmLabels, caml
<1> QED BY <1>6, <1>7

\* Tiering: the call is counted, or its function compiled, or baseline code entered.
LEMMA CheckOptStep == ASSUME IInv, CheckOptCount \/ CheckOptBytecall PROVE IInv'
<1>0. pc = "check_opt" /\ pc' \in {"base", "check_opt"} /\ UNCHANGED <<regs, stack, caml, native, todo, bounds>>
  BY DEF CheckOptCount, CheckOptBytecall
<1>1. PICK ht : AsmState(ht)
  BY <1>0, AsmOpen DEF AsmLabels
<1>2. PICK lo : lo = ht[Len(native)]
  OBVIOUS
<1>3. accu[1] = "clo" /\ env = accu /\ Call(stack, Arity[accu[2]] + extra, Len(stack), lo)
  BY <1>0, <1>1, <1>2 DEF AsmState, AsmOK, Height
<1>4. accu[2] \in Funs /\ accu = Clo(accu[2]) /\ Types /\ extra \in Nat
  BY <1>1, <1>3, WordKinds DEF AsmState, Types
<1>5. Body(stack, accu[2], extra, Len(stack), lo)
  BY <1>3, <1>4 DEF Body
<1>6. Types'
  BY <1>0, <1>4 DEF Types, caml, regs, bounds, Labels
<1>7. AsmOK(lo)'
  <2>1. CASE pc' = "base" BY <1>0, <1>3, <1>4, <1>5, <2>1 DEF AsmOK, Height, regs
  <2>2. CASE pc' = "check_opt" BY <1>0, <1>3, <1>4, <1>5, <2>2 DEF AsmOK, Height, regs
  <2> QED BY <1>0, <2>1, <2>2
<1> QED BY <1>0, <1>1, <1>2, <1>6, <1>7, AsmOnly DEF AsmLabels, caml

-----------------------------------------------------------------------------
(* Steps of baseline code that push on the OCaml stack or pop it *)

\* The OCaml stack changes above height q, where nothing waits.
LEMMA AsmStack ==
    ASSUME NEW ht, AsmState(ht), NEW q \in Nat, ht[Len(native)] <= q, NEW s2, Same(stack, s2, q),
           \A h \in (q + 1)..Len(s2) : PointOK(s2, h, native, ht)
    PROVE  Structure(s2, Len(s2), native, ht)
<1>1. Structure(stack, Len(stack), native, ht)
  BY DEF AsmState
<1>2. s2 \in Seq(Word) /\ q <= Len(stack) /\ q <= Len(s2) /\ Len(s2) \in Nat
  BY DEF Same
<1>3. Structure(s2, q, native, ht)
  BY <1>1, <1>2, KeepStructure
<1> QED BY <1>2, <1>3, MoreStructure

\* Arguments are no code addresses.
LEMMA ArgPoints ==
    ASSUME NEW s, NEW lo, NEW hi, Args(s, lo, hi), NEW n, NEW ht
    PROVE  \A h \in (lo + 1)..hi : PointOK(s, h, n, ht) /\ W(s, h) # Addr("trap")
<1>1. \A h \in (lo + 1)..hi : W(s, h)[1] = "tok"
  BY DEF Args
<1>2. ASSUME NEW h \in (lo + 1)..hi PROVE PointOK(s, h, n, ht) /\ W(s, h) # Addr("trap")
  <2>1. W(s, h)[1] = "tok" BY <1>1
  <2>2. W(s, h)[1] # "addr" /\ W(s, h) # Addr("trap") BY <2>1, WordParts
  <2> QED BY <2>2, PlainPoint
<1> QED BY <1>2

\* What a body may apply is a closure or a partial application.
LEMMA CallableCallee ==
    ASSUME accu \in Value, NEW v \in Callable
    PROVE  Callee(v) /\ v \in Value
<1>1. CASE v \in {Clo(f) : f \in Funs}
  BY <1>1, WordsAreWords, WordParts DEF Callee
<1>2. CASE v = accu /\ IsPap(accu)
  BY <1>2 DEF Callee, IsPap
<1> QED BY <1>1, <1>2 DEF Callable

\* APPLY: a return frame and the arguments.
LEMMA BaseApplyStep ==
    ASSUME IInv, NEW v \in Callable, NEW n \in 1..MaxArgs, BaseApply(v, n)
    PROVE  IInv'
<1>1. PICK ht : AsmState(ht)
  BY AsmOpen DEF BaseApply, AsmLabels
<1>2. PICK lo : lo = ht[Len(native)]
  OBVIOUS
<1>3. PICK f \in Funs : env = Clo(f) /\ Body(stack, f, extra, Len(stack), lo)
  BY <1>1, <1>2 DEF AsmState, AsmOK, BaseApply, Height
<1>4. /\ stack \in Seq(Word) /\ Len(stack) \in Nat /\ lo \in Nat /\ Types /\ extra \in Nat /\ tick \in Nat
      /\ accu \in Value /\ TrapsLinked(stack, trapSp)
  BY <1>1, <1>2, TopFrame DEF AsmState, Types
<1>5. Len(stack) >= lo + 4 /\ n \in Nat /\ n >= 1
  BY <1>3, <1>4, BodyAbove, BoundAssumption
<1>6. PICK l : l = Len(stack)
  OBVIOUS
<1>7. PICK x : x = <<Addr("base"), env, ValLong(extra)>>
  OBVIOUS
<1>8. x \in Seq(Word) /\ Len(x) = 3 /\ x[3] = ValLong(extra) /\ x[2] = Clo(f) /\ x[1] = Addr("base")
  <2>1. Addr("base") \in Word /\ env \in Word /\ ValLong(extra) \in Word
    BY <1>4, WordsAreWords DEF Labels, Types
  <2> QED BY <1>3, <1>7, <2>1
<1>9. /\ stack' \in Seq(Word) /\ Len(stack') = l + 3 + n /\ Same(stack, stack', l)
      /\ \A h \in 1..3 : W(stack', l + h) = x[3 - h + 1]
      /\ Args(stack', l + 3, Len(stack'))
  <2>1. FreshArgs(n) \in Seq(Token) /\ Len(FreshArgs(n)) = n BY <1>4, <1>5, FreshTokens
  <2>2. stack' = FreshArgs(n) \o x \o stack BY <1>7 DEF BaseApply, ReturnFrame
  <2>3. PICK u : u = FreshArgs(n) OBVIOUS
  <2>4. /\ stack' \in Seq(Word) /\ Len(stack') = Len(stack) + Len(x) + Len(u) /\ Same(stack, stack', Len(stack))
        /\ \A h \in 1..Len(x) : W(stack', Len(stack) + h) = x[Len(x) - h + 1]
        /\ Args(stack', Len(stack) + Len(x), Len(stack'))
    BY <1>4, <1>8, <2>1, <2>2, <2>3, PushCall
  <2> QED BY <1>6, <1>8, <2>1, <2>3, <2>4
<1>10. W(stack', l + 1) = ValLong(extra) /\ W(stack', l + 2) = Clo(f) /\ W(stack', l + 3) = Addr("base")
  <2>1. 3 - 1 + 1 = 3 /\ 3 - 2 + 1 = 2 /\ 3 - 3 + 1 = 1 OBVIOUS
  <2> QED BY <1>8, <1>9, <2>1
<1>11. \A h \in (l + 1)..Len(stack') : PointOK(stack', h, native, ht) /\ W(stack', h) # Addr("trap")
  <2>1. PointOK(stack', l + 1, native, ht) /\ W(stack', l + 1) # Addr("trap")
    BY <1>10, WordParts, PlainPoint
  <2>2. PointOK(stack', l + 2, native, ht) /\ W(stack', l + 2) # Addr("trap")
    BY <1>10, WordParts, PlainPoint
  <2>3. PointOK(stack', l + 3, native, ht) /\ W(stack', l + 3) # Addr("trap")
    <3>1. Body(stack', f, extra, l, lo) BY <1>3, <1>4, <1>6, <1>9, ContinuationKept
    <3>2. PICK h : h = l + 3 OBVIOUS
    <3>3. h \in Nat /\ h - 1 = l + 2 /\ h - 2 = l + 1 /\ h - 3 = l BY <1>4, <1>6, <3>2
    <3>4. PointOK(stack', h, native, ht)
      <4>1. W(stack', h) = Addr("base") /\ W(stack', h - 1) = Clo(f) /\ W(stack', h - 2) = ValLong(extra)
            /\ Body(stack', f, extra, h - 3, ht[Len(native)])
        BY <1>2, <1>10, <3>1, <3>2, <3>3
      <4> QED BY <1>1, <3>3, <4>1, BasePoint DEF AsmState
    <3>5. Addr("base")[2] = "base" /\ Addr("trap")[2] = "trap" BY WordParts
    <3> QED BY <1>10, <3>2, <3>4, <3>5
  <2>4. \A h \in (l + 3 + 1)..Len(stack') : PointOK(stack', h, native, ht) /\ W(stack', h) # Addr("trap")
    BY <1>9, ArgPoints
  <2>5. \A h \in (l + 1)..Len(stack') : h = l + 1 \/ h = l + 2 \/ h = l + 3 \/ h \in (l + 3 + 1)..Len(stack')
    BY <1>4, <1>6, <1>9
  <2> QED BY <2>1, <2>2, <2>3, <2>4, <2>5
<1>12. Structure(stack', Len(stack'), native, ht)
  <2>1. l \in Nat /\ ht[Len(native)] <= l BY <1>2, <1>4, <1>5, <1>6
  <2>2. \A h \in (l + 1)..Len(stack') : PointOK(stack', h, native, ht) BY <1>11
  <2> QED BY <1>1, <1>9, <2>1, <2>2, AsmStack
<1>13. TrapsLinked(stack', trapSp)
  <2>1. \A h \in (l + 1)..Len(stack) : W(stack, h) # Addr("trap") BY <1>4, <1>6
  <2> QED BY <1>4, <1>9, <1>11, <2>1, TrapsKept
<1>14. Callee(v) /\ v \in Value
  BY <1>4, CallableCallee
<1>15. Types'
  <2>1. extra' \in Nat /\ tick' \in Nat BY <1>4, <1>5 DEF BaseApply, StartOp
  <2> QED BY <1>4, <1>9, <1>14, <2>1 DEF Types, BaseApply, StartOp, caml, Labels
<1>16. Call(stack', n, Len(stack'), lo)
  <2>1. RetAt(stack', l + 3, lo)
    <3>1. l + 3 \in 3..Len(stack') /\ lo + 4 <= l + 3 /\ lo + 3 <= l + 3 BY <1>4, <1>5, <1>6, <1>9
    <3>2. PICK h : h = l + 3 OBVIOUS
    <3>3. h - 1 = l + 2 /\ h - 2 = l + 1 BY <1>4, <1>6, <3>2
    <3>4. RetAt(stack', h, lo) BY <1>4, <1>10, <3>1, <3>2, <3>3 DEF RetAt
    <3> QED BY <3>2, <3>4
  <2>2. Len(stack') - n = l + 3 /\ n \in Nat /\ Len(stack') \in 0..Len(stack') BY <1>4, <1>5, <1>6, <1>9
  <2> QED BY <1>9, <2>1, <2>2 DEF Call
<1>17. AsmOK(lo)'
  <2>1. 1 + extra' = n /\ pc' = "apply" /\ accu' = v BY <1>5 DEF BaseApply
  <2> QED BY <1>14, <1>16, <2>1 DEF AsmOK, Height
<1>18. pc' \in AsmLabels /\ native' = native /\ extRaise' = extRaise /\ trapSp' = trapSp
  BY DEF BaseApply, AsmLabels, caml
<1> QED BY <1>1, <1>2, <1>12, <1>13, <1>15, <1>17, <1>18, AsmKeep

\* Words of the stack, counted from r_sp.
LEMMA StackWord ==
    ASSUME stack \in Seq(Word), NEW i \in 1..Len(stack), NEW h, h = Len(stack) - i + 1
    PROVE  stack[i] = W(stack, h)
<1>1. Len(stack) - h + 1 = i /\ Len(stack) \in Nat
  OBVIOUS
<1> QED BY <1>1 DEF W

\* Drop pops words.
LEMMA DropSame ==
    ASSUME stack \in Seq(Word), NEW k \in 0..Len(stack), NEW q, q = Len(stack) - k
    PROVE  Drop(k) \in Seq(Word) /\ Len(Drop(k)) = q /\ Same(stack, Drop(k), q)
<1>1. Len(stack) \in Nat /\ q \in 0..Len(stack) /\ Len(stack) - q + 1 = k + 1
  OBVIOUS
<1>2. Drop(k) = SubSeq(stack, Len(stack) - q + 1, Len(stack))
  BY <1>1 DEF Drop
<1> QED BY <1>1, <1>2, CutSame

\* A body without a handler on top has its arguments there.
LEMMA BodyFlat ==
    ASSUME stack \in Seq(Word), NEW f, NEW lo \in Nat, Body(stack, f, extra, Len(stack), lo), ~OwnTrap
    PROVE  Call(stack, Arity[f] + extra, Len(stack), lo)
<1>1. Len(stack) \in Nat /\ Len(stack) >= 4
  BY BodyAbove
<1>2. stack[1] = W(stack, Len(stack))
  <2>1. 1 \in 1..Len(stack) /\ Len(stack) = Len(stack) - 1 + 1 BY <1>1
  <2> QED BY <2>1, StackWord
<1>3. ~TrapFrame(stack, Len(stack), f, extra)
  BY <1>2 DEF TrapFrame, OwnTrap
<1> QED BY <1>3 DEF Body

\* Some of the arguments of a call are replaced by others.
LEMMA AsmArgs ==
    ASSUME NEW ht, AsmState(ht), NEW lo, lo = ht[Len(native)], NEW n, Call(stack, n, Len(stack), lo),
           NEW k \in 0..n, NEW s2, NEW q, q = Len(stack) - k, Same(stack, s2, q), Args(s2, q, Len(s2)),
           NEW n2, n2 = n - k + (Len(s2) - q)
    PROVE  /\ Structure(s2, Len(s2), native, ht) /\ TrapsLinked(s2, trapSp)
           /\ Call(s2, n2, Len(s2), lo)
<1>1. /\ stack \in Seq(Word) /\ Len(stack) \in Nat /\ lo \in Nat /\ Len(s2) \in Nat /\ s2 \in Seq(Word)
      /\ q \in Nat /\ q <= Len(s2) /\ TrapsLinked(stack, trapSp)
  BY TopFrame DEF AsmState, Types, Same
<1>2. n \in Nat /\ Args(stack, Len(stack) - n, Len(stack)) /\ RetAt(stack, Len(stack) - n, lo)
  BY DEF Call
<1>3. Len(stack) - n \in 3..Len(stack) /\ lo + 3 <= Len(stack) - n
  BY <1>2 DEF RetAt
<1>4. Len(stack) - n <= q /\ lo <= q
  <2>1. k \in 0..n /\ q = Len(stack) - k OBVIOUS
  <2> QED BY ONLY <1>1, <1>2, <1>3, <2>1
<1>5. \A h \in (q + 1)..Len(s2) : PointOK(s2, h, native, ht) /\ W(s2, h) # Addr("trap")
  BY ArgPoints
<1>6. Structure(s2, Len(s2), native, ht)
  BY <1>1, <1>4, <1>5, AsmStack
<1>7. TrapsLinked(s2, trapSp)
  <2>1. \A h \in (Len(stack) - n + 1)..Len(stack) : W(stack, h) # Addr("trap") BY <1>2, ArgPoints
  <2>2. \A h \in (q + 1)..Len(stack) : h \in (Len(stack) - n + 1)..Len(stack) BY <1>1, <1>2, <1>4
  <2> QED BY <1>1, <1>5, <2>1, <2>2, TrapsKept
<1>8. Call(s2, n2, Len(s2), lo)
  <2>1. PICK r : r = Len(stack) - n OBVIOUS
  <2>2. r \in Int /\ r <= q /\ r >= 3 BY <1>1, <1>3, <1>4, <2>1
  <2>3. RetAt(s2, r, lo) BY <1>1, <1>2, <2>1, <2>2, ContinuationKept
  <2>4. Len(s2) - n2 = r /\ n2 \in Nat BY <1>1, <1>2, <2>1
  <2>5. Args(s2, r, Len(s2))
    <3>1. ASSUME NEW h \in (r + 1)..Len(s2) PROVE W(s2, h)[1] = "tok"
      <4>1. CASE h \in (q + 1)..Len(s2) BY <4>1 DEF Args
      <4>2. CASE h \in (r + 1)..q
        <5>1. h \in 1..q /\ h \in (r + 1)..Len(stack) BY <1>1, <2>2, <4>2
        <5>2. W(s2, h) = W(stack, h) BY <5>1 DEF Same
        <5> QED BY <1>2, <2>1, <5>1, <5>2 DEF Args
      <4> QED BY <1>1, <2>2, <4>1, <4>2
    <3> QED BY <3>1 DEF Args
  <2> QED BY <1>1, <2>3, <2>4, <2>5 DEF Call
<1> QED BY <1>6, <1>7, <1>8

\* Words under the top of the stack are as they were, those above are arguments.
LEMMA TokensOver ==
    ASSUME NEW u \in Seq(Token), NEW s \in Seq(Word), NEW s2, s2 = u \o s
    PROVE  /\ s2 \in Seq(Word) /\ Len(s2) = Len(s) + Len(u) /\ Same(s, s2, Len(s))
           /\ Args(s2, Len(s), Len(s2))
<1>1. u \in Seq(Word) /\ Len(u) \in Nat /\ Len(s) \in Nat /\ \A i \in 1..Len(u) : u[i][1] = "tok"
  <2>1. Token \subseteq Word BY WordsAreWords
  <2>2. \A i \in 1..Len(u) : u[i] \in Token OBVIOUS
  <2> QED BY <2>1, <2>2, WordKinds
<1>2. /\ s2 \in Seq(Word) /\ Len(s2) = Len(s) + Len(u) /\ Same(s, s2, Len(s))
      /\ \A h \in 1..Len(u) : W(s2, Len(s) + h) = u[Len(u) - h + 1]
  BY <1>1, PushFrame
<1>3. ASSUME NEW h \in (Len(s) + 1)..Len(s2) PROVE W(s2, h)[1] = "tok"
  <2>1. PICK g : g = h - Len(s) OBVIOUS
  <2>2. g \in 1..Len(u) /\ h = Len(s) + g /\ Len(u) - g + 1 \in 1..Len(u) BY <1>1, <1>2, <2>1
  <2>3. W(s2, h) = u[Len(u) - g + 1] BY <1>2, <2>2
  <2> QED BY <1>1, <2>2, <2>3
<1> QED BY <1>2, <1>3 DEF Args

\* APPTERM: the arguments of the caller are replaced by those of the callee.
LEMMA BaseApplyTermStep ==
    ASSUME IInv, NEW v \in Callable, NEW n \in 1..MaxArgs, BaseApplyTerm(v, n)
    PROVE  IInv'
<1>1. PICK ht : AsmState(ht)
  BY AsmOpen DEF BaseApplyTerm, AsmLabels
<1>2. PICK lo : lo = ht[Len(native)]
  OBVIOUS
<1>3. PICK f \in Funs : env = Clo(f) /\ Body(stack, f, extra, Len(stack), lo)
  BY <1>1, <1>2 DEF AsmState, AsmOK, BaseApplyTerm, Height
<1>4. /\ stack \in Seq(Word) /\ Len(stack) \in Nat /\ lo \in Nat /\ Types /\ extra \in Nat /\ tick \in Nat
      /\ accu \in Value
  BY <1>1, <1>2, TopFrame DEF AsmState, Types
<1>5. Call(stack, Arity[f] + extra, Len(stack), lo) /\ Self = f
  BY <1>3, <1>4, BodyFlat, WordParts DEF BaseApplyTerm, Self
<1>6. /\ Arity[f] \in Nat /\ Arity[f] \in 0..(Arity[f] + extra) /\ n \in Nat /\ n >= 1
      /\ Len(stack) >= Arity[f] + extra
  BY <1>4, <1>5, FunsAssumption, BoundAssumption, BodyAbove
<1>7. PICK q : q = Len(stack) - Arity[f]
  OBVIOUS
<1>8. Drop(Arity[f]) \in Seq(Word) /\ Len(Drop(Arity[f])) = q /\ Same(stack, Drop(Arity[f]), q) /\ q \in Nat
  <2>1. Arity[f] \in 0..Len(stack) /\ q \in Nat BY <1>4, <1>6, <1>7
  <2> QED BY <1>4, <1>7, <2>1, DropSame
<1>9. stack' \in Seq(Word) /\ Len(stack') = q + n /\ Same(stack, stack', q) /\ Args(stack', q, Len(stack'))
  <2>1. FreshArgs(n) \in Seq(Token) /\ Len(FreshArgs(n)) = n BY <1>4, <1>6, FreshTokens
  <2>2. PICK d : d = Drop(Arity[f]) OBVIOUS
  <2>3. PICK u : u = FreshArgs(n) OBVIOUS
  <2>4. stack' = u \o d BY <1>5, <2>2, <2>3 DEF BaseApplyTerm
  <2>5. /\ stack' \in Seq(Word) /\ Len(stack') = Len(d) + Len(u) /\ Same(d, stack', Len(d))
        /\ Args(stack', Len(d), Len(stack'))
    BY <1>8, <2>1, <2>2, <2>3, <2>4, TokensOver
  <2>6. Same(d, stack', q) /\ Same(stack, d, q) /\ q <= q BY <1>8, <2>2, <2>5
  <2>7. Same(stack, stack', q) BY <1>8, <2>6, SameTrans
  <2> QED BY <1>8, <2>1, <2>2, <2>3, <2>5, <2>7
<1>10. /\ Structure(stack', Len(stack'), native, ht) /\ TrapsLinked(stack', trapSp)
       /\ Call(stack', extra + n, Len(stack'), lo)
  <2>1. PICK m : m = Arity[f] + extra OBVIOUS
  <2>2. PICK k : k = Arity[f] OBVIOUS
  <2>3. PICK n2 : n2 = extra + n OBVIOUS
  <2>4. k \in 0..m /\ n2 = m - k + (Len(stack') - q) /\ q = Len(stack) - k
    <3>1. Len(stack) \in Nat /\ extra \in Nat /\ k \in Nat /\ n \in Nat /\ q \in Nat BY <1>4, <1>6, <1>8, <2>2
    <3>2. Len(stack') = q + n /\ q = Len(stack) - k /\ m = k + extra BY <1>7, <1>9, <2>1, <2>2
    <3> QED BY ONLY <2>3, <3>1, <3>2
  <2>5. Call(stack, m, Len(stack), lo) BY <1>5, <2>1
  <2> QED BY <1>1, <1>2, <1>9, <2>3, <2>4, <2>5, AsmArgs
<1>11. Callee(v) /\ v \in Value
  BY <1>4, CallableCallee
<1>12. extra' = extra + (n - 1) /\ pc' = "apply" /\ accu' = v /\ extra' \in Nat
  BY <1>4, <1>6 DEF BaseApplyTerm
<1>13. Types'
  BY <1>4, <1>9, <1>11, <1>12 DEF Types, BaseApplyTerm, StartOp, caml, Labels
<1>14. AsmOK(lo)'
  <2>1. 1 + extra' = extra + n BY <1>4, <1>6, <1>12
  <2>2. Call(stack', 1 + extra', Len(stack'), lo) BY <1>10, <2>1
  <2> QED BY <1>11, <1>12, <2>2 DEF AsmOK, Height
<1>15. pc' \in AsmLabels /\ native' = native /\ extRaise' = extRaise /\ trapSp' = trapSp
  BY DEF BaseApplyTerm, AsmLabels, caml
<1> QED BY <1>1, <1>2, <1>10, <1>13, <1>14, <1>15, AsmKeep

\* RETURN: the arguments are popped.
LEMMA BaseReturnStep ==
    ASSUME IInv, NEW v, BaseReturn(v)
    PROVE  IInv'
<1>1. PICK ht : AsmState(ht)
  BY AsmOpen DEF BaseReturn, AsmLabels
<1>2. PICK lo : lo = ht[Len(native)]
  OBVIOUS
<1>3. PICK f \in Funs : env = Clo(f) /\ Body(stack, f, extra, Len(stack), lo)
  BY <1>1, <1>2 DEF AsmState, AsmOK, BaseReturn, Height
<1>4. /\ stack \in Seq(Word) /\ Len(stack) \in Nat /\ lo \in Nat /\ Types /\ extra \in Nat
      /\ accu \in Value
  BY <1>1, <1>2, TopFrame DEF AsmState, Types
<1>5. Call(stack, Arity[f] + extra, Len(stack), lo) /\ Self = f
  BY <1>3, <1>4, BodyFlat, WordParts DEF BaseReturn, Self
<1>6. /\ Arity[f] \in Nat /\ Arity[f] \in 0..(Arity[f] + extra)
      /\ Len(stack) >= Arity[f] + extra
  BY <1>4, <1>5, FunsAssumption, BodyAbove
<1>7. PICK q : q = Len(stack) - Arity[f]
  OBVIOUS
<1>8. /\ stack' \in Seq(Word) /\ Len(stack') = q /\ Same(stack, stack', q) /\ q \in Nat
      /\ Args(stack', q, Len(stack'))
  <2>1. Arity[f] \in 0..Len(stack) /\ q \in Nat BY <1>4, <1>6, <1>7
  <2>2. stack' = Drop(Arity[f]) BY <1>5 DEF BaseReturn
  <2>3. stack' \in Seq(Word) /\ Len(stack') = q /\ Same(stack, stack', q) BY <1>4, <1>7, <2>1, <2>2, DropSame
  <2>4. Args(stack', q, Len(stack')) BY <2>1, <2>3 DEF Args
  <2> QED BY <2>1, <2>3, <2>4
<1>9. /\ Structure(stack', Len(stack'), native, ht) /\ TrapsLinked(stack', trapSp)
      /\ Call(stack', extra, Len(stack'), lo)
  <2>1. PICK m : m = Arity[f] + extra OBVIOUS
  <2>2. PICK k : k = Arity[f] OBVIOUS
  <2>4. k \in 0..m /\ extra = m - k + (Len(stack') - q) /\ q = Len(stack) - k
    BY <1>4, <1>6, <1>7, <1>8, <2>1, <2>2
  <2>5. Call(stack, m, Len(stack), lo) BY <1>5, <2>1
  <2> QED BY <1>1, <1>2, <1>8, <2>4, <2>5, AsmArgs
<1>10. v \in Value /\ (extra # 0 => Callee(v))
  <2>1. CASE extra = 0
    <3>1. v = Res(f) \/ v = accu BY <1>5, <2>1 DEF BaseReturn, Returnable
    <3> QED BY <1>3, <1>4, <2>1, <3>1, WordsAreWords
  <2>2. CASE extra # 0
    <3>1. v \in Callable BY <2>2 DEF BaseReturn, Returnable
    <3> QED BY <1>4, <3>1, CallableCallee
  <2> QED BY <2>1, <2>2
<1>11. extra' = extra /\ pc' = "return" /\ accu' = v
  BY DEF BaseReturn
<1>12. Types'
  BY <1>4, <1>8, <1>10, <1>11 DEF Types, BaseReturn, bounds, caml, Labels
<1>13. AsmOK(lo)'
  <2>2. Call(stack', extra', Len(stack'), lo) BY <1>9, <1>11
  <2> QED BY <1>10, <1>11, <2>2 DEF AsmOK, Height
<1>14. pc' \in AsmLabels /\ native' = native /\ extRaise' = extRaise /\ trapSp' = trapSp
  BY DEF BaseReturn, AsmLabels, caml
<1> QED BY <1>1, <1>2, <1>9, <1>12, <1>13, <1>14, AsmKeep

\* A partial application unpacked over the arguments.
LEMMA RestartStep == ASSUME IInv, Restart PROVE IInv'
<1>1. PICK ht : AsmState(ht)
  BY AsmOpen DEF Restart, AsmLabels
<1>2. PICK lo : lo = ht[Len(native)]
  OBVIOUS
<1>3. Callee(accu) /\ Call(stack, 1 + extra, Len(stack), lo) /\ env = accu
  BY <1>1, <1>2 DEF AsmState, AsmOK, Height, Restart
<1>4. /\ stack \in Seq(Word) /\ Len(stack) \in Nat /\ lo \in Nat /\ Types /\ extra \in Nat
  BY <1>1, <1>2, TopFrame DEF AsmState, Types
<1>5. env[2] \in Funs /\ env[3] \in Seq(Token) /\ Len(env[3]) \in Nat
  <2>1. env \in Value /\ env[1] = "pap" BY <1>3 DEF Callee, Restart, IsPap
  <2> QED BY <2>1, WordKinds
<1>6. PICK u : u = env[3]
  OBVIOUS
<1>7. /\ stack' \in Seq(Word) /\ Len(stack') = Len(stack) + Len(u) /\ Same(stack, stack', Len(stack))
      /\ Args(stack', Len(stack), Len(stack'))
  BY <1>4, <1>5, <1>6, TokensOver DEF Restart
<1>8. /\ Structure(stack', Len(stack'), native, ht) /\ TrapsLinked(stack', trapSp)
      /\ Call(stack', 1 + (extra + Len(u)), Len(stack'), lo)
  <2>1. PICK m : m = 1 + extra OBVIOUS
  <2>2. PICK n2 : n2 = 1 + (extra + Len(u)) OBVIOUS
  <2>3. PICK q : q = Len(stack) OBVIOUS
  <2>4. PICK k : k = 0 OBVIOUS
  <2>5. k \in 0..m /\ q = Len(stack) - k /\ n2 = m - k + (Len(stack') - q)
    <3>1. Len(stack) \in Nat /\ extra \in Nat /\ Len(u) \in Nat BY <1>4, <1>5, <1>6
    <3>2. Len(stack') = Len(stack) + Len(u) BY <1>7
    <3> QED BY ONLY <2>1, <2>2, <2>3, <2>4, <3>1, <3>2
  <2>6. Call(stack, m, Len(stack), lo) /\ Same(stack, stack', q) /\ Args(stack', q, Len(stack'))
    BY <1>3, <1>7, <2>1, <2>3
  <2> QED BY <1>1, <1>2, <2>2, <2>5, <2>6, AsmArgs
<1>9. extra' = extra + Len(u) /\ extra' \in Nat /\ pc' = "apply" /\ accu' = Clo(env[2])
  BY <1>4, <1>5, <1>6 DEF Restart
<1>10. Callee(accu') /\ accu' \in Value
  BY <1>5, <1>9, WordsAreWords, WordParts DEF Callee
<1>11. Types'
  BY <1>4, <1>7, <1>9, <1>10 DEF Types, Restart, bounds, caml, Labels
<1>12. AsmOK(lo)'
  <2>2. Call(stack', 1 + extra', Len(stack'), lo) BY <1>8, <1>9
  <2> QED BY <1>9, <1>10, <2>2 DEF AsmOK, Height
<1>13. pc' \in AsmLabels /\ native' = native /\ extRaise' = extRaise /\ trapSp' = trapSp
  BY DEF Restart, AsmLabels, caml
<1> QED BY <1>1, <1>2, <1>8, <1>11, <1>12, <1>13, AsmKeep

-----------------------------------------------------------------------------
(* Handlers of baseline code *)

\* PUSHTRAP.
LEMMA BasePushTrapStep == ASSUME IInv, BasePushTrap PROVE IInv'
<1>1. PICK ht : AsmState(ht)
  BY AsmOpen DEF BasePushTrap, AsmLabels
<1>2. PICK lo : lo = ht[Len(native)]
  OBVIOUS
<1>3. PICK f \in Funs : env = Clo(f) /\ Body(stack, f, extra, Len(stack), lo)
  BY <1>1, <1>2 DEF AsmState, AsmOK, BasePushTrap, Height
<1>4. /\ stack \in Seq(Word) /\ Len(stack) \in Nat /\ lo \in Nat /\ Types /\ extra \in Nat /\ trapSp \in Nat
      /\ tick \in Nat /\ TrapsLinked(stack, trapSp)
  BY <1>1, <1>2, TopFrame DEF AsmState, Types
<1>5. PICK l : l = Len(stack)
  OBVIOUS
<1>6. l >= lo + 4 /\ l \in Nat
  BY <1>3, <1>4, <1>5, BodyAbove
<1>7. PICK x : x = <<Addr("trap"), Link(trapSp), env, ValLong(extra)>>
  OBVIOUS
<1>8. /\ x \in Seq(Word) /\ Len(x) = 4
      /\ x[4] = ValLong(extra) /\ x[3] = Clo(f) /\ x[2] = Link(trapSp) /\ x[1] = Addr("trap")
  <2>1. Addr("trap") \in Word /\ env \in Word /\ ValLong(extra) \in Word /\ Link(trapSp) \in Word
    BY <1>4, WordsAreWords DEF Types
  <2> QED BY <1>3, <1>7, <2>1
<1>9. /\ stack' \in Seq(Word) /\ Len(stack') = l + 4 /\ Same(stack, stack', l)
      /\ \A h \in 1..4 : W(stack', l + h) = x[4 - h + 1]
  <2>1. stack' = x \o stack BY <1>7 DEF BasePushTrap
  <2>2. /\ stack' \in Seq(Word) /\ Len(stack') = Len(stack) + Len(x) /\ Same(stack, stack', Len(stack))
        /\ \A h \in 1..Len(x) : W(stack', Len(stack) + h) = x[Len(x) - h + 1]
    BY <1>4, <1>8, <2>1, PushFrame
  <2> QED BY <1>5, <1>8, <2>2
<1>10. /\ W(stack', l + 1) = ValLong(extra) /\ W(stack', l + 2) = Clo(f)
       /\ W(stack', l + 3) = Link(trapSp) /\ W(stack', l + 4) = Addr("trap")
  <2>1. 4 - 1 + 1 = 4 /\ 4 - 2 + 1 = 3 /\ 4 - 3 + 1 = 2 /\ 4 - 4 + 1 = 1 OBVIOUS
  <2> QED BY <1>8, <1>9, <2>1
<1>11. PICK t : t = l + 4
  OBVIOUS
<1>12. t \in Nat /\ t - 1 = l + 3 /\ t - 2 = l + 2 /\ t - 3 = l + 1 /\ t - 4 = l /\ t \in 4..Len(stack')
  BY <1>6, <1>9, <1>11
<1>13. TrapFrame(stack', t, f, extra)
  BY <1>10, <1>11, <1>12, WordParts DEF TrapFrame
<1>14. Structure(stack', Len(stack'), native, ht)
  <2>1. PointOK(stack', l + 1, native, ht) /\ PointOK(stack', l + 2, native, ht) /\ PointOK(stack', l + 3, native, ht)
    BY <1>10, WordParts, PlainPoint
  <2>2. PointOK(stack', t, native, ht)
    <3>1. Body(stack', f, extra, l, lo) BY <1>3, <1>4, <1>5, <1>9, ContinuationKept
    <3>2. Body(stack', f, extra, t - 4, ht[Len(native)]) BY <1>2, <1>12, <3>1
    <3> QED BY <1>1, <1>12, <1>13, <3>2, TrapPoint DEF AsmState
  <2>3. \A h \in (l + 1)..Len(stack') : h = l + 1 \/ h = l + 2 \/ h = l + 3 \/ h = t
    BY <1>6, <1>9, <1>11
  <2>4. \A h \in (l + 1)..Len(stack') : PointOK(stack', h, native, ht) BY <2>1, <2>2, <2>3
  <2>5. l \in Nat /\ ht[Len(native)] <= l BY <1>2, <1>4, <1>6
  <2> QED BY <1>1, <1>9, <2>4, <2>5, AsmStack
<1>15. TrapsLinked(stack', trapSp') /\ trapSp' \in Nat
  <2>1. ValLong(extra) # Addr("trap") /\ Clo(f) # Addr("trap")
    <3>1. ValLong(extra)[1] = "long" /\ Clo(f)[1] = "clo" /\ Addr("trap")[1] = "addr" BY WordParts
    <3> QED BY <3>1
  <2>2. TrapsLinked(stack', Len(stack) + 4)
    <3>1. /\ W(stack', Len(stack) + 4) = Addr("trap") /\ W(stack', Len(stack) + 3) = Link(trapSp)
          /\ W(stack', Len(stack) + 2) # Addr("trap") /\ W(stack', Len(stack) + 1) # Addr("trap")
          /\ Len(stack') = Len(stack) + 4 /\ Same(stack, stack', Len(stack))
      BY <1>5, <1>9, <1>10, <2>1
    <3> QED BY <1>4, <3>1, TrapPushed
  <2> QED BY <1>4, <2>2 DEF BasePushTrap, Height
<1>16. Types'
  <2>1. tick' \in Nat BY <1>4 DEF BasePushTrap, StartOp
  <2> QED BY <1>4, <1>9, <1>15, <2>1 DEF Types, BasePushTrap, StartOp, regs
<1>17. AsmOK(lo)'
  <2>1. t = Len(stack') /\ lo + 4 <= t BY <1>4, <1>6, <1>9, <1>11
  <2>2. Body(stack', f, extra, Len(stack'), lo) BY <1>4, <1>13, <2>1 DEF Body
  <2> QED BY <1>3, <2>2 DEF AsmOK, Height, BasePushTrap, regs
<1>18. pc' \in AsmLabels /\ native' = native /\ extRaise' = extRaise
  BY DEF BasePushTrap, AsmLabels
<1> QED BY <1>1, <1>2, <1>14, <1>15, <1>16, <1>17, <1>18, AsmKeep

\* A trap frame of the running machine that is cut off, with everything above it:
\* its body goes on.
LEMMA BackToTrap ==
    ASSUME NEW ht, AsmState(ht), NEW lo, lo = ht[Len(native)], NEW t, t = trapSp, lo < t,
           NEW s2, Same(stack, s2, t - 4), Len(s2) = t - 4
    PROVE  /\ t \in 4..Len(stack) /\ W(stack, t - 1)[2] \in Nat /\ TrapsLinked(s2, W(stack, t - 1)[2])
           /\ Structure(s2, Len(s2), native, ht)
           /\ \E f \in Funs, e \in Nat :
                W(stack, t - 2) = Clo(f) /\ W(stack, t - 3) = ValLong(e) /\ Body(s2, f, e, Len(s2), lo)
<1>1. /\ stack \in Seq(Word) /\ Len(stack) \in Nat /\ lo \in Nat /\ t \in Nat /\ Len(native) \in 1..Len(native)
      /\ TrapsLinked(stack, t) /\ Structure(stack, Len(stack), native, ht)
  BY TopFrame DEF AsmState, Types
<1>2. t \in 1..Len(stack) /\ W(stack, t) = Addr("trap")
  BY <1>1 DEF TrapsLinked, TopTrap
<1>3. PointOK(stack, t, native, ht)
  BY <1>1, <1>2 DEF Structure, Points
<1>4. PICK f \in Funs, e \in Nat :
        /\ TrapFrame(stack, t, f, e)
        /\ \A j \in 1..Len(native) : ht[j] < t => Body(stack, f, e, t - 4, ht[j])
  BY <1>2, <1>3 DEF PointOK
<1>5. Body(stack, f, e, t - 4, lo)
  BY <1>1, <1>4
<1>6. t \in 4..Len(stack) /\ W(stack, t - 2) = Clo(f) /\ W(stack, t - 3) = ValLong(e)
  BY <1>4 DEF TrapFrame
<1>7. t - 4 \in Nat /\ t - 4 >= lo /\ t - 4 <= t - 4
  BY <1>1, <1>5, <1>6, BodyAbove
<1>8. Body(s2, f, e, Len(s2), lo)
  BY <1>1, <1>5, <1>7, ContinuationKept
<1>9. Structure(s2, Len(s2), native, ht)
  <2>1. PICK q : q = t - 4 OBVIOUS
  <2>2. \A h \in (q + 1)..Len(s2) : PointOK(s2, h, native, ht) BY <1>7, <2>1
  <2>3. q \in Nat /\ ht[Len(native)] <= q /\ Same(stack, s2, q) BY <1>1, <1>7, <2>1
  <2> QED BY <2>2, <2>3, AsmStack
<1>10. W(stack, t - 1)[2] \in Nat /\ TrapsLinked(s2, W(stack, t - 1)[2])
  <2>1. W(stack, t - 2) # Addr("trap") /\ W(stack, t - 3) # Addr("trap")
    <3>1. ValLong(e)[1] = "long" /\ Clo(f)[1] = "clo" /\ Addr("trap")[1] = "addr" BY WordParts
    <3> QED BY <1>6, <3>1
  <2>2. t >= 4 BY <1>6
  <2> QED BY <1>1, <2>1, <2>2, TrapPopped
<1> QED BY <1>4, <1>6, <1>8, <1>9, <1>10

\* POPTRAP: the handler popped is the innermost one.
LEMMA BasePopTrapStep == ASSUME IInv, BasePopTrap PROVE IInv'
<1>1. PICK ht : AsmState(ht)
  BY AsmOpen DEF BasePopTrap, AsmLabels
<1>2. PICK lo : lo = ht[Len(native)]
  OBVIOUS
<1>3. PICK f \in Funs : env = Clo(f) /\ Body(stack, f, extra, Len(stack), lo)
  BY <1>1, <1>2 DEF AsmState, AsmOK, BasePopTrap, Height
<1>4. /\ stack \in Seq(Word) /\ Len(stack) \in Nat /\ lo \in Nat /\ Types /\ extra \in Nat
      /\ TrapsLinked(stack, trapSp)
  BY <1>1, <1>2, TopFrame DEF AsmState, Types
<1>5. Len(stack) >= lo + 4 /\ Len(stack) >= 4
  BY <1>3, <1>4, BodyAbove
<1>6. PICK t : t = Len(stack)
  OBVIOUS
<1>7. stack[1] = W(stack, t) /\ stack[2] = W(stack, t - 1)
  <2>1. 1 \in 1..Len(stack) /\ t = Len(stack) - 1 + 1 BY <1>4, <1>5, <1>6
  <2>2. 2 \in 1..Len(stack) /\ t - 1 = Len(stack) - 2 + 1 BY <1>4, <1>5, <1>6
  <2> QED BY <1>4, <2>1, <2>2, StackWord
<1>8. W(stack, t) = Addr("trap")
  BY <1>7 DEF BasePopTrap, OwnTrap
<1>9. t = trapSp
  <2>1. trapSp \in 0..t /\ \A h \in 1..t : W(stack, h) = Addr("trap") => h <= trapSp
    BY <1>4, <1>6 DEF TrapsLinked, TopTrap
  <2> QED BY <1>4, <1>5, <1>6, <1>8, <2>1
<1>10. TrapFrame(stack, t, f, extra)
  <2>1. CASE Call(stack, Arity[f] + extra, Len(stack), lo)
    <3>1. PICK n : n = Arity[f] + extra OBVIOUS
    <3>2. n >= 1 /\ n \in Nat BY <1>4, <3>1, FunsAssumption
    <3>3. Args(stack, t - n, t) /\ t \in (t - n + 1)..t BY <1>4, <1>6, <2>1, <3>1, <3>2 DEF Call
    <3>4. W(stack, t)[1] = "tok" BY <3>3 DEF Args
    <3> QED BY <1>8, <3>4, WordParts
  <2> QED BY <1>3, <1>6, <2>1 DEF Body
<1>11. stack' \in Seq(Word) /\ Len(stack') = t - 4 /\ Same(stack, stack', t - 4)
  <2>1. PICK q : q = t - 4 OBVIOUS
  <2>2. 4 \in 0..Len(stack) /\ q = Len(stack) - 4 BY <1>4, <1>5, <1>6, <2>1
  <2>3. stack' = Drop(4) BY DEF BasePopTrap
  <2> QED BY <1>4, <2>1, <2>2, <2>3, DropSame
<1>12. lo < t
  BY <1>4, <1>5, <1>6
<1>13. /\ W(stack, t - 1)[2] \in Nat /\ TrapsLinked(stack', W(stack, t - 1)[2])
       /\ Structure(stack', Len(stack'), native, ht)
       /\ \E g \in Funs, e \in Nat :
            W(stack, t - 2) = Clo(g) /\ W(stack, t - 3) = ValLong(e) /\ Body(stack', g, e, Len(stack'), lo)
  BY <1>1, <1>2, <1>9, <1>11, <1>12, BackToTrap
<1>14. Body(stack', f, extra, Len(stack'), lo)
  <2>1. PICK g \in Funs, e \in Nat :
          W(stack, t - 2) = Clo(g) /\ W(stack, t - 3) = ValLong(e) /\ Body(stack', g, e, Len(stack'), lo)
    BY <1>13
  <2>2. W(stack, t - 2) = Clo(f) /\ W(stack, t - 3) = ValLong(extra) BY <1>10 DEF TrapFrame
  <2>3. Clo(f)[2] = f /\ Clo(g)[2] = g /\ ValLong(extra)[2] = extra /\ ValLong(e)[2] = e BY WordParts
  <2> QED BY <2>1, <2>2, <2>3
<1>15. trapSp' = W(stack, t - 1)[2]
  BY <1>7 DEF BasePopTrap, LongVal
<1>16. Types'
  BY <1>4, <1>11, <1>13, <1>15 DEF Types, BasePopTrap, bounds, regs
<1>17. AsmOK(lo)'
  BY <1>3, <1>14 DEF AsmOK, Height, BasePopTrap, regs
<1>18. pc' \in AsmLabels /\ native' = native /\ extRaise' = extRaise
  BY DEF BasePopTrap, AsmLabels
<1> QED BY <1>1, <1>2, <1>13, <1>15, <1>16, <1>17, <1>18, AsmKeep

\* The stack s seen from a pointer of height t is s1; s2 is what is left of it when
\* the k words before the j-th are popped, up to height q.
Popped(s, t, s1, k, j, q, s2) ==
    /\ s \in Seq(Word) /\ t \in 0..Len(s) /\ s1 = From(s, t)
    /\ k \in 0..t /\ j = k + 1 /\ q = t - k /\ s2 = SubSeq(s1, j, Len(s1))

\* What such a pop leaves, and the words above it.
LEMMA CutTwice ==
    ASSUME NEW s, NEW t, NEW s1, NEW k, NEW j, NEW q, NEW s2, Popped(s, t, s1, k, j, q, s2)
    PROVE  /\ s1 \in Seq(Word) /\ Len(s1) = t /\ s2 \in Seq(Word) /\ Len(s2) = q /\ Same(s, s2, q)
           /\ \A i \in 1..t : s1[i] = W(s, t - i + 1)
<1>0. /\ s \in Seq(Word) /\ t \in 0..Len(s) /\ s1 = From(s, t)
      /\ k \in 0..t /\ j = k + 1 /\ q = t - k /\ s2 = SubSeq(s1, j, Len(s1))
  BY DEF Popped
<1>1. s1 \in Seq(Word) /\ Len(s1) = t /\ Same(s, s1, t) /\ t \in Nat /\ q \in 0..t /\ q \in Nat
  BY <1>0, CutSame
<1>2. q \in 0..Len(s1) /\ s2 = From(s1, q)
  <2>1. j = Len(s1) - q + 1 BY <1>0, <1>1
  <2> QED BY <1>0, <1>1, <2>1 DEF From
<1>3. s2 \in Seq(Word) /\ Len(s2) = q /\ Same(s1, s2, q)
  BY <1>1, <1>2, CutSame
<1>4. Same(s, s2, q)
  <2>1. \A h \in 1..q : W(s2, h) = W(s, h)
    <3>1. \A h \in 1..q : h \in 1..t BY <1>1
    <3> QED BY <1>1, <1>3, <3>1 DEF Same
  <2> QED BY <1>1, <1>3, <2>1 DEF Same
<1>5. ASSUME NEW i \in 1..t PROVE s1[i] = W(s, t - i + 1)
  <2>1. t - i + 1 \in 1..t /\ t - (t - i + 1) + 1 = i BY <1>1
  <2>2. W(s1, t - i + 1) = W(s, t - i + 1) BY <1>1, <2>1 DEF Same
  <2>3. W(s1, t - i + 1) = s1[i] BY <1>1, <2>1 DEF W
  <2> QED BY <2>2, <2>3
<1> QED BY <1>1, <1>3, <1>4, <1>5

\* The frame of the running machine: where it was entered, and from what.
LEMMA TopEntry ==
    ASSUME NEW s, NEW m, NEW n, NEW ht, Structure(s, m, n, ht), n[Len(n)].k = "entry", NEW e, e = n[Len(n)]
    PROVE  /\ e.initSp \in Nat /\ e.prev \in Nat /\ e.reraise \in BOOLEAN /\ e.narg \in Nat
           /\ ht[Len(n)] \in Nat /\ Len(n) > 1 /\ ht[Len(n)] = ht[Len(n) - 1] /\ e.initSp >= ht[Len(n)]
           /\ e.reraise => n[Len(n) - 1].k = "opt" /\ e.initSp = ht[Len(n)]
           /\ ~e.reraise => n[Len(n) - 1].k = "c" /\ e.initSp = ht[Len(n)] + e.narg + 4 /\ e.narg <= 4
<1>1. /\ Len(n) > 1 /\ e \in Frames /\ ht[Len(n)] \in Nat
      /\ FrameAt(s, e, n[Len(n) - 1].k, ht[Len(n)], ht[Len(n) - 1])
  BY TopFrame
<1>2. e \in EntryFrame
  BY <1>1 DEF Frames, EntryFrame, OptFrame, CFrame
<1>3. EntryAt(e, n[Len(n) - 1].k, ht[Len(n)], ht[Len(n) - 1])
  BY <1>1 DEF FrameAt
<1>4. e.initSp \in Nat /\ e.prev \in Nat /\ e.reraise \in BOOLEAN /\ e.narg \in Nat
  BY <1>2 DEF EntryFrame
<1>5. CASE e.reraise
  BY <1>1, <1>3, <1>4, <1>5 DEF EntryAt
<1>6. CASE ~e.reraise
  BY <1>1, <1>3, <1>4, <1>6 DEF EntryAt
<1> QED BY <1>5, <1>6

\* ->raise to a handler of this machine.
LEMMA RaiseToTrapStep == ASSUME IInv, RaiseToTrap PROVE IInv'
<1>1. PICK ht : AsmState(ht)
  BY AsmOpen DEF RaiseToTrap, AsmLabels
<1>2. PICK lo : lo = ht[Len(native)]
  OBVIOUS
<1>3. /\ stack \in Seq(Word) /\ Len(stack) \in Nat /\ lo \in Nat /\ Types /\ trapSp \in Nat
      /\ TrapsLinked(stack, trapSp)
  BY <1>1, <1>2, TopFrame DEF AsmState, Types
<1>4. Frame.initSp \in Nat /\ Frame.initSp >= lo
  BY <1>1, <1>2, TopEntry DEF AsmState, Frame
<1>5. PICK t : t = trapSp
  OBVIOUS
<1>6. lo < t /\ t \in 0..Len(stack)
  <2>1. lo < t BY <1>3, <1>4, <1>5 DEF RaiseToTrap
  <2>2. t \in 0..Len(stack) BY <1>3, <1>5 DEF TrapsLinked, TopTrap
  <2> QED BY <2>1, <2>2
<1>7. PICK s : s = From(stack, t)
  OBVIOUS
<1>8. PICK s2 : s2 = SubSeq(s, 5, Len(s))
  OBVIOUS
<1>9. t >= 4
  <2>1. t >= 1 /\ W(stack, t) = Addr("trap") BY <1>3, <1>5, <1>6 DEF TrapsLinked, TopTrap
  <2>2. PointOK(stack, t, native, ht) BY <1>1, <1>3, <1>6, <2>1 DEF AsmState, Structure, Points
  <2>3. \E f, e : TrapFrame(stack, t, f, e) BY <2>1, <2>2 DEF PointOK
  <2> QED BY <1>3, <1>5, <2>3 DEF TrapFrame
<1>10. /\ s2 \in Seq(Word) /\ Len(s2) = t - 4 /\ Same(stack, s2, t - 4)
       /\ s[2] = W(stack, t - 1) /\ s[3] = W(stack, t - 2) /\ s[4] = W(stack, t - 3)
  <2>1. PICK q : q = t - 4 OBVIOUS
  <2>2. 4 \in 0..t /\ 5 = 4 + 1 BY <1>6, <1>9
  <2>3. Popped(stack, t, s, 4, 5, q, s2) BY <1>3, <1>6, <1>7, <1>8, <2>1, <2>2 DEF Popped
  <2>4. /\ s2 \in Seq(Word) /\ Len(s2) = q /\ Same(stack, s2, q)
        /\ \A i \in 1..t : s[i] = W(stack, t - i + 1)
    BY <2>3, CutTwice
  <2>5. 2 \in 1..t /\ 3 \in 1..t /\ 4 \in 1..t /\ t - 2 + 1 = t - 1 /\ t - 3 + 1 = t - 2 /\ t - 4 + 1 = t - 3
    BY <1>6, <1>9
  <2> QED BY <2>1, <2>4, <2>5
<1>11. /\ W(stack, t - 1)[2] \in Nat /\ TrapsLinked(s2, W(stack, t - 1)[2])
       /\ Structure(s2, Len(s2), native, ht)
       /\ \E g \in Funs, e \in Nat :
            W(stack, t - 2) = Clo(g) /\ W(stack, t - 3) = ValLong(e) /\ Body(s2, g, e, Len(s2), lo)
  BY <1>1, <1>2, <1>5, <1>6, <1>10, BackToTrap
<1>12. PICK g \in Funs, e \in Nat :
            W(stack, t - 2) = Clo(g) /\ W(stack, t - 3) = ValLong(e) /\ Body(s2, g, e, Len(s2), lo)
  BY <1>11
<1>13. stack' = s2 /\ env' = Clo(g) /\ extra' = e /\ trapSp' = W(stack, t - 1)[2] /\ pc' = "base"
  <2>1. ValLong(e)[2] = e BY WordParts
  <2> QED BY <1>5, <1>7, <1>8, <1>10, <1>12, <2>1 DEF RaiseToTrap, LongVal
<1>14. Types'
  <2>1. Clo(g) \in Word BY WordsAreWords
  <2>2. env' \in Word /\ extra' \in Nat /\ stack' \in Seq(Word) /\ trapSp' \in Nat /\ pc' \in Labels
    BY <1>10, <1>11, <1>12, <1>13, <2>1 DEF Labels
  <2> QED BY <1>3, <2>2 DEF Types, RaiseToTrap, bounds
<1>15. AsmOK(lo)'
  BY <1>12, <1>13 DEF AsmOK, Height
<1>16. pc' \in AsmLabels /\ native' = native /\ extRaise' = extRaise
  BY <1>13 DEF RaiseToTrap, AsmLabels
<1> QED BY <1>1, <1>2, <1>11, <1>13, <1>14, <1>15, <1>16, AsmKeep

-----------------------------------------------------------------------------
(* Calls of C from baseline code *)

\* Words pushed by baseline code that calls C: the new frame waits over them.
LEMMA AsmToC ==
    ASSUME NEW ht, AsmState(ht), NEW lo, lo = ht[Len(native)], NEW fr \in CFrame,
           Same(stack, stack', Len(stack)), lo < Len(stack'),
           \A h \in (Len(stack) + 1)..Len(stack') :
             PointOK(stack', h, native, ht) /\ W(stack', h) # Addr("trap"),
           CAt(stack', fr, "entry", Len(stack'), lo), native' = Append(native, fr),
           UNCHANGED <<trapSp, extRaise>>, externSp' = Len(stack'), pc' = "c", Types'
    PROVE  IInv'
<1>1. /\ stack \in Seq(Word) /\ Len(stack) \in Nat /\ lo \in Nat /\ TrapsLinked(stack, trapSp)
      /\ Chain(native, extRaise) /\ native[Len(native)].k = "entry" /\ native \in Seq(Frames)
      /\ Structure(stack, Len(stack), native, ht) /\ Len(native) \in Nat /\ Len(native) > 1
  BY TopFrame DEF AsmState, Types, Frame
<1>2. /\ stack' \in Seq(Word) /\ Len(stack') \in Nat /\ fr \in Frames /\ fr.k = "c" /\ Len(stack) <= Len(stack')
  BY DEF Same, Frames, CFrame
<1>3. lo <= Len(stack)
  BY <1>1, TopEntry, TopFrame DEF FrameAt
<1>4. Structure(stack', Len(stack'), native, ht)
  BY <1>1, <1>3, AsmStack
<1>5. PICK e : e = Len(stack')
  OBVIOUS
<1>6. PICK ht2 : ht2 = Higher(native, ht, e)
  OBVIOUS
<1>7. Structure(stack', Len(stack'), native', ht2)
  <2>1. FrameAt(stack', fr, native[Len(native)].k, e, ht[Len(native)]) BY <1>1, <1>2, <1>5 DEF FrameAt
  <2>2. e \in Nat /\ Len(stack') <= e /\ ht[Len(native)] <= e /\ ht[Len(native)] < e /\ Len(native) # 1
    BY <1>1, <1>2, <1>5
  <2>3. Structure(stack', Len(stack'), Append(native, fr), Higher(native, ht, e))
    BY <1>2, <1>4, <2>1, <2>2, GrowStructure
  <2> QED BY <1>6, <2>3
<1>8. Len(native') = Len(native) + 1 /\ Frame' = fr /\ ht2[Len(native')] = e
  <2>1. Len(native') = Len(native) + 1 /\ native'[Len(native) + 1] = fr BY <1>1, <1>2
  <2>2. Len(native) + 1 \in 1..(Len(native) + 1) /\ ~(Len(native) + 1 <= Len(native)) BY <1>1
  <2>3. ht2[Len(native) + 1] = e BY <1>6, <2>2 DEF Higher
  <2> QED BY <2>1, <2>3 DEF Frame
<1>9. Chain(native', extRaise')
  BY <1>1, <1>2, ChainPushed
<1>10. TrapsLinked(stack', trapSp')
  <2>1. \A h \in (Len(stack) + 1)..Len(stack) : W(stack, h) # Addr("trap") BY <1>1
  <2> QED BY <1>1, <2>1, TrapsKept
<1>11. NativeOK' /\ Cur' = Len(stack')
  BY <1>2, <1>8 DEF NativeOK, Cur, Height
<1>12. NativeState(ht2)'
  BY <1>5, <1>7, <1>8, <1>9, <1>10, <1>11 DEF NativeState
<1> QED BY <1>12, NativeClose

\* The top of a body is an argument or a handler, no closure.
LEMMA BodyTop ==
    ASSUME NEW s \in Seq(Word), NEW f, NEW e, NEW h \in Nat, NEW lo, Body(s, f, e, h, lo)
    PROVE  W(s, h)[1] \in {"tok", "addr"}
<1>1. CASE TrapFrame(s, h, f, e)
  BY <1>1, WordParts DEF TrapFrame
<1>2. CASE Call(s, Arity[f] + e, h, lo)
  <2>1. PICK n : n = Arity[f] + e OBVIOUS
  <2>2. n >= 1 /\ n \in Nat BY <2>1, FunsAssumption DEF Body
  <2>3. Args(s, h - n, h) /\ h \in (h - n + 1)..h BY <1>2, <2>1, <2>2 DEF Call
  <2> QED BY <2>3 DEF Args
<1> QED BY <1>1, <1>2 DEF Body

\* setup_for_c_call.
LEMMA BaseCCallStep == ASSUME IInv, BaseCCall PROVE IInv'
<1>1. PICK ht : AsmState(ht)
  BY AsmOpen DEF BaseCCall, AsmLabels
<1>2. PICK lo : lo = ht[Len(native)]
  OBVIOUS
<1>3. PICK f \in Funs : env = Clo(f) /\ Body(stack, f, extra, Len(stack), lo)
  BY <1>1, <1>2 DEF AsmState, AsmOK, BaseCCall, Height
<1>4. /\ stack \in Seq(Word) /\ Len(stack) \in Nat /\ lo \in Nat /\ Types /\ extra \in Nat /\ tick \in Nat
  BY <1>1, <1>2, TopFrame DEF AsmState, Types
<1>5. PICK l : l = Len(stack)
  OBVIOUS
<1>6. l >= lo + 4 /\ l \in Nat /\ l >= 4
  BY <1>3, <1>4, <1>5, BodyAbove
<1>7. PICK x : x = <<env, Addr("base")>>
  OBVIOUS
<1>8. x \in Seq(Word) /\ Len(x) = 2 /\ x[2] = Addr("base") /\ x[1] = Clo(f)
  <2>1. Addr("base") \in Word /\ env \in Word BY <1>4, WordsAreWords DEF Types, Labels
  <2> QED BY <1>3, <1>7, <2>1
<1>9. /\ stack' \in Seq(Word) /\ Len(stack') = l + 2 /\ Same(stack, stack', l)
      /\ \A h \in 1..2 : W(stack', l + h) = x[2 - h + 1]
  <2>1. stack' = x \o stack BY <1>7 DEF BaseCCall
  <2>2. /\ stack' \in Seq(Word) /\ Len(stack') = Len(stack) + Len(x) /\ Same(stack, stack', Len(stack))
        /\ \A h \in 1..Len(x) : W(stack', Len(stack) + h) = x[Len(x) - h + 1]
    BY <1>4, <1>8, <2>1, PushFrame
  <2> QED BY <1>5, <1>8, <2>2
<1>10. W(stack', l + 1) = Addr("base") /\ W(stack', l + 2) = Clo(f)
  <2>1. 2 - 1 + 1 = 2 /\ 2 - 2 + 1 = 1 OBVIOUS
  <2> QED BY <1>8, <1>9, <2>1
<1>11. Body(stack', f, extra, l, lo)
  BY <1>3, <1>4, <1>5, <1>9, ContinuationKept
<1>12. \A h \in (Len(stack) + 1)..Len(stack') : PointOK(stack', h, native, ht) /\ W(stack', h) # Addr("trap")
  <2>1. PICK h : h = l + 1 OBVIOUS
  <2>2. h - 1 = l BY <1>6, <2>1
  <2>3. W(stack', h) = Addr("base") /\ W(stack', h - 1)[1] # "clo"
    BY <1>6, <1>9, <1>10, <1>11, <2>1, <2>2, BodyTop
  <2>4. PointOK(stack', h, native, ht) BY <2>3, PlainPoint
  <2>5. Addr("base")[2] = "base" /\ Addr("trap")[2] = "trap" /\ Addr("trap")[1] = "addr" /\ Clo(f)[1] = "clo"
    BY WordParts
  <2>6. PointOK(stack', l + 2, native, ht) BY <1>10, <2>5, PlainPoint
  <2>7. \A g \in (Len(stack) + 1)..Len(stack') : g = l + 1 \/ g = l + 2 BY <1>5, <1>6, <1>9
  <2> QED BY <1>10, <2>1, <2>3, <2>4, <2>5, <2>6, <2>7
<1>13. PICK fr : fr = C("base", extra, Unit)
  OBVIOUS
<1>14. fr \in CFrame /\ fr.from = "base" /\ fr.extra = extra
  <2>1. Unit \in Value BY WordsAreWords
  <2> QED BY <1>4, <1>13, <2>1 DEF C, CFrame
<1>15. CAt(stack', fr, "entry", Len(stack'), lo)
  <2>1. PICK h : h = Len(stack') OBVIOUS
  <2>2. h >= 2 /\ h - 1 = l + 1 /\ h - 2 = l /\ h = l + 2 BY <1>6, <1>9, <2>1
  <2>3. CAt(stack', fr, "entry", h, lo) BY <1>10, <1>11, <1>14, <2>2 DEF CAt
  <2> QED BY <2>1, <2>3
<1>16. native' = Append(native, fr) /\ pc' = "c" /\ externSp' = Len(stack') /\ UNCHANGED <<trapSp, extRaise>>
  BY <1>5, <1>6, <1>9, <1>13 DEF BaseCCall, Height
<1>17. Types'
  <2>1. tick' \in Nat /\ externSp' \in Nat BY <1>4, <1>9, <1>16 DEF BaseCCall, StartOp
  <2>2. native' \in Seq(Frames) /\ Len(native') > 0 BY <1>4, <1>14, <1>16 DEF Types, Frames
  <2> QED BY <1>4, <1>9, <1>16, <2>1, <2>2 DEF Types, BaseCCall, StartOp, regs, Labels
<1>18. lo < Len(stack') /\ Same(stack, stack', Len(stack))
  BY <1>4, <1>5, <1>6, <1>9
<1> QED BY <1>1, <1>2, <1>12, <1>14, <1>15, <1>16, <1>17, <1>18, AsmToC

\* ->process_events, from baseline code or from ->apply.
LEMMA EventsStep ==
    ASSUME IInv, NEW e, NEW next, ProcessEvents(e, next),
           (pc = "base" /\ e = env /\ next = "base") \/ (pc = "apply" /\ e = accu /\ next = "dispatch")
    PROVE  IInv'
<1>1. PICK ht : AsmState(ht)
  BY AsmOpen DEF AsmLabels
<1>2. PICK lo : lo = ht[Len(native)]
  OBVIOUS
<1>3. /\ stack \in Seq(Word) /\ Len(stack) \in Nat /\ lo \in Nat /\ Types /\ extra \in Nat
      /\ accu \in Value /\ env \in Word
  BY <1>1, <1>2, TopFrame DEF AsmState, Types
<1>4. PICK l : l = Len(stack)
  OBVIOUS
<1>5. \/ next = "base" /\ \E f \in Funs : e = Clo(f) /\ Body(stack, f, extra, l, lo)
      \/ next = "dispatch" /\ e = accu /\ Callee(accu) /\ Call(stack, 1 + extra, l, lo)
  BY <1>1, <1>2, <1>4 DEF AsmState, AsmOK, Height
<1>6. l >= lo + 3 /\ l \in Nat
  <2>1. CASE next = "base" BY <1>3, <1>4, <1>5, <2>1, BodyAbove
  <2>2. CASE next = "dispatch" BY <1>3, <1>4, <1>5, <2>2, BodyAbove
  <2> QED BY <1>5, <2>1, <2>2
<1>7. PICK x : x = <<accu, Unit, Unit, Addr(next), e, ValLong(extra)>>
  OBVIOUS
<1>8. /\ x \in Seq(Word) /\ Len(x) = 6 /\ x[6] = ValLong(extra) /\ x[5] = e /\ x[4] = Addr(next)
      /\ x[3] = Unit /\ x[2] = Unit /\ x[1] = accu
  <2>1. accu \in Word /\ Unit \in Word /\ Addr(next) \in Word /\ e \in Word /\ ValLong(extra) \in Word
    BY <1>3, <1>5, WordsAreWords DEF Labels
  <2> QED BY <1>7, <2>1
<1>9. /\ stack' \in Seq(Word) /\ Len(stack') = l + 6 /\ Same(stack, stack', l)
      /\ \A h \in 1..6 : W(stack', l + h) = x[6 - h + 1]
  <2>1. stack' = x \o stack BY <1>7 DEF ProcessEvents
  <2>2. /\ stack' \in Seq(Word) /\ Len(stack') = Len(stack) + Len(x) /\ Same(stack, stack', Len(stack))
        /\ \A h \in 1..Len(x) : W(stack', Len(stack) + h) = x[Len(x) - h + 1]
    BY <1>3, <1>8, <2>1, PushFrame
  <2> QED BY <1>4, <1>8, <2>2
<1>10. /\ W(stack', l + 1) = ValLong(extra) /\ W(stack', l + 2) = e /\ W(stack', l + 3) = Addr(next)
       /\ W(stack', l + 4) = Unit /\ W(stack', l + 5) = Unit /\ W(stack', l + 6) = accu
  <2>1. 6 - 1 + 1 = 6 /\ 6 - 2 + 1 = 5 /\ 6 - 3 + 1 = 4 /\ 6 - 4 + 1 = 3 /\ 6 - 5 + 1 = 2 /\ 6 - 6 + 1 = 1
    OBVIOUS
  <2> QED BY <1>8, <1>9, <2>1
<1>11. \/ next = "base" /\ \E f \in Funs : e = Clo(f) /\ Body(stack', f, extra, l, lo)
       \/ next = "dispatch" /\ e = accu /\ Callee(accu) /\ Call(stack', 1 + extra, l, lo)
  <2>1. l \in Int /\ l <= l BY <1>6
  <2>2. CASE next = "base"
    <3>1. PICK f \in Funs : e = Clo(f) /\ Body(stack, f, extra, l, lo) BY <1>5, <2>2
    <3>2. Body(stack', f, extra, l, lo) BY <1>3, <1>9, <2>1, <3>1, ContinuationKept
    <3> QED BY <2>2, <3>1, <3>2
  <2>3. CASE next = "dispatch"
    <3>1. Call(stack', 1 + extra, l, lo) BY <1>3, <1>5, <1>9, <2>1, <2>3, ContinuationKept
    <3> QED BY <1>5, <2>3, <3>1
  <2> QED BY <1>5, <2>2, <2>3
<1>12. \A h \in (Len(stack) + 1)..Len(stack') : PointOK(stack', h, native, ht) /\ W(stack', h) # Addr("trap")
  <2>1. /\ ValLong(extra)[1] = "long" /\ Unit[1] = "unit" /\ Addr("trap")[1] = "addr"
        /\ Addr(next)[2] = next /\ Addr("trap")[2] = "trap" /\ next # "trap"
    BY <1>5, WordParts
  <2>2. accu[1] # "addr" BY <1>3, WordKinds
  <2>3. e[1] # "addr" BY <1>5, <2>2, WordParts
  <2>4. PointOK(stack', l + 1, native, ht) /\ PointOK(stack', l + 2, native, ht) /\ PointOK(stack', l + 4, native, ht)
        /\ PointOK(stack', l + 5, native, ht) /\ PointOK(stack', l + 6, native, ht)
    BY <1>10, <2>1, <2>2, <2>3, PlainPoint
  <2>5. PointOK(stack', l + 3, native, ht)
    <3>1. CASE next = "base"
      <4>1. PICK f \in Funs : e = Clo(f) /\ Body(stack', f, extra, l, lo) BY <1>11, <3>1
      <4>2. PICK h : h = l + 3 OBVIOUS
      <4>3. h \in Nat /\ h - 1 = l + 2 /\ h - 2 = l + 1 /\ h - 3 = l BY <1>6, <4>2
      <4>4. /\ W(stack', h) = Addr("base") /\ W(stack', h - 1) = Clo(f) /\ W(stack', h - 2) = ValLong(extra)
            /\ Body(stack', f, extra, h - 3, ht[Len(native)])
        BY <1>2, <1>10, <3>1, <4>1, <4>2, <4>3
      <4>5. PointOK(stack', h, native, ht) BY <1>1, <4>3, <4>4, BasePoint DEF AsmState
      <4> QED BY <4>2, <4>5
    <3>2. CASE next = "dispatch"
      <4>1. \E lb : W(stack', l + 3) = Addr(lb) /\ lb \notin {"base", "trap", "stop", "callback_stop"}
        BY <1>10, <3>2
      <4> QED BY <4>1, PlainPoint
    <3> QED BY <1>5, <3>1, <3>2
  <2>6. \A g \in (Len(stack) + 1)..Len(stack') :
          g = l + 1 \/ g = l + 2 \/ g = l + 3 \/ g = l + 4 \/ g = l + 5 \/ g = l + 6
    <3>1. Len(stack) = l /\ l \in Nat /\ Len(stack') = l + 6 BY <1>4, <1>6, <1>9
    <3> QED BY ONLY <3>1
  <2>7. /\ W(stack', l + 1) # Addr("trap") /\ W(stack', l + 2) # Addr("trap") /\ W(stack', l + 3) # Addr("trap")
        /\ W(stack', l + 4) # Addr("trap") /\ W(stack', l + 5) # Addr("trap") /\ W(stack', l + 6) # Addr("trap")
    BY <1>10, <2>1, <2>2, <2>3
  <2> QED BY <2>4, <2>5, <2>6, <2>7
<1>13. PICK fr : fr = C("events", extra, Unit)
  OBVIOUS
<1>14. fr \in CFrame /\ fr.from = "events"
  <2>1. Unit \in Value BY WordsAreWords
  <2> QED BY <1>3, <1>13, <2>1 DEF C, CFrame
<1>15. CAt(stack', fr, "entry", Len(stack'), lo)
  <2>1. PICK h : h = Len(stack') OBVIOUS
  <2>2. /\ h >= 6 /\ h - 1 = l + 5 /\ h - 2 = l + 4 /\ h - 3 = l + 3 /\ h - 4 = l + 2 /\ h - 5 = l + 1
        /\ h - 6 = l /\ h = l + 6
    BY <1>6, <1>9, <2>1
  <2>3. ValLong(extra)[2] = extra BY WordParts
  <2>4. EventOK(stack', h, lo) BY <1>3, <1>10, <1>11, <2>2, <2>3 DEF EventOK
  <2>5. CAt(stack', fr, "entry", h, lo) BY <1>14, <2>4 DEF CAt
  <2> QED BY <2>1, <2>5
<1>16. native' = Append(native, fr) /\ pc' = "c" /\ externSp' = Len(stack') /\ UNCHANGED <<trapSp, extRaise>>
  BY <1>4, <1>6, <1>9, <1>13 DEF ProcessEvents, Height
<1>17. Types'
  <2>1. externSp' \in Nat /\ accu' \in Value /\ env' \in Word BY <1>3, <1>5, <1>9, <1>16, WordsAreWords DEF ProcessEvents
  <2>2. native' \in Seq(Frames) /\ Len(native') > 0 BY <1>3, <1>14, <1>16 DEF Types, Frames
  <2> QED BY <1>3, <1>9, <1>16, <2>1, <2>2 DEF Types, ProcessEvents, Labels
<1>18. lo < Len(stack') /\ Same(stack, stack', Len(stack))
  BY <1>3, <1>4, <1>6, <1>9
<1> QED BY <1>1, <1>2, <1>12, <1>14, <1>15, <1>16, <1>17, <1>18, AsmToC

\* The pending actions run by the allocation of a partial application.
LEMMA GrabAllocStep == ASSUME IInv, GrabAllocSignals PROVE IInv'
<1>1. PICK ht : AsmState(ht)
  BY AsmOpen DEF GrabAllocSignals, AsmLabels
<1>2. PICK lo : lo = ht[Len(native)]
  OBVIOUS
<1>3. /\ stack \in Seq(Word) /\ Len(stack) \in Nat /\ lo \in Nat /\ Types /\ extra \in Nat /\ accu \in Value
  BY <1>1, <1>2, TopFrame DEF AsmState, Types
<1>4. PICK l : l = Len(stack)
  OBVIOUS
<1>5. accu[1] = "clo" /\ env = accu /\ Call(stack, 1 + extra, l, lo)
  BY <1>1, <1>2, <1>4 DEF AsmState, AsmOK, Height, GrabAllocSignals
<1>6. l >= lo + 3 /\ l \in Nat
  BY <1>3, <1>4, <1>5, BodyAbove
<1>7. PICK x : x = <<accu, env, Unit>>
  OBVIOUS
<1>8. x \in Seq(Word) /\ Len(x) = 3 /\ x[3] = Unit /\ x[2] = accu /\ x[1] = accu
  <2>1. accu \in Word /\ Unit \in Word BY <1>3, WordsAreWords
  <2> QED BY <1>5, <1>7, <2>1
<1>9. /\ stack' \in Seq(Word) /\ Len(stack') = l + 3 /\ Same(stack, stack', l)
      /\ \A h \in 1..3 : W(stack', l + h) = x[3 - h + 1]
  <2>1. stack' = x \o stack BY <1>7 DEF GrabAllocSignals
  <2>2. /\ stack' \in Seq(Word) /\ Len(stack') = Len(stack) + Len(x) /\ Same(stack, stack', Len(stack))
        /\ \A h \in 1..Len(x) : W(stack', Len(stack) + h) = x[Len(x) - h + 1]
    BY <1>3, <1>8, <2>1, PushFrame
  <2> QED BY <1>4, <1>8, <2>2
<1>10. W(stack', l + 1) = Unit /\ W(stack', l + 2) = accu /\ W(stack', l + 3) = accu
  <2>1. 3 - 1 + 1 = 3 /\ 3 - 2 + 1 = 2 /\ 3 - 3 + 1 = 1 OBVIOUS
  <2> QED BY <1>8, <1>9, <2>1
<1>11. Call(stack', 1 + extra, l, lo)
  BY <1>3, <1>5, <1>6, <1>9, ContinuationKept
<1>12. \A h \in (Len(stack) + 1)..Len(stack') : PointOK(stack', h, native, ht) /\ W(stack', h) # Addr("trap")
  <2>1. Unit[1] = "unit" /\ Addr("trap")[1] = "addr" BY WordParts
  <2>2. PointOK(stack', l + 1, native, ht) /\ PointOK(stack', l + 2, native, ht) /\ PointOK(stack', l + 3, native, ht)
    BY <1>5, <1>10, <2>1, PlainPoint
  <2>3. \A g \in (Len(stack) + 1)..Len(stack') : g = l + 1 \/ g = l + 2 \/ g = l + 3 BY <1>4, <1>6, <1>9
  <2> QED BY <1>5, <1>10, <2>1, <2>2, <2>3
<1>13. PICK fr : fr = C("grab", extra, Unit)
  OBVIOUS
<1>14. fr \in CFrame /\ fr.from = "grab" /\ fr.extra = extra
  <2>1. Unit \in Value BY WordsAreWords
  <2> QED BY <1>3, <1>13, <2>1 DEF C, CFrame
<1>15. CAt(stack', fr, "entry", Len(stack'), lo)
  <2>1. PICK h : h = Len(stack') OBVIOUS
  <2>2. h >= 3 /\ h - 1 = l + 2 /\ h - 2 = l + 1 /\ h - 3 = l /\ h = l + 3 BY <1>6, <1>9, <2>1
  <2>3. CAt(stack', fr, "entry", h, lo) BY <1>5, <1>10, <1>11, <1>14, <2>2 DEF CAt
  <2> QED BY <2>1, <2>3
<1>16. native' = Append(native, fr) /\ pc' = "c" /\ externSp' = Len(stack') /\ UNCHANGED <<trapSp, extRaise>>
  BY <1>4, <1>6, <1>9, <1>13 DEF GrabAllocSignals, Height
<1>17. Types'
  <2>1. externSp' \in Nat /\ accu' \in Value BY <1>3, <1>9, <1>16, WordsAreWords DEF GrabAllocSignals
  <2>2. native' \in Seq(Frames) /\ Len(native') > 0 BY <1>3, <1>14, <1>16 DEF Types, Frames
  <2> QED BY <1>3, <1>9, <1>16, <2>1, <2>2 DEF Types, GrabAllocSignals, Labels
<1>18. lo < Len(stack') /\ Same(stack, stack', Len(stack))
  BY <1>3, <1>4, <1>6, <1>9
<1> QED BY <1>1, <1>2, <1>12, <1>14, <1>15, <1>16, <1>17, <1>18, AsmToC

-----------------------------------------------------------------------------
(* Returns of baseline code *)

\* The words of a return frame are no handlers.
LEMMA ReturnFramePlain ==
    ASSUME NEW s \in Seq(Word), NEW n, NEW ht, Structure(s, Len(s), n, ht), NEW lo \in Nat, NEW r, RetAt(s, r, lo)
    PROVE  W(s, r) # Addr("trap") /\ W(s, r - 1) # Addr("trap") /\ W(s, r - 2) # Addr("trap")
<1>1. r \in 3..Len(s) /\ r - 1 \in 1..Len(s) /\ r - 2 \in 1..Len(s) /\ Len(s) \in Nat /\ r \in Nat
  BY DEF RetAt
<1>2. PICK p : p = r - 1
  OBVIOUS
<1>3. PointOK(s, p, n, ht) /\ p - 1 = r - 2
  BY <1>1, <1>2 DEF Structure, Points
<1>4. /\ Addr("trap")[1] = "addr" /\ Addr("trap")[2] = "trap" /\ Addr("base")[2] = "base" /\ Addr("stop")[2] = "stop"
      /\ Addr("callback_stop")[2] = "callback_stop" /\ RawZero[1] = "raw" /\ ValLong(0)[1] = "long"
      /\ \A f : Clo(f)[1] = "clo"
      /\ \A e : ValLong(e)[1] = "long"
  BY WordParts
<1>5. CASE W(s, r) = Addr("base") /\ \E f \in Funs, e \in Nat : W(s, r - 1) = Clo(f) /\ W(s, r - 2) = ValLong(e)
  BY <1>4, <1>5
<1>6. CASE W(s, r) \in {Addr("stop"), Addr("callback_stop")} /\ Zero(W(s, r - 2))
  <2>1. W(s, r - 2)[1] \in {"raw", "long"} BY <1>4, <1>6 DEF Zero
  <2>2. ASSUME W(s, p) = Addr("trap") PROVE FALSE
    <3>1. \E f, e : TrapFrame(s, p, f, e) BY <1>3, <2>2 DEF PointOK
    <3>2. W(s, p - 1)[1] = "link" BY <3>1 DEF TrapFrame
    <3> QED BY <1>3, <2>1, <3>2
  <2> QED BY <1>2, <1>4, <1>6, <2>1, <2>2
<1> QED BY <1>5, <1>6 DEF RetAt

\* A call returns: to the body that made it, or to the code that entered this machine.
LEMMA ReturnStep ==
    ASSUME NEW ht, AsmState(ht), NEW lo, lo = ht[Len(native)], NEW n, Call(stack, n, Len(stack), lo),
           NEW r, r = Len(stack) - n, Same(stack, stack', r - 3), Len(stack') = r - 3,
           pc' = W(stack, r)[2], env' = W(stack, r - 1), extra' = W(stack, r - 2)[2], accu' \in Value,
           UNCHANGED <<rdx, caml, native, tick>>
    PROVE  IInv'
<1>1. /\ stack \in Seq(Word) /\ Len(stack) \in Nat /\ lo \in Nat /\ Types
      /\ TrapsLinked(stack, trapSp) /\ Structure(stack, Len(stack), native, ht) /\ Len(native) \in 1..Len(native)
  BY TopFrame DEF AsmState, Types
<1>2. n \in Nat /\ Args(stack, r, Len(stack)) /\ RetAt(stack, r, lo)
  BY ONLY Call(stack, n, Len(stack), lo), r = Len(stack) - n DEF Call
<1>3. r \in 3..Len(stack) /\ r \in 1..Len(stack) /\ r \in Nat /\ lo + 3 <= r /\ r - 3 \in Nat /\ r - 1 \in 1..Len(stack)
  <2>1. r \in 3..Len(stack) /\ lo + 3 <= r BY <1>2 DEF RetAt
  <2>2. Len(stack) \in Nat /\ lo \in Nat BY <1>1
  <2> QED BY ONLY <2>1, <2>2
<1>4. PointOK(stack, r, native, ht)
  BY <1>1, <1>3 DEF Structure, Points
<1>5. Structure(stack', Len(stack'), native, ht)
  <2>1. PICK q : q = r - 3 OBVIOUS
  <2>2. q \in Nat /\ ht[Len(native)] <= q /\ Same(stack, stack', q) BY <1>1, <1>3, <2>1
  <2>3. \A h \in (q + 1)..Len(stack') : PointOK(stack', h, native, ht) BY <1>3, <2>1
  <2> QED BY <2>2, <2>3, AsmStack
<1>6. TrapsLinked(stack', trapSp')
  <2>1. W(stack, r) # Addr("trap") /\ W(stack, r - 1) # Addr("trap") /\ W(stack, r - 2) # Addr("trap")
    BY <1>1, <1>2, ReturnFramePlain
  <2>2. \A h \in (r + 1)..Len(stack) : W(stack, h) # Addr("trap") BY <1>2, ArgPoints
  <2>3. PICK q : q = r - 3 OBVIOUS
  <2>4. \A h \in (q + 1)..Len(stack) : h = r - 2 \/ h = r - 1 \/ h = r \/ h \in (r + 1)..Len(stack)
    <3>1. r \in Nat /\ Len(stack) \in Nat BY <1>1, <1>3
    <3> QED BY ONLY <2>3, <3>1
  <2>5. \A h \in (q + 1)..Len(stack) : W(stack, h) # Addr("trap") BY <2>1, <2>2, <2>4
  <2>6. \A h \in (q + 1)..Len(stack') : W(stack', h) # Addr("trap") BY <1>3, <2>3
  <2>7. TrapsLinked(stack', trapSp) BY <1>1, <2>3, <2>5, <2>6, TrapsKept
  <2> QED BY <2>7 DEF caml
<1>7. stack' \in Seq(Word) /\ env' \in Word
  <2>1. Len(stack) - (r - 1) + 1 \in 1..Len(stack) BY <1>1, <1>3
  <2> QED BY <1>1, <2>1 DEF Same, W
<1>8. ASSUME pc' \in Labels, extra' \in Nat PROVE Types'
  BY <1>1, <1>7, <1>8 DEF Types, caml
<1>9. CASE W(stack, r) = Addr("base") /\ \E f \in Funs, e \in Nat : W(stack, r - 1) = Clo(f) /\ W(stack, r - 2) = ValLong(e)
  <2>1. r > 1 /\ W(stack, r - 1)[1] = "clo" BY <1>3, <1>9, WordParts
  <2>2. PICK f \in Funs, e \in Nat :
          /\ W(stack, r - 1) = Clo(f) /\ W(stack, r - 2) = ValLong(e)
          /\ \A j \in 1..Len(native) : ht[j] < r => Body(stack, f, e, r - 3, ht[j])
    BY <1>4, <1>9, <2>1 DEF PointOK
  <2>3. Body(stack, f, e, r - 3, lo)
    <3>1. lo < r /\ lo = ht[Len(native)] BY <1>1, <1>3
    <3>2. Len(native) \in 1..Len(native) BY <1>1
    <3> QED BY ONLY <2>2, <3>1, <3>2
  <2>4. Body(stack', f, e, Len(stack'), lo)
    <3>1. r - 3 \in Int /\ r - 3 <= r - 3 BY <1>3
    <3> QED BY <1>1, <2>3, <3>1, ContinuationKept
  <2>5. pc' = "base" /\ env' = Clo(f) /\ extra' = e BY <1>9, <2>2, WordParts
  <2>6. Types' BY <1>8, <2>5 DEF Labels
  <2>7. AsmOK(lo)' BY <2>4, <2>5 DEF AsmOK, Height
  <2> QED BY <1>5, <1>6, <2>5, <2>6, <2>7, AsmKeep DEF caml, AsmLabels
<1>10. ASSUME Zero(W(stack, r - 2)) PROVE extra' = 0
  BY <1>10, WordParts DEF Zero
<1>11. ASSUME NEW j \in 1..Len(native), native[j].k = "entry", lo <= ht[j] PROVE j = Len(native)
  <2>1. Rising(native, ht) BY <1>1 DEF Structure
  <2>2. ht[j] \in Nat BY <1>1 DEF Structure
  <2> QED BY <1>1, <1>11, <2>1, <2>2 DEF Rising
<1>12. CASE W(stack, r) = Addr("stop") /\ Zero(W(stack, r - 2))
  <2>1. PICK j \in 1..Len(native) : native[j].k = "entry" /\ native[j].reraise /\ ht[j] = r - 3
    BY <1>4, <1>12 DEF PointOK
  <2>2. lo <= ht[j] BY <1>1, <1>3, <2>1
  <2>3. j = Len(native) BY <1>11, <2>1, <2>2
  <2>4. pc' = "stop" /\ extra' = 0 BY <1>10, <1>12, WordParts
  <2>5. Types' BY <1>8, <2>4 DEF Labels
  <2>6. Frame'.reraise /\ Len(stack') = lo BY <2>1, <2>3 DEF Frame
  <2>7. AsmOK(lo)' BY <2>4, <2>6 DEF AsmOK, Height
  <2> QED BY <1>5, <1>6, <2>4, <2>5, <2>7, AsmKeep DEF caml, AsmLabels
<1>13. CASE W(stack, r) = Addr("callback_stop") /\ lo + 4 <= r /\ Zero(W(stack, r - 2))
  <2>1. PICK j \in 1..Len(native) : native[j].k = "entry" /\ ~native[j].reraise /\ ht[j] = r - 4
    BY <1>4, <1>13 DEF PointOK
  <2>2. lo <= ht[j] BY <1>1, <1>3, <1>13, <2>1
  <2>3. j = Len(native) BY <1>11, <2>1, <2>2
  <2>4. pc' = "callback_stop" /\ extra' = 0 BY <1>10, <1>13, WordParts
  <2>5. Types' BY <1>8, <2>4 DEF Labels
  <2>6. ~Frame'.reraise /\ Len(stack') = lo + 1
    <3>1. Len(stack') = lo + 1 BY <1>3, <2>1, <2>3
    <3> QED BY <2>1, <2>3, <3>1 DEF Frame
  <2>7. AsmOK(lo)' BY <2>4, <2>6 DEF AsmOK, Height
  <2> QED BY <1>5, <1>6, <2>4, <2>5, <2>7, AsmKeep DEF caml, AsmLabels
<1> QED BY <1>2, <1>9, <1>12, <1>13 DEF RetAt

\* The words popped by a return.
LEMMA PopReturn ==
    ASSUME stack \in Seq(Word), NEW n \in Nat, n + 3 <= Len(stack), NEW r, r = Len(stack) - n
    PROVE  /\ stack[n + 1] = W(stack, r) /\ stack[n + 2] = W(stack, r - 1) /\ stack[n + 3] = W(stack, r - 2)
           /\ Same(stack, Drop(n + 3), r - 3) /\ Len(Drop(n + 3)) = r - 3
<1>1. /\ n + 1 \in 1..Len(stack) /\ n + 2 \in 1..Len(stack) /\ n + 3 \in 1..Len(stack) /\ n + 3 \in 0..Len(stack)
      /\ r = Len(stack) - (n + 1) + 1 /\ r - 1 = Len(stack) - (n + 2) + 1 /\ r - 2 = Len(stack) - (n + 3) + 1
      /\ r - 3 = Len(stack) - (n + 3)
  OBVIOUS
<1>2. PICK k : k = n + 3
  OBVIOUS
<1>3. Same(stack, Drop(k), r - 3) /\ Len(Drop(k)) = r - 3
  BY <1>1, <1>2, DropSame
<1> QED BY <1>1, <1>2, <1>3, StackWord

\* perform_return.
LEMMA PerformReturnStep == ASSUME IInv, PerformReturn PROVE IInv'
<1>1. PICK ht : AsmState(ht)
  BY AsmOpen DEF PerformReturn, AsmLabels
<1>2. PICK lo : lo = ht[Len(native)]
  OBVIOUS
<1>3. Call(stack, extra, Len(stack), lo) /\ (extra # 0 => Callee(accu))
  BY <1>1, <1>2 DEF AsmState, AsmOK, Height, PerformReturn
<1>4. stack \in Seq(Word) /\ Len(stack) \in Nat /\ lo \in Nat /\ Types /\ extra \in Nat /\ accu \in Value
  BY <1>1, <1>2, TopFrame DEF AsmState, Types
<1>5. CASE extra # 0
  <2>1. extra' = extra - 1 /\ pc' = "apply" /\ UNCHANGED <<accu, env, stack, rdx, caml, native, status, todo, bounds>>
    BY <1>5 DEF PerformReturn
  <2>2. extra' \in Nat /\ 1 + extra' = extra BY <1>4, <1>5, <2>1
  <2>3. Types' BY <1>4, <2>1, <2>2 DEF Types, caml, bounds, Labels
  <2>4. AsmOK(lo)' BY <1>3, <1>5, <2>1, <2>2 DEF AsmOK, Height
  <2> QED BY <1>1, <1>2, <2>1, <2>3, <2>4, AsmOnly DEF AsmLabels, caml
<1>6. CASE extra = 0
  <2>1. PICK r : r = Len(stack) OBVIOUS
  <2>2. r = Len(stack) - 0 /\ 0 + 3 <= Len(stack) /\ Call(stack, 0, Len(stack), lo)
    BY <1>3, <1>4, <1>6, <2>1, BodyAbove
  <2>3. /\ stack[0 + 1] = W(stack, r) /\ stack[0 + 2] = W(stack, r - 1) /\ stack[0 + 3] = W(stack, r - 2)
        /\ Same(stack, Drop(0 + 3), r - 3) /\ Len(Drop(0 + 3)) = r - 3
    BY <1>4, <2>2, PopReturn
  <2>4. 0 + 1 = 1 /\ 0 + 2 = 2 /\ 0 + 3 = 3 OBVIOUS
  <2>5. pc' = W(stack, r)[2] /\ env' = W(stack, r - 1) /\ extra' = W(stack, r - 2)[2] /\ stack' = Drop(3)
    BY <1>6, <2>3, <2>4 DEF PerformReturn, LongVal
  <2>6. accu' \in Value /\ UNCHANGED <<rdx, caml, native, tick>> BY <1>4 DEF PerformReturn, bounds
  <2>7. Same(stack, stack', r - 3) /\ Len(stack') = r - 3 BY <2>3, <2>4, <2>5
  <2> QED BY <1>1, <1>2, <2>2, <2>5, <2>6, <2>7, ReturnStep
<1> QED BY <1>5, <1>6

\* GRAB with too few arguments: they go into a partial application, which is returned.
LEMMA GrabClosureStep == ASSUME IInv, GrabClosure PROVE IInv'
<1>1. PICK ht : AsmState(ht)
  BY AsmOpen DEF GrabClosure, AsmLabels
<1>2. PICK lo : lo = ht[Len(native)]
  OBVIOUS
<1>3. Callee(accu) /\ accu[1] = "clo" /\ env = accu /\ Call(stack, 1 + extra, Len(stack), lo)
  BY <1>1, <1>2 DEF AsmState, AsmOK, Height, GrabClosure
<1>4. stack \in Seq(Word) /\ Len(stack) \in Nat /\ lo \in Nat /\ Types /\ extra \in Nat /\ accu \in Value
  BY <1>1, <1>2, TopFrame DEF AsmState, Types
<1>5. PICK n : n = 1 + extra
  OBVIOUS
<1>6. n \in Nat /\ Call(stack, n, Len(stack), lo)
  BY <1>3, <1>4, <1>5
<1>7. n + 3 <= Len(stack)
  BY <1>4, <1>6, BodyAbove
<1>8. PICK r : r = Len(stack) - n
  OBVIOUS
<1>9. /\ stack[n + 1] = W(stack, r) /\ stack[n + 2] = W(stack, r - 1) /\ stack[n + 3] = W(stack, r - 2)
      /\ Same(stack, Drop(n + 3), r - 3) /\ Len(Drop(n + 3)) = r - 3
  BY <1>4, <1>6, <1>7, <1>8, PopReturn
<1>10. /\ pc' = W(stack, r)[2] /\ env' = W(stack, r - 1) /\ extra' = W(stack, r - 2)[2] /\ stack' = Drop(n + 3)
       /\ accu' = Pap(env[2], Peek(n))
  BY <1>5, <1>9 DEF GrabClosure, LongVal
<1>11. Peek(n) \in Seq(Token)
  <2>1. ASSUME NEW i \in 1..n PROVE stack[i] \in Token
    <3>1. PICK h : h = Len(stack) - i + 1 OBVIOUS
    <3>2. i \in 1..Len(stack) /\ h \in (Len(stack) - n + 1)..Len(stack) BY <1>4, <1>6, <1>7, <3>1
    <3>3. stack[i] = W(stack, h) BY <1>4, <3>1, <3>2, StackWord
    <3>4. stack[i][1] = "tok" /\ stack[i] \in Word BY <1>4, <1>6, <3>2, <3>3 DEF Call, Args
    <3> QED BY <3>4, WordKinds
  <2>2. n <= Len(stack) /\ 1 <= Len(stack) + 1 BY <1>4, <1>6, <1>7
  <2> QED BY <1>4, <1>6, <2>1, <2>2 DEF Peek
<1>12. accu' \in Value
  <2>1. env[2] \in Funs BY <1>3, <1>4, WordKinds
  <2> QED BY <1>10, <1>11, <2>1, WordsAreWords
<1>13. UNCHANGED <<rdx, caml, native, tick>>
  BY DEF GrabClosure, bounds
<1>14. Same(stack, stack', r - 3) /\ Len(stack') = r - 3
  BY <1>9, <1>10
<1> QED BY <1>1, <1>2, <1>6, <1>8, <1>10, <1>12, <1>13, <1>14, ReturnStep

-----------------------------------------------------------------------------
(* Native frames pushed *)

\* A new activation of optimised code, or of C, that waits at the top of the stack.
LEMMA PushNative ==
    ASSUME NEW ht, Structure(stack', Len(stack'), native, ht), NEW fr \in Frames, fr.k # "entry",
           FrameAt(stack', fr, native[Len(native)].k, Len(stack'), ht[Len(native)]), Len(native) > 1,
           native[Len(native)].k = "entry" => ht[Len(native)] < Len(stack'), ht[Len(native)] <= Len(stack'),
           Chain(native, extRaise), TrapsLinked(stack', trapSp'), Types',
           native' = Append(native, fr), extRaise' = extRaise, externSp' = Len(stack'),
           (pc' = "opt" /\ fr.k = "opt") \/ (pc' = "c" /\ fr.k = "c")
    PROVE  IInv'
<1>1. /\ Len(native) \in Nat /\ native \in Seq(Frames) /\ stack' \in Seq(Word) /\ Len(stack') \in Nat
  BY TopFrame DEF Types
<1>2. PICK e : e = Len(stack')
  OBVIOUS
<1>3. PICK ht2 : ht2 = Higher(native, ht, e)
  OBVIOUS
<1>4. Structure(stack', Len(stack'), native', ht2)
  <2>1. FrameAt(stack', fr, native[Len(native)].k, e, ht[Len(native)]) BY <1>2
  <2>2. /\ e \in Nat /\ Len(stack') <= e /\ ht[Len(native)] <= e /\ Len(native) # 1
        /\ native[Len(native)].k = "entry" => ht[Len(native)] < e
    BY <1>1, <1>2
  <2>3. Structure(stack', Len(stack'), Append(native, fr), Higher(native, ht, e))
    BY <1>1, <2>1, <2>2, GrowStructure
  <2> QED BY <1>3, <2>3
<1>5. Len(native') = Len(native) + 1 /\ Frame' = fr /\ ht2[Len(native')] = e
  <2>1. Len(native') = Len(native) + 1 /\ native'[Len(native) + 1] = fr BY <1>1
  <2>2. Len(native) + 1 \in 1..(Len(native) + 1) /\ ~(Len(native) + 1 <= Len(native)) BY <1>1
  <2>3. ht2[Len(native) + 1] = e BY <1>3, <2>2 DEF Higher
  <2> QED BY <2>1, <2>3 DEF Frame
<1>6. Chain(native', extRaise')
  BY <1>1, ChainPushed
<1>7. NativeOK' /\ Cur' = Len(stack')
  BY <1>5 DEF NativeOK, Cur, Height
<1>8. NativeState(ht2)'
  BY <1>2, <1>4, <1>5, <1>6, <1>7 DEF NativeState
<1> QED BY <1>8, NativeClose

\* Optimised code at work: its frame is the top of both stacks.
LEMMA OptOpen ==
    ASSUME IInv, pc = "opt"
    PROVE  /\ Types /\ TrapsLinked(stack, trapSp) /\ Chain(native, extRaise)
           /\ stack \in Seq(Word) /\ Len(stack) \in Nat /\ externSp = Len(stack) /\ accu \in Value
           /\ Len(native) > 1 /\ native[Len(native)].k = "opt" /\ native[Len(native)] \in OptFrame
           /\ \E ht : NativeState(ht) /\ Structure(stack, Len(stack), native, ht) /\ ht[Len(native)] = Len(stack)
<1>1. PICK ht : NativeState(ht)
  BY NativeOpen
<1>2. Types /\ TrapsLinked(stack, trapSp) /\ Chain(native, extRaise) /\ NativeOK
  BY <1>1 DEF NativeState
<1>3. Cur = Len(stack)
  BY DEF Cur, Height
<1>4. Structure(stack, Len(stack), native, ht) /\ ht[Len(native)] = Len(stack)
  BY <1>1, <1>3 DEF NativeState
<1>5. externSp = Len(stack) /\ native[Len(native)].k = "opt"
  BY <1>2 DEF NativeOK, Height, Frame
<1>6. native[Len(native)] \in Frames /\ Len(native) \in Nat /\ Len(native) > 0
  BY <1>4, TopFrame
<1>7. native[Len(native)] \in OptFrame
  BY <1>5, <1>6 DEF Frames, EntryFrame, OptFrame, CFrame
<1>8. Len(native) > 1
  <2>1. native[1].k = "c" BY <1>4 DEF Structure, FramesOK
  <2> QED BY <1>5, <1>6, <2>1
<1>9. stack \in Seq(Word) /\ Len(stack) \in Nat /\ accu \in Value
  BY <1>2 DEF Types
<1> QED BY <1>1, <1>2, <1>4, <1>5, <1>7, <1>8, <1>9

\* A frame that waits where its optimised caller does, pushed with the OCaml stack as it is.
LEMMA OptPushes ==
    ASSUME IInv, pc = "opt", NEW fr \in Frames, native' = Append(native, fr),
           (pc' = "opt" /\ fr.k = "opt" /\ fr.caller = "opt" /\ fr.extra = 0)
             \/ (pc' = "c" /\ fr.k = "c" /\ fr.from \in {"opt", "opt_events"}),
           UNCHANGED <<stack, caml>>, Types'
    PROVE  IInv'
<1>1. /\ TrapsLinked(stack, trapSp) /\ Chain(native, extRaise)
      /\ stack \in Seq(Word) /\ Len(stack) \in Nat /\ externSp = Len(stack)
      /\ Len(native) > 1 /\ native[Len(native)].k = "opt"
  BY OptOpen
<1>2. PICK ht : Structure(stack, Len(stack), native, ht) /\ ht[Len(native)] = Len(stack)
  BY OptOpen
<1>3. FrameAt(stack', fr, native[Len(native)].k, Len(stack'), ht[Len(native)])
  <2>1. CASE fr.k = "opt"
    <3>1. fr.caller = "opt" /\ fr.extra = 0 BY <2>1
    <3>2. OptAt(stack', fr, "opt", Len(stack'), ht[Len(native)]) BY <1>2, <3>1 DEF OptAt
    <3> QED BY <1>1, <2>1, <3>2 DEF FrameAt
  <2>2. CASE fr.k = "c"
    <3>1. CAt(stack', fr, "opt", Len(stack'), ht[Len(native)]) BY <1>2, <2>2 DEF CAt
    <3> QED BY <1>1, <2>2, <3>1 DEF FrameAt
  <2> QED BY <2>1, <2>2
<1>4. /\ Structure(stack', Len(stack'), native, ht) /\ TrapsLinked(stack', trapSp') /\ extRaise' = extRaise
      /\ externSp' = Len(stack') /\ ht[Len(native)] <= Len(stack') /\ fr.k # "entry"
  BY <1>1, <1>2 DEF caml
<1> QED BY <1>1, <1>3, <1>4, PushNative

\* Fresh arguments in registers.
LEMMA FreshWords ==
    ASSUME tick \in Nat, NEW n \in Nat
    PROVE  FreshArgs(n) \in Seq(Word)
<1>1. FreshArgs(n) \in Seq(Token) /\ Token \subseteq Word
  BY FreshTokens, WordsAreWords
<1> QED BY <1>1

\* apply_k, fast path.
LEMMA OptApplyFastStep ==
    ASSUME IInv, NEW f \in Funs, NEW n \in 1..MaxArgs, OptApplyFast(f, n)
    PROVE  IInv'
<1>1. Types /\ tick \in Nat /\ n \in Nat /\ pc = "opt"
  BY BoundAssumption DEF IInv, Types, OptApplyFast
<1>2. PICK fr : fr = Opt(f, FreshArgs(n), "opt", 0)
  OBVIOUS
<1>3. fr \in OptFrame /\ fr.k = "opt" /\ fr.caller = "opt" /\ fr.extra = 0
  <2>1. FreshArgs(n) \in Seq(Word) BY <1>1, FreshWords
  <2> QED BY <1>2, <2>1 DEF Opt, OptFrame
<1>4. native' = Append(native, fr) /\ pc' = "opt" /\ UNCHANGED <<stack, caml>> /\ fr \in Frames
  BY <1>1, <1>2, <1>3 DEF OptApplyFast, Frames
<1>5. Types'
  <2>1. native' \in Seq(Frames) /\ Len(native') > 0 BY <1>1, <1>4 DEF Types
  <2>2. tick' \in Nat /\ accu' \in Value BY <1>1, WordsAreWords DEF OptApplyFast, StartOp
  <2> QED BY <1>1, <1>4, <2>1, <2>2 DEF Types, OptApplyFast, caml
<1> QED BY <1>1, <1>3, <1>4, <1>5, OptPushes

\* c_call of optimised code.
LEMMA OptCCallStep == ASSUME IInv, OptCCall PROVE IInv'
<1>1. Types /\ tick \in Nat /\ pc = "opt"
  BY DEF IInv, Types, OptCCall
<1>2. PICK fr : fr = C("opt", 0, Unit)
  OBVIOUS
<1>3. fr \in CFrame /\ fr.k = "c" /\ fr.from = "opt"
  <2>1. Unit \in Value BY WordsAreWords
  <2> QED BY <1>2, <2>1 DEF C, CFrame
<1>4. native' = Append(native, fr) /\ pc' = "c" /\ UNCHANGED <<stack, caml>> /\ fr \in Frames
  BY <1>1, <1>2, <1>3 DEF OptCCall, Frames
<1>5. Types'
  <2>1. native' \in Seq(Frames) /\ Len(native') > 0 BY <1>1, <1>4 DEF Types
  <2>2. tick' \in Nat BY <1>1 DEF OptCCall, StartOp
  <2> QED BY <1>1, <1>4, <2>1, <2>2 DEF Types, OptCCall, caml, regs, Labels
<1> QED BY <1>1, <1>3, <1>4, <1>5, OptPushes

\* Pending actions run by optimised code.
LEMMA OptCheckSignalsStep == ASSUME IInv, OptCheckSignals PROVE IInv'
<1>1. Types /\ accu \in Value /\ pc = "opt"
  BY DEF IInv, Types, OptCheckSignals
<1>2. PICK fr : fr = C("opt_events", 0, accu)
  OBVIOUS
<1>3. fr \in CFrame /\ fr.k = "c" /\ fr.from = "opt_events"
  BY <1>1, <1>2 DEF C, CFrame
<1>4. native' = Append(native, fr) /\ pc' = "c" /\ UNCHANGED <<stack, caml>> /\ fr \in Frames
  BY <1>1, <1>2, <1>3 DEF OptCheckSignals, Frames
<1>5. Types'
  <2>1. native' \in Seq(Frames) /\ Len(native') > 0 BY <1>1, <1>4 DEF Types
  <2>2. accu' \in Value BY WordsAreWords DEF OptCheckSignals
  <2> QED BY <1>1, <1>4, <2>1, <2>2 DEF Types, OptCheckSignals, caml, Labels
<1> QED BY <1>1, <1>3, <1>4, <1>5, OptPushes

\* optcall.
LEMMA OptCallStep == ASSUME IInv, OptCall PROVE IInv'
<1>1. PICK ht : AsmState(ht)
  BY AsmOpen DEF OptCall, AsmLabels
<1>2. PICK lo : lo = ht[Len(native)]
  OBVIOUS
<1>3. accu[1] = "clo" /\ Call(stack, Arity[accu[2]] + extra, Len(stack), lo)
  BY <1>1, <1>2 DEF AsmState, AsmOK, Height, OptCall
<1>4. /\ stack \in Seq(Word) /\ Len(stack) \in Nat /\ lo \in Nat /\ Types /\ extra \in Nat /\ accu \in Value
      /\ Chain(native, extRaise) /\ native[Len(native)].k = "entry" /\ Len(native) > 1
  BY <1>1, <1>2, TopFrame DEF AsmState, Types, Frame
<1>5. PICK f : f = accu[2]
  OBVIOUS
<1>6. f \in Funs /\ Arity[f] \in Nat
  BY <1>3, <1>4, <1>5, WordKinds, FunsAssumption
<1>7. PICK k : k = Arity[f]
  OBVIOUS
<1>8. PICK m : m = k + extra
  OBVIOUS
<1>9. Call(stack, m, Len(stack), lo) /\ k \in 0..m /\ k \in Nat /\ m \in Nat
  BY <1>3, <1>4, <1>5, <1>6, <1>7, <1>8
<1>10. m + 3 <= Len(stack)
  BY <1>4, <1>9, BodyAbove
<1>11. PICK q : q = Len(stack) - k
  OBVIOUS
<1>12. q \in Nat /\ k \in 0..Len(stack)
  BY <1>4, <1>8, <1>9, <1>10, <1>11
<1>13. stack' \in Seq(Word) /\ Len(stack') = q /\ Same(stack, stack', q) /\ Args(stack', q, Len(stack'))
  <2>1. stack' = Drop(k) BY <1>5, <1>7 DEF OptCall
  <2>2. stack' \in Seq(Word) /\ Len(stack') = q /\ Same(stack, stack', q) BY <1>4, <1>11, <1>12, <2>1, DropSame
  <2>3. Args(stack', q, Len(stack')) BY <1>12, <2>2 DEF Args
  <2> QED BY <2>2, <2>3
<1>14. /\ Structure(stack', Len(stack'), native, ht) /\ TrapsLinked(stack', trapSp)
       /\ Call(stack', extra, Len(stack'), lo)
  <2>1. extra = m - k + (Len(stack') - q) BY <1>4, <1>8, <1>9, <1>12, <1>13
  <2> QED BY <1>1, <1>2, <1>9, <1>11, <1>13, <2>1, AsmArgs
<1>15. lo < Len(stack') /\ lo <= Len(stack')
  BY <1>4, <1>12, <1>13, <1>14, BodyAbove
<1>16. PICK fr : fr = Opt(f, Peek(k), "asm", extra)
  OBVIOUS
<1>17. fr \in OptFrame /\ fr.k = "opt" /\ fr.caller = "asm" /\ fr.extra = extra
  <2>1. Peek(k) \in Seq(Word)
    <3>1. \A i \in 1..k : stack[i] \in Word BY <1>4, <1>12
    <3> QED BY <1>4, <1>12, <3>1 DEF Peek
  <2> QED BY <1>4, <1>6, <1>16, <2>1 DEF Opt, OptFrame
<1>18. FrameAt(stack', fr, native[Len(native)].k, Len(stack'), ht[Len(native)])
  <2>1. OptAt(stack', fr, "entry", Len(stack'), lo) BY <1>14, <1>17 DEF OptAt
  <2> QED BY <1>2, <1>4, <1>12, <1>13, <1>17, <2>1 DEF FrameAt
<1>19. /\ native' = Append(native, fr) /\ pc' = "opt" /\ externSp' = Len(stack') /\ UNCHANGED <<trapSp, extRaise>>
       /\ fr \in Frames
  BY <1>5, <1>7, <1>11, <1>13, <1>16, <1>17 DEF OptCall, Height, Frames
<1>20. Types'
  <2>1. native' \in Seq(Frames) /\ Len(native') > 0 BY <1>4, <1>19 DEF Types
  <2>2. accu' \in Value /\ externSp' \in Nat BY <1>12, <1>13, <1>19, WordsAreWords DEF OptCall
  <2> QED BY <1>4, <1>13, <1>19, <2>1, <2>2 DEF Types, OptCall, bounds, Labels
<1> QED BY <1>2, <1>4, <1>14, <1>15, <1>17, <1>18, <1>19, <1>20, PushNative

-----------------------------------------------------------------------------
(* Calls from optimised code through apply_n *)

\* Arguments and a return frame stored above extern_sp, for apply_n.
LEMMA ToApplyN ==
    ASSUME NEW s \in Seq(Word), NEW q, q = Len(s), NEW ht, Structure(s, q, native', ht), TrapsLinked(s, trapSp'),
           Chain(native', extRaise'), ht[Len(native')] = q, Frame'.k = "opt",
           NEW u \in Seq(Token), Len(u) > 0, NEW fill \in Word, Zero(fill),
           stack' = u \o <<Addr("stop"), fill, fill>> \o s, externSp' = q, extra' = Len(u) - 1,
           Callee(accu'), pc' = "apply_n", Types'
    PROVE  IInv'
<1>1. PICK x : x = <<Addr("stop"), fill, fill>>
  OBVIOUS
<1>2. x \in Seq(Word) /\ Len(x) = 3 /\ x[1] = Addr("stop") /\ x[2] = fill /\ x[3] = fill
  <2>1. Addr("stop") \in Word BY WordsAreWords DEF Labels
  <2> QED BY <1>1, <2>1
<1>3. /\ stack' \in Seq(Word) /\ Len(stack') = q + 3 + Len(u) /\ Same(s, stack', q)
      /\ \A h \in 1..3 : W(stack', q + h) = x[3 - h + 1]
      /\ Args(stack', q + 3, Len(stack'))
  <2>1. stack' = u \o x \o s BY <1>1
  <2>2. /\ stack' \in Seq(Word) /\ Len(stack') = Len(s) + Len(x) + Len(u) /\ Same(s, stack', Len(s))
        /\ \A h \in 1..Len(x) : W(stack', Len(s) + h) = x[Len(x) - h + 1]
        /\ Args(stack', Len(s) + Len(x), Len(stack'))
    BY <1>2, <2>1, PushCall
  <2> QED BY <1>2, <2>2
<1>4. W(stack', q + 1) = fill /\ W(stack', q + 2) = fill /\ W(stack', q + 3) = Addr("stop")
  <2>1. 3 - 1 + 1 = 3 /\ 3 - 2 + 1 = 2 /\ 3 - 3 + 1 = 1 OBVIOUS
  <2> QED BY <1>2, <1>3, <2>1
<1>5. q \in Nat /\ Len(u) \in Nat /\ Len(stack') \in Nat
  BY <1>3
<1>6. Structure(stack', q, native', ht)
  <2>1. q <= q /\ ht[Len(native')] <= q BY <1>5
  <2> QED BY <1>3, <2>1, KeepStructure
<1>7. TrapsLinked(stack', trapSp')
  <2>1. fill # Addr("trap") /\ Addr("stop") # Addr("trap")
    <3>1. RawZero[1] = "raw" /\ ValLong(0)[1] = "long" /\ Addr("trap")[1] = "addr"
          /\ Addr("stop")[2] = "stop" /\ Addr("trap")[2] = "trap" BY WordParts
    <3> QED BY <3>1 DEF Zero
  <2>2. \A h \in (q + 3 + 1)..Len(stack') : W(stack', h) # Addr("trap") BY <1>3, ArgPoints
  <2>3. \A h \in (q + 1)..Len(stack') : h = q + 1 \/ h = q + 2 \/ h = q + 3 \/ h \in (q + 3 + 1)..Len(stack')
    BY ONLY <1>5
  <2>4. \A h \in (q + 1)..Len(stack') : W(stack', h) # Addr("trap") BY <1>4, <2>1, <2>2, <2>3
  <2>5. \A h \in (q + 1)..Len(s) : W(s, h) # Addr("trap") BY <1>5
  <2>6. PICK t : t = trapSp' OBVIOUS
  <2>7. Same(s, stack', q) /\ TrapsLinked(s, t) BY <1>3, <2>6
  <2>8. TrapsLinked(stack', t) BY ONLY <2>4, <2>5, <2>7, TrapsKept
  <2> QED BY ONLY <2>6, <2>8
<1>8. Len(stack') = externSp' + extra' + 4
  BY <1>3, <1>5
<1>9. NativeOK' /\ Cur' = q
  BY <1>3, <1>4, <1>8 DEF NativeOK, Cur, Height
<1>10. NativeState(ht)'
  BY <1>6, <1>7, <1>9 DEF NativeState
<1> QED BY <1>10, NativeClose

\* Calls of optimised code that are not on the fast path.
LEMMA OptApplySlowStep ==
    ASSUME IInv, NEW v \in Callable, NEW n \in 1..MaxArgs, OptApplySlow(v, n)
    PROVE  IInv'
<1>1. /\ Types /\ TrapsLinked(stack, trapSp) /\ Chain(native, extRaise) /\ tick \in Nat /\ accu \in Value
      /\ stack \in Seq(Word) /\ Len(stack) \in Nat /\ externSp = Len(stack) /\ native[Len(native)].k = "opt"
      /\ n \in Nat /\ n > 0
  BY OptOpen, BoundAssumption DEF OptApplySlow, Types
<1>2. PICK ht : Structure(stack, Len(stack), native, ht) /\ ht[Len(native)] = Len(stack)
  BY OptOpen DEF OptApplySlow
<1>3. PICK q : q = Len(stack)
  OBVIOUS
<1>4. PICK s : s = From(stack, q)
  OBVIOUS
<1>5. s \in Seq(Word) /\ Len(s) = q /\ Same(stack, s, q) /\ q \in Nat /\ q \in 0..Len(stack) /\ q <= q
  <2>1. q \in 0..Len(stack) /\ q \in Nat /\ q <= q BY <1>1, <1>3
  <2> QED BY <1>1, <1>4, <2>1, CutSame
<1>6. Structure(s, q, native, ht)
  BY <1>2, <1>3, <1>5, KeepStructure
<1>7. TrapsLinked(s, trapSp)
  <2>1. \A h \in (q + 1)..Len(stack) : W(stack, h) # Addr("trap") BY <1>3, <1>5
  <2>2. \A h \in (q + 1)..Len(s) : W(s, h) # Addr("trap") BY <1>5
  <2> QED BY <1>1, <1>5, <2>1, <2>2, TrapsKept
<1>8. PICK u : u = FreshArgs(n)
  OBVIOUS
<1>9. u \in Seq(Token) /\ Len(u) = n
  BY <1>1, <1>8, FreshTokens
<1>10. PICK fill : fill = IF n <= MaxRegArgs THEN RawZero ELSE ValLong(0)
  OBVIOUS
<1>11. fill \in Word /\ Zero(fill)
  BY <1>10, WordsAreWords DEF Zero
<1>12. stack' = u \o <<Addr("stop"), fill, fill>> \o s
  BY <1>1, <1>3, <1>4, <1>8, <1>10 DEF OptApplySlow
<1>13. /\ accu' = v /\ extra' = n - 1 /\ pc' = "apply_n"
       /\ externSp' = q /\ UNCHANGED <<env, rdx, trapSp, extRaise, native, status, todo>>
  BY <1>1, <1>3 DEF OptApplySlow, caml
<1>14. Callee(v) /\ v \in Value
  BY <1>1, CallableCallee
<1>15. Types'
  <2>1. <<Addr("stop"), fill, fill>> \in Seq(Word)
    <3>1. Addr("stop") \in Word BY WordsAreWords DEF Labels
    <3> QED BY <1>11, <3>1
  <2>2. u \in Seq(Word) BY <1>9, WordsAreWords
  <2>3. stack' \in Seq(Word) BY <1>5, <1>12, <2>1, <2>2
  <2>4. tick' \in Nat /\ extra' \in Nat BY <1>1, <1>13 DEF OptApplySlow, StartOp
  <2> QED BY <1>1, <1>5, <1>13, <1>14, <2>3, <2>4 DEF Types, Labels
<1>16. Structure(s, q, native', ht) /\ TrapsLinked(s, trapSp') /\ Chain(native', extRaise')
  BY <1>1, <1>6, <1>7, <1>13
<1>17. ht[Len(native')] = q /\ Frame'.k = "opt"
  BY <1>1, <1>2, <1>3, <1>13 DEF Frame
<1>18. Len(u) > 0 /\ extra' = Len(u) - 1 /\ q = Len(s)
  BY <1>1, <1>5, <1>9, <1>13
<1>19. Callee(accu') /\ u \in Seq(Token) /\ s \in Seq(Word) /\ externSp' = q /\ pc' = "apply_n"
  BY <1>5, <1>9, <1>13, <1>14
<1> QED BY ONLY <1>11, <1>12, <1>15, <1>16, <1>17, <1>18, <1>19, ToApplyN

\* apply_n enters a new machine.
LEMMA ApplyNStep == ASSUME IInv, ApplyN PROVE IInv'
<1>1. PICK ht : NativeState(ht)
  BY NativeOpen DEF ApplyN
<1>2. PICK q : q = externSp
  OBVIOUS
<1>3. /\ Types /\ TrapsLinked(stack, trapSp) /\ Chain(native, extRaise) /\ NativeOK
      /\ stack \in Seq(Word) /\ Len(stack) \in Nat /\ extra \in Nat /\ q \in Nat /\ extRaise \in Nat /\ accu \in Value
  BY <1>1, <1>2 DEF NativeState, Types
<1>4. Structure(stack, q, native, ht) /\ ht[Len(native)] = q
  BY <1>1, <1>2 DEF NativeState, Cur, ApplyN
<1>5. /\ native[Len(native)].k = "opt" /\ Callee(accu) /\ Len(stack) = q + extra + 4
      /\ Args(stack, q + 3, Len(stack)) /\ W(stack, q + 3) = Addr("stop")
      /\ Zero(W(stack, q + 2)) /\ Zero(W(stack, q + 1))
  BY <1>2, <1>3 DEF NativeOK, ApplyN, Frame, Height
<1>6. Len(native) \in Nat /\ Len(native) > 1 /\ native \in Seq(Frames)
  <2>1. native[1].k = "c" /\ Len(native) \in Nat /\ Len(native) > 0 /\ native \in Seq(Frames)
    BY <1>4, TopFrame DEF Structure, FramesOK
  <2> QED BY <1>5, <2>1
<1>7. stack' \in Seq(Word) /\ Len(stack') = Len(stack) /\ Same(stack, stack', Len(stack))
  <2>1. PICK l : l = Len(stack) OBVIOUS
  <2>2. l \in 0..Len(stack) /\ stack' = From(stack, l) BY <1>2, <1>3, <1>5, <2>1 DEF ApplyN
  <2> QED BY <1>3, <2>1, <2>2, CutSame
<1>8. /\ Args(stack', q + 3, Len(stack')) /\ W(stack', q + 3) = Addr("stop")
      /\ Zero(W(stack', q + 2)) /\ Zero(W(stack', q + 1))
  <2>1. q + 1 \in 1..Len(stack) /\ q + 2 \in 1..Len(stack) /\ q + 3 \in 1..Len(stack)
    <3>1. q \in Nat /\ extra \in Nat /\ Len(stack) = q + extra + 4 BY <1>3, <1>5
    <3> QED BY ONLY <3>1
  <2>2. \A h \in 1..Len(stack) : W(stack', h) = W(stack, h) BY <1>7 DEF Same
  <2>3. \A h \in (q + 3 + 1)..Len(stack') : h \in 1..Len(stack) BY <1>3, <1>7
  <2> QED BY <1>5, <1>7, <2>1, <2>2, <2>3 DEF Args
<1>9. PICK fr : fr = Entry(q, extRaise, TRUE, 0)
  OBVIOUS
<1>10. fr \in EntryFrame /\ fr.k = "entry" /\ fr.initSp = q /\ fr.prev = extRaise /\ fr.reraise
  BY <1>3, <1>9 DEF Entry, EntryFrame
<1>11. fr \in Frames /\ native' = Append(native, fr) /\ extRaise' = Len(native) + 1 /\ env' = Unit /\ pc' = "apply"
  <2>1. fr \in Frames BY <1>10 DEF Frames
  <2>2. native' = Append(native, fr) /\ extRaise' = Len(native') /\ env' = Unit /\ pc' = "apply" BY <1>2, <1>9 DEF ApplyN
  <2>3. Len(native') = Len(native) + 1 BY <1>6, <2>1, <2>2
  <2> QED BY <2>1, <2>2, <2>3
<1>12. PICK ht2 : ht2 = Higher(native, ht, q)
  OBVIOUS
<1>13. Len(native') = Len(native) + 1 /\ native'[Len(native')] = fr /\ ht2[Len(native')] = q
  <2>1. Len(native') = Len(native) + 1 /\ native'[Len(native) + 1] = fr BY <1>6, <1>11
  <2>2. Len(native) + 1 \in 1..(Len(native) + 1) /\ ~(Len(native) + 1 <= Len(native)) BY <1>6
  <2>3. ht2[Len(native) + 1] = q BY <1>12, <2>2 DEF Higher
  <2> QED BY <2>1, <2>3
<1>14. Structure(stack', q, native', ht2)
  <2>0. q <= Len(stack) /\ q <= q BY <1>3, <1>5
  <2>1. Same(stack, stack', q) BY <1>3, <1>7, <2>0 DEF Same
  <2>2. Structure(stack', q, native, ht) BY <1>4, <2>0, <2>1, KeepStructure
  <2>3. FrameAt(stack', fr, native[Len(native)].k, q, ht[Len(native)])
    <3>1. EntryAt(fr, "opt", q, q) BY <1>10 DEF EntryAt
    <3> QED BY <1>4, <1>5, <1>7, <1>10, <2>0, <3>1 DEF FrameAt
  <2>4. ht[Len(native)] <= q /\ native[Len(native)].k # "entry" /\ Len(native) # 1 BY <1>3, <1>4, <1>5, <1>6
  <2>5. Structure(stack', q, Append(native, fr), Higher(native, ht, q))
    BY <1>3, <1>7, <1>11, <2>0, <2>2, <2>3, <2>4, GrowStructure
  <2> QED BY <1>11, <1>12, <2>5
<1>15. \A h \in (q + 1)..Len(stack') : PointOK(stack', h, native', ht2)
  <2>1. PointOK(stack', q + 1, native', ht2) /\ PointOK(stack', q + 2, native', ht2)
    <3>1. W(stack', q + 1)[1] # "addr" /\ W(stack', q + 2)[1] # "addr" BY <1>8, WordParts DEF Zero
    <3> QED BY <3>1, PlainPoint
  <2>2. PointOK(stack', q + 3, native', ht2)
    <3>1. PICK h : h = q + 3 OBVIOUS
    <3>2. W(stack', h) = Addr("stop") /\ h - 3 = q BY <1>3, <1>8, <3>1
    <3>3. /\ Addr("stop")[2] = "stop" /\ Addr("base")[2] = "base" /\ Addr("trap")[2] = "trap"
          /\ Addr("callback_stop")[2] = "callback_stop"
      BY WordParts
    <3>4. Len(native') \in 1..Len(native') BY <1>6, <1>13
    <3>5. \E j \in 1..Len(native') : native'[j].k = "entry" /\ native'[j].reraise /\ ht2[j] = h - 3
      BY <1>10, <1>13, <3>2, <3>4
    <3>6. PointOK(stack', h, native', ht2) BY <3>2, <3>3, <3>5 DEF PointOK
    <3> QED BY <3>1, <3>6
  <2>3. \A h \in (q + 3 + 1)..Len(stack') : PointOK(stack', h, native', ht2) BY <1>8, ArgPoints
  <2>4. \A h \in (q + 1)..Len(stack') : h = q + 1 \/ h = q + 2 \/ h = q + 3 \/ h \in (q + 3 + 1)..Len(stack')
    <3>1. q \in Nat /\ Len(stack') \in Nat BY <1>3, <1>7
    <3> QED BY ONLY <3>1
  <2> QED BY <2>1, <2>2, <2>3, <2>4
<1>16. Structure(stack', Len(stack'), native', ht2)
  <2>1. Len(stack') \in 0..Len(stack') /\ q <= Len(stack') BY <1>3, <1>5, <1>7
  <2> QED BY <1>7, <1>14, <1>15, <2>1, MoreStructure
<1>17. TrapsLinked(stack', trapSp') /\ trapSp' = trapSp
  <2>1. \A h \in (Len(stack) + 1)..Len(stack) : W(stack, h) # Addr("trap") BY <1>3
  <2>2. \A h \in (Len(stack) + 1)..Len(stack') : W(stack', h) # Addr("trap") BY <1>3, <1>7
  <2>3. TrapsLinked(stack', trapSp) BY <1>3, <1>7, <2>1, <2>2, TrapsKept
  <2> QED BY <2>3 DEF ApplyN
<1>18. Chain(native', extRaise')
  BY <1>3, <1>6, <1>10, <1>11, ChainPushed
<1>19. Types'
  <2>1. native' \in Seq(Frames) /\ Len(native') > 0 BY <1>6, <1>11
  <2>2. env' \in Word /\ extRaise' \in Nat BY <1>6, <1>11, WordsAreWords
  <2> QED BY <1>3, <1>7, <1>11, <2>1, <2>2 DEF Types, ApplyN, bounds, Labels
<1>20. AsmOK(q)'
  <2>1. Call(stack', 1 + extra, Len(stack'), q)
    <3>1. PICK r : r = q + 3 OBVIOUS
    <3>2. r \in 3..Len(stack') /\ q + 3 <= r /\ r - 2 = q + 1 BY <1>3, <1>5, <1>7, <3>1
    <3>3. RetAt(stack', r, q) BY <1>8, <3>1, <3>2 DEF RetAt
    <3>4. Len(stack') - (1 + extra) = r /\ 1 + extra \in Nat /\ Len(stack') \in 0..Len(stack')
      BY <1>3, <1>5, <1>7, <3>1
    <3> QED BY <1>8, <3>1, <3>3, <3>4 DEF Call
  <2>2. extra' = extra /\ accu' = accu BY DEF ApplyN
  <2> QED BY <1>5, <1>11, <2>1, <2>2 DEF AsmOK, Height
<1>21. AsmState(ht2)'
  <2>1. AsmOK(ht2[Len(native)])' BY <1>13, <1>20
  <2>2. Frame'.k = "entry" BY <1>10, <1>13 DEF Frame
  <2> QED BY <1>16, <1>17, <1>18, <1>19, <2>1, <2>2 DEF AsmState
<1> QED BY <1>11, <1>21, AsmClose DEF AsmLabels

-----------------------------------------------------------------------------
(* Native frames popped *)

\* The native stack cut to its first c frames.
LEMMA CutFrames ==
    ASSUME NEW n \in Seq(Frames), NEW c \in 1..Len(n), NEW n2, n2 = SubSeq(n, 1, c)
    PROVE  /\ n2 \in Seq(Frames) /\ Len(n2) = c
           /\ \A i \in 1..c : n2[i] = n[i] /\ SameFrame(n[i], n2[i])
<1>1. c \in Nat /\ c <= Len(n) /\ Len(n) \in Nat
  OBVIOUS
<1>2. \A i \in 1..c : n[i] \in Frames
  BY <1>1
<1>3. n2 \in Seq(Frames) /\ Len(n2) = c /\ \A i \in 1..c : n2[i] = n[i]
  BY <1>1, <1>2
<1> QED BY <1>3 DEF SameFrame

\* The top frame n[Len(n)] is popped, and the OCaml stack cut to height q.
Pops(s, s2, q, m, n, ht, c, n2) ==
    /\ Structure(s, m, n, ht) /\ Same(s, s2, q) /\ q <= m
    /\ Len(n) > 1 /\ c = Len(n) - 1 /\ n2 = SubSeq(n, 1, c) /\ ht[c] <= q
    /\ n[Len(n)].k = "entry" => ht[Len(n)] >= q

\* What such a step leaves.
LEMMA PopStructure ==
    ASSUME NEW s, NEW s2, NEW q, NEW m, NEW n, NEW ht, NEW c, NEW n2, Pops(s, s2, q, m, n, ht, c, n2)
    PROVE  /\ n2 \in Seq(Frames) /\ Len(n2) = c /\ c \in 1..Len(n) /\ n2[c] = n[c]
           /\ \A i \in 1..c : n2[i] = n[i] /\ SameFrame(n[i], n2[i])
           /\ \E ht2 : Structure(s2, q, n2, ht2) /\ ht2[c] = ht[c]
<1>0. /\ Structure(s, m, n, ht) /\ Same(s, s2, q) /\ q <= m
      /\ Len(n) > 1 /\ c = Len(n) - 1 /\ n2 = SubSeq(n, 1, c) /\ ht[c] <= q
      /\ n[Len(n)].k = "entry" => ht[Len(n)] >= q
  BY DEF Pops
<1>1. n \in Seq(Frames) /\ Len(n) \in Nat
  BY <1>0, TopFrame
<1>2. c \in 1..Len(n) /\ c \in 1..c
  BY <1>0, <1>1
<1>3. n2 \in Seq(Frames) /\ Len(n2) = c /\ \A i \in 1..c : n2[i] = n[i] /\ SameFrame(n[i], n2[i])
  BY <1>0, <1>1, <1>2, CutFrames
<1>4. \A i \in (c + 1)..Len(n) : n[i].k = "entry" => ht[i] >= q
  <2>1. \A i \in (c + 1)..Len(n) : i = Len(n) BY <1>0, <1>1
  <2> QED BY <1>0, <2>1
<1>5. PICK ht2 : ht2 = [i \in 1..c |-> ht[i]]
  OBVIOUS
<1>6. Structure(s2, q, n2, [i \in 1..c |-> ht[i]])
  <2>1. \A i \in 1..c : SameFrame(n[i], n2[i]) BY <1>3
  <2>2. Structure(s, m, n, ht) /\ Same(s, s2, q) /\ q <= m /\ ht[c] <= q BY <1>0
  <2>3. c \in 1..Len(n) /\ n2 \in Seq(Frames) /\ Len(n2) = c BY <1>2, <1>3
  <2> QED BY ONLY <1>4, <2>1, <2>2, <2>3, CutStructure
<1>7. Structure(s2, q, n2, ht2) /\ ht2[c] = ht[c]
  BY <1>2, <1>5, <1>6
<1> QED BY <1>2, <1>3, <1>7

\* The chain of jump buffers when the top frame is popped.
LEMMA PopChain ==
    ASSUME NEW n \in Seq(Frames), NEW x, Chain(n, x), Len(n) > 1, NEW c, c = Len(n) - 1,
           NEW n2 \in Seq(Frames), Len(n2) = c, \A i \in 1..c : SameFrame(n[i], n2[i])
    PROVE  /\ n[Len(n)].k # "entry" => Chain(n2, x)
           /\ n[Len(n)].k = "entry" => Chain(n2, n[Len(n)].prev)
<1>1. Len(n) \in Nat /\ c \in 0..Len(n) /\ Len(n) \in 1..Len(n)
  OBVIOUS
<1>2. CASE n[Len(n)].k # "entry"
  <2>1. IsLast(n, Len(n), x) BY DEF Chain
  <2>2. IsLast(n, c, x)
    <3>1. x \in 0..Len(n) /\ (x > 0 => n[x].k = "entry") /\ \A i \in 1..Len(n) : n[i].k = "entry" => i <= x
      BY <2>1 DEF IsLast
    <3>2. x \in 0..c BY <1>1, <1>2, <3>1
    <3>3. \A i \in 1..c : i \in 1..Len(n) BY <1>1
    <3> QED BY <3>1, <3>2, <3>3 DEF IsLast
  <2>3. Chain(n2, x) BY <1>1, <2>2, ChainCut
  <2> QED BY <1>2, <2>3
<1>3. CASE n[Len(n)].k = "entry"
  <2>1. IsLast(n, c, n[Len(n)].prev) BY <1>1, <1>3 DEF Chain
  <2>2. PICK y : y = n[Len(n)].prev OBVIOUS
  <2>3. Chain(n2, y) BY <1>1, <2>1, <2>2, ChainCut
  <2> QED BY <1>3, <2>2, <2>3
<1> QED BY <1>2, <1>3

\* ->retaddr_offset: apply_n returns to its optimised caller.
LEMMA StopStep == ASSUME IInv, Stop PROVE IInv'
<1>1. PICK ht : AsmState(ht)
  BY AsmOpen DEF Stop, AsmLabels
<1>2. PICK lo : lo = ht[Len(native)]
  OBVIOUS
<1>3. /\ stack \in Seq(Word) /\ Len(stack) \in Nat /\ lo \in Nat /\ Types /\ Chain(native, extRaise)
      /\ Structure(stack, Len(stack), native, ht) /\ native \in Seq(Frames) /\ native[Len(native)].k = "entry"
      /\ TrapsLinked(stack, trapSp)
  BY <1>1, <1>2, TopFrame DEF AsmState, Types, Frame
<1>4. Frame.reraise /\ Len(stack) = lo
  BY <1>1, <1>2 DEF AsmState, AsmOK, Height, Stop
<1>5. /\ Frame.prev \in Nat /\ Len(native) > 1 /\ ht[Len(native) - 1] = lo /\ native[Len(native) - 1].k = "opt"
  BY <1>2, <1>3, <1>4, TopEntry DEF Frame
<1>6. PICK c : c = Len(native) - 1
  OBVIOUS
<1>7. PICK q : q = Len(stack)
  OBVIOUS
<1>8. Same(stack, stack', q) /\ q <= q /\ ht[c] <= q /\ lo >= q
  BY <1>3, <1>4, <1>5, <1>6, <1>7 DEF Stop, Same
<1>9. native' = SubSeq(native, 1, c)
  BY <1>6 DEF Stop, PopFrame
<1>10. /\ native' \in Seq(Frames) /\ Len(native') = c /\ c \in 1..Len(native) /\ native'[c] = native[c]
       /\ \A i \in 1..c : native'[i] = native[i] /\ SameFrame(native[i], native'[i])
       /\ \E ht2 : Structure(stack', q, native', ht2) /\ ht2[c] = ht[c]
  <2>1. Pops(stack, stack', q, q, native, ht, c, native') BY <1>2, <1>3, <1>5, <1>6, <1>7, <1>8, <1>9 DEF Pops
  <2> QED BY <2>1, PopStructure
<1>11. PICK ht2 : Structure(stack', q, native', ht2) /\ ht2[c] = ht[c]
  BY <1>10
<1>12. Chain(native', extRaise')
  <2>1. Chain(native', Frame.prev) BY <1>3, <1>5, <1>6, <1>10, PopChain DEF Frame
  <2> QED BY <2>1 DEF Stop
<1>13. Types'
  BY <1>3, <1>5, <1>10 DEF Types, Stop, bounds, Height, Labels
<1>14. NativeOK' /\ Cur' = q
  <2>1. Frame'.k = "opt" BY <1>5, <1>6, <1>10 DEF Frame
  <2> QED BY <1>7, <2>1 DEF NativeOK, Cur, Height, Stop
<1>15. NativeState(ht2)'
  <2>1. ht2[Len(native')] = q BY <1>4, <1>5, <1>6, <1>7, <1>10, <1>11
  <2>2. TrapsLinked(stack', trapSp') BY <1>3 DEF Stop
  <2> QED BY <1>11, <1>12, <1>13, <1>14, <2>1, <2>2 DEF NativeState
<1> QED BY <1>15, NativeClose DEF Stop

\* The last instruction of a callback: back in caml_callbackN_exn.
LEMMA CallbackStopStep == ASSUME IInv, CallbackStop PROVE IInv'
<1>1. PICK ht : AsmState(ht)
  BY AsmOpen DEF CallbackStop, AsmLabels
<1>2. PICK lo : lo = ht[Len(native)]
  OBVIOUS
<1>3. /\ stack \in Seq(Word) /\ Len(stack) \in Nat /\ lo \in Nat /\ Types /\ Chain(native, extRaise)
      /\ Structure(stack, Len(stack), native, ht) /\ native \in Seq(Frames) /\ native[Len(native)].k = "entry"
      /\ TrapsLinked(stack, trapSp)
  BY <1>1, <1>2, TopFrame DEF AsmState, Types, Frame
<1>4. ~Frame.reraise /\ Len(stack) = lo + 1
  BY <1>1, <1>2 DEF AsmState, AsmOK, Height, CallbackStop
<1>5. /\ Frame.prev \in Nat /\ Len(native) > 1 /\ ht[Len(native) - 1] = lo /\ native[Len(native) - 1].k = "c"
  BY <1>2, <1>3, <1>4, TopEntry DEF Frame
<1>6. PICK c : c = Len(native) - 1
  OBVIOUS
<1>7. stack' \in Seq(Word) /\ Len(stack') = lo /\ Same(stack, stack', lo)
  <2>1. stack' = Drop(1) /\ 1 \in 0..Len(stack) /\ lo = Len(stack) - 1 BY <1>3, <1>4 DEF CallbackStop
  <2> QED BY <1>3, <2>1, DropSame
<1>8. lo <= Len(stack) /\ ht[c] <= lo /\ lo >= lo
  BY <1>3, <1>4, <1>5, <1>6
<1>9. native' = SubSeq(native, 1, c)
  BY <1>6 DEF CallbackStop, PopFrame
<1>10. /\ native' \in Seq(Frames) /\ Len(native') = c /\ c \in 1..Len(native) /\ native'[c] = native[c]
       /\ \A i \in 1..c : native'[i] = native[i] /\ SameFrame(native[i], native'[i])
       /\ \E ht2 : Structure(stack', lo, native', ht2) /\ ht2[c] = ht[c]
  <2>1. Pops(stack, stack', lo, Len(stack), native, ht, c, native') BY <1>2, <1>3, <1>5, <1>6, <1>7, <1>8, <1>9 DEF Pops
  <2> QED BY <2>1, PopStructure
<1>11. PICK ht2 : Structure(stack', lo, native', ht2) /\ ht2[c] = ht[c]
  BY <1>10
<1>12. Chain(native', extRaise')
  <2>1. Chain(native', Frame.prev) BY <1>3, <1>5, <1>6, <1>10, PopChain DEF Frame
  <2> QED BY <2>1 DEF CallbackStop
<1>13. externSp' = lo
  BY <1>3, <1>4 DEF CallbackStop, Height
<1>14. Types'
  BY <1>3, <1>5, <1>7, <1>10, <1>13 DEF Types, CallbackStop, bounds, regs, Labels
<1>15. NativeOK' /\ Cur' = lo
  <2>1. Frame'.k = "c" BY <1>5, <1>6, <1>10 DEF Frame
  <2> QED BY <1>7, <1>13, <2>1 DEF NativeOK, Cur, Height, CallbackStop
<1>16. TrapsLinked(stack', trapSp')
  <2>1. PICK h : h = lo + 1 OBVIOUS
  <2>2. ASSUME W(stack, h) = Addr("trap") PROVE FALSE
    <3>1. PointOK(stack, h, native, ht) BY <1>3, <1>4, <2>1 DEF Structure, Points
    <3>2. PICK f \in Funs, e \in Nat :
            /\ TrapFrame(stack, h, f, e)
            /\ \A j \in 1..Len(native) : ht[j] < h => Body(stack, f, e, h - 4, ht[j])
      BY <2>2, <3>1 DEF PointOK
    <3>3. Len(native) \in 1..Len(native) /\ lo < h /\ h - 4 \in Int BY <1>3, <1>5, <2>1
    <3>4. Body(stack, f, e, h - 4, lo) BY <1>2, <3>2, <3>3
    <3>5. h - 4 >= lo + 4 BY <1>3, <3>3, <3>4, BodyAbove
    <3> QED BY <1>3, <2>1, <3>5
  <2>3. \A g \in (lo + 1)..Len(stack) : W(stack, g) # Addr("trap") BY <1>3, <1>4, <2>1, <2>2
  <2>4. \A g \in (lo + 1)..Len(stack') : W(stack', g) # Addr("trap") BY <1>3, <1>7
  <2>5. TrapsLinked(stack', trapSp) BY <1>3, <1>7, <2>3, <2>4, TrapsKept
  <2> QED BY <2>5 DEF CallbackStop
<1>17. NativeState(ht2)'
  <2>1. ht2[Len(native')] = lo BY <1>5, <1>6, <1>10, <1>11
  <2> QED BY <1>11, <1>12, <1>14, <1>15, <1>16, <2>1 DEF NativeState
<1> QED BY <1>17, NativeClose DEF CallbackStop

-----------------------------------------------------------------------------
(* Returns of optimised code *)

\* A tail call: its arguments are left on the OCaml stack.
LEMMA OptTailCallStep ==
    ASSUME IInv, NEW v \in Callable, NEW n \in 1..MaxArgs, OptTailCall(v, n)
    PROVE  IInv'
<1>1. /\ Types /\ TrapsLinked(stack, trapSp) /\ Chain(native, extRaise) /\ tick \in Nat /\ accu \in Value
      /\ stack \in Seq(Word) /\ Len(stack) \in Nat /\ externSp = Len(stack) /\ native[Len(native)].k = "opt"
      /\ n \in Nat /\ n > 0
  BY OptOpen, BoundAssumption DEF OptTailCall, Types
<1>2. PICK ht : Structure(stack, Len(stack), native, ht) /\ ht[Len(native)] = Len(stack)
  BY OptOpen DEF OptTailCall
<1>3. PICK q : q = Len(stack)
  OBVIOUS
<1>4. PICK s : s = From(stack, q)
  OBVIOUS
<1>5. s \in Seq(Word) /\ Len(s) = q /\ Same(stack, s, q) /\ q \in Nat /\ q <= q
  <2>1. q \in 0..Len(stack) /\ q \in Nat /\ q <= q BY <1>1, <1>3
  <2> QED BY <1>1, <1>4, <2>1, CutSame
<1>6. PICK u : u = FreshArgs(n)
  OBVIOUS
<1>7. u \in Seq(Token) /\ Len(u) = n
  BY <1>1, <1>6, FreshTokens
<1>8. stack' \in Seq(Word) /\ Len(stack') = q + n /\ Same(s, stack', q) /\ Args(stack', q, Len(stack'))
  <2>1. stack' = u \o s BY <1>1, <1>3, <1>4, <1>6 DEF OptTailCall
  <2>2. /\ stack' \in Seq(Word) /\ Len(stack') = Len(s) + Len(u) /\ Same(s, stack', Len(s))
        /\ Args(stack', Len(s), Len(stack'))
    BY <1>5, <1>7, <2>1, TokensOver
  <2> QED BY <1>5, <1>7, <2>2
<1>9. Same(stack, stack', q)
  BY <1>5, <1>8, SameTrans
<1>10. Structure(stack', q, native, ht)
  BY <1>2, <1>3, <1>5, <1>9, KeepStructure
<1>11. TrapsLinked(stack', trapSp)
  <2>1. \A h \in (q + 1)..Len(stack) : W(stack, h) # Addr("trap") BY <1>3, <1>5
  <2>2. \A h \in (q + 1)..Len(stack') : W(stack', h) # Addr("trap") BY <1>8, ArgPoints
  <2> QED BY <1>1, <1>9, <2>1, <2>2, TrapsKept
<1>12. /\ accu' = v /\ rdx' = n /\ pc' = "opt_return" /\ externSp' = q + n
       /\ UNCHANGED <<env, extra, trapSp, extRaise, native, status, todo>>
  BY <1>1, <1>3 DEF OptTailCall
<1>13. Callee(v) /\ v \in Value
  BY <1>1, CallableCallee
<1>14. Types'
  <2>1. tick' \in Nat /\ externSp' \in Nat
    <3>1. externSp' \in Nat BY <1>1, <1>5, <1>12
    <3>2. tick' \in Nat BY <1>1 DEF OptTailCall, StartOp
    <3> QED BY <3>1, <3>2
  <2> QED BY <1>1, <1>8, <1>12, <1>13, <2>1 DEF Types, Labels
<1>15. NativeOK' /\ Cur' = q
  <2>1. Len(stack') - n = q /\ n <= Len(stack') BY <1>1, <1>5, <1>8
  <2>2. Frame'.k = "opt" BY <1>1, <1>12 DEF Frame
  <2>3. Args(stack', Len(stack') - n, Len(stack')) BY <1>8, <2>1
  <2> QED BY <1>8, <1>12, <1>13, <2>1, <2>2, <2>3 DEF NativeOK, Cur, Height
<1>16. NativeState(ht)'
  BY <1>1, <1>2, <1>3, <1>10, <1>11, <1>12, <1>14, <1>15 DEF NativeState
<1> QED BY <1>12, <1>16, NativeClose

\* A plain return.
LEMMA OptReturnStep ==
    ASSUME IInv, NEW v, OptReturn(v)
    PROVE  IInv'
<1>1. /\ Types /\ TrapsLinked(stack, trapSp) /\ Chain(native, extRaise) /\ accu \in Value
      /\ stack \in Seq(Word) /\ Len(stack) \in Nat /\ externSp = Len(stack)
      /\ native[Len(native)].k = "opt" /\ native[Len(native)] \in OptFrame
  BY OptOpen DEF OptReturn
<1>2. PICK ht : Structure(stack, Len(stack), native, ht) /\ ht[Len(native)] = Len(stack)
  BY OptOpen DEF OptReturn
<1>3. v \in Value /\ (Frame.extra # 0 => Callee(v))
  <2>1. Frame.f \in Funs BY <1>1 DEF Frame, OptFrame
  <2>2. CASE Frame.extra = 0
    <3>1. v = Res(Frame.f) \/ v = accu BY <2>2 DEF OptReturn, Returnable
    <3> QED BY <1>1, <2>1, <2>2, <3>1, WordsAreWords
  <2>3. CASE Frame.extra # 0
    <3>1. v \in Callable BY <2>3 DEF OptReturn, Returnable
    <3> QED BY <1>1, <3>1, CallableCallee
  <2> QED BY <2>2, <2>3
<1>4. accu' = v /\ rdx' = 0 /\ pc' = "opt_return" /\ UNCHANGED <<env, extra, stack, caml, native, status, todo, bounds>>
  BY DEF OptReturn
<1>5. Types'
  BY <1>1, <1>3, <1>4 DEF Types, Labels, caml, bounds
<1>6. NativeOK' /\ Cur' = Len(stack)
  <2>1. Len(stack') - 0 = Len(stack') /\ 0 <= Len(stack') BY <1>1, <1>4
  <2>2. Frame' = Frame /\ Frame.k = "opt" BY <1>1, <1>4 DEF Frame
  <2>3. Args(stack', Len(stack'), Len(stack')) BY <1>1, <1>4 DEF Args
  <2> QED BY <1>1, <1>3, <1>4, <2>1, <2>2, <2>3 DEF NativeOK, Cur, Height, caml
<1>7. NativeState(ht)'
  BY <1>1, <1>2, <1>4, <1>5, <1>6 DEF NativeState, caml
<1> QED BY <1>4, <1>7, NativeClose

\* The state in which optimised code returns: h is where its caller waits for the result,
\* under the rdx arguments of its tail call.
ReturnState(ht, h, lo, c) ==
    /\ Types /\ TrapsLinked(stack, trapSp) /\ Chain(native, extRaise) /\ stack \in Seq(Word)
    /\ native \in Seq(Frames) /\ Len(stack) \in Nat /\ h \in Nat /\ lo \in Nat /\ h + rdx = Len(stack) /\ rdx \in Nat
    /\ externSp = Len(stack) /\ Structure(stack, h, native, ht) /\ ht[Len(native)] = h
    /\ Len(native) \in Nat /\ Len(native) > 1 /\ c = Len(native) - 1 /\ lo = ht[c] /\ lo <= h
    /\ Args(stack, h, Len(stack)) /\ Frame.k = "opt" /\ Frame.extra \in Nat /\ accu \in Value
    /\ rdx # 0 \/ Frame.extra # 0 => Callee(accu)
    /\ OptAt(stack, Frame, native[c].k, h, lo)

\* It is reached from the invariant.
LEMMA OptReturnOpen ==
    ASSUME IInv, pc = "opt_return"
    PROVE  \E ht, h, lo, c : ReturnState(ht, h, lo, c)
<1>1. PICK ht : NativeState(ht)
  BY NativeOpen
<1>2. /\ Types /\ TrapsLinked(stack, trapSp) /\ Chain(native, extRaise) /\ NativeOK
      /\ stack \in Seq(Word) /\ native \in Seq(Frames) /\ Len(stack) \in Nat /\ rdx \in Nat /\ accu \in Value
  BY <1>1 DEF NativeState, Types
<1>3. PICK h : h = Len(stack) - rdx
  OBVIOUS
<1>4. PICK c : c = Len(native) - 1
  OBVIOUS
<1>5. PICK lo : lo = ht[c]
  OBVIOUS
<1>6. Structure(stack, h, native, ht) /\ ht[Len(native)] = h
  BY <1>1, <1>3 DEF NativeState, Cur, Height
<1>7. /\ externSp = Len(stack) /\ Frame.k = "opt" /\ rdx <= Len(stack) /\ Args(stack, h, Len(stack))
      /\ rdx # 0 \/ Frame.extra # 0 => Callee(accu)
  BY <1>2, <1>3 DEF NativeOK, Height
<1>8. h \in Nat /\ h + rdx = Len(stack)
  BY <1>2, <1>3, <1>7
<1>9. Len(native) \in Nat /\ Len(native) > 1 /\ native[Len(native)] \in Frames
  <2>1. native[1].k = "c" /\ Len(native) \in Nat /\ Len(native) > 0 /\ native[Len(native)] \in Frames
    BY <1>6, TopFrame DEF Structure, FramesOK
  <2> QED BY <1>7, <2>1 DEF Frame
<1>10. Frame.extra \in Nat
  BY <1>7, <1>9 DEF Frame, Frames, EntryFrame, OptFrame, CFrame
<1>11. OptAt(stack, Frame, native[c].k, h, lo)
  <2>1. FrameAt(stack, native[Len(native)], native[c].k, ht[Len(native)], lo) BY <1>4, <1>5, <1>6, <1>9, TopFrame
  <2> QED BY <1>6, <1>7, <2>1 DEF FrameAt, Frame
<1>12. lo \in Nat /\ lo <= h
  <2>1. c \in 1..Len(native) /\ Len(native) \in 1..Len(native) /\ c < Len(native) BY <1>4, <1>9
  <2>2. Rising(native, ht) /\ ht \in [1..Len(native) -> Nat] BY <1>6 DEF Structure
  <2> QED BY <1>5, <1>6, <2>1, <2>2 DEF Rising
<1>13. ReturnState(ht, h, lo, c)
  BY <1>2, <1>4, <1>5, <1>6, <1>7, <1>8, <1>9, <1>10, <1>11, <1>12 DEF ReturnState
<1> QED BY <1>13

\* Back in baseline code.
LEMMA OptReturnToBaseStep == ASSUME IInv, OptReturnToBase PROVE IInv'
<1>1. PICK ht, h, lo, c : ReturnState(ht, h, lo, c)
  BY OptReturnOpen DEF OptReturnToBase
<1>2. /\ stack \in Seq(Word) /\ native \in Seq(Frames) /\ Len(stack) \in Nat /\ h \in Nat /\ lo \in Nat /\ rdx \in Nat
      /\ h + rdx = Len(stack) /\ externSp = Len(stack) /\ Frame.extra \in Nat /\ Len(native) > 1
      /\ c = Len(native) - 1 /\ lo = ht[c] /\ TrapsLinked(stack, trapSp) /\ Chain(native, extRaise)
  BY <1>1 DEF ReturnState
<1>3. native[c].k = "entry" /\ Call(stack, Frame.extra, h, lo) /\ Frame.k = "opt"
  BY <1>1 DEF ReturnState, OptAt, OptReturnToBase
<1>4. stack' \in Seq(Word) /\ Len(stack') = Len(stack) /\ Same(stack, stack', Len(stack))
  <2>1. PICK l : l = Len(stack) OBVIOUS
  <2>2. l \in 0..Len(stack) /\ stack' = From(stack, l) BY <1>2, <2>1 DEF OptReturnToBase
  <2> QED BY <1>2, <2>1, <2>2, CutSame
<1>5. Same(stack, stack', h) /\ h <= Len(stack)
  <2>1. h <= Len(stack) BY <1>2
  <2> QED BY <1>2, <1>4, <2>1 DEF Same
<1>6. native' = SubSeq(native, 1, c)
  BY <1>2 DEF OptReturnToBase, PopFrame
<1>7. /\ native' \in Seq(Frames) /\ Len(native') = c /\ c \in 1..Len(native) /\ native'[c] = native[c]
      /\ \A i \in 1..c : native'[i] = native[i] /\ SameFrame(native[i], native'[i])
      /\ \E ht2 : Structure(stack', h, native', ht2) /\ ht2[c] = ht[c]
  <2>1. Pops(stack, stack', h, h, native, ht, c, native') BY <1>1, <1>3, <1>5, <1>6 DEF Pops, ReturnState, Frame
  <2> QED BY <2>1, PopStructure
<1>8. PICK ht2 : Structure(stack', h, native', ht2) /\ ht2[c] = ht[c]
  BY <1>7
<1>9. Args(stack', h, Len(stack'))
  <2>1. Args(stack, h, Len(stack)) BY <1>1 DEF ReturnState
  <2>2. \A g \in (h + 1)..Len(stack) : g \in 1..Len(stack) BY <1>2
  <2>3. \A g \in 1..Len(stack) : W(stack', g) = W(stack, g) BY <1>4 DEF Same
  <2> QED BY <1>4, <2>1, <2>2, <2>3 DEF Args
<1>10. Structure(stack', Len(stack'), native', ht2)
  <2>1. Len(stack') \in 0..Len(stack') /\ h <= Len(stack') BY <1>2, <1>4, <1>5
  <2>2. \A g \in (h + 1)..Len(stack') : PointOK(stack', g, native', ht2) BY <1>9, ArgPoints
  <2> QED BY <1>4, <1>8, <2>1, <2>2, MoreStructure
<1>11. TrapsLinked(stack', trapSp')
  <2>1. \A g \in (Len(stack) + 1)..Len(stack) : W(stack, g) # Addr("trap") BY <1>2
  <2>2. \A g \in (Len(stack) + 1)..Len(stack') : W(stack', g) # Addr("trap") BY <1>2, <1>4
  <2>3. TrapsLinked(stack', trapSp) BY <1>2, <1>4, <2>1, <2>2, TrapsKept
  <2> QED BY <2>3 DEF OptReturnToBase, caml
<1>12. Chain(native', extRaise')
  <2>1. Chain(native', extRaise) BY <1>2, <1>3, <1>7, PopChain DEF Frame
  <2> QED BY <2>1 DEF OptReturnToBase, caml
<1>13. extra' = Frame.extra + rdx /\ extra' \in Nat /\ pc' = "return" /\ accu' = accu
  BY <1>2 DEF OptReturnToBase
<1>14. Types'
  BY <1>1, <1>4, <1>7, <1>13 DEF ReturnState, Types, OptReturnToBase, caml, bounds, Labels
<1>15. Call(stack', extra', Len(stack'), lo)
  <2>1. Call(stack', Frame.extra, h, lo)
    <3>1. h \in Int /\ h <= h BY <1>2
    <3> QED BY <1>2, <1>3, <1>5, <3>1, ContinuationKept
  <2>2. PICK r : r = h - Frame.extra OBVIOUS
  <2>3. Args(stack', r, h) /\ RetAt(stack', r, lo) BY <2>1, <2>2 DEF Call
  <2>4. r = Len(stack') - extra' /\ r \in Int /\ r <= h
    <3>1. h \in Nat /\ rdx \in Nat /\ Frame.extra \in Nat /\ Len(stack') = h + rdx /\ extra' = Frame.extra + rdx
      BY <1>2, <1>4, <1>13
    <3> QED BY ONLY <2>2, <3>1
  <2>5. Args(stack', r, Len(stack'))
    <3>1. \A g \in (r + 1)..Len(stack') : g \in (r + 1)..h \/ g \in (h + 1)..Len(stack') BY <1>2, <1>4, <2>4
    <3> QED BY <1>9, <2>3, <3>1 DEF Args
  <2>6. Len(stack') \in 0..Len(stack') BY <1>2, <1>4
  <2> QED BY <1>13, <2>3, <2>4, <2>5, <2>6 DEF Call
<1>16. extra' # 0 => Callee(accu')
  <2>1. rdx # 0 \/ Frame.extra # 0 => Callee(accu) BY <1>1 DEF ReturnState
  <2> QED BY <1>2, <1>13, <2>1
<1>17. AsmOK(lo)'
  BY <1>13, <1>15, <1>16 DEF AsmOK, Height
<1>18. AsmState(ht2)'
  <2>1. AsmOK(ht2[Len(native)])' BY <1>2, <1>7, <1>8, <1>17
  <2>2. Frame'.k = "entry" BY <1>3, <1>7 DEF Frame
  <2> QED BY <1>10, <1>11, <1>12, <1>14, <2>1, <2>2 DEF AsmState
<1> QED BY <1>13, <1>18, AsmClose DEF AsmLabels

\* Back in optimised code, which makes the tail call of its callee through apply_n.
LEMMA OptReturnToOptStep == ASSUME IInv, OptReturnToOpt PROVE IInv'
<1>1. PICK ht, h, lo, c : ReturnState(ht, h, lo, c)
  BY OptReturnOpen DEF OptReturnToOpt
<1>2. /\ stack \in Seq(Word) /\ native \in Seq(Frames) /\ Len(stack) \in Nat /\ h \in Nat /\ lo \in Nat /\ rdx \in Nat
      /\ h + rdx = Len(stack) /\ externSp = Len(stack) /\ Len(native) > 1 /\ accu \in Value
      /\ c = Len(native) - 1 /\ lo = ht[c] /\ TrapsLinked(stack, trapSp) /\ Chain(native, extRaise)
  BY <1>1 DEF ReturnState
<1>3. native[c].k = "opt" /\ h = lo /\ Frame.k = "opt"
  BY <1>1 DEF ReturnState, OptAt, OptReturnToOpt
<1>4. native' = SubSeq(native, 1, c)
  BY <1>2 DEF OptReturnToOpt, PopFrame
<1>5. PICK s : s = From(stack, h)
  OBVIOUS
<1>6. s \in Seq(Word) /\ Len(s) = h /\ Same(stack, s, h) /\ h <= Len(stack)
  <2>1. h \in 0..Len(stack) BY <1>2
  <2> QED BY <1>2, <1>5, <2>1, CutSame
<1>7. /\ native' \in Seq(Frames) /\ Len(native') = c /\ c \in 1..Len(native) /\ native'[c] = native[c]
      /\ \A i \in 1..c : native'[i] = native[i] /\ SameFrame(native[i], native'[i])
      /\ \E ht2 : Structure(s, h, native', ht2) /\ ht2[c] = ht[c]
  <2>1. Pops(stack, s, h, h, native, ht, c, native') BY <1>1, <1>3, <1>4, <1>6 DEF Pops, ReturnState, Frame
  <2> QED BY <2>1, PopStructure
<1>8. PICK ht2 : Structure(s, h, native', ht2) /\ ht2[c] = ht[c]
  BY <1>7
<1>9. Chain(native', extRaise') /\ trapSp' = trapSp /\ Frame'.k = "opt" /\ ht2[Len(native')] = h
  <2>1. Chain(native', extRaise) BY <1>2, <1>3, <1>7, PopChain DEF Frame
  <2> QED BY <1>2, <1>3, <1>7, <1>8, <2>1 DEF OptReturnToOpt, Frame
<1>10. TrapsLinked(s, trapSp')
  <2>1. \A g \in (h + 1)..Len(stack) : W(stack, g) # Addr("trap") BY <1>1, ArgPoints DEF ReturnState
  <2>2. \A g \in (h + 1)..Len(s) : W(s, g) # Addr("trap") BY <1>2, <1>6
  <2> QED BY <1>2, <1>6, <1>9, <2>1, <2>2, TrapsKept
<1>11. CASE rdx = 0
  <2>1. pc' = "opt" /\ UNCHANGED <<extra, stack, externSp>> BY <1>11 DEF OptReturnToOpt
  <2>2. h = Len(stack) BY <1>2, <1>11
  <2>3. Same(s, stack', h) /\ h <= h BY <1>2, <1>6, <2>1, <2>2 DEF Same
  <2>4. Structure(stack', h, native', ht2)
    <3>1. ht2[Len(native')] <= h BY <1>2, <1>9
    <3> QED BY <1>8, <2>3, <3>1, KeepStructure
  <2>5. NativeOK' /\ Cur' = h BY <1>2, <1>9, <2>1, <2>2 DEF NativeOK, Cur, Height
  <2>6. Types'
    BY <1>1, <1>7, <2>1 DEF ReturnState, Types, OptReturnToOpt, bounds, Labels
  <2>7. NativeState(ht2)' BY <1>2, <1>9, <2>1, <2>4, <2>5, <2>6 DEF NativeState
  <2> QED BY <2>1, <2>7, NativeClose
<1>12. CASE rdx # 0
  <2>1. PICK u : u = SubSeq(From(stack, externSp), 1, rdx) OBVIOUS
  <2>2. h = externSp - rdx BY <1>2
  <2>3. /\ stack' = u \o <<Addr("stop"), ValLong(0), ValLong(0)>> \o s /\ externSp' = h
        /\ extra' = rdx - 1 /\ pc' = "apply_n" /\ accu' = accu
    BY <1>5, <1>12, <2>1, <2>2 DEF OptReturnToOpt
  <2>4. u \in Seq(Token) /\ Len(u) = rdx
    <3>1. PICK y : y = From(stack, externSp) OBVIOUS
    <3>2. Popped(stack, Len(stack), y, 0, 1, Len(stack), SubSeq(y, 1, Len(y)))
      <4>1. Len(stack) \in 0..Len(stack) /\ 0 \in 0..Len(stack) /\ 1 = 0 + 1 /\ Len(stack) = Len(stack) - 0 BY <1>2
      <4> QED BY <1>2, <3>1, <4>1 DEF Popped
    <3>3. y \in Seq(Word) /\ Len(y) = Len(stack) /\ \A i \in 1..Len(stack) : y[i] = W(stack, Len(stack) - i + 1)
      BY <3>2, CutTwice
    <3>4. ASSUME NEW i \in 1..rdx PROVE y[i] \in Token
      <4>1. PICK g : g = Len(stack) - i + 1 OBVIOUS
      <4>2. i \in 1..Len(stack) /\ g \in (h + 1)..Len(stack) BY <1>2, <4>1
      <4>3. y[i] = W(stack, g) /\ y[i] \in Word BY <3>3, <4>1, <4>2
      <4>4. Args(stack, h, Len(stack)) BY <1>1 DEF ReturnState
      <4>5. y[i][1] = "tok" BY <4>2, <4>3, <4>4 DEF Args
      <4> QED BY <4>3, <4>5, WordKinds
    <3>5. rdx <= Len(y) BY <1>2, <3>3
    <3> QED BY <1>2, <2>1, <3>1, <3>3, <3>4, <3>5
  <2>5. ValLong(0) \in Word /\ Zero(ValLong(0)) BY WordsAreWords DEF Zero
  <2>6. Types'
    <3>1. <<Addr("stop"), ValLong(0), ValLong(0)>> \in Seq(Word)
      <4>1. Addr("stop") \in Word BY WordsAreWords DEF Labels
      <4> QED BY <2>5, <4>1
    <3>2. u \in Seq(Word) BY <2>4, WordsAreWords
    <3>3. stack' \in Seq(Word) BY <1>6, <2>3, <3>1, <3>2
    <3>4. extra' \in Nat /\ externSp' \in Nat BY <1>2, <1>12, <2>3
    <3> QED BY <1>1, <1>7, <2>3, <3>3, <3>4 DEF ReturnState, Types, OptReturnToOpt, bounds, Labels
  <2>7. Callee(accu') BY <1>1, <1>12, <2>3 DEF ReturnState
  <2>8. Len(u) > 0 /\ extra' = Len(u) - 1 /\ h = Len(s) BY <1>2, <1>6, <1>12, <2>3, <2>4
  <2>9. stack' = u \o <<Addr("stop"), ValLong(0), ValLong(0)>> \o s /\ externSp' = h /\ pc' = "apply_n" /\ s \in Seq(Word)
    BY <1>6, <2>3
  <2> QED BY ONLY <1>8, <1>9, <1>10, <2>4, <2>5, <2>6, <2>7, <2>8, <2>9, ToApplyN
<1> QED BY <1>11, <1>12

-----------------------------------------------------------------------------
(* Exceptions that leave native code *)

\* A jump to the entry frame c: every frame above it, and the OCaml stack above height q,
\* are abandoned; no entry between waits under q, and no handler is above q.
LEMMA JumpStep ==
    ASSUME NEW ht, NEW m, Structure(stack, m, native, ht), TrapsLinked(stack, trapSp), Chain(native, extRaise),
           stack \in Seq(Word), NEW c \in 1..Len(native), native[c].k = "entry", NEW q \in 0..Len(stack), q <= m,
           ht[c] <= q, \A i \in (c + 1)..Len(native) : native[i].k = "entry" => ht[i] >= q,
           \A h \in (q + 1)..Len(stack) : W(stack, h) # Addr("trap"), IsLast(native, c, c),
           stack' = From(stack, q), native' = SubSeq(native, 1, c), extRaise' = c, trapSp' = trapSp,
           pc' = "raise", Types'
    PROVE  IInv'
<1>1. native \in Seq(Frames) /\ Len(native) \in Nat /\ ht \in [1..Len(native) -> Nat]
  BY DEF Structure
<1>2. native' \in Seq(Frames) /\ Len(native') = c /\ \A i \in 1..c : native'[i] = native[i] /\ SameFrame(native[i], native'[i])
  BY <1>1, CutFrames
<1>3. stack' \in Seq(Word) /\ Len(stack') = q /\ Same(stack, stack', q) /\ q \in Nat
  BY CutSame
<1>4. PICK ht2 : ht2 = [i \in 1..c |-> ht[i]]
  OBVIOUS
<1>5. Structure(stack', q, native', [i \in 1..c |-> ht[i]])
  <2>1. \A i \in 1..c : SameFrame(native[i], native'[i]) BY <1>2
  <2>2. PICK n2 : n2 = native' OBVIOUS
  <2>3. PICK s2 : s2 = stack' OBVIOUS
  <2>4. Structure(s2, q, n2, [i \in 1..c |-> ht[i]])
    <3>1. n2 \in Seq(Frames) /\ Len(n2) = c /\ Same(stack, s2, q) BY <1>2, <1>3, <2>2, <2>3
    <3>2. \A i \in 1..c : SameFrame(native[i], n2[i]) BY <2>1, <2>2
    <3>3. /\ Structure(stack, m, native, ht) /\ q <= m /\ c \in 1..Len(native) /\ ht[c] <= q
          /\ \A i \in (c + 1)..Len(native) : native[i].k = "entry" => ht[i] >= q
      OBVIOUS
    <3> QED BY ONLY <3>1, <3>2, <3>3, CutStructure
  <2> QED BY <2>2, <2>3, <2>4
<1>6. Structure(stack', Len(stack'), native', ht2) /\ ht2[Len(native')] = ht[c]
  <2>1. c \in 1..c BY <1>1
  <2> QED BY <1>2, <1>3, <1>4, <1>5, <2>1
<1>7. TrapsLinked(stack', trapSp')
  <2>1. \A h \in (q + 1)..Len(stack') : W(stack', h) # Addr("trap") BY <1>3
  <2> QED BY <1>3, <2>1, TrapsKept
<1>8. Chain(native', extRaise')
  <2>1. c \in 0..Len(native) BY <1>1
  <2>2. \A i \in 1..c : SameFrame(native[i], native'[i]) BY <1>2
  <2> QED BY <1>1, <1>2, <2>1, <2>2, ChainCut
<1>9. Frame'.k = "entry"
  <2>1. c \in 1..c BY <1>1
  <2> QED BY <1>2, <2>1 DEF Frame
<1>10. AsmOK(ht2[Len(native)])'
  BY <1>3, <1>6 DEF AsmOK, Height
<1>11. AsmState(ht2)'
  BY <1>6, <1>7, <1>8, <1>9, <1>10 DEF AsmState
<1> QED BY <1>11, AsmClose DEF AsmLabels

\* caml_raise from C or optimised code.
LEMMA LongjmpStep ==
    ASSUME IInv, pc \in {"opt", "c"}, NEW e \in Value, Longjmp(e)
    PROVE  IInv'
<1>1. PICK ht : NativeState(ht)
  BY NativeOpen
<1>2. /\ Types /\ TrapsLinked(stack, trapSp) /\ Chain(native, extRaise) /\ NativeOK
      /\ stack \in Seq(Word) /\ native \in Seq(Frames) /\ Len(stack) \in Nat /\ extRaise \in Nat /\ Len(native) \in Nat
  BY <1>1 DEF NativeState, Types
<1>3. Cur = Len(stack) /\ externSp = Len(stack)
  BY <1>2 DEF NativeOK, Cur, Height
<1>4. Structure(stack, Len(stack), native, ht) /\ ht[Len(native)] = Len(stack)
  BY <1>1, <1>3 DEF NativeState
<1>5. PICK c : c = extRaise
  OBVIOUS
<1>6. /\ c \in 1..Len(native) /\ native[c].k = "entry" /\ \A i \in 1..Len(native) : native[i].k = "entry" => i <= c
  BY <1>2, <1>5 DEF Longjmp, Chain, IsLast
<1>7. IsLast(native, c, c)
  <2>1. c \in 0..c /\ \A i \in 1..c : i <= c BY <1>6
  <2> QED BY <1>6, <2>1 DEF IsLast
<1>8. PICK q : q = Len(stack)
  OBVIOUS
<1>9. ht[c] <= q
  <2>1. Len(native) \in 1..Len(native) /\ (c = Len(native) \/ c < Len(native)) BY <1>2, <1>6
  <2>2. Rising(native, ht) /\ ht \in [1..Len(native) -> Nat] BY <1>4 DEF Structure
  <2> QED BY <1>2, <1>4, <1>6, <1>8, <2>1, <2>2 DEF Rising
<1>10. q \in 0..Len(stack) /\ q <= Len(stack) /\ \A h \in (q + 1)..Len(stack) : W(stack, h) # Addr("trap")
  BY <1>2, <1>8
<1>11. \A i \in (c + 1)..Len(native) : native[i].k = "entry" => ht[i] >= q
  <2>1. \A i \in (c + 1)..Len(native) : i \in 1..Len(native) /\ ~(i <= c) BY <1>2, <1>6
  <2> QED BY <1>6, <2>1
<1>12. /\ stack' = From(stack, q) /\ native' = SubSeq(native, 1, c) /\ extRaise' = c /\ trapSp' = trapSp
       /\ pc' = "raise" /\ accu' = e
  BY <1>3, <1>5, <1>8 DEF Longjmp, caml
<1>13. Types'
  <2>1. native' \in Seq(Frames) /\ Len(native') = c /\ c > 0 BY <1>2, <1>6, <1>12, CutFrames
  <2>2. stack' \in Seq(Word) BY <1>2, <1>10, <1>12, CutSame
  <2> QED BY <1>2, <1>12, <2>1, <2>2 DEF Types, Longjmp, caml, bounds, Labels
<1>14. PICK m : m = Len(stack)
  OBVIOUS
<1>15. Structure(stack, m, native, ht) /\ q <= m
  BY <1>4, <1>10, <1>14
<1> QED BY <1>2, <1>6, <1>7, <1>9, <1>10, <1>11, <1>12, <1>13, <1>15, JumpStep

\* An exception of optimised code.
LEMMA OptRaiseStep == ASSUME IInv, OptRaise PROVE IInv'
<1>1. native[Len(native)] \in OptFrame
  BY OptOpen DEF OptRaise
<1>2. Exn(Frame.f) \in Value
  BY <1>1, WordsAreWords DEF Frame, OptFrame
<1> QED BY <1>2, LongjmpStep DEF OptRaise

\* An exception raised by C code.
LEMMA CRaiseStep == ASSUME IInv, CRaise PROVE IInv'
<1>1. CExn \in Value /\ accu \in Value
  BY WordsAreWords DEF IInv, Types
<1> QED BY <1>1, LongjmpStep DEF CRaise

\* An exception leaves apply_n: the enclosing entry frame is a live one.
LEMMA RaiseAgainStep == ASSUME IInv, RaiseAgain PROVE IInv' /\ Frame.prev > 0
<1>1. PICK ht : AsmState(ht)
  BY AsmOpen DEF RaiseAgain, AsmLabels
<1>2. PICK lo : lo = ht[Len(native)]
  OBVIOUS
<1>3. /\ stack \in Seq(Word) /\ Len(stack) \in Nat /\ lo \in Nat /\ Types /\ Chain(native, extRaise)
      /\ Structure(stack, Len(stack), native, ht) /\ native \in Seq(Frames) /\ native[Len(native)].k = "entry"
      /\ TrapsLinked(stack, trapSp) /\ lo <= Len(stack) /\ Len(native) \in Nat
  BY <1>1, <1>2, TopFrame DEF AsmState, Types, Frame, AsmOK, Height, RaiseAgain
<1>4. /\ Frame.initSp = lo /\ Frame.prev \in Nat /\ Len(native) > 1 /\ native[Len(native) - 1].k = "opt"
  BY <1>2, <1>3, TopEntry DEF Frame, RaiseAgain
<1>5. PICK c : c = Frame.prev
  OBVIOUS
<1>6. IsLast(native, Len(native) - 1, c)
  <2>1. Len(native) \in 1..Len(native) BY <1>3, <1>4
  <2> QED BY <1>3, <1>5, <2>1 DEF Chain, Frame
<1>7. Len(native) - 1 >= 2 /\ native[2].k = "entry"
  <2>1. native[1].k = "c" /\ native[2].k = "entry" BY <1>3, <1>4 DEF Structure, FramesOK
  <2> QED BY <1>3, <1>4, <2>1
<1>8. /\ c \in 1..(Len(native) - 1) /\ native[c].k = "entry"
      /\ \A i \in 1..(Len(native) - 1) : native[i].k = "entry" => i <= c
  BY <1>3, <1>6, <1>7 DEF IsLast
<1>9. IsLast(native, c, c) /\ c \in 1..Len(native)
  <2>1. c \in 0..c /\ c \in 1..Len(native) /\ \A i \in 1..c : i <= c BY <1>3, <1>8
  <2> QED BY <1>8, <2>1 DEF IsLast
<1>10. ht[c] <= lo
  <2>1. Len(native) \in 1..Len(native) /\ c < Len(native) BY <1>3, <1>8
  <2>2. Rising(native, ht) BY <1>3 DEF Structure
  <2> QED BY <1>2, <1>9, <2>1, <2>2 DEF Rising
<1>11. \A i \in (c + 1)..Len(native) : native[i].k = "entry" => ht[i] >= lo
  <2>1. \A i \in (c + 1)..Len(native) : i = Len(native) \/ (i \in 1..(Len(native) - 1) /\ ~(i <= c)) BY <1>3, <1>8
  <2>2. lo >= lo BY <1>3
  <2> QED BY <1>2, <1>8, <2>1, <2>2
<1>12. \A h \in (lo + 1)..Len(stack) : W(stack, h) # Addr("trap")
  <2>1. trapSp <= lo /\ trapSp \in Nat BY <1>3, <1>4 DEF RaiseAgain, Types
  <2>2. \A h \in 1..Len(stack) : W(stack, h) = Addr("trap") => h <= trapSp BY <1>3 DEF TrapsLinked, TopTrap
  <2>3. \A h \in (lo + 1)..Len(stack) : h \in 1..Len(stack) /\ ~(h <= trapSp) BY <1>3, <2>1
  <2> QED BY <2>2, <2>3
<1>13. /\ stack' = From(stack, lo) /\ native' = SubSeq(native, 1, c) /\ extRaise' = c /\ trapSp' = trapSp
       /\ pc' = "raise" /\ lo \in 0..Len(stack)
  BY <1>3, <1>4, <1>5 DEF RaiseAgain
<1>14. Types'
  <2>1. native' \in Seq(Frames) /\ Len(native') = c /\ c > 0 /\ c \in Nat BY <1>3, <1>9, <1>13, CutFrames
  <2>2. stack' \in Seq(Word) BY <1>3, <1>13, CutSame
  <2>3. externSp' \in Nat BY <1>3, <1>4 DEF RaiseAgain
  <2> QED BY <1>3, <1>13, <2>1, <2>2, <2>3 DEF Types, RaiseAgain, regs, bounds, Labels
<1>15. PICK m : m = Len(stack)
  OBVIOUS
<1>16. Structure(stack, m, native, ht) /\ lo <= m
  BY <1>3, <1>15
<1>17. IInv'
  BY <1>3, <1>8, <1>9, <1>10, <1>11, <1>12, <1>13, <1>14, <1>16, JumpStep
<1>18. Frame.prev > 0
  BY <1>5, <1>8
<1> QED BY <1>17, <1>18

\* A handler found by an exception that leaves a callback is older than the callback: with at
\* most four arguments in initial_sp_offset, no handler of the callback can be that low.
LEMMA HandlerIsOlder ==
    ASSUME NEW ht, AsmState(ht), NEW lo, lo = ht[Len(native)], ~Frame.reraise, trapSp <= Frame.initSp
    PROVE  trapSp <= lo
<1>1. /\ stack \in Seq(Word) /\ Len(stack) \in Nat /\ lo \in Nat /\ trapSp \in Nat
      /\ Structure(stack, Len(stack), native, ht) /\ native[Len(native)].k = "entry"
      /\ TrapsLinked(stack, trapSp)
  BY TopFrame DEF AsmState, Types, Frame
<1>2. /\ Frame.initSp = lo + Frame.narg + 4 /\ Frame.narg <= 4 /\ Frame.narg \in Nat
      /\ Len(native) \in 1..Len(native) /\ Len(native) \in Nat
  BY <1>1, TopEntry, TopFrame DEF Frame
<1>3. SUFFICES ASSUME lo < trapSp PROVE FALSE
  BY <1>1
<1>4. PICK t : t = trapSp
  OBVIOUS
<1>5. t \in 1..Len(stack) /\ W(stack, t) = Addr("trap") /\ t <= lo + 8
  <2>1. t <= lo + 8 BY <1>1, <1>2, <1>4
  <2>2. t \in 1..Len(stack) /\ W(stack, t) = Addr("trap") BY <1>1, <1>3, <1>4 DEF TrapsLinked, TopTrap
  <2> QED BY <2>1, <2>2
<1>6. ASSUME NEW h \in 1..Len(stack), lo < h, W(stack, h) = Addr("trap")
      PROVE  \E f \in Funs, e \in Nat : Body(stack, f, e, h - 4, lo)
  <2>1. PointOK(stack, h, native, ht) BY <1>1 DEF Structure, Points
  <2>2. PICK f \in Funs, e \in Nat :
          \A j \in 1..Len(native) : ht[j] < h => Body(stack, f, e, h - 4, ht[j])
    BY <1>6, <2>1 DEF PointOK
  <2> QED BY <1>2, <1>6, <2>2
<1>7. PICK f \in Funs, e \in Nat : Body(stack, f, e, t - 4, lo)
  BY <1>3, <1>4, <1>5, <1>6
<1>8. PICK h : h = t - 4
  OBVIOUS
<1>9. h \in Nat /\ h = lo + 4 /\ h \in 1..Len(stack)
  <2>1. t - 4 \in Int BY <1>5
  <2>2. t - 4 >= lo + 4 BY <1>1, <1>7, <2>1, BodyAbove
  <2> QED BY <1>1, <1>5, <1>8, <2>2
<1>10. Body(stack, f, e, h, lo)
  BY <1>7, <1>8
<1>11. CASE TrapFrame(stack, h, f, e)
  <2>1. W(stack, h) = Addr("trap") /\ lo < h BY <1>1, <1>9, <1>11 DEF TrapFrame
  <2>2. PICK g \in Funs, d \in Nat : Body(stack, g, d, h - 4, lo) BY <1>6, <1>9, <2>1
  <2>3. h - 4 \in Int /\ ~(h - 4 >= lo + 4) BY <1>1, <1>9
  <2> QED BY <1>1, <2>2, <2>3, BodyAbove
<1>12. CASE Call(stack, Arity[f] + e, h, lo)
  <2>1. PICK n : n = Arity[f] + e OBVIOUS
  <2>2. n \in Nat /\ n >= 1 BY <2>1, FunsAssumption
  <2>3. PICK r : r = h - n OBVIOUS
  <2>4. RetAt(stack, r, lo) BY <1>12, <2>1, <2>3 DEF Call
  <2>5. r <= lo + 3 /\ r \in Int
    <3>1. lo \in Nat /\ h = lo + 4 BY <1>1, <1>9
    <3> QED BY ONLY <2>2, <2>3, <3>1
  <2>6. W(stack, r) = Addr("stop") /\ r \in 1..Len(stack) /\ r = lo + 3 BY <1>1, <2>4, <2>5 DEF RetAt
  <2>7. PointOK(stack, r, native, ht) BY <1>1, <2>6 DEF Structure, Points
  <2>8. PICK j \in 1..Len(native) : native[j].k = "entry" /\ native[j].reraise /\ ht[j] = r - 3
    BY <2>6, <2>7 DEF PointOK
  <2>9. ht[j] = lo BY <1>1, <2>6, <2>8
  <2>10. j # Len(native) BY <2>8 DEF Frame
  <2>11. j < Len(native) BY <1>2, <2>10
  <2>12. Rising(native, ht) BY <1>1 DEF Structure
  <2>13. ht[j] < ht[Len(native)] BY <1>2, <2>8, <2>11, <2>12 DEF Rising
  <2> QED BY <1>1, <2>9, <2>13
<1> QED BY <1>10, <1>11, <1>12 DEF Body

\* return_exception_result of a callback.
LEMMA RaiseToCStep == ASSUME IInv, RaiseToC PROVE IInv'
<1>1. PICK ht : AsmState(ht)
  BY AsmOpen DEF RaiseToC, AsmLabels
<1>2. PICK lo : lo = ht[Len(native)]
  OBVIOUS
<1>3. /\ stack \in Seq(Word) /\ Len(stack) \in Nat /\ lo \in Nat /\ Types /\ Chain(native, extRaise)
      /\ Structure(stack, Len(stack), native, ht) /\ native \in Seq(Frames) /\ native[Len(native)].k = "entry"
      /\ TrapsLinked(stack, trapSp) /\ lo <= Len(stack) /\ Len(native) \in Nat /\ trapSp \in Nat
  BY <1>1, <1>2, TopFrame DEF AsmState, Types, Frame, AsmOK, Height, RaiseToC
<1>4. /\ Frame.initSp = lo + Frame.narg + 4 /\ Frame.narg \in Nat /\ Frame.prev \in Nat /\ Len(native) > 1
      /\ native[Len(native) - 1].k = "c" /\ ht[Len(native) - 1] = lo
  BY <1>2, <1>3, TopEntry DEF Frame, RaiseToC
<1>5. trapSp <= lo
  BY <1>1, <1>2, HandlerIsOlder DEF RaiseToC
<1>6. PICK c : c = Len(native) - 1
  OBVIOUS
<1>7. externSp' = lo /\ stack' = From(stack, lo) /\ lo \in 0..Len(stack)
  BY <1>3, <1>4 DEF RaiseToC
<1>8. stack' \in Seq(Word) /\ Len(stack') = lo /\ Same(stack, stack', lo)
  BY <1>3, <1>7, CutSame
<1>9. PICK n1 : n1 = SubSeq(native, 1, c)
  OBVIOUS
<1>10. c \in 1..Len(native) /\ c \in 1..c /\ c \in Nat
  BY <1>3, <1>4, <1>6
<1>11. n1 \in Seq(Frames) /\ Len(n1) = c /\ \A i \in 1..c : n1[i] = native[i] /\ SameFrame(native[i], n1[i])
  BY <1>3, <1>9, <1>10, CutFrames
<1>12. native' = [n1 EXCEPT ![c].exn = TRUE]
  BY <1>6, <1>9 DEF RaiseToC, PopFrame
<1>13. n1[c].k = "c" /\ n1[c] \in CFrame
  <2>1. n1[c] \in Frames /\ n1[c].k = "c" BY <1>4, <1>6, <1>10, <1>11
  <2> QED BY <2>1 DEF Frames, EntryFrame, OptFrame, CFrame
<1>14. PICK y : y = [n1[c] EXCEPT !.exn = TRUE]
  OBVIOUS
<1>15. y \in CFrame /\ y \in Frames /\ y.k = "c" /\ SameFrame(n1[c], y)
  BY <1>13, <1>14 DEF CFrame, Frames, SameFrame
<1>16. native' = [n1 EXCEPT ![c] = y]
  BY <1>12, <1>14
<1>17. native' \in Seq(Frames) /\ Len(native') = c /\ native'[c] = y /\ \A i \in 1..c : i # c => native'[i] = n1[i]
  BY <1>10, <1>11, <1>15, <1>16
<1>18. \A i \in 1..c : SameFrame(native[i], native'[i])
  <2>1. ASSUME NEW i \in 1..c PROVE SameFrame(native[i], native'[i])
    <3>1. CASE i = c BY <1>11, <1>15, <1>17, <3>1
    <3>2. CASE i # c BY <1>11, <1>17, <3>2
    <3> QED BY <3>1, <3>2
  <2> QED BY <2>1
<1>19. PICK ht2 : ht2 = [i \in 1..c |-> ht[i]]
  OBVIOUS
<1>20. Structure(stack', lo, native', [i \in 1..c |-> ht[i]])
  <2>1. PICK n2 : n2 = native' OBVIOUS
  <2>2. PICK s2 : s2 = stack' OBVIOUS
  <2>3. n2 \in Seq(Frames) /\ Len(n2) = c /\ Same(stack, s2, lo) BY <1>8, <1>17, <2>1, <2>2
  <2>4. \A i \in 1..c : SameFrame(native[i], n2[i]) BY <1>18, <2>1
  <2>5. \A i \in (c + 1)..Len(native) : native[i].k = "entry" => ht[i] >= lo
    <3>1. \A i \in (c + 1)..Len(native) : i = Len(native) BY <1>3, <1>6
    <3>2. lo >= lo BY <1>3
    <3> QED BY <1>2, <3>1, <3>2
  <2>6. Structure(stack, Len(stack), native, ht) /\ lo <= Len(stack) /\ c \in 1..Len(native) /\ ht[c] <= lo
    BY <1>3, <1>4, <1>6, <1>10
  <2>7. PICK m : m = Len(stack) OBVIOUS
  <2>8. Structure(stack, m, native, ht) /\ lo <= m /\ c \in 1..Len(native) /\ ht[c] <= lo BY <2>6, <2>7
  <2>9. Structure(s2, lo, n2, [i \in 1..c |-> ht[i]]) BY ONLY <2>3, <2>4, <2>5, <2>8, CutStructure
  <2> QED BY <2>1, <2>2, <2>9
<1>21. Structure(stack', lo, native', ht2) /\ ht2[Len(native')] = lo
  BY <1>4, <1>6, <1>10, <1>17, <1>19, <1>20
<1>22. TrapsLinked(stack', trapSp')
  <2>1. \A h \in 1..Len(stack) : W(stack, h) = Addr("trap") => h <= trapSp BY <1>3 DEF TrapsLinked, TopTrap
  <2>2. \A h \in (lo + 1)..Len(stack) : h \in 1..Len(stack) /\ ~(h <= trapSp) BY <1>3, <1>5
  <2>3. \A h \in (lo + 1)..Len(stack) : W(stack, h) # Addr("trap") BY <2>1, <2>2
  <2>4. \A h \in (lo + 1)..Len(stack') : W(stack', h) # Addr("trap") BY <1>3, <1>8
  <2>5. TrapsLinked(stack', trapSp) BY <1>3, <1>8, <2>3, <2>4, TrapsKept
  <2> QED BY <2>5 DEF RaiseToC
<1>23. Chain(native', extRaise')
  <2>1. Chain(native', Frame.prev) BY <1>3, <1>4, <1>6, <1>17, <1>18, PopChain DEF Frame
  <2> QED BY <2>1 DEF RaiseToC
<1>24. pc' = "c" /\ UNCHANGED <<regs, trapSp, status, todo, bounds>> /\ extRaise' \in Nat
  BY <1>4 DEF RaiseToC
<1>25. Types'
  BY <1>3, <1>7, <1>8, <1>10, <1>17, <1>24 DEF Types, regs, bounds, Labels
<1>26. NativeOK' /\ Cur' = lo
  <2>1. Frame'.k = "c" BY <1>15, <1>17 DEF Frame
  <2> QED BY <1>7, <1>8, <1>24, <2>1 DEF NativeOK, Cur, Height
<1>27. NativeState(ht2)'
  BY <1>21, <1>22, <1>23, <1>25, <1>26 DEF NativeState
<1> QED BY <1>24, <1>27, NativeClose

-----------------------------------------------------------------------------
(* C code *)

\* C code at work: its frame is the top of both stacks, over the state of its caller.
COpenState(ht, lo, c) ==
    /\ Types /\ TrapsLinked(stack, trapSp) /\ Chain(native, extRaise) /\ stack \in Seq(Word)
    /\ native \in Seq(Frames) /\ Len(stack) \in Nat /\ Len(native) \in Nat /\ Len(native) > 0
    /\ externSp = Len(stack) /\ Structure(stack, Len(stack), native, ht) /\ ht[Len(native)] = Len(stack)
    /\ Frame.k = "c" /\ Frame \in CFrame /\ c = Len(native) - 1 /\ lo = ht[c] /\ accu \in Value
    /\ Frame.from # "main" =>
         Len(native) > 1 /\ lo \in Nat /\ lo <= Len(stack) /\ CAt(stack, Frame, native[c].k, Len(stack), lo)

\* It is reached from the invariant.
LEMMA COpen ==
    ASSUME IInv, pc = "c"
    PROVE  \E ht, lo, c : COpenState(ht, lo, c)
<1>1. PICK ht : NativeState(ht)
  BY NativeOpen
<1>2. /\ Types /\ TrapsLinked(stack, trapSp) /\ Chain(native, extRaise) /\ NativeOK
      /\ stack \in Seq(Word) /\ native \in Seq(Frames) /\ Len(stack) \in Nat /\ accu \in Value
  BY <1>1 DEF NativeState, Types
<1>3. PICK c : c = Len(native) - 1
  OBVIOUS
<1>4. PICK lo : lo = ht[c]
  OBVIOUS
<1>5. Structure(stack, Len(stack), native, ht) /\ ht[Len(native)] = Len(stack)
  BY <1>1 DEF NativeState, Cur, Height
<1>6. externSp = Len(stack) /\ Frame.k = "c"
  BY <1>2 DEF NativeOK, Height
<1>7. Len(native) \in Nat /\ Len(native) > 0 /\ native[Len(native)] \in Frames
  BY <1>5, TopFrame
<1>8. Frame \in CFrame
  BY <1>6, <1>7 DEF Frame, Frames, EntryFrame, OptFrame, CFrame
<1>9. ASSUME Frame.from # "main"
      PROVE  Len(native) > 1 /\ lo \in Nat /\ lo <= Len(stack) /\ CAt(stack, Frame, native[c].k, Len(stack), lo)
  <2>1. native[1].from = "main" BY <1>5 DEF Structure, FramesOK
  <2>2. Len(native) > 1 BY <1>7, <1>9, <2>1 DEF Frame
  <2>3. FrameAt(stack, native[Len(native)], native[c].k, ht[Len(native)], lo) BY <1>3, <1>4, <1>5, <2>2, TopFrame
  <2>4. CAt(stack, Frame, native[c].k, Len(stack), lo) BY <1>5, <1>6, <2>3 DEF FrameAt, Frame
  <2>5. c \in 1..Len(native) /\ Len(native) \in 1..Len(native) /\ c < Len(native) BY <1>3, <1>7, <2>2
  <2>6. Rising(native, ht) /\ ht \in [1..Len(native) -> Nat] BY <1>5 DEF Structure
  <2>7. lo \in Nat /\ lo <= Len(stack) BY <1>4, <1>5, <2>5, <2>6 DEF Rising
  <2> QED BY <2>2, <2>4, <2>7
<1>10. COpenState(ht, lo, c)
  BY <1>2, <1>3, <1>4, <1>5, <1>6, <1>7, <1>8, <1>9 DEF COpenState
<1> QED BY <1>10

\* A C function returns to baseline code, which pops the k words it had pushed.
LEMMA CToAsm ==
    ASSUME NEW ht, NEW lo, NEW c, COpenState(ht, lo, c), Frame.from # "main", native[c].k = "entry",
           NEW q \in Nat, lo <= q, Same(stack, stack', q), Len(stack') = q,
           \A h \in (q + 1)..Len(stack) : W(stack, h) # Addr("trap"),
           native' = SubSeq(native, 1, c), UNCHANGED <<trapSp, extRaise>>,
           pc' \in AsmLabels, accu' \in Value, env' \in Word, extra' \in Nat, UNCHANGED <<rdx, externSp, tick>>,
           AsmOK(lo)'
    PROVE  IInv'
<1>1. /\ TrapsLinked(stack, trapSp) /\ Chain(native, extRaise) /\ stack \in Seq(Word) /\ Len(native) \in Nat
      /\ native \in Seq(Frames) /\ Len(stack) \in Nat /\ Len(native) > 1 /\ lo \in Nat /\ c = Len(native) - 1
      /\ Structure(stack, Len(stack), native, ht) /\ native[Len(native)].k = "c" /\ lo = ht[c] /\ Types
  BY DEF COpenState, Frame
<1>2. q <= Len(stack) /\ stack' \in Seq(Word)
  BY DEF Same
<1>3. /\ native' \in Seq(Frames) /\ Len(native') = c /\ c \in 1..Len(native) /\ native'[c] = native[c]
      /\ \A i \in 1..c : native'[i] = native[i] /\ SameFrame(native[i], native'[i])
      /\ \E ht2 : Structure(stack', q, native', ht2) /\ ht2[c] = ht[c]
  <2>1. Pops(stack, stack', q, Len(stack), native, ht, c, native') BY <1>1, <1>2 DEF Pops
  <2> QED BY ONLY <2>1, PopStructure
<1>4. PICK ht2 : Structure(stack', q, native', ht2) /\ ht2[c] = ht[c]
  BY <1>3
<1>5. Chain(native', extRaise')
  BY <1>1, <1>3, PopChain
<1>6. TrapsLinked(stack', trapSp')
  <2>1. \A h \in (q + 1)..Len(stack') : W(stack', h) # Addr("trap") OBVIOUS
  <2>2. TrapsLinked(stack', trapSp) BY <1>1, <2>1, TrapsKept
  <2> QED BY <2>2
<1>7. Types'
  <2>1. pc' \in Labels BY DEF AsmLabels, Labels
  <2>2. Len(native') > 0 BY <1>3
  <2> QED BY <1>1, <1>2, <1>3, <2>1, <2>2 DEF Types
<1>8. AsmState(ht2)'
  <2>1. AsmOK(ht2[Len(native)])'
    <3>1. ht2[Len(native')] = lo BY <1>1, <1>3, <1>4
    <3> QED BY <3>1
  <2>2. Frame'.k = "entry" BY <1>3 DEF Frame
  <2>3. Structure(stack', Len(stack'), native', ht2) BY <1>4
  <2> QED BY <1>5, <1>6, <1>7, <2>1, <2>2, <2>3 DEF AsmState
<1> QED BY <1>8, AsmClose

\* A C function called by baseline code returns.
LEMMA CReturnBase ==
    ASSUME IInv, NEW v \in Value, CReturn(v), Frame.from = "base"
    PROVE  IInv'
<1>1. PICK ht, lo, c : COpenState(ht, lo, c)
  BY COpen DEF CReturn
<1>2. PICK l : l = Len(stack)
  OBVIOUS
<1>3. /\ stack \in Seq(Word) /\ l \in Nat /\ externSp = l /\ lo \in Nat /\ c = Len(native) - 1 /\ Frame.extra \in Nat
      /\ CAt(stack, Frame, native[c].k, l, lo)
  BY <1>1, <1>2 DEF COpenState, CFrame
<1>4. native[c].k = "entry" /\ l >= 2 /\ W(stack, l - 1) = Addr("base")
  BY <1>3 DEF CAt
<1>5. PICK f \in Funs : W(stack, l) = Clo(f) /\ Body(stack, f, Frame.extra, l - 2, lo)
  BY <1>3 DEF CAt
<1>6. PICK q : q = l - 2
  OBVIOUS
<1>7. q \in Nat /\ lo <= q /\ q \in Int
  <2>1. q \in Int /\ q \in Nat BY <1>3, <1>4, <1>6
  <2>2. q >= lo + 4 BY <1>3, <1>5, <1>6, <2>1, BodyAbove
  <2> QED BY <1>3, <2>1, <2>2
<1>8. PICK s : s = From(stack, l)
  OBVIOUS
<1>9. /\ env' = s[1] /\ stack' = SubSeq(s, 3, Len(s)) /\ accu' = v /\ extra' = Frame.extra /\ pc' = "base"
      /\ native' = SubSeq(native, 1, c) /\ UNCHANGED <<rdx, caml, bounds>>
  BY <1>3, <1>8 DEF CReturn, PopFrame
<1>10. stack' \in Seq(Word) /\ Len(stack') = q /\ Same(stack, stack', q) /\ s[1] = W(stack, l)
  <2>1. 2 \in 0..l /\ 3 = 2 + 1 /\ l \in 0..Len(stack) /\ 1 \in 1..l /\ l - 1 + 1 = l BY <1>2, <1>3, <1>4
  <2>2. Popped(stack, l, s, 2, 3, q, stack') BY <1>3, <1>6, <1>8, <1>9, <2>1 DEF Popped
  <2>3. /\ stack' \in Seq(Word) /\ Len(stack') = q /\ Same(stack, stack', q)
        /\ \A i \in 1..l : s[i] = W(stack, l - i + 1)
    BY ONLY <2>2, CutTwice
  <2> QED BY <2>1, <2>3
<1>11. \A h \in (q + 1)..Len(stack) : W(stack, h) # Addr("trap")
  <2>1. /\ Addr("trap")[1] = "addr" /\ Addr("trap")[2] = "trap" /\ Addr("base")[2] = "base" /\ Clo(f)[1] = "clo"
    BY WordParts
  <2>2. \A h \in (q + 1)..Len(stack) : h = l - 1 \/ h = l BY <1>2, <1>3, <1>6
  <2> QED BY <1>4, <1>5, <2>1, <2>2
<1>12. AsmOK(lo)'
  <2>1. Body(stack', f, Frame.extra, q, lo)
    <3>1. q <= q BY <1>7
    <3> QED BY <1>3, <1>5, <1>6, <1>7, <1>10, <3>1, ContinuationKept
  <2> QED BY <1>5, <1>9, <1>10, <2>1 DEF AsmOK, Height
<1>13. env' \in Word /\ pc' \in AsmLabels /\ accu' \in Value /\ extra' \in Nat
  BY <1>3, <1>5, <1>9, <1>10, WordsAreWords DEF AsmLabels
<1> QED BY <1>1, <1>4, <1>7, <1>9, <1>10, <1>11, <1>12, <1>13, CToAsm DEF caml, bounds

\* The allocation of a partial application goes on.
LEMMA CReturnGrab ==
    ASSUME IInv, NEW v \in Value, CReturn(v), Frame.from = "grab"
    PROVE  IInv'
<1>1. PICK ht, lo, c : COpenState(ht, lo, c)
  BY COpen DEF CReturn
<1>2. PICK l : l = Len(stack)
  OBVIOUS
<1>3. /\ stack \in Seq(Word) /\ l \in Nat /\ externSp = l /\ lo \in Nat /\ c = Len(native) - 1 /\ Frame.extra \in Nat
      /\ CAt(stack, Frame, native[c].k, l, lo)
  BY <1>1, <1>2 DEF COpenState, CFrame
<1>4. /\ native[c].k = "entry" /\ l >= 3 /\ W(stack, l)[1] = "clo" /\ W(stack, l - 1) = W(stack, l)
      /\ W(stack, l - 2) = Unit /\ Call(stack, 1 + Frame.extra, l - 3, lo)
  BY <1>3 DEF CAt
<1>5. PICK w : w = W(stack, l)
  OBVIOUS
<1>6. PICK q : q = l - 3
  OBVIOUS
<1>7. q \in Nat /\ lo <= q /\ q \in Int
  <2>1. q \in Int /\ q \in Nat BY <1>3, <1>4, <1>6
  <2>2. q >= lo + 3 BY <1>3, <1>4, <1>6, <2>1, BodyAbove
  <2> QED BY <1>3, <2>1, <2>2
<1>8. PICK s : s = From(stack, l)
  OBVIOUS
<1>9. /\ accu' = s[1] /\ env' = s[2] /\ stack' = SubSeq(s, 4, Len(s)) /\ extra' = Frame.extra /\ pc' = "grab"
      /\ native' = SubSeq(native, 1, c) /\ UNCHANGED <<rdx, caml, bounds>>
  BY <1>3, <1>8 DEF CReturn, PopFrame
<1>10. stack' \in Seq(Word) /\ Len(stack') = q /\ Same(stack, stack', q) /\ s[1] = w /\ s[2] = w /\ w \in Word
  <2>1. 3 \in 0..l /\ 4 = 3 + 1 /\ l \in 0..Len(stack) /\ 1 \in 1..l /\ l - 1 + 1 = l /\ 2 \in 1..l /\ l - 2 + 1 = l - 1
    BY <1>2, <1>3, <1>4
  <2>2. Popped(stack, l, s, 3, 4, q, stack') BY <1>3, <1>6, <1>8, <1>9, <2>1 DEF Popped
  <2>3. /\ s \in Seq(Word) /\ Len(s) = l /\ stack' \in Seq(Word) /\ Len(stack') = q /\ Same(stack, stack', q)
        /\ \A i \in 1..l : s[i] = W(stack, l - i + 1)
    BY ONLY <2>2, CutTwice
  <2>4. s[1] \in Word BY <2>1, <2>3
  <2> QED BY <1>4, <1>5, <2>1, <2>3, <2>4
<1>11. \A h \in (q + 1)..Len(stack) : W(stack, h) # Addr("trap")
  <2>1. Addr("trap")[1] = "addr" /\ Unit[1] = "unit" BY WordParts
  <2>2. \A h \in (q + 1)..Len(stack) : h = l - 2 \/ h = l - 1 \/ h = l BY <1>2, <1>3, <1>6
  <2> QED BY <1>4, <2>1, <2>2
<1>12. w \in Value /\ Callee(w) /\ w[1] = "clo"
  <2>1. w[1] = "clo" /\ w \in Word BY <1>4, <1>5, <1>10
  <2>2. w = Clo(w[2]) /\ w[2] \in Funs BY <2>1, WordKinds
  <2>3. w \in Value BY <2>2, WordsAreWords
  <2> QED BY <2>1, <2>3 DEF Callee
<1>13. AsmOK(lo)'
  <2>1. Call(stack', 1 + Frame.extra, q, lo)
    <3>1. q <= q BY <1>7
    <3> QED BY <1>3, <1>4, <1>6, <1>7, <1>10, <3>1, ContinuationKept
  <2> QED BY <1>9, <1>10, <1>12, <2>1 DEF AsmOK, Height
<1>14. env' \in Word /\ pc' \in AsmLabels /\ accu' \in Value /\ extra' \in Nat
  BY <1>3, <1>9, <1>10, <1>12 DEF AsmLabels
<1>15. Frame.from # "main"
  OBVIOUS
<1> QED BY <1>1, <1>4, <1>7, <1>9, <1>10, <1>11, <1>13, <1>14, <1>15, CToAsm DEF caml, bounds

\* Pending actions are done: ->process_events resumes where it was called.
LEMMA CReturnEvents ==
    ASSUME IInv, NEW v \in Value, CReturn(v), Frame.from = "events"
    PROVE  IInv'
<1>1. PICK ht, lo, c : COpenState(ht, lo, c)
  BY COpen DEF CReturn
<1>2. PICK l : l = Len(stack)
  OBVIOUS
<1>3. /\ stack \in Seq(Word) /\ l \in Nat /\ externSp = l /\ lo \in Nat /\ c = Len(native) - 1
      /\ CAt(stack, Frame, native[c].k, l, lo)
  BY <1>1, <1>2 DEF COpenState
<1>4. native[c].k = "entry" /\ EventOK(stack, l, lo)
  BY <1>3 DEF CAt
<1>5. PICK ex : ex = W(stack, l - 5)[2]
  OBVIOUS
<1>6. PICK q : q = l - 6
  OBVIOUS
<1>7. /\ l >= 6 /\ W(stack, l) \in Value /\ W(stack, l)[1] # "addr" /\ W(stack, l - 1) = Unit
      /\ W(stack, l - 2) = Unit /\ W(stack, l - 5) = ValLong(ex)
  <2>1. /\ l >= 6 /\ W(stack, l) \in Value /\ W(stack, l - 1) = Unit /\ W(stack, l - 2) = Unit
        /\ W(stack, l - 5) = ValLong(ex)
    BY <1>4, <1>5 DEF EventOK
  <2>2. W(stack, l)[1] # "addr" BY <2>1, WordKinds
  <2> QED BY <2>1, <2>2
<1>8. \/ /\ W(stack, l - 3) = Addr("base")
         /\ \E f \in Funs : W(stack, l - 4) = Clo(f) /\ Body(stack, f, ex, q, lo)
      \/ /\ W(stack, l - 3) = Addr("dispatch") /\ W(stack, l - 4) = W(stack, l) /\ Callee(W(stack, l))
         /\ ex \in Nat /\ Call(stack, 1 + ex, q, lo)
  BY <1>4, <1>5, <1>6 DEF EventOK
<1>9. q \in Nat /\ q \in Int /\ q <= q
  BY <1>3, <1>6, <1>7
<1>10. lo <= q
  <2>1. q >= lo + 3 BY <1>3, <1>8, <1>9, BodyAbove
  <2> QED BY <1>3, <1>9, <2>1
<1>11. PICK s : s = From(stack, l)
  OBVIOUS
<1>12. /\ accu' = s[1] /\ pc' = s[4][2] /\ env' = s[5] /\ extra' = s[6][2] /\ stack' = SubSeq(s, 7, Len(s))
       /\ native' = SubSeq(native, 1, c) /\ UNCHANGED <<rdx, caml, bounds>>
  BY <1>3, <1>11 DEF CReturn, PopFrame, LongVal
<1>13. /\ stack' \in Seq(Word) /\ Len(stack') = q /\ Same(stack, stack', q) /\ s[1] = W(stack, l)
       /\ s[4] = W(stack, l - 3) /\ s[5] = W(stack, l - 4) /\ s[6] = W(stack, l - 5) /\ s[1] \in Word /\ s[5] \in Word
  <2>1. 6 \in 0..l /\ 7 = 6 + 1 /\ l \in 0..Len(stack) BY <1>2, <1>3, <1>7
  <2>2. Popped(stack, l, s, 6, 7, q, stack') BY <1>3, <1>6, <1>11, <1>12, <2>1 DEF Popped
  <2>3. /\ s \in Seq(Word) /\ Len(s) = l /\ stack' \in Seq(Word) /\ Len(stack') = q /\ Same(stack, stack', q)
        /\ \A i \in 1..l : s[i] = W(stack, l - i + 1)
    BY ONLY <2>2, CutTwice
  <2>4. 1 \in 1..l /\ 4 \in 1..l /\ 5 \in 1..l /\ 6 \in 1..l
        /\ l - 1 + 1 = l /\ l - 4 + 1 = l - 3 /\ l - 5 + 1 = l - 4 /\ l - 6 + 1 = l - 5
    BY <1>3, <1>7
  <2>5. s[1] \in Word /\ s[5] \in Word BY <2>3, <2>4
  <2> QED BY <2>3, <2>4, <2>5
<1>14. \A h \in (q + 1)..Len(stack) : W(stack, h) # Addr("trap")
  <2>1. /\ Addr("trap")[1] = "addr" /\ Addr("trap")[2] = "trap" /\ Addr("base")[2] = "base"
        /\ Addr("dispatch")[2] = "dispatch" /\ Unit[1] = "unit" /\ ValLong(ex)[1] = "long"
        /\ \A f : Clo(f)[1] = "clo"
    BY WordParts
  <2>2. \A h \in (q + 1)..Len(stack) : h = l - 5 \/ h = l - 4 \/ h = l - 3 \/ h = l - 2 \/ h = l - 1 \/ h = l
    BY <1>2, <1>3, <1>6
  <2>3. W(stack, l - 4)[1] # "addr" BY <1>7, <1>8, <2>1
  <2>4. W(stack, l - 3)[2] # "trap" BY <1>8, <2>1
  <2> QED BY <1>7, <2>1, <2>2, <2>3, <2>4
<1>15. ASSUME pc' \in AsmLabels, accu' \in Value, extra' \in Nat, AsmOK(lo)' PROVE IInv'
  <2>1. env' \in Word BY <1>12, <1>13
  <2>2. Frame.from # "main" OBVIOUS
  <2> QED BY <1>1, <1>4, <1>9, <1>10, <1>12, <1>13, <1>14, <1>15, <2>1, <2>2, CToAsm DEF caml, bounds
<1>16. extra' = ex
  BY <1>7, <1>12, <1>13, WordParts
<1>17. accu' \in Value
  BY <1>7, <1>12, <1>13
<1>18. CASE /\ W(stack, l - 3) = Addr("base")
            /\ \E f \in Funs : W(stack, l - 4) = Clo(f) /\ Body(stack, f, ex, q, lo)
  <2>1. PICK f \in Funs : W(stack, l - 4) = Clo(f) /\ Body(stack, f, ex, q, lo) BY <1>18
  <2>2. Body(stack', f, ex, q, lo) BY <1>3, <1>9, <1>13, <2>1, ContinuationKept
  <2>3. pc' = "base" /\ env' = Clo(f) BY <1>12, <1>13, <1>18, <2>1, WordParts
  <2>4. AsmOK(lo)' BY <1>13, <1>16, <2>2, <2>3 DEF AsmOK, Height
  <2>5. ex \in Nat BY <2>1 DEF Body
  <2> QED BY <1>15, <1>16, <1>17, <2>3, <2>4, <2>5 DEF AsmLabels
<1>19. CASE /\ W(stack, l - 3) = Addr("dispatch") /\ W(stack, l - 4) = W(stack, l) /\ Callee(W(stack, l))
            /\ ex \in Nat /\ Call(stack, 1 + ex, q, lo)
  <2>1. Call(stack', 1 + ex, q, lo) BY <1>3, <1>9, <1>13, <1>19, ContinuationKept
  <2>2. pc' = "dispatch" /\ env' = accu' /\ Callee(accu') BY <1>12, <1>13, <1>19, WordParts
  <2>3. AsmOK(lo)' BY <1>13, <1>16, <2>1, <2>2 DEF AsmOK, Height
  <2> QED BY <1>15, <1>16, <1>17, <1>19, <2>2, <2>3 DEF AsmLabels
<1> QED BY <1>8, <1>18, <1>19

\* A C function called by optimised code returns, or the actions such code ran are done.
LEMMA CReturnOpt ==
    ASSUME IInv, NEW v \in Value, CReturn(v), Frame.from \in {"opt", "opt_events"}
    PROVE  IInv'
<1>1. PICK ht, lo, c : COpenState(ht, lo, c)
  BY COpen DEF CReturn
<1>2. PICK q : q = Len(stack)
  OBVIOUS
<1>3. /\ Types /\ stack \in Seq(Word) /\ q \in Nat /\ externSp = q /\ lo \in Nat /\ c = Len(native) - 1
      /\ TrapsLinked(stack, trapSp) /\ Chain(native, extRaise) /\ native \in Seq(Frames) /\ Len(native) \in Nat
      /\ Structure(stack, q, native, ht) /\ lo = ht[c] /\ Len(native) > 1 /\ native[Len(native)].k = "c"
      /\ CAt(stack, Frame, native[c].k, q, lo) /\ Frame \in CFrame
  BY <1>1, <1>2 DEF COpenState, Frame
<1>4. native[c].k = "opt" /\ q = lo
  BY <1>3 DEF CAt
<1>5. /\ native' = SubSeq(native, 1, c) /\ pc' = "opt" /\ (accu' = v \/ accu' = Frame.saved)
      /\ UNCHANGED <<env, extra, stack, rdx, caml, bounds>>
  BY <1>3 DEF CReturn, PopFrame
<1>6. accu' \in Value
  BY <1>3, <1>5 DEF CFrame
<1>7. Same(stack, stack', q) /\ q <= q /\ ht[c] <= q
  <2>1. stack' = stack /\ q <= q /\ q <= Len(stack) /\ ht[c] = q BY <1>2, <1>3, <1>4, <1>5
  <2>2. Same(stack, stack, q) BY <1>3, <2>1 DEF Same
  <2> QED BY <1>3, <2>1, <2>2
<1>8. /\ native' \in Seq(Frames) /\ Len(native') = c /\ c \in 1..Len(native) /\ native'[c] = native[c]
      /\ \A i \in 1..c : native'[i] = native[i] /\ SameFrame(native[i], native'[i])
      /\ \E ht2 : Structure(stack', q, native', ht2) /\ ht2[c] = ht[c]
  <2>1. Pops(stack, stack', q, q, native, ht, c, native') BY <1>3, <1>5, <1>7 DEF Pops
  <2> QED BY ONLY <2>1, PopStructure
<1>9. PICK ht2 : Structure(stack', q, native', ht2) /\ ht2[c] = ht[c]
  BY <1>8
<1>10. Chain(native', extRaise')
  <2>1. Chain(native', extRaise) BY <1>3, <1>8, PopChain
  <2> QED BY <1>5, <2>1 DEF caml
<1>11. Types'
  BY <1>3, <1>5, <1>6, <1>8 DEF Types, caml, bounds, Labels
<1>12. NativeOK' /\ Cur' = q
  <2>1. Frame'.k = "opt" BY <1>4, <1>8 DEF Frame
  <2> QED BY <1>2, <1>3, <1>5, <2>1 DEF NativeOK, Cur, Height, caml
<1>13. NativeState(ht2)'
  <2>1. ht2[Len(native')] = q BY <1>3, <1>4, <1>8, <1>9
  <2>2. TrapsLinked(stack', trapSp') BY <1>3, <1>5 DEF caml
  <2> QED BY <1>9, <1>10, <1>11, <1>12, <2>1, <2>2 DEF NativeState
<1> QED BY <1>5, <1>13, NativeClose

\* caml_callbackN_exn forgets the exception its caller was given before.
LEMMA ForgetException ==
    ASSUME NEW ht, NEW lo, NEW c, COpenState(ht, lo, c), NEW n1, n1 = [native EXCEPT ![Len(native)].exn = FALSE],
           NEW s2, Same(stack, s2, Len(stack))
    PROVE  /\ n1 \in Seq(Frames) /\ Len(n1) = Len(native) /\ n1[Len(n1)].k = "c" /\ Chain(n1, extRaise)
           /\ \E ht1 : Structure(s2, Len(stack), n1, ht1) /\ ht1[Len(n1)] = Len(stack)
<1>1. PICK d : d = Len(native)
  OBVIOUS
<1>2. PICK q : q = Len(stack)
  OBVIOUS
<1>3. /\ native \in Seq(Frames) /\ d \in Nat /\ d > 0 /\ native[d].k = "c" /\ native[d] \in CFrame /\ q \in Nat
      /\ Structure(stack, q, native, ht) /\ ht[d] = q /\ Chain(native, extRaise) /\ Same(stack, s2, q)
  BY <1>1, <1>2 DEF COpenState, Frame
<1>4. PICK y : y = [native[d] EXCEPT !.exn = FALSE]
  OBVIOUS
<1>5. y \in CFrame /\ y \in Frames /\ y.k = "c" /\ SameFrame(native[d], y)
  BY <1>3, <1>4 DEF CFrame, Frames, SameFrame
<1>6. n1 = [native EXCEPT ![d] = y] /\ d \in 1..Len(native) /\ d \in 1..d
  BY <1>1, <1>3, <1>4
<1>7. n1 \in Seq(Frames) /\ Len(n1) = d /\ n1[d] = y /\ \A i \in 1..d : i # d => n1[i] = native[i]
  <2>1. Len(native) = d BY <1>1
  <2> QED BY ONLY <1>3, <1>5, <1>6, <2>1
<1>8. \A i \in 1..d : SameFrame(native[i], n1[i])
  <2>1. ASSUME NEW i \in 1..d PROVE SameFrame(native[i], n1[i])
    <3>1. CASE i = d BY <1>5, <1>7, <3>1
    <3>2. CASE i # d BY <1>7, <3>2 DEF SameFrame
    <3> QED BY <3>1, <3>2
  <2> QED BY <2>1
<1>9. PICK ht1 : ht1 = [i \in 1..d |-> ht[i]]
  OBVIOUS
<1>10. Structure(s2, q, n1, [i \in 1..d |-> ht[i]])
  <2>1. \A i \in (d + 1)..Len(native) : native[i].k = "entry" => ht[i] >= q BY <1>1, <1>3
  <2>2. q <= q /\ ht[d] <= q BY <1>3
  <2>3. Structure(stack, q, native, ht) /\ Same(stack, s2, q) BY <1>3
  <2>4. d \in 1..Len(native) /\ n1 \in Seq(Frames) /\ Len(n1) = d BY <1>6, <1>7
  <2> QED BY ONLY <1>8, <2>1, <2>2, <2>3, <2>4, CutStructure
<1>11. Structure(s2, q, n1, ht1) /\ ht1[Len(n1)] = q
  BY <1>3, <1>6, <1>7, <1>9, <1>10
<1>12. Chain(n1, extRaise)
  <2>1. IsLast(native, d, extRaise) /\ d \in 0..Len(native) BY <1>1, <1>3 DEF Chain
  <2> QED BY <1>3, <1>7, <1>8, <2>1, ChainCut
<1> QED BY <1>1, <1>2, <1>5, <1>7, <1>11, <1>12

\* caml_callbackN_exn and emit_callback_entrypoint.
LEMMA CallbackStep ==
    ASSUME IInv, NEW f \in Funs, NEW n \in 1..MaxCallbackArgs, MaxCallbackArgs <= 4, Callback(f, n)
    PROVE  IInv'
<1>1. PICK ht, lo, c : COpenState(ht, lo, c)
  BY COpen DEF Callback
<1>2. PICK q : q = Len(stack)
  OBVIOUS
<1>3. /\ Types /\ TrapsLinked(stack, trapSp) /\ stack \in Seq(Word) /\ q \in Nat /\ externSp = q
      /\ extRaise \in Nat /\ tick \in Nat /\ rdx \in Nat /\ trapSp \in Nat /\ n \in Nat /\ n <= 4 /\ n > 0
  BY <1>1, <1>2, BoundAssumption DEF COpenState, Types
<1>4. PICK u : u = FreshArgs(n)
  OBVIOUS
<1>5. u \in Seq(Token) /\ Len(u) = n
  BY <1>3, <1>4, FreshTokens
<1>6. PICK x : x = <<Addr("callback_stop"), Unit, ValLong(0), Clo(f)>>
  OBVIOUS
<1>7. x \in Seq(Word) /\ Len(x) = 4
  <2>1. Addr("callback_stop") \in Word /\ Unit \in Word /\ ValLong(0) \in Word /\ Clo(f) \in Word
    BY WordsAreWords DEF Labels
  <2> QED BY <1>6, <2>1
<1>8. PICK s : s = From(stack, q)
  OBVIOUS
<1>9. s \in Seq(Word) /\ Len(s) = q /\ Same(stack, s, q)
  <2>1. q \in 0..Len(stack) BY <1>2, <1>3
  <2> QED BY <1>3, <1>8, <2>1, CutSame
<1>10. stack' = u \o x \o s
  BY <1>3, <1>4, <1>6, <1>8 DEF Callback
<1>11. /\ stack' \in Seq(Word) /\ Len(stack') = q + 4 + n /\ Same(s, stack', q)
       /\ \A h \in 1..4 : W(stack', q + h) = x[4 - h + 1]
       /\ Args(stack', q + 4, Len(stack'))
  <2>1. /\ stack' \in Seq(Word) /\ Len(stack') = Len(s) + Len(x) + Len(u) /\ Same(s, stack', Len(s))
        /\ \A h \in 1..Len(x) : W(stack', Len(s) + h) = x[Len(x) - h + 1]
        /\ Args(stack', Len(s) + Len(x), Len(stack'))
    <3>1. PICK z : z = stack' OBVIOUS
    <3>2. u \in Seq(Token) /\ x \in Seq(Word) /\ s \in Seq(Word) /\ z = u \o x \o s BY <1>5, <1>7, <1>9, <1>10, <3>1
    <3>3. /\ z \in Seq(Word) /\ Len(z) = Len(s) + Len(x) + Len(u) /\ Same(s, z, Len(s))
          /\ \A h \in 1..Len(x) : W(z, Len(s) + h) = x[Len(x) - h + 1]
          /\ Args(z, Len(s) + Len(x), Len(z))
      BY ONLY <3>2, PushCall, ZenonT(60)
    <3> QED BY ONLY <3>1, <3>3
  <2> QED BY <1>5, <1>7, <1>9, <2>1
<1>12. /\ W(stack', q + 1) = Clo(f) /\ W(stack', q + 2) = ValLong(0) /\ W(stack', q + 3) = Unit
       /\ W(stack', q + 4) = Addr("callback_stop")
  <2>1. x[1] = Addr("callback_stop") /\ x[2] = Unit /\ x[3] = ValLong(0) /\ x[4] = Clo(f) BY <1>6
  <2>2. /\ W(stack', q + 1) = x[4 - 1 + 1] /\ W(stack', q + 2) = x[4 - 2 + 1] /\ W(stack', q + 3) = x[4 - 3 + 1]
        /\ W(stack', q + 4) = x[4 - 4 + 1]
    BY <1>11
  <2> QED BY <2>1, <2>2
<1>13. Same(stack, stack', q)
  <2>1. q <= q BY <1>3
  <2> QED BY <1>3, <1>9, <1>11, <2>1, SameTrans
<1>14. PICK n1 : n1 = [native EXCEPT ![Len(native)].exn = FALSE]
  OBVIOUS
<1>15. /\ n1 \in Seq(Frames) /\ Len(n1) = Len(native) /\ n1[Len(n1)].k = "c" /\ Chain(n1, extRaise)
       /\ \E ht1 : Structure(stack', q, n1, ht1) /\ ht1[Len(n1)] = q
  <2>1. PICK s2 : s2 = stack' OBVIOUS
  <2>2. Same(stack, s2, Len(stack)) BY <1>2, <1>13, <2>1
  <2>3. /\ n1 \in Seq(Frames) /\ Len(n1) = Len(native) /\ n1[Len(n1)].k = "c" /\ Chain(n1, extRaise)
        /\ \E ht1 : Structure(s2, Len(stack), n1, ht1) /\ ht1[Len(n1)] = Len(stack)
    BY ONLY <1>1, <1>14, <2>2, ForgetException
  <2> QED BY <1>2, <2>1, <2>3
<1>16. PICK ht1 : Structure(stack', q, n1, ht1) /\ ht1[Len(n1)] = q
  BY <1>15
<1>17. PICK fr : fr = Entry(q + n + 4, extRaise, FALSE, n)
  OBVIOUS
<1>18. fr \in EntryFrame /\ fr.k = "entry" /\ fr.initSp = q + n + 4 /\ fr.prev = extRaise /\ ~fr.reraise /\ fr.narg = n
  BY <1>3, <1>17 DEF Entry, EntryFrame
<1>19. /\ fr \in Frames /\ native' = Append(n1, fr) /\ extRaise' = Len(n1) + 1 /\ env' = Unit /\ pc' = "apply"
       /\ externSp' = q + n + 4 /\ accu' = Clo(f) /\ extra' = n - 1 /\ Len(n1) \in Nat
  <2>1. fr \in Frames BY <1>18 DEF Frames
  <2>2. /\ native' = Append(n1, fr) /\ extRaise' = Len(native') /\ env' = Unit /\ pc' = "apply"
        /\ externSp' = q + n + 4 /\ accu' = Clo(f) /\ extra' = n - 1
    BY <1>3, <1>14, <1>17 DEF Callback
  <2>3. Len(native') = Len(n1) + 1 /\ Len(n1) \in Nat BY <1>15, <2>1, <2>2
  <2> QED BY <2>1, <2>2, <2>3
<1>20. PICK ht2 : ht2 = Higher(n1, ht1, q)
  OBVIOUS
<1>21. Len(native') = Len(n1) + 1 /\ native'[Len(native')] = fr /\ ht2[Len(native')] = q
  <2>1. Len(native') = Len(n1) + 1 /\ native'[Len(n1) + 1] = fr BY <1>15, <1>19
  <2>2. Len(n1) + 1 \in 1..(Len(n1) + 1) /\ ~(Len(n1) + 1 <= Len(n1)) BY <1>19
  <2>3. ht2[Len(n1) + 1] = q BY <1>20, <2>2 DEF Higher
  <2> QED BY <2>1, <2>3
<1>22. Structure(stack', q, native', ht2)
  <2>1. FrameAt(stack', fr, n1[Len(n1)].k, q, ht1[Len(n1)])
    <3>1. EntryAt(fr, "c", q, q) BY <1>3, <1>18 DEF EntryAt
    <3>2. q <= Len(stack') BY <1>3, <1>11
    <3> QED BY <1>15, <1>16, <1>18, <3>1, <3>2 DEF FrameAt
  <2>2. ht1[Len(n1)] <= q /\ n1[Len(n1)].k # "entry" /\ q <= q BY <1>3, <1>15, <1>16
  <2>3. Structure(stack', q, Append(n1, fr), Higher(n1, ht1, q))
    <3>1. PICK s2 : s2 = stack' OBVIOUS
    <3>2. /\ FrameAt(s2, fr, n1[Len(n1)].k, q, ht1[Len(n1)]) /\ Structure(s2, q, n1, ht1) /\ s2 \in Seq(Word)
          /\ fr \in Frames /\ q \in Nat /\ fr.k = "entry"
      BY <1>3, <1>11, <1>16, <1>18, <1>19, <2>1, <3>1
    <3>3. Structure(s2, q, Append(n1, fr), Higher(n1, ht1, q)) BY ONLY <2>2, <3>2, GrowStructure
    <3> QED BY <3>1, <3>3
  <2> QED BY <1>19, <1>20, <2>3
<1>23. \A h \in (q + 1)..Len(stack') : PointOK(stack', h, native', ht2) /\ W(stack', h) # Addr("trap")
  <2>0. /\ Addr("callback_stop")[2] = "callback_stop" /\ Addr("base")[2] = "base" /\ Addr("trap")[2] = "trap"
        /\ Addr("stop")[2] = "stop" /\ Addr("trap")[1] = "addr"
        /\ Clo(f)[1] = "clo" /\ ValLong(0)[1] = "long" /\ Unit[1] = "unit"
    BY WordParts
  <2>1. /\ PointOK(stack', q + 1, native', ht2) /\ PointOK(stack', q + 2, native', ht2)
        /\ PointOK(stack', q + 3, native', ht2)
    <3>1. W(stack', q + 1)[1] # "addr" /\ W(stack', q + 2)[1] # "addr" /\ W(stack', q + 3)[1] # "addr"
      BY <1>12, <2>0
    <3> QED BY <3>1, PlainPoint
  <2>2. PointOK(stack', q + 4, native', ht2)
    <3>1. PICK h : h = q + 4 OBVIOUS
    <3>2. W(stack', h) = Addr("callback_stop") /\ h - 4 = q BY <1>3, <1>12, <3>1
    <3>3. Len(native') \in 1..Len(native') BY <1>19, <1>21
    <3>4. \E j \in 1..Len(native') : native'[j].k = "entry" /\ ~native'[j].reraise /\ ht2[j] = h - 4
      BY <1>18, <1>21, <3>2, <3>3
    <3>5. PointOK(stack', h, native', ht2) BY <2>0, <3>2, <3>4 DEF PointOK
    <3> QED BY <3>1, <3>5
  <2>3. \A h \in (q + 4 + 1)..Len(stack') : PointOK(stack', h, native', ht2) /\ W(stack', h) # Addr("trap")
    BY <1>11, ArgPoints
  <2>4. \A h \in (q + 1)..Len(stack') :
          h = q + 1 \/ h = q + 2 \/ h = q + 3 \/ h = q + 4 \/ h \in (q + 4 + 1)..Len(stack')
    <3>1. q \in Nat /\ Len(stack') \in Nat BY <1>3, <1>11
    <3> QED BY ONLY <3>1
  <2>5. /\ W(stack', q + 1) # Addr("trap") /\ W(stack', q + 2) # Addr("trap") /\ W(stack', q + 3) # Addr("trap")
        /\ W(stack', q + 4) # Addr("trap")
    BY <1>12, <2>0
  <2> QED BY <2>1, <2>2, <2>3, <2>4, <2>5
<1>24. Structure(stack', Len(stack'), native', ht2)
  <2>1. Len(stack') \in 0..Len(stack') /\ q <= Len(stack') BY <1>3, <1>11
  <2>2. \A h \in (q + 1)..Len(stack') : PointOK(stack', h, native', ht2) BY <1>23
  <2> QED BY <1>11, <1>22, <2>1, <2>2, MoreStructure
<1>25. TrapsLinked(stack', trapSp') /\ trapSp' = trapSp
  <2>1. \A h \in (q + 1)..Len(stack) : W(stack, h) # Addr("trap") BY <1>2, <1>3
  <2>2. \A h \in (q + 1)..Len(stack') : W(stack', h) # Addr("trap") BY <1>23
  <2>3. TrapsLinked(stack', trapSp) BY <1>3, <1>13, <2>1, <2>2, TrapsKept
  <2> QED BY <2>3 DEF Callback
<1>26. Chain(native', extRaise')
  BY <1>15, <1>18, <1>19, ChainPushed
<1>27. Types'
  <2>1. native' \in Seq(Frames) /\ Len(native') > 0 BY <1>15, <1>19, <1>21
  <2>2. env' \in Word /\ accu' \in Value /\ extRaise' \in Nat /\ extra' \in Nat /\ externSp' \in Nat
    BY <1>3, <1>19, WordsAreWords
  <2>3. tick' \in Nat /\ rdx' = rdx BY <1>3 DEF Callback, StartOp
  <2> QED BY <1>3, <1>11, <1>19, <1>25, <2>1, <2>2, <2>3 DEF Types, Labels
<1>28. AsmOK(q)'
  <2>1. Call(stack', 1 + extra', Len(stack'), q)
    <3>1. PICK r : r = q + 4 OBVIOUS
    <3>2. r \in 3..Len(stack') /\ q + 3 <= r /\ r - 2 = q + 2 /\ q + 4 <= r BY <1>3, <1>11, <3>1
    <3>3. RetAt(stack', r, q) BY <1>12, <3>1, <3>2 DEF RetAt, Zero
    <3>4. Len(stack') - (1 + extra') = r /\ 1 + extra' \in Nat /\ Len(stack') \in 0..Len(stack')
      BY <1>3, <1>11, <1>19, <3>1
    <3> QED BY <1>11, <3>1, <3>3, <3>4 DEF Call
  <2>2. Callee(accu') BY <1>19, WordsAreWords, WordParts DEF Callee
  <2> QED BY <1>19, <2>1, <2>2 DEF AsmOK, Height
<1>29. AsmState(ht2)'
  <2>1. AsmOK(ht2[Len(native)])' BY <1>21, <1>28
  <2>2. Frame'.k = "entry" BY <1>18, <1>21 DEF Frame
  <2> QED BY <1>24, <1>25, <1>26, <1>27, <2>1, <2>2 DEF AsmState
<1> QED BY <1>19, <1>29, AsmClose DEF AsmLabels

-----------------------------------------------------------------------------
(* Every step *)

\* What C returns to.
LEMMA CReturnStep ==
    ASSUME IInv, NEW v \in {Unit, accu}, CReturn(v)
    PROVE  IInv'
<1>1. PICK ht, lo, c : COpenState(ht, lo, c)
  BY COpen DEF CReturn
<1>2. v \in Value
  BY <1>1, WordsAreWords DEF COpenState
<1>3. Frame.from \in {"base", "events", "grab", "opt", "opt_events"}
  BY <1>1 DEF COpenState, CFrame, CReturn
<1>4. CASE Frame.from = "base" BY <1>2, <1>4, CReturnBase
<1>5. CASE Frame.from = "events" BY <1>2, <1>5, CReturnEvents
<1>6. CASE Frame.from = "grab" BY <1>2, <1>6, CReturnGrab
<1>7. CASE Frame.from \in {"opt", "opt_events"} BY <1>2, <1>7, CReturnOpt
<1> QED BY <1>3, <1>4, <1>5, <1>6, <1>7

\* What the invariant does not mention may change.
LEMMA SameState ==
    ASSUME IInv, UNCHANGED <<pc, regs, stack, caml, native, tick>>
    PROVE  IInv'
<1>1. UNCHANGED <<pc, accu, env, extra, rdx, stack, externSp, trapSp, extRaise, native, tick>>
  BY DEF regs, caml
<1>2. PICK ht : Shape(ht)
  BY DEF IInv
<1>3. Types' /\ TrapsLinked(stack', trapSp') /\ Chain(native', extRaise')
  BY <1>1 DEF IInv, Types
<1>4. Cur' = Cur /\ Frame' = Frame /\ Height' = Height
  BY <1>1 DEF Cur, Frame, Height
<1>5. Structure(stack', Cur', native', ht)
  BY <1>1, <1>2, <1>4 DEF Shape
<1>6. NativeOK'
  BY <1>1, <1>2, <1>4 DEF Shape, ControlOK, NativeOK
<1>7. ASSUME pc' \in AsmLabels PROVE Frame'.k = "entry" /\ AsmOK(ht[Len(native)])'
  <2>1. Frame.k = "entry" /\ AsmOK(ht[Len(native)]) BY <1>1, <1>2, <1>7 DEF Shape, ControlOK
  <2>2. AsmOK(ht[Len(native)])' BY <1>1, <1>4, <2>1 DEF AsmOK
  <2> QED BY <1>4, <2>1, <2>2
<1>8. ControlOK(ht)'
  <2>1. Frame'.k # "entry" => ht[Len(native')] = Cur' BY <1>1, <1>2, <1>4 DEF Shape, ControlOK
  <2> QED BY <1>6, <1>7, <2>1 DEF ControlOK
<1>9. Shape(ht)'
  BY <1>5, <1>8 DEF Shape
<1> QED BY <1>3, <1>9 DEF IInv

\* Baseline bodies.
LEMMA BaseStepKeeps == ASSUME IInv, BaseStep PROVE IInv'
<1>1. ASSUME NEW v \in Callable, NEW n \in 1..MaxArgs, BaseApply(v, n) PROVE IInv'
  BY <1>1, BaseApplyStep
<1>2. ASSUME NEW v \in Callable, NEW n \in 1..MaxArgs, BaseApplyTerm(v, n) PROVE IInv'
  BY <1>2, BaseApplyTermStep
<1>3. ASSUME NEW v, BaseReturn(v) PROVE IInv' BY <1>3, BaseReturnStep
<1>4. CASE BasePushTrap BY <1>4, BasePushTrapStep
<1>5. CASE BasePopTrap BY <1>5, BasePopTrapStep
<1>6. CASE BaseRaise BY <1>6, BaseRaiseStep
<1>7. CASE BaseCCall BY <1>7, BaseCCallStep
<1>8. CASE BaseCheckSignals BY <1>8, EventsStep DEF BaseCheckSignals
<1> QED BY <1>1, <1>2, <1>3, <1>4, <1>5, <1>6, <1>7, <1>8 DEF BaseStep

\* ->apply, the return to a caller and the call of optimised code.
LEMMA ApplyStepKeeps == ASSUME IInv, ApplyStep PROVE IInv'
<1>1. CASE ApplyChecks
  <2>1. CASE ProcessEvents(accu, "dispatch") BY <1>1, <2>1, EventsStep DEF ApplyChecks
  <2>2. CASE ~ProcessEvents(accu, "dispatch")
    <3>1. /\ pc = "apply" /\ env' = accu /\ pc' = "dispatch"
          /\ UNCHANGED <<accu, extra, rdx, stack, caml, native, status, todo, bounds>>
      BY <1>1, <2>2 DEF ApplyChecks
    <3> QED BY <3>1, ApplyStep1
  <2> QED BY <2>1, <2>2
<1>2. CASE Restart BY <1>2, RestartStep
<1>3. CASE Dispatch BY <1>3, DispatchStep
<1>4. CASE GrabClosure BY <1>4, GrabClosureStep
<1>5. CASE GrabAllocSignals BY <1>5, GrabAllocStep
<1>6. CASE CheckOptCount \/ CheckOptBytecall BY <1>6, CheckOptStep
<1>7. CASE OptCall BY <1>7, OptCallStep
<1>8. CASE PerformReturn BY <1>8, PerformReturnStep
<1> QED BY <1>1, <1>2, <1>3, <1>4, <1>5, <1>6, <1>7, <1>8 DEF ApplyStep

\* Optimised bodies and the apply_k entry points.
LEMMA OptStepKeeps == ASSUME IInv, OptStep PROVE IInv'
<1>1. ASSUME NEW f \in Funs, NEW n \in 1..MaxArgs, OptApplyFast(f, n) PROVE IInv'
  BY <1>1, OptApplyFastStep
<1>2. ASSUME NEW v \in Callable, NEW n \in 1..MaxArgs, OptApplySlow(v, n) PROVE IInv'
  BY <1>2, OptApplySlowStep
<1>3. ASSUME NEW v \in Callable, NEW n \in 1..MaxArgs, OptTailCall(v, n) PROVE IInv'
  BY <1>3, OptTailCallStep
<1>4. ASSUME NEW v, OptReturn(v) PROVE IInv' BY <1>4, OptReturnStep
<1>5. CASE ApplyN BY <1>5, ApplyNStep
<1>6. CASE Stop BY <1>6, StopStep
<1>7. CASE OptReturnToBase BY <1>7, OptReturnToBaseStep
<1>8. CASE OptReturnToOpt BY <1>8, OptReturnToOptStep
<1>9. CASE OptCCall BY <1>9, OptCCallStep
<1>10. CASE OptCheckSignals BY <1>10, OptCheckSignalsStep
<1>11. CASE OptRaise BY <1>11, OptRaiseStep
<1> QED BY <1>1, <1>2, <1>3, <1>4, <1>5, <1>6, <1>7, <1>8, <1>9, <1>10, <1>11 DEF OptStep

\* Every step keeps the invariant, when callbacks have at most four arguments.
LEMMA NextStep ==
    ASSUME MaxCallbackArgs <= 4, IInv, [Next]_vars
    PROVE  IInv'
<1>1. CASE BaseStep BY <1>1, BaseStepKeeps
<1>2. CASE ApplyStep BY <1>2, ApplyStepKeeps
<1>3. CASE OptStep BY <1>3, OptStepKeeps
<1>4. CASE RaiseStep BY <1>4, RaiseToTrapStep, RaiseAgainStep, RaiseToCStep DEF RaiseStep
<1>5. CASE CStep
  <2>1. ASSUME NEW v \in {Unit, accu}, CReturn(v) PROVE IInv' BY <2>1, CReturnStep
  <2>2. CASE CRaise BY <2>2, CRaiseStep
  <2>3. ASSUME NEW f \in Funs, NEW n \in 1..MaxCallbackArgs, Callback(f, n) PROVE IInv' BY <2>3, CallbackStep
  <2>4. CASE CallbackStop BY <2>4, CallbackStopStep
  <2> QED BY <1>5, <2>1, <2>2, <2>3, <2>4 DEF CStep
<1>6. CASE SignalArrives BY <1>6, SameState DEF SignalArrives, bounds
<1>7. CASE UNCHANGED vars BY <1>7, SameState DEF vars, bounds
<1>8. CASE Finished BY <1>7, <1>8 DEF Finished
<1> QED BY <1>1, <1>2, <1>3, <1>4, <1>5, <1>6, <1>7, <1>8 DEF Next, Machine

\* The C program before its first callback.
LEMMA InitHolds == ASSUME Init PROVE IInv
<1>1. PICK fr : fr = C("main", 0, Unit)
  OBVIOUS
<1>2. fr \in CFrame /\ fr \in Frames /\ fr.k = "c" /\ fr.from = "main"
  <2>1. Unit \in Value BY WordsAreWords
  <2> QED BY <1>1, <2>1 DEF C, CFrame, Frames
<1>3. native = <<fr>> /\ native \in Seq(Frames) /\ Len(native) = 1 /\ native[1] = fr
  BY <1>1, <1>2 DEF Init
<1>4. stack = <<>> /\ stack \in Seq(Word) /\ Len(stack) = 0
  BY DEF Init
<1>5. Types
  BY <1>3, <1>4, WordsAreWords DEF Types, Init, Labels
<1>6. TrapsLinked(stack, trapSp)
  BY <1>4 DEF TrapsLinked, TopTrap, Init
<1>7. Chain(native, extRaise)
  BY <1>2, <1>3 DEF Chain, IsLast, Init
<1>8. PICK ht : ht = [i \in 1..1 |-> 0]
  OBVIOUS
<1>9. ht \in [1..Len(native) -> Nat] /\ ht[1] = 0
  BY <1>3, <1>8
<1>10. pc = "c" /\ externSp = 0 /\ Cur = 0 /\ Height = 0 /\ Frame = fr
  BY <1>3, <1>4 DEF Init, Cur, Height, Frame
<1>11. Structure(stack, Cur, native, ht)
  <2>1. Rising(native, ht) BY <1>3, <1>9 DEF Rising
  <2>2. FramesOK(stack, native, ht) BY <1>2, <1>3, <1>9 DEF FramesOK
  <2>3. Points(stack, 0, native, ht) BY DEF Points
  <2> QED BY <1>3, <1>4, <1>9, <1>10, <2>1, <2>2, <2>3 DEF Structure
<1>12. ControlOK(ht)
  BY <1>2, <1>3, <1>9, <1>10 DEF ControlOK, NativeOK, AsmLabels
<1> QED BY <1>5, <1>6, <1>7, <1>11, <1>12 DEF IInv, Shape

-----------------------------------------------------------------------------
(* The results *)

\* Max of a set of integers is its greatest element.
LEMMA MaxIs ==
    ASSUME NEW S, NEW x \in S, \A y \in S : y \in Int /\ y <= x
    PROVE  Max(S) = x
<1>1. \A y \in S : x >= y
  OBVIOUS
<1>2. Max(S) \in S /\ \A y \in S : Max(S) >= y
  BY <1>1 DEF Max
<1> QED BY <1>2

\* An exception leaving apply_n has an enclosing entry frame.
LEMMA ReraiseFinds ==
    ASSUME IInv, pc = "raise", Frame.reraise
    PROVE  Frame.prev > 0
<1>1. PICK ht : AsmState(ht)
  BY AsmOpen DEF AsmLabels
<1>2. /\ Chain(native, extRaise) /\ Structure(stack, Len(stack), native, ht)
      /\ native[Len(native)].k = "entry" /\ Len(native) \in Nat
  BY <1>1, TopFrame DEF AsmState, Frame
<1>3. Frame.prev \in Nat /\ Len(native) > 1 /\ native[Len(native) - 1].k = "opt"
  BY <1>2, TopEntry DEF Frame
<1>4. IsLast(native, Len(native) - 1, Frame.prev)
  <2>1. Len(native) \in 1..Len(native) BY <1>2, <1>3
  <2> QED BY <1>2, <2>1 DEF Chain, Frame
<1>5. native[1].k = "c" /\ native[2].k = "entry"
  BY <1>2, <1>3 DEF Structure, FramesOK
<1>6. 2 \in 1..(Len(native) - 1)
  BY <1>2, <1>3, <1>5
<1> QED BY <1>3, <1>4, <1>5, <1>6 DEF IsLast

\* The chain of jump buffers.
LEMMA JumpBuffers == ASSUME IInv PROVE HandlerChain
<1>1. Chain(native, extRaise) /\ native \in Seq(Frames) /\ Len(native) \in Nat /\ DOMAIN native = 1..Len(native)
  BY DEF IInv, Types
<1>2. ASSUME NEW m \in 0..Len(native), NEW x, IsLast(native, m, x) PROVE LastEntry(m) = x
  <2>1. x \in 0..m /\ (x > 0 => native[x].k = "entry") /\ \A i \in 1..m : native[i].k = "entry" => i <= x
    BY <1>2 DEF IsLast
  <2>2. PICK S : S = {0} \union {i \in EntryFrames : i <= m}
    OBVIOUS
  <2>3. x \in S
    <3>1. CASE x = 0 BY <2>2, <3>1
    <3>2. CASE x > 0
      <4>1. x \in DOMAIN native /\ x <= m BY <1>1, <1>2, <2>1, <3>2
      <4> QED BY <2>1, <2>2, <3>2, <4>1 DEF EntryFrames
    <3> QED BY <2>1, <3>1, <3>2
  <2>4. \A y \in S : y \in Int /\ y <= x
    <3>1. ASSUME NEW y \in EntryFrames, y <= m PROVE y \in Int /\ y <= x
      <4>1. y \in 1..Len(native) /\ native[y].k = "entry" BY <1>1, <3>1 DEF EntryFrames
      <4>2. y \in 1..m BY <1>1, <3>1, <4>1
      <4> QED BY <2>1, <4>1, <4>2
    <3> QED BY <2>1, <2>2, <3>1
  <2>5. Max(S) = x BY <2>3, <2>4, MaxIs
  <2> QED BY <2>2, <2>5 DEF LastEntry
<1>3. extRaise = LastEntry(Len(native))
  <2>1. Len(native) \in 0..Len(native) /\ IsLast(native, Len(native), extRaise) BY <1>1 DEF Chain
  <2> QED BY <1>2, <2>1
<1>4. ASSUME NEW i \in EntryFrames PROVE native[i].prev = LastEntry(i - 1)
  <2>1. i \in 1..Len(native) /\ native[i].k = "entry" BY <1>1, <1>4 DEF EntryFrames
  <2>2. i - 1 \in 0..Len(native) /\ IsLast(native, i - 1, native[i].prev) BY <1>1, <2>1 DEF Chain
  <2> QED BY <1>2, <2>2
<1> QED BY <1>3, <1>4 DEF HandlerChain

\* The chain of trap frames.
LEMMA TrapFrames == ASSUME IInv PROVE TrapChain
<1>1. TrapsLinked(stack, trapSp) /\ stack \in Seq(Word) /\ Len(stack) \in Nat /\ Height = Len(stack)
  BY DEF IInv, Types, Height
<1>2. TrapHeights = {h \in 1..Len(stack) : W(stack, h) = Addr("trap")}
  BY <1>1 DEF TrapHeights, W
<1>3. ASSUME NEW m \in 0..Len(stack), NEW t, TopTrap(stack, m, t), NEW S, 0 \in S,
             \A h \in S : h # 0 => h \in 1..m /\ W(stack, h) = Addr("trap"),
             \A h \in 1..m : W(stack, h) = Addr("trap") => h \in S
      PROVE  Max(S) = t
  <2>1. t \in 0..m /\ (t > 0 => W(stack, t) = Addr("trap")) /\ \A h \in 1..m : W(stack, h) = Addr("trap") => h <= t
    BY <1>3 DEF TopTrap
  <2>2. t \in S
    <3>1. CASE t = 0 BY <1>3, <3>1
    <3>2. CASE t > 0
      <4>1. t \in 1..m BY <1>1, <2>1, <3>2
      <4> QED BY <1>3, <2>1, <3>2, <4>1
    <3> QED BY <2>1, <3>1, <3>2
  <2>3. \A y \in S : y \in Int /\ y <= t
    <3>1. ASSUME NEW y \in S, y # 0 PROVE y \in Int /\ y <= t BY <1>3, <2>1, <3>1
    <3> QED BY <2>1, <3>1
  <2> QED BY <2>2, <2>3, MaxIs
<1>4. trapSp = Max({0} \union TrapHeights)
  <2>1. Len(stack) \in 0..Len(stack) /\ TopTrap(stack, Len(stack), trapSp) BY <1>1 DEF TrapsLinked
  <2>2. PICK S : S = {0} \union TrapHeights OBVIOUS
  <2>3. /\ 0 \in S /\ \A h \in S : h # 0 => h \in 1..Len(stack) /\ W(stack, h) = Addr("trap")
        /\ \A h \in 1..Len(stack) : W(stack, h) = Addr("trap") => h \in S
    BY <1>2, <2>2
  <2>4. Max(S) = trapSp BY <1>3, <2>1, <2>3
  <2> QED BY <2>2, <2>4
<1>5. ASSUME NEW h \in TrapHeights
      PROVE  stack[Height - h + 2] = Link(Max({0} \union {g \in TrapHeights : g < h}))
  <2>1. h \in 1..Len(stack) /\ W(stack, h) = Addr("trap") BY <1>2, <1>5
  <2>2. PICK w : w = W(stack, h - 1) OBVIOUS
  <2>3. h > 1 /\ w = Link(w[2]) /\ TopTrap(stack, h - 1, w[2]) BY <1>1, <2>1, <2>2 DEF TrapsLinked
  <2>4. stack[Height - h + 2] = w
    <3>1. Len(stack) - (h - 1) + 1 = Len(stack) - h + 2 BY <1>1, <2>1
    <3> QED BY <1>1, <2>2, <3>1 DEF W
  <2>5. PICK S : S = {0} \union {g \in TrapHeights : g < h} OBVIOUS
  <2>6. h - 1 \in 0..Len(stack) BY <1>1, <2>1
  <2>7. \A g \in S : g # 0 => g \in 1..(h - 1) /\ W(stack, g) = Addr("trap")
    <3>1. \A g \in S : g # 0 => g \in 1..Len(stack) /\ g < h /\ W(stack, g) = Addr("trap") BY <1>2, <2>5
    <3>2. \A g \in 1..Len(stack) : g < h => g \in 1..(h - 1) BY <1>1, <2>1
    <3> QED BY <3>1, <3>2
  <2>8. \A g \in 1..(h - 1) : W(stack, g) = Addr("trap") => g \in S
    <3>1. \A g \in 1..(h - 1) : g \in 1..Len(stack) /\ g < h BY <1>1, <2>1
    <3> QED BY <1>2, <2>5, <3>1
  <2>9. 0 \in S BY <2>5
  <2>10. Max(S) = w[2] BY <1>3, <2>3, <2>6, <2>7, <2>8, <2>9
  <2> QED BY <2>3, <2>4, <2>5, <2>10
<1> QED BY <1>4, <1>5 DEF TrapChain

\* A callback's exception reaches C only when the callback has no handler left.
LEMMA EscapesOnly == ASSUME IInv PROVE OnlyEscapingReachC
<1>1. SUFFICES ASSUME pc = "raise", ~Frame.reraise, trapSp <= Frame.initSp
               PROVE  trapSp <= Frame.initSp - (Frame.narg + 4)
  BY DEF OnlyEscapingReachC
<1>2. PICK ht : AsmState(ht)
  BY <1>1, AsmOpen DEF AsmLabels
<1>3. PICK lo : lo = ht[Len(native)]
  OBVIOUS
<1>4. Structure(stack, Len(stack), native, ht) /\ native[Len(native)].k = "entry" /\ trapSp \in Nat
  BY <1>2 DEF AsmState, Frame, Types
<1>5. Frame.initSp = lo + Frame.narg + 4 /\ Frame.narg \in Nat /\ lo \in Nat
  BY <1>1, <1>3, <1>4, TopEntry DEF Frame
<1>6. trapSp <= lo
  BY <1>1, <1>2, <1>3, HandlerIsOlder
<1> QED BY <1>4, <1>5, <1>6

\* At every label of the generated code both stacks have the shape the code assumes,
\* whatever mix of tiers, tail calls, handlers, C calls, callbacks with at most four
\* arguments (the cases of caml_callback, caml_callback2 and caml_callback3) and signals
\* led there.
THEOREM InvariantHolds ==
    ASSUME MaxCallbackArgs <= 4
    PROVE  Spec => []IInv
<1>1. Init => IInv BY InitHolds
<1>2. IInv /\ [Next]_vars => IInv' BY NextStep
<1> QED BY <1>1, <1>2, PTL DEF Spec

\* external_raise and trapsp head whole chains of live handlers, and an exception that
\* leaves apply_n has a handler to go to.
THEOREM HandlersAreSound ==
    ASSUME MaxCallbackArgs <= 4
    PROVE  Spec => []HandlersSound
<1>1. IInv => HandlersSound
  BY JumpBuffers, TrapFrames, ReraiseFinds DEF HandlersSound, ReraiseHasHandler
<1> QED BY <1>1, InvariantHolds, PTL

\* extern_sp covers exactly the live OCaml stack whenever C code runs.
THEOREM RootsAreScanned ==
    ASSUME MaxCallbackArgs <= 4
    PROVE  Spec => []RootsScanned
<1>1. IInv => RootsScanned
  BY DEF IInv, Shape, ControlOK, NativeOK, RootsScanned
<1> QED BY <1>1, InvariantHolds, PTL

\* Callbacks with at most four arguments give C only the exceptions that escape them;
\* run apply_callback_args shows that five are too many.
THEOREM ExceptionsEscape ==
    ASSUME MaxCallbackArgs <= 4
    PROVE  Spec => []OnlyEscapingReachC
<1>1. IInv => OnlyEscapingReachC BY EscapesOnly
<1> QED BY <1>1, InvariantHolds, PTL
===========================================================================
