--------------------------- MODULE ThreadsProofs ---------------------------
(***************************************************************************)
(* The inductive invariant of Threads and the theorems it gives.  Each C   *)
(* function a thread is in runs inside or outside the master lock; the     *)
(* frames of a thread fit together, so that a function always returns in   *)
(* the mode its caller goes on in.  The thread inside is the one that      *)
(* curr_thread and Caml_state belong to.                                   *)
(***************************************************************************)
EXTENDS Threads, TLAPS

-----------------------------------------------------------------------------
(* Frames *)

Inner == {"psig", "scan", "handler", "handled", "yield", "handover", "release", "unblocked", "ocaml",
          "callback", "descriptor", "start", "stop", "stopping", "unlockchan", "cleanup"}
\* Functions of a thread of C that is outside of the runtime; nothing is under them.
Alone == {"register", "unregister", "take", "doze", "link", "unlink"}
Outer == {"acquire", "sleep", "wake", "recheck", "syscall", "join", "joining", "lock", "lockchan", "setkey",
          "wait", "waiting", "sigmask"} \union Alone
\* Whether the function starts with the master lock, and whether it returns with it.
Before(l) == IF l \in Inner THEN "in" ELSE "out"
After(l) ==
    IF l \in {"ocaml", "start", "stop", "stopping"} THEN "end"
    ELSE IF l \in {"acquire", "sleep"} THEN "in"
    ELSE IF l \in Inner \ {"release"} THEN "in" ELSE "out"

Special == {"unlockchan", "lockchan", "setkey", "lock", "wait"} \union Alone

\* What frame k of s needs of the frames under it.
PointOK(s, k) ==
    /\ s[k].pc \in Inner \union Outer
    /\ k < Len(s) => After(s[k].pc) = Before(s[k + 1].pc)
    /\ k = Len(s) => After(s[k].pc) \in {"out", "end"}
    /\ s[k].pc = "unlockchan" => k = Len(s) - 1 /\ s[k].x \in Channels /\ s[k] = On("unlockchan", s[k].x)
    /\ s[k].pc \in {"lockchan", "setkey"} =>
         k = Len(s) - 9 /\ s[Len(s) - 1].pc = "unlockchan" /\ s[Len(s) - 1].x = s[k].x
    /\ s[k].pc = "setkey" => k = 1
    /\ s[k].pc = "lock" => s[k].x \in Mutexes
    /\ s[k].pc = "wait" => k < Len(s) /\ s[k + 1].pc = "lock"
    /\ s[k].pc \in Alone => Len(s) = 1
    /\ s[k].pc \in {"take", "doze"} => s[k].x \in {"link", "unlink"}
Shape(s) == \A k \in 1..Len(s) : PointOK(s, k)

\* The operation under way has locked channel c and set the key.
Owns(s, c) ==
    /\ \E k \in 1..Len(s) : s[k].pc = "unlockchan" /\ s[k].x = c
    /\ \A k \in 1..Len(s) : s[k].pc \notin {"lockchan", "setkey"}
\* It has locked c and is about to set the key.
Keying(s, c) == s # <<>> /\ s[1].pc = "setkey" /\ s[1].x = c
Alike(q, s, c) == (Owns(q, c) <=> Owns(s, c)) /\ (Keying(q, c) <=> Keying(s, c))
Apart(s, c) == ~Owns(s, c) /\ ~Keying(s, c)

\* The thread has the master lock only for the ring.
Linking(s) == s # <<>> /\ s[1].pc \in {"link", "unlink"}
\* What it wants, or has, the lock for.
Aim(s) == IF s = <<>> THEN "-" ELSE IF s[1].pc \in {"take", "doze"} THEN s[1].x ELSE s[1].pc
\* Frames of operations on channels, and stacks that neither link nor set a key.
Chan == {"lockchan", "setkey", "unlockchan"}
Settled(s) == s # <<>> => s[1].pc \notin Alone \union {"setkey"}

Inside(s) == s # <<>> /\ s[1].pc \in Inner

-----------------------------------------------------------------------------
(* The invariant *)

IsSeq(s) == \E A : s \in Seq(A)
Stacks == stack = [t \in Names |-> stack[t]] /\ \A t \in Names : IsSeq(stack[t])
Shapes == \A t \in Names : Shape(stack[t])

Types ==
    /\ prog \in Programs /\ pos \in [Names -> Nat \ {0}]
    /\ life \in [Names -> {"none", "alive", "outside", "dead"}]
    /\ busy \in BOOLEAN /\ curr \in Names
    /\ saved \in [Names -> Names \X {0, 1}] /\ mine \in [Names -> {0, 1}] /\ cs \in Names \X {0, 1}
    /\ nxt \in [Names -> Names \union {NoOne}] /\ prv \in [Names -> Names \union {NoOne}]
    /\ all_threads \in Names \union {NoOne}
    /\ holder \in [Mutexes \union Channels -> Names \union {NoOne}]
    /\ lastLocked \in [Names -> Channels \union {NoOne}]

\* Threads that are not linked have nothing to do inside.
Living(l, s, m, t) ==
    /\ l = "alive" \/ s = <<>> \/ (Len(s) = 1 /\ s[1].pc \in {"wake"} \union Alone)
    /\ l = "dead" => s = <<>> \/ s[1].pc = "wake"
    /\ l = "none" => s = <<>> /\ m = 0 /\ t \notin OfC
    /\ Aim(s) = "link" => l # "alive"
    /\ Aim(s) = "unlink" => l = "alive"
Lives == \A t \in Names : Living(life[t], stack[t], mine[t], t)

\* The runtime state is that of the thread inside; the others have saved theirs.
Owned ==
    \A t \in Names :
      /\ Inside(stack[t]) => busy /\ curr = t /\ cs = <<t, mine[t]>>
      /\ life[t] = "alive" /\ ~Inside(stack[t]) => saved[t] = <<t, mine[t]>>

\* The infos of the linked threads form one ring: no part of it is closed.
RingOf(L, n, p) ==
    /\ \A u \in L : n[u] \in L /\ p[u] \in L /\ p[n[u]] = u /\ n[p[u]] = u
    /\ \A S \in SUBSET L : S # {} /\ (\A u \in S : n[u] \in S) => S = L
Linked == {u \in Names : life[u] = "alive"}
Ring ==
    /\ RingOf(Linked, nxt, prv)
    /\ all_threads \in Linked \/ (all_threads = NoOne /\ Linked = {})

\* A locked channel is the one its holder's operation is about.
Locking ==
    over # "fatal" =>
      /\ \A t \in Names : life[t] # "dead" => \A c \in Channels : lastLocked[t] = c <=> Owns(stack[t], c)
      /\ \A c \in Channels : holder[c] # NoOne =>
           life[holder[c]] = "alive" /\ (lastLocked[holder[c]] = c \/ Keying(stack[holder[c]], c))
      /\ \A t \in Names : life[t] # "dead" => \A c \in Channels :
           lastLocked[t] = c \/ Keying(stack[t], c) => holder[c] = t

\* No one is inside, and no one else links, while a thread of C has the lock for the ring.
Exclusive ==
    \A t \in Names : Linking(stack[t]) =>
      busy /\ \A u \in Names \ {t} : ~Inside(stack[u]) /\ ~Linking(stack[u])

IInv == Stacks /\ Types /\ Shapes /\ Lives /\ Owned /\ Ring /\ Locking /\ Exclusive

-----------------------------------------------------------------------------
(* Pieces of code: sequences of frames that lead from mode a to mode b *)

Plain == (Inner \union Outer) \ Special
\* Frame k of fs fits wherever fs does.
Free(fs, k) ==
    /\ fs[k].pc \in Plain \union {"lock", "wait"}
    /\ fs[k].pc = "lock" => fs[k].x \in Mutexes
    /\ fs[k].pc = "wait" => k < Len(fs) /\ fs[k + 1].pc = "lock"
Piece(fs, a, b) ==
    /\ IsSeq(fs)
    /\ Len(fs) > 0 /\ Before(fs[1].pc) = a /\ After(fs[Len(fs)].pc) = b
    /\ \A k \in 1..Len(fs) : Free(fs, k)
    /\ \A k \in 1..(Len(fs) - 1) : After(fs[k].pc) = Before(fs[k + 1].pc)

LEMMA OneFrame ==
    ASSUME NEW f, f.pc \in Plain \/ (f.pc = "lock" /\ f.x \in Mutexes)
    PROVE  Piece(<<f>>, Before(f.pc), After(f.pc))
<1>1. PICK s : s = <<f>>
  OBVIOUS
<1>2. s \in Seq({f}) /\ Len(s) = 1 /\ s[1] = f
  BY <1>1
<1>3. \A k \in 1..Len(s) : Free(s, k)
  <2>1. f.pc # "wait" BY DEF Plain, Special
  <2>2. \A k \in 1..Len(s) : k = 1 BY <1>2
  <2>3. Free(s, 1) BY <1>2, <2>1 DEF Free, Plain, Special
  <2> QED BY <2>2, <2>3
<1>4. \A k \in 1..(Len(s) - 1) : FALSE
  BY <1>2
<1>5. Before(s[1].pc) = Before(f.pc) /\ After(s[Len(s)].pc) = After(f.pc) /\ Len(s) > 0
  BY <1>2
<1>6. Piece(s, Before(f.pc), After(f.pc))
  BY <1>2, <1>3, <1>4, <1>5 DEF Piece, IsSeq
<1> QED BY <1>1, <1>6

\* The two parts of a concatenation.
LEMMA ConcatFacts ==
    ASSUME NEW A, NEW B, NEW s \in Seq(A), NEW r \in Seq(B), NEW q, q = s \o r
    PROVE  /\ q \in Seq(A \union B) /\ Len(q) = Len(s) + Len(r) /\ Len(s) \in Nat /\ Len(r) \in Nat
           /\ \A i \in 1..Len(s) : q[i] = s[i]
           /\ \A i \in (Len(s) + 1)..Len(q) : q[i] = r[i - Len(s)] /\ i - Len(s) \in 1..Len(r)
<1>1. s \in Seq(A \union B) /\ r \in Seq(A \union B)
  OBVIOUS
<1> QED BY <1>1

LEMMA TwoPieces ==
    ASSUME NEW f, NEW g, NEW a, NEW b, NEW c, Piece(f, a, b), Piece(g, b, c)
    PROVE  Piece(f \o g, a, c)
<1>1. PICK A, B : f \in Seq(A) /\ g \in Seq(B)
  BY DEF Piece, IsSeq
<1>2. PICK q : q = f \o g
  OBVIOUS
<1>3. /\ q \in Seq(A \union B) /\ Len(q) = Len(f) + Len(g) /\ Len(f) \in Nat /\ Len(g) \in Nat
      /\ \A i \in 1..Len(f) : q[i] = f[i]
      /\ \A i \in (Len(f) + 1)..Len(q) : q[i] = g[i - Len(f)] /\ i - Len(f) \in 1..Len(g)
  BY <1>1, <1>2, ConcatFacts
<1>4. /\ Len(f) > 0 /\ Len(g) > 0 /\ Before(f[1].pc) = a /\ After(f[Len(f)].pc) = b
      /\ Before(g[1].pc) = b /\ After(g[Len(g)].pc) = c
      /\ \A k \in 1..Len(f) : Free(f, k)
      /\ \A k \in 1..Len(g) : Free(g, k)
      /\ \A k \in 1..(Len(f) - 1) : After(f[k].pc) = Before(f[k + 1].pc)
      /\ \A k \in 1..(Len(g) - 1) : After(g[k].pc) = Before(g[k + 1].pc)
  BY DEF Piece
<1>5. q[1] = f[1] /\ q[Len(q)] = g[Len(g)] /\ Len(q) > 0
  <2>1. 1 \in 1..Len(f) /\ Len(q) \in (Len(f) + 1)..Len(q) /\ Len(q) - Len(f) = Len(g) BY <1>3, <1>4
  <2> QED BY <1>3, <1>4, <2>1
<1>6. ASSUME NEW k \in 1..Len(q) PROVE Free(q, k)
  <2>1. k \in 1..Len(f) \/ k \in (Len(f) + 1)..Len(q) BY <1>3
  <2>2. CASE k \in 1..Len(f)
    <3>1. q[k] = f[k] /\ Free(f, k) BY <1>3, <1>4, <2>2
    <3>2. k < Len(f) => k + 1 \in 1..Len(f) /\ k < Len(q) BY <1>3, <2>2
    <3>3. k < Len(f) => q[k + 1] = f[k + 1] BY <1>3, <3>2
    <3> QED BY <3>1, <3>2, <3>3 DEF Free
  <2>3. CASE k \in (Len(f) + 1)..Len(q)
    <3>1. PICK j : j = k - Len(f) OBVIOUS
    <3>2. q[k] = g[j] /\ j \in 1..Len(g) BY <1>3, <2>3, <3>1
    <3>3. Free(g, j) BY <1>4, <3>2
    <3>4. j < Len(g) => k + 1 \in (Len(f) + 1)..Len(q) /\ k < Len(q) /\ k + 1 - Len(f) = j + 1
      BY <1>3, <2>3, <3>1, <3>2
    <3>5. j < Len(g) => q[k + 1] = g[j + 1] BY <1>3, <3>4
    <3> QED BY <3>2, <3>3, <3>4, <3>5 DEF Free
  <2> QED BY <2>1, <2>2, <2>3
<1>7. ASSUME NEW k \in 1..(Len(q) - 1) PROVE After(q[k].pc) = Before(q[k + 1].pc)
  <2>1. CASE k \in 1..(Len(f) - 1)
    <3>1. k \in 1..Len(f) /\ k + 1 \in 1..Len(f) BY <1>3, <2>1
    <3> QED BY <1>3, <1>4, <2>1, <3>1
  <2>2. CASE k = Len(f)
    <3>1. k \in 1..Len(f) /\ k + 1 \in (Len(f) + 1)..Len(q) /\ k + 1 - Len(f) = 1 BY <1>3, <1>4, <2>2
    <3>2. q[k] = f[k] /\ q[k + 1] = g[1] BY <1>3, <3>1
    <3> QED BY <1>4, <2>2, <3>2
  <2>3. CASE k \in (Len(f) + 1)..(Len(q) - 1)
    <3>1. PICK j : j = k - Len(f) OBVIOUS
    <3>2. k \in (Len(f) + 1)..Len(q) /\ k + 1 \in (Len(f) + 1)..Len(q) /\ k + 1 - Len(f) = j + 1 /\ j \in 1..(Len(g) - 1)
      BY <1>3, <2>3, <3>1
    <3>3. q[k] = g[j] /\ q[k + 1] = g[j + 1] BY <1>3, <3>1, <3>2
    <3> QED BY <1>4, <3>2, <3>3
  <2> QED BY <1>3, <2>1, <2>2, <2>3
<1>8. Piece(q, a, c)
  BY <1>3, <1>4, <1>5, <1>6, <1>7 DEF Piece, IsSeq
<1> QED BY <1>2, <1>8

\* The code of blocking sections, and single frames.
LEMMA Pieces ==
    /\ Piece(Enter, "in", "out") /\ Piece(Leave, "out", "in")
    /\ \A l \in Plain : \A x, y : Piece(<<Frame(l, x, y)>>, Before(l), After(l))
    /\ \A l \in Plain : Piece(<<F(l)>>, Before(l), After(l))
<1>1. \A l \in Plain : \A x, y : Piece(<<Frame(l, x, y)>>, Before(l), After(l))
  <2>1. ASSUME NEW l \in Plain, NEW x, NEW y PROVE Piece(<<Frame(l, x, y)>>, Before(l), After(l))
    <3>1. PICK f : f = Frame(l, x, y) OBVIOUS
    <3>2. f.pc = l BY <3>1 DEF Frame
    <3> QED BY <3>1, <3>2, OneFrame
  <2> QED BY <2>1
<1>2. \A l \in Plain : Piece(<<F(l)>>, Before(l), After(l))
  BY <1>1 DEF F
<1>3. /\ {"psig", "release", "acquire", "unblocked"} \subseteq Plain
      /\ Before("psig") = "in" /\ After("psig") = "in" /\ Before("release") = "in" /\ After("release") = "out"
      /\ Before("acquire") = "out" /\ After("acquire") = "in" /\ Before("unblocked") = "in" /\ After("unblocked") = "in"
  BY DEF Plain, Inner, Outer, Special, Alone, Before, After
<1>4. Piece(<<F("psig")>>, "in", "in") /\ Piece(<<F("release")>>, "in", "out")
      /\ Piece(<<F("acquire")>>, "out", "in") /\ Piece(<<F("unblocked")>>, "in", "in")
  BY <1>2, <1>3
<1>5. Piece(<<F("psig")>> \o <<F("release")>>, "in", "out") /\ Piece(<<F("acquire")>> \o <<F("unblocked")>>, "out", "in")
  BY <1>4, TwoPieces
<1>6. Enter = <<F("psig")>> \o <<F("release")>> /\ Leave = <<F("acquire")>> \o <<F("unblocked")>>
  BY DEF Enter, Leave
<1> QED BY <1>1, <1>2, <1>5, <1>6

-----------------------------------------------------------------------------
(* One thread's stack: its current function goes on as fs *)

Goes(s, fs, a) == (fs = <<>> /\ a = After(s[1].pc)) \/ Piece(fs, a, After(s[1].pc))

LEMMA SpliceFacts ==
    ASSUME NEW A, NEW s \in Seq(A), s # <<>>, NEW B, NEW fs \in Seq(B), NEW q, q = fs \o Tail(s)
    PROVE  /\ q \in Seq(A \union B) /\ Len(s) \in Nat /\ Len(s) > 0 /\ Len(fs) \in Nat
           /\ Len(q) = Len(fs) + Len(s) - 1
           /\ \A i \in 1..Len(fs) : q[i] = fs[i]
           /\ \A i \in (Len(fs) + 1)..Len(q) : q[i] = s[i - Len(fs) + 1] /\ i - Len(fs) + 1 \in 2..Len(s)
<1>1. PICK r : r = Tail(s)
  OBVIOUS
<1>2. r \in Seq(A) /\ Len(r) = Len(s) - 1 /\ Len(s) \in Nat /\ Len(s) > 0 /\ \A i \in 1..Len(r) : r[i] = s[i + 1]
  BY <1>1
<1>3. /\ q \in Seq(B \union A) /\ Len(q) = Len(fs) + Len(r) /\ Len(fs) \in Nat
      /\ \A i \in 1..Len(fs) : q[i] = fs[i]
      /\ \A i \in (Len(fs) + 1)..Len(q) : q[i] = r[i - Len(fs)] /\ i - Len(fs) \in 1..Len(r)
  BY <1>1, <1>2, ConcatFacts
<1>4. ASSUME NEW i \in (Len(fs) + 1)..Len(q)
      PROVE  q[i] = s[i - Len(fs) + 1] /\ i - Len(fs) + 1 \in 2..Len(s)
  <2>1. PICK j : j = i - Len(fs) OBVIOUS
  <2>2. j \in 1..Len(r) /\ q[i] = r[j] BY <1>3, <2>1
  <2>3. r[j] = s[j + 1] /\ j + 1 \in 2..Len(s) BY <1>2, <2>2
  <2> QED BY <2>1, <2>2, <2>3
<1>5. B \union A = A \union B
  OBVIOUS
<1> QED BY <1>2, <1>3, <1>4, <1>5

\* What becomes of s when it goes on as q in mode a.
Spliceable(s, q, a) ==
    /\ Shape(q) /\ IsSeq(q) /\ Settled(q)
    /\ Inside(q) <=> a = "in"
    /\ s[1].pc \notin Chan => \A c : Alike(q, s, c)

\* The frames that are left fit under those of the piece.
LEMMA SpliceShape ==
    ASSUME NEW s, IsSeq(s), s # <<>>, Shape(s), s[1].pc \notin Alone,
           NEW fs, NEW a, Goes(s, fs, a), NEW q, q = fs \o Tail(s)
    PROVE  Spliceable(s, q, a)
<1>0. PICK A : s \in Seq(A)
  BY DEF IsSeq
<1>1. PICK B : fs \in Seq(B) /\ \A i \in 1..Len(fs) : Free(fs, i)
  <2>1. CASE fs = <<>>
    <3>1. fs \in Seq({}) /\ Len(fs) = 0 BY <2>1
    <3> QED BY <3>1
  <2>2. CASE Piece(fs, a, After(s[1].pc)) BY <2>2 DEF Piece, IsSeq
  <2> QED BY <2>1, <2>2 DEF Goes
<1>2. /\ q \in Seq(A \union B) /\ Len(s) \in Nat /\ Len(s) > 0 /\ Len(fs) \in Nat
      /\ Len(q) = Len(fs) + Len(s) - 1
      /\ \A i \in 1..Len(fs) : q[i] = fs[i]
      /\ \A i \in (Len(fs) + 1)..Len(q) : q[i] = s[i - Len(fs) + 1] /\ i - Len(fs) + 1 \in 2..Len(s)
  BY <1>0, <1>1, SpliceFacts
<1>a. Len(q) \in Nat /\ Len(s) \in Nat /\ Len(fs) \in Nat /\ Len(s) > 0 /\ Len(q) = Len(fs) + Len(s) - 1
  BY <1>2
<1>3. 1 \in 1..Len(s) /\ PointOK(s, 1)
  BY <1>2 DEF Shape
\* The frame under the first of s, if there is one.
<1>4. /\ Len(s) > 1 => Before(s[2].pc) = After(s[1].pc) /\ Len(fs) + 1 \in (Len(fs) + 1)..Len(q) /\ q[Len(fs) + 1] = s[2]
      /\ Len(s) = 1 => After(s[1].pc) \in {"out", "end"} /\ Len(q) = Len(fs)
  <2>1. CASE Len(s) > 1
    <3>1. Len(fs) + 1 \in (Len(fs) + 1)..Len(q) /\ Len(fs) + 1 - Len(fs) + 1 = 2 /\ 1 < Len(s) /\ 1 + 1 = 2 BY <1>2, <2>1
    <3> QED BY <1>2, <1>3, <2>1, <3>1 DEF PointOK
  <2>2. CASE Len(s) = 1
    <3>1. Len(q) = Len(fs) BY <1>2, <2>2
    <3> QED BY <1>3, <2>2, <3>1 DEF PointOK
  <2> QED BY <1>2, <2>1, <2>2
<1>5. ASSUME NEW k \in 1..Len(q), k \in (Len(fs) + 1)..Len(q) PROVE PointOK(q, k)
  <2>1. PICK j : j = k - Len(fs) + 1 OBVIOUS
  <2>2. q[k] = s[j] /\ j \in 2..Len(s) /\ j \in 1..Len(s) BY <1>2, <1>5, <2>1
  <2>3. PointOK(s, j) BY <2>2 DEF Shape
  <2>4. (k < Len(q) <=> j < Len(s)) /\ (k = Len(q) <=> j = Len(s)) /\ (k = Len(q) - 1 <=> j = Len(s) - 1)
        /\ (k = Len(q) - 9 <=> j = Len(s) - 9)
    BY ONLY <1>a, k \in 1..Len(q), <2>1
  <2>5. k < Len(q) => q[k + 1] = s[j + 1]
    <3>1. k < Len(q) => k + 1 \in (Len(fs) + 1)..Len(q) /\ k + 1 - Len(fs) + 1 = j + 1 BY <1>2, <1>5, <2>1
    <3> QED BY <1>2, <3>1
  <2>6. j = Len(s) - 9 => q[Len(q) - 1] = s[Len(s) - 1]
    <3>1. j = Len(s) - 9 => Len(q) - 1 \in (Len(fs) + 1)..Len(q) /\ Len(q) - 1 - Len(fs) + 1 = Len(s) - 1 BY <1>2, <2>2
    <3> QED BY <1>2, <3>1
  <2>7. s[j].pc \notin Alone \union {"setkey"}
    <3>1. Len(s) # 1 /\ j # 1 BY <1>2, <2>2
    <3> QED BY <2>3, <3>1 DEF PointOK
  <2>8. s[j].pc \notin {"take", "doze"} BY <2>7 DEF Alone
  <2> QED BY <2>2, <2>3, <2>4, <2>5, <2>6, <2>7, <2>8 DEF PointOK
<1>6. ASSUME NEW k \in 1..Len(q), k \in 1..Len(fs) PROVE PointOK(q, k)
  <2>1. Piece(fs, a, After(s[1].pc))
    <3>1. fs # <<>> BY <1>1, <1>6
    <3> QED BY <3>1 DEF Goes
  <2>2. /\ After(fs[Len(fs)].pc) = After(s[1].pc)
        /\ \A i \in 1..(Len(fs) - 1) : After(fs[i].pc) = Before(fs[i + 1].pc)
    BY <2>1 DEF Piece
  <2>3. q[k] = fs[k] /\ Free(fs, k) BY <1>1, <1>2, <1>6
  <2>4. k < Len(q) => After(q[k].pc) = Before(q[k + 1].pc)
    <3>1. CASE k < Len(fs)
      <4>1. k \in 1..(Len(fs) - 1) /\ k + 1 \in 1..Len(fs) BY <1>2, <1>6, <3>1
      <4> QED BY <1>2, <2>2, <2>3, <4>1
    <3>2. CASE k = Len(fs) /\ Len(s) > 1
      BY <1>4, <2>2, <2>3, <3>2
    <3>3. CASE k = Len(fs) /\ Len(s) = 1
      <4>1. ~(k < Len(q)) BY <1>2, <1>4, <3>3
      <4> QED BY <4>1
    <3> QED BY <1>2, <1>6, <3>1, <3>2, <3>3
  <2>5. k = Len(q) => After(q[k].pc) \in {"out", "end"}
    <3>0. PICK m, n, o : m = Len(s) /\ n = Len(fs) /\ o = Len(q) OBVIOUS
    <3>a. m \in Nat /\ n \in Nat /\ m > 0 /\ o = n + m - 1 /\ k \in 1..n BY <1>a, <1>6, <3>0
    <3>b. k = o => m = 1 /\ k = n BY ONLY <3>a
    <3>1. k = Len(q) => Len(s) = 1 /\ k = Len(fs) BY <3>0, <3>b
    <3> QED BY <1>4, <2>2, <2>3, <3>1
  <2>6. q[k].pc \in Inner \union Outer /\ q[k].pc \notin {"unlockchan", "lockchan", "setkey", "take", "doze"} \union Alone
    BY <2>3 DEF Free, Plain, Special, Outer, Alone
  <2>7. (q[k].pc = "lock" => q[k].x \in Mutexes) /\ (q[k].pc = "wait" => k < Len(q) /\ q[k + 1].pc = "lock")
    <3>1. k < Len(fs) => k + 1 \in 1..Len(fs) /\ k < Len(q) BY <1>2, <1>6
    <3>2. k < Len(fs) => q[k + 1] = fs[k + 1] BY <1>2, <3>1
    <3> QED BY <2>3, <3>1, <3>2 DEF Free
  <2> QED BY <2>4, <2>5, <2>6, <2>7 DEF PointOK
<1>7. Shape(q)
  <2>1. \A k \in 1..Len(q) : k \in (Len(fs) + 1)..Len(q) \/ k \in 1..Len(fs) BY <1>2
  <2> QED BY <1>5, <1>6, <2>1 DEF Shape
<1>8. (Inside(q) <=> a = "in") /\ Settled(q)
  <2>1. CASE Piece(fs, a, After(s[1].pc))
    <3>1. Len(fs) > 0 /\ Before(fs[1].pc) = a BY <2>1 DEF Piece
    <3>2. q # <<>> /\ q[1] = fs[1]
      <4>1. 1 \in 1..Len(fs) /\ Len(q) > 0 BY <1>2, <3>1
      <4> QED BY <1>2, <4>1
    <3>3. Settled(q)
      <4>1. 1 \in 1..Len(fs) BY <1>2, <3>1
      <4>2. fs[1].pc \in Plain \union {"lock", "wait"} BY <1>1, <4>1 DEF Free
      <4> QED BY <3>2, <4>2 DEF Settled, Plain, Special, Alone
    <3> QED BY <3>1, <3>2, <3>3 DEF Inside, Before
  <2>2. CASE fs = <<>> /\ a = After(s[1].pc) /\ Len(s) > 1
    <3>1. Len(fs) = 0 BY <2>2
    <3>2. q[1] = s[2] /\ q # <<>>
      <4>1. Len(fs) + 1 = 1 /\ Len(q) > 0 BY ONLY <1>a, <2>2, <3>1
      <4>2. q[1] = s[2] BY <1>4, <2>2, <4>1
      <4> QED BY <4>1, <4>2
    <3>3. Settled(q)
      <4>1. 2 \in 1..Len(s) /\ Len(s) # 1 BY <1>2, <2>2
      <4>2. PointOK(s, 2) BY <4>1 DEF Shape
      <4> QED BY <3>2, <4>1, <4>2 DEF Settled, PointOK
    <3> QED BY <1>4, <2>2, <3>2, <3>3 DEF Inside, Before
  <2>3. CASE fs = <<>> /\ a = After(s[1].pc) /\ Len(s) = 1
    <3>1. Len(q) = 0 BY <1>4, <2>3
    <3>2. q = <<>> BY <1>2, <3>1
    <3> QED BY <1>4, <2>3, <3>2 DEF Inside, Settled
  <2>4. Len(s) > 1 \/ Len(s) = 1
    <3>1. PICK m : m = Len(s) OBVIOUS
    <3>2. m \in Nat /\ m > 0 BY <1>a, <3>1
    <3>3. m > 1 \/ m = 1 BY ONLY <3>2
    <3> QED BY <3>1, <3>3
  <2> QED BY <2>1, <2>2, <2>3, <2>4 DEF Goes
<1>9. ASSUME NEW c, s[1].pc \notin Chan PROVE Alike(q, s, c)
  <2>1. \A k \in 1..Len(fs) : q[k].pc \notin Chan
    <3>1. ASSUME NEW k \in 1..Len(fs) PROVE q[k].pc \notin Chan
      <4>1. q[k] = fs[k] /\ Free(fs, k) BY <1>1, <1>2
      <4>2. fs[k].pc \in Plain \union {"lock", "wait"} BY <4>1 DEF Free
      <4> QED BY <4>1, <4>2 DEF Plain, Special, Chan
    <3> QED BY <3>1
  <2>2. \A k \in 1..Len(q) : q[k].pc \in Chan => \E j \in 1..Len(s) : q[k] = s[j]
    <3>1. ASSUME NEW k \in 1..Len(q), q[k].pc \in Chan PROVE \E j \in 1..Len(s) : q[k] = s[j]
      <4>1. k \in (Len(fs) + 1)..Len(q) BY <1>2, <2>1, <3>1
      <4>2. PICK j : j = k - Len(fs) + 1 OBVIOUS
      <4>3. q[k] = s[j] /\ j \in 2..Len(s) BY <1>2, <4>1, <4>2
      <4>4. j \in 1..Len(s) BY ONLY <1>a, <4>3
      <4> QED BY <4>3, <4>4
    <3> QED BY <3>1
  <2>3. \A j \in 1..Len(s) : s[j].pc \in Chan => \E k \in 1..Len(q) : q[k] = s[j]
    <3>1. ASSUME NEW j \in 1..Len(s), s[j].pc \in Chan PROVE \E k \in 1..Len(q) : q[k] = s[j]
      <4>1. j # 1 BY <1>9, <3>1
      <4>2. PICK k : k = j + Len(fs) - 1 OBVIOUS
      <4>3. k \in (Len(fs) + 1)..Len(q) /\ k \in 1..Len(q) /\ k - Len(fs) + 1 = j BY <1>2, <4>1, <4>2
      <4> QED BY <1>2, <4>3
    <3> QED BY <3>1
  <2>4. (\E k \in 1..Len(q) : q[k].pc = "unlockchan" /\ q[k].x = c) <=> (\E k \in 1..Len(s) : s[k].pc = "unlockchan" /\ s[k].x = c)
    <3>1. ASSUME NEW k \in 1..Len(q), q[k].pc = "unlockchan", q[k].x = c PROVE \E j \in 1..Len(s) : s[j].pc = "unlockchan" /\ s[j].x = c
      <4>1. PICK j \in 1..Len(s) : q[k] = s[j] BY <2>2, <3>1 DEF Chan
      <4> QED BY <3>1, <4>1
    <3>2. ASSUME NEW j \in 1..Len(s), s[j].pc = "unlockchan", s[j].x = c PROVE \E k \in 1..Len(q) : q[k].pc = "unlockchan" /\ q[k].x = c
      <4>1. PICK k \in 1..Len(q) : q[k] = s[j] BY <2>3, <3>2 DEF Chan
      <4> QED BY <3>2, <4>1
    <3> QED BY <3>1, <3>2
  <2>5. (\E k \in 1..Len(q) : q[k].pc \in {"lockchan", "setkey"}) <=> (\E k \in 1..Len(s) : s[k].pc \in {"lockchan", "setkey"})
    <3>1. ASSUME NEW k \in 1..Len(q), q[k].pc \in {"lockchan", "setkey"} PROVE \E j \in 1..Len(s) : s[j].pc \in {"lockchan", "setkey"}
      <4>1. PICK j \in 1..Len(s) : q[k] = s[j] BY <2>2, <3>1 DEF Chan
      <4> QED BY <3>1, <4>1
    <3>2. ASSUME NEW j \in 1..Len(s), s[j].pc \in {"lockchan", "setkey"} PROVE \E k \in 1..Len(q) : q[k].pc \in {"lockchan", "setkey"}
      <4>1. PICK k \in 1..Len(q) : q[k] = s[j] BY <2>3, <3>2 DEF Chan
      <4> QED BY <3>2, <4>1
    <3> QED BY <3>1, <3>2
  <2>6. Keying(q, c) <=> Keying(s, c)
    <3>1. s[1].pc # "setkey" BY <1>9 DEF Chan
    <3> QED BY <1>8, <3>1 DEF Keying, Settled
  <2> QED BY <2>4, <2>5, <2>6 DEF Owns, Alike
<1>10. IsSeq(q)
  BY <1>2 DEF IsSeq
<1> QED BY <1>7, <1>8, <1>9, <1>10 DEF Spliceable

-----------------------------------------------------------------------------
(* Steps that keep every thread inside or outside *)

\* The stack of a thread changes, and the thread stays inside or outside.
Move(s, q) ==
    /\ IsSeq(q) /\ Shape(q)
    /\ Inside(q) <=> Inside(s)
    /\ Linking(q) <=> Linking(s)
    /\ \A c \in Channels : Alike(q, s, c)
    /\ Settled(q) \/ q = s

\* Only t changes the runtime's state, and only if it is inside.
StateKept(t) ==
    /\ curr' = curr
    /\ \A u \in Names \ {t} : mine'[u] = mine[u] /\ saved'[u] = saved[u]
    /\ Inside(stack[t]) => cs' = <<t, mine'[t]>>
    /\ ~Inside(stack[t]) => cs' = cs /\ mine'[t] = mine[t] /\ saved'[t] = saved[t]

LEMMA MoveSame ==
    ASSUME NEW s, IsSeq(s), Shape(s)
    PROVE  Move(s, s)
  BY DEF Move, Alike

LEMMA RingKept ==
    ASSUME Ring, UNCHANGED <<life, ring>>
    PROVE  Ring'
<1>1. life' = life /\ nxt' = nxt /\ prv' = prv /\ all_threads' = all_threads
  BY DEF ring
<1>2. Linked' = Linked
  BY <1>1 DEF Linked
<1>3. RingOf(Linked', nxt', prv')
  BY <1>1, <1>2 DEF Ring
<1> QED BY <1>1, <1>2, <1>3 DEF Ring

LEMMA LockingKept ==
    ASSUME Locking, over # "fatal", UNCHANGED <<life, lastLocked>>, \A c \in Channels : holder'[c] = holder[c],
           holder \in [Mutexes \union Channels -> Names \union {NoOne}],
           \A u \in Names : \A c \in Channels : Alike(stack'[u], stack[u], c)
    PROVE  Locking'
<1>1. life' = life /\ lastLocked' = lastLocked
  OBVIOUS
<1>2. /\ \A t \in Names : life[t] # "dead" => \A c \in Channels : lastLocked[t] = c <=> Owns(stack[t], c)
      /\ \A c \in Channels : holder[c] # NoOne =>
           life[holder[c]] = "alive" /\ (lastLocked[holder[c]] = c \/ Keying(stack[holder[c]], c))
      /\ \A t \in Names : life[t] # "dead" => \A c \in Channels :
           lastLocked[t] = c \/ Keying(stack[t], c) => holder[c] = t
  BY DEF Locking
<1>3. \A u \in Names : \A c \in Channels :
        (Owns(stack'[u], c) <=> Owns(stack[u], c)) /\ (Keying(stack'[u], c) <=> Keying(stack[u], c))
  BY DEF Alike
<1>4. \A t \in Names : life'[t] # "dead" => \A c \in Channels : lastLocked'[t] = c <=> Owns(stack'[t], c)
  BY <1>1, <1>2, <1>3
<1>5. ASSUME NEW c \in Channels, holder'[c] # NoOne
      PROVE  life'[holder'[c]] = "alive" /\ (lastLocked'[holder'[c]] = c \/ Keying(stack'[holder'[c]], c))
  <2>1. PICK h : h = holder[c] OBVIOUS
  <2>2. h \in Names /\ holder'[c] = h BY <1>5, <2>1
  <2>3. life[h] = "alive" /\ (lastLocked[h] = c \/ Keying(stack[h], c)) BY <1>2, <1>5, <2>1, <2>2
  <2>4. life'[h] = "alive" /\ (lastLocked'[h] = c \/ Keying(stack'[h], c)) BY <1>1, <1>3, <2>2, <2>3
  <2> QED BY <2>2, <2>4
<1>6. \A t \in Names : life'[t] # "dead" => \A c \in Channels :
        lastLocked'[t] = c \/ Keying(stack'[t], c) => holder'[c] = t
  BY <1>1, <1>2, <1>3
<1> QED BY <1>4, <1>5, <1>6 DEF Locking

LEMMA ExclusiveKept ==
    ASSUME Exclusive, busy' = busy,
           \A u \in Names : (Inside(stack'[u]) <=> Inside(stack[u])) /\ (Linking(stack'[u]) <=> Linking(stack[u]))
    PROVE  Exclusive'
  BY DEF Exclusive

\* While a thread is inside, none has the lock for the ring.
LEMMA NoneLinks ==
    ASSUME Exclusive, NEW t \in Names, Inside(stack[t])
    PROVE  \A u \in Names : ~Linking(stack[u])
<1>1. ~Linking(stack[t])
  BY DEF Inside, Linking, Inner
<1> QED BY <1>1 DEF Exclusive

LEMMA OwnedKept ==
    ASSUME Owned, NEW t \in Names, StateKept(t), UNCHANGED <<life, busy>>,
           \A u \in Names : Inside(stack'[u]) <=> Inside(stack[u])
    PROVE  Owned'
<1>1. life' = life /\ busy' = busy /\ curr' = curr
  BY DEF StateKept
<1>3. ASSUME NEW u \in Names
      PROVE  /\ Inside(stack'[u]) => busy' /\ curr' = u /\ cs' = <<u, mine'[u]>>
             /\ life'[u] = "alive" /\ ~Inside(stack'[u]) => saved'[u] = <<u, mine'[u]>>
  <2>1. /\ Inside(stack[u]) => busy /\ curr = u /\ cs = <<u, mine[u]>>
        /\ life[u] = "alive" /\ ~Inside(stack[u]) => saved[u] = <<u, mine[u]>>
        /\ Inside(stack[t]) => curr = t
    BY DEF Owned
  <2>2. CASE u = t
    BY <1>1, <2>1, <2>2 DEF StateKept
  <2>3. CASE u # t
    <3>1. mine'[u] = mine[u] /\ saved'[u] = saved[u] BY <2>3 DEF StateKept
    <3>2. Inside(stack[u]) => cs' = cs BY <2>1, <2>3 DEF StateKept
    <3> QED BY <1>1, <2>1, <3>1, <3>2
  <2> QED BY <2>2, <2>3
<1> QED BY <1>3 DEF Owned

LEMMA StacksKept ==
    ASSUME stack' = [u \in Names |-> stack'[u]], \A u \in Names : Move(stack[u], stack'[u])
    PROVE  Stacks' /\ Shapes'
<1>1. \A u \in Names : IsSeq(stack'[u]) /\ Shape(stack'[u])
  BY DEF Move
<1> QED BY <1>1 DEF Stacks, Shapes

LEMMA QuietMoves ==
    ASSUME IInv, over # "fatal", NEW t \in Names,
           stack' = [u \in Names |-> stack'[u]], \A u \in Names : Move(stack[u], stack'[u]),
           Types', Lives', StateKept(t), UNCHANGED <<life, busy, ring, lastLocked>>,
           \A c \in Channels : holder'[c] = holder[c]
    PROVE  IInv'
<1>1. life' = life /\ busy' = busy /\ ring' = ring /\ lastLocked' = lastLocked
  OBVIOUS
<1>2. Stacks' /\ Shapes'
  BY StacksKept
<1>3. Owned'
  <2>1. \A u \in Names : Inside(stack'[u]) <=> Inside(stack[u])
    BY DEF Move
  <2> QED BY <1>1, <2>1, OwnedKept DEF IInv
<1>4. Ring'
  BY <1>1, RingKept DEF IInv
<1>5. Locking'
  <2>1. \A u \in Names : \A c \in Channels : Alike(stack'[u], stack[u], c)
    BY DEF Move
  <2> QED BY <1>1, <2>1, LockingKept DEF IInv, Types
<1>6. Exclusive'
  <2>1. \A u \in Names : (Inside(stack'[u]) <=> Inside(stack[u])) /\ (Linking(stack'[u]) <=> Linking(stack[u]))
    BY DEF Move
  <2> QED BY <1>1, <2>1, ExclusiveKept DEF IInv
<1> QED BY <1>2, <1>3, <1>4, <1>5, <1>6 DEF IInv

\* One thread's stack becomes q.
LEMMA TurnFacts ==
    ASSUME Stacks, NEW t \in Names, NEW q, stack' = [stack EXCEPT ![t] = q]
    PROVE  stack' = [u \in Names |-> stack'[u]] /\ stack'[t] = q /\ \A u \in Names \ {t} : stack'[u] = stack[u]
<1>1. stack = [u \in Names |-> stack[u]]
  BY DEF Stacks
<1>2. DOMAIN stack = Names
  BY <1>1
<1>3. stack' = [u \in Names |-> IF u = t THEN q ELSE stack[u]]
  BY <1>2
<1> QED BY <1>3

LEMMA LivesTurn ==
    ASSUME Stacks, Lives, NEW t \in Names, NEW q, stack' = [stack EXCEPT ![t] = q],
           life' = life, \A u \in Names \ {t} : mine'[u] = mine[u], Living(life[t], q, mine'[t], t)
    PROVE  Lives'
<1>1. stack'[t] = q /\ \A u \in Names \ {t} : stack'[u] = stack[u]
  BY TurnFacts
<1>2. ASSUME NEW u \in Names PROVE Living(life'[u], stack'[u], mine'[u], u)
  <2>1. CASE u = t
    BY <1>1, <2>1
  <2>2. CASE u # t
    <3>1. stack'[u] = stack[u] /\ mine'[u] = mine[u] BY <1>1, <2>2
    <3> QED BY <3>1 DEF Lives
  <2> QED BY <2>1, <2>2
<1> QED BY <1>2 DEF Lives

\* A linked thread, and one without frames.
LEMMA LivingFacts ==
    ASSUME NEW q, NEW m, NEW t, NEW l
    PROVE  /\ l = "alive" /\ Settled(q) => Living(l, q, m, t)
           /\ l = "alive" /\ q # <<>> /\ q[1].pc \notin Alone => Living(l, q, m, t)
           /\ l \in {"outside", "dead", "alive"} => Living(l, <<>>, m, t)
<1>1. Settled(q) => Aim(q) \notin {"link", "unlink"}
  BY DEF Settled, Aim, Alone
<1>2. Aim(<<>>) = "-"
  BY DEF Aim
<1>3. q # <<>> /\ q[1].pc \notin Alone => Aim(q) \notin {"link", "unlink"}
  BY DEF Aim, Alone
<1> QED BY <1>1, <1>2, <1>3 DEF Living

\* The frames of a thread at label l.
LEMMA AtFacts ==
    ASSUME IInv, NEW t \in Names, NEW l, At(t, l)
    PROVE  /\ over = "no" /\ stack[t] # <<>> /\ stack[t][1].pc = l
           /\ IsSeq(stack[t]) /\ Shape(stack[t]) /\ Len(stack[t]) \in Nat /\ Len(stack[t]) > 0
           /\ l \in Inner \union Outer /\ (Inside(stack[t]) <=> l \in Inner)
           /\ l \notin {"wake"} \union Alone => life[t] = "alive"
           /\ l \in Alone => Len(stack[t]) = 1
<1>1. over = "no" /\ stack[t] # <<>> /\ stack[t][1].pc = l
  BY DEF At
<1>2. IsSeq(stack[t]) /\ Shape(stack[t])
  BY DEF IInv, Stacks, Shapes
<1>3. Len(stack[t]) \in Nat /\ Len(stack[t]) > 0
  BY <1>1, <1>2 DEF IsSeq
<1>4. PointOK(stack[t], 1)
  BY <1>2, <1>3 DEF Shape
<1>5. l \in Inner \union Outer /\ (l \in Alone => Len(stack[t]) = 1)
  BY <1>1, <1>4 DEF PointOK
<1>6. Inside(stack[t]) <=> l \in Inner
  BY <1>1 DEF Inside
<1>7. l \notin {"wake"} \union Alone => life[t] = "alive"
  BY <1>1 DEF IInv, Lives, Living
<1> QED BY <1>1, <1>2, <1>3, <1>5, <1>6, <1>7

LEMMA QuietStep ==
    ASSUME IInv, NEW t \in Names, NEW l, At(t, l), l \notin Alone \union Chan,
           NEW fs, Goes(stack[t], fs, Before(l)), Continue(t, fs), life[t] = "alive" \/ fs = <<>>,
           Types', StateKept(t), UNCHANGED <<life, busy, ring, lastLocked>>,
           \A c \in Channels : holder'[c] = holder[c]
    PROVE  IInv'
<1>1. /\ over = "no" /\ stack[t] # <<>> /\ stack[t][1].pc = l
      /\ IsSeq(stack[t]) /\ Shape(stack[t]) /\ (Inside(stack[t]) <=> l \in Inner)
      /\ Len(stack[t]) \in Nat /\ Len(stack[t]) > 0
  BY AtFacts
<1>2. PICK q : q = fs \o Tail(stack[t])
  OBVIOUS
<1>3. stack' = [stack EXCEPT ![t] = q]
  BY <1>2 DEF Continue
<1>4. PICK s : s = stack[t]
  OBVIOUS
<1>5. /\ Shape(q) /\ IsSeq(q) /\ Settled(q)
      /\ Inside(q) <=> Before(l) = "in"
      /\ s[1].pc \notin Chan => \A c : Alike(q, s, c)
  <2>1. PICK a : a = Before(l) OBVIOUS
  <2>2. IsSeq(s) /\ s # <<>> /\ Shape(s) /\ s[1].pc \notin Alone /\ q = fs \o Tail(s) /\ Goes(s, fs, a)
    BY <1>1, <1>2, <1>4, <2>1
  <2>3. Spliceable(s, q, a)
    BY <2>2, SpliceShape
  <2> QED BY <2>1, <2>3 DEF Spliceable
<1>6. Move(stack[t], q)
  <2>1. Inside(q) <=> Inside(stack[t])
    BY <1>1, <1>5 DEF Before
  <2>2. \A c : Alike(q, stack[t], c)
    BY <1>1, <1>4, <1>5
  <2>3. ~Linking(q) /\ ~Linking(stack[t])
    BY <1>1, <1>5 DEF Settled, Linking, Alone
  <2> QED BY <1>5, <2>1, <2>2, <2>3 DEF Move
<1>7. stack' = [u \in Names |-> stack'[u]] /\ stack'[t] = q /\ \A u \in Names \ {t} : stack'[u] = stack[u]
  BY <1>3, TurnFacts DEF IInv
<1>8. \A u \in Names : Move(stack[u], stack'[u])
  <2>1. \A u \in Names : Move(stack[u], stack[u])
    BY MoveSame DEF IInv, Stacks, Shapes
  <2> QED BY <1>6, <1>7, <2>1
<1>9. Lives'
  <2>1. Living(life[t], q, mine'[t], t)
    <3>1. CASE life[t] = "alive" BY <1>5, <3>1, LivingFacts
    <3>2. CASE life[t] # "alive"
      <4>1. fs = <<>> /\ Len(s) = 1 /\ life[t] \in {"outside", "dead"} BY <1>1, <1>4, <3>2 DEF IInv, Lives, Living, Types
      <4>2. PICK A : s \in Seq(A) BY <1>1, <1>4 DEF IsSeq
      <4>3. PICK r : r = Tail(s) OBVIOUS
      <4>4. r \in Seq(A) /\ Len(r) = 0 BY <4>1, <4>2, <4>3, SMTT(20)
      <4>5. r = <<>> BY <4>4
      <4>6. q = <<>> BY <1>2, <1>4, <4>1, <4>3, <4>5
      <4> QED BY <4>1, <4>6, LivingFacts
    <3> QED BY <3>1, <3>2
  <2>2. life' = life /\ \A u \in Names \ {t} : mine'[u] = mine[u]
    BY DEF StateKept
  <2> QED BY <1>3, <2>1, <2>2, LivesTurn DEF IInv
<1>10. over # "fatal" /\ UNCHANGED <<life, busy, ring, lastLocked>>
  BY <1>1
<1> QED BY <1>7, <1>8, <1>9, <1>10, QuietMoves

-----------------------------------------------------------------------------
(* The code that the steps go on with *)

LEMMA Modes ==
    /\ \A l \in {"psig", "scan", "handler", "handled", "yield", "handover", "unblocked", "callback", "descriptor",
                 "unlockchan", "cleanup"} : Before(l) = "in" /\ After(l) = "in"
    /\ \A l \in {"ocaml", "start", "stop", "stopping"} : Before(l) = "in" /\ After(l) = "end"
    /\ \A l \in {"acquire", "sleep"} : Before(l) = "out" /\ After(l) = "in"
    /\ \A l \in {"wake", "recheck", "syscall", "join", "joining", "lock", "lockchan", "setkey", "wait", "waiting",
                 "sigmask"} \union Alone : Before(l) = "out" /\ After(l) = "out"
    /\ Before("release") = "in" /\ After("release") = "out"
  BY DEF Before, After, Inner, Alone

LEMMA PlainLabels ==
    {"psig", "scan", "handler", "handled", "yield", "handover", "unblocked", "callback", "descriptor", "cleanup",
     "ocaml", "start", "stop", "stopping", "acquire", "sleep", "wake", "recheck", "syscall", "join", "joining", "waiting",
     "sigmask", "release"} \subseteq Plain
  BY DEF Plain, Inner, Outer, Special, Alone

LEMMA InPieces ==
    /\ \A l \in {"psig", "scan", "handler", "handled", "yield", "handover", "unblocked", "callback", "descriptor",
                 "cleanup"} : Piece(<<F(l)>>, "in", "in") /\ \A x, y : Piece(<<Frame(l, x, y)>>, "in", "in")
    /\ \A l \in {"ocaml", "start", "stop", "stopping"} : Piece(<<F(l)>>, "in", "end")
  BY Modes, PlainLabels, Pieces

LEMMA OutPieces ==
    /\ \A l \in {"acquire", "sleep"} : Piece(<<F(l)>>, "out", "in") /\ \A x, y : Piece(<<Frame(l, x, y)>>, "out", "in")
    /\ \A l \in {"wake", "recheck", "syscall", "join", "joining", "waiting", "sigmask"} :
         Piece(<<F(l)>>, "out", "out") /\ \A x, y : Piece(<<Frame(l, x, y)>>, "out", "out")
  BY Modes, PlainLabels, Pieces

LEMMA Pairs ==
    /\ \A f, g : <<f, g>> = <<f>> \o <<g>>
    /\ \A f : <<>> \o <<f>> = <<f>>
<1>1. ASSUME NEW f, NEW g PROVE <<f, g>> = <<f>> \o <<g>>
  <2>1. PICK d, e, r : d = <<f>> /\ e = <<g>> /\ r = <<f, g>> OBVIOUS
  <2>2. d \in Seq({f, g}) /\ e \in Seq({f, g}) /\ Len(d) = 1 /\ Len(e) = 1 /\ d[1] = f /\ e[1] = g BY <2>1
  <2>3. r \in Seq({f, g}) /\ Len(r) = 2 /\ r[1] = f /\ r[2] = g BY <2>1
  <2>4. PICK s : s = d \o e OBVIOUS
  <2>a. PICK A, B : A = {f} /\ B = {g} OBVIOUS
  <2>b. d \in Seq(A) /\ e \in Seq(B) BY <2>1, <2>a
  <2>c. /\ s \in Seq(A \union B) /\ Len(s) = Len(d) + Len(e) /\ Len(d) \in Nat /\ Len(e) \in Nat
        /\ \A i \in 1..Len(d) : s[i] = d[i]
        /\ \A i \in (Len(d) + 1)..Len(s) : s[i] = e[i - Len(d)] /\ i - Len(d) \in 1..Len(e)
    BY <2>4, <2>b, ConcatFacts
  <2>d. Len(s) = 2 /\ 1 \in 1..Len(d) /\ 2 \in (Len(d) + 1)..Len(s) /\ 2 - Len(d) = 1 BY <2>2, <2>c
  <2>e. A \union B = {f, g} BY <2>a
  <2>5. s \in Seq({f, g}) /\ Len(s) = 2 /\ s[1] = f /\ s[2] = g BY <2>2, <2>c, <2>d, <2>e
  <2>6. \A k \in 1..2 : s[k] = r[k]
    <3>1. \A k \in 1..2 : k = 1 \/ k = 2 OBVIOUS
    <3> QED BY <2>3, <2>5, <3>1
  <2>7. s = r BY <2>3, <2>5, <2>6
  <2> QED BY <2>1, <2>4, <2>7
<1>2. ASSUME NEW f PROVE <<>> \o <<f>> = <<f>>
  <2>1. PICK e, g : e = <<>> /\ g = <<f>> OBVIOUS
  <2>2. e \in Seq({f}) /\ g \in Seq({f}) /\ Len(e) = 0 /\ Len(g) = 1 BY <2>1
  <2>3. PICK s : s = e \o g OBVIOUS
  <2>4. s \in Seq({f}) /\ Len(s) = 1 /\ s[1] = g[1] BY <2>2, <2>3
  <2>5. s = g BY <2>1, <2>2, <2>4
  <2> QED BY <2>1, <2>3, <2>5
<1> QED BY <1>1, <1>2

LEMMA ThreeFrames ==
    ASSUME NEW f, NEW g, NEW h, f.pc \in Plain, g.pc \in Plain, h.pc \in Plain,
           After(f.pc) = Before(g.pc), After(g.pc) = Before(h.pc)
    PROVE  Piece(<<f, g, h>>, Before(f.pc), After(h.pc))
<1>1. PICK s : s = <<f, g, h>>
  OBVIOUS
<1>2. s \in Seq({f, g, h}) /\ Len(s) = 3 /\ s[1] = f /\ s[2] = g /\ s[3] = h
  BY <1>1
<1>3. ASSUME NEW k \in 1..Len(s) PROVE Free(s, k)
  <2>1. k = 1 \/ k = 2 \/ k = 3 BY <1>2
  <2>2. s[k].pc \in Plain BY <1>2, <2>1
  <2> QED BY <2>2 DEF Free, Plain, Special
<1>4. ASSUME NEW k \in 1..(Len(s) - 1) PROVE After(s[k].pc) = Before(s[k + 1].pc)
  <2>1. (k = 1 /\ k + 1 = 2) \/ (k = 2 /\ k + 1 = 3) BY <1>2
  <2> QED BY <1>2, <2>1
<1>5. Piece(s, Before(f.pc), After(h.pc))
  BY <1>2, <1>3, <1>4 DEF Piece, IsSeq
<1> QED BY <1>1, <1>5

\* What the runtime's own steps go on with.
LEMMA RuntimeCode ==
    /\ Piece(<<F("acquire")>> \o Enter, "out", "out")
    /\ Piece(<<F("psig"), F("handover"), F("psig")>>, "in", "in")
    /\ \A x, y, w, z : Piece(<<Frame("handler", x, y), Frame("scan", w, z)>>, "in", "in")
    /\ \A x, y : Piece(<<F("yield")>> \o <<Frame("handled", x, y)>>, "in", "in") /\ Piece(<<>> \o <<Frame("handled", x, y)>>, "in", "in")
    /\ Piece(<<On("psig", "actions"), F("ocaml")>>, "in", "end") /\ Piece(<<F("ocaml")>>, "in", "end")
    /\ Piece(<<F("wake"), F("recheck")>>, "out", "out")
<1>1. Piece(<<F("acquire")>> \o Enter, "out", "out")
  <2>1. Piece(<<F("acquire")>>, "out", "in") /\ Piece(Enter, "in", "out") BY OutPieces, Pieces
  <2> QED BY <2>1, TwoPieces
<1>2. Piece(<<F("psig"), F("handover"), F("psig")>>, "in", "in")
  <2>1. F("psig").pc = "psig" /\ F("handover").pc = "handover" BY DEF F, Frame
  <2>2. "psig" \in Plain /\ "handover" \in Plain BY PlainLabels
  <2>3. Before("psig") = "in" /\ After("psig") = "in" /\ Before("handover") = "in" /\ After("handover") = "in" BY Modes
  <2> QED BY <2>1, <2>2, <2>3, ThreeFrames
<1>3. ASSUME NEW x, NEW y, NEW w, NEW z PROVE Piece(<<Frame("handler", x, y), Frame("scan", w, z)>>, "in", "in")
  <2>1. Piece(<<Frame("handler", x, y)>>, "in", "in") /\ Piece(<<Frame("scan", w, z)>>, "in", "in") BY InPieces
  <2>2. Piece(<<Frame("handler", x, y)>> \o <<Frame("scan", w, z)>>, "in", "in") BY <2>1, TwoPieces
  <2> QED BY <2>2, Pairs
<1>4. ASSUME NEW x, NEW y
      PROVE  Piece(<<F("yield")>> \o <<Frame("handled", x, y)>>, "in", "in") /\ Piece(<<>> \o <<Frame("handled", x, y)>>, "in", "in")
  <2>1. Piece(<<F("yield")>>, "in", "in") /\ Piece(<<Frame("handled", x, y)>>, "in", "in") BY InPieces
  <2>2. Piece(<<F("yield")>> \o <<Frame("handled", x, y)>>, "in", "in") BY <2>1, TwoPieces
  <2> QED BY <2>1, <2>2, Pairs
<1>5. Piece(<<On("psig", "actions"), F("ocaml")>>, "in", "end") /\ Piece(<<F("ocaml")>>, "in", "end")
  <2>1. Piece(<<On("psig", "actions")>>, "in", "in") /\ Piece(<<F("ocaml")>>, "in", "end") BY InPieces DEF On
  <2>2. Piece(<<On("psig", "actions")>> \o <<F("ocaml")>>, "in", "end") BY <2>1, TwoPieces
  <2> QED BY <2>1, <2>2, Pairs
<1>6. Piece(<<F("wake"), F("recheck")>>, "out", "out")
  <2>1. Piece(<<F("wake")>>, "out", "out") /\ Piece(<<F("recheck")>>, "out", "out") BY OutPieces
  <2>2. Piece(<<F("wake")>> \o <<F("recheck")>>, "out", "out") BY <2>1, TwoPieces
  <2> QED BY <2>2, Pairs
<1> QED BY <1>1, <1>2, <1>3, <1>4, <1>5, <1>6

\* What a program's operations and threads of C go on with.
LEMMA ProgramCode ==
    /\ Piece(<<F("yield")>> \o <<F("ocaml")>>, "in", "end") /\ Piece(<<F("cleanup")>> \o <<F("ocaml")>>, "in", "end")
    /\ \A l \in {"syscall", "join"} : \A y : Piece(Blocking(l, y) \o <<F("ocaml")>>, "in", "end")
    /\ \A y : Piece(Enter \o <<Frame("sigmask", NoOne, y)>> \o Leave \o <<F("ocaml")>>, "in", "end")
    /\ Piece(Leave \o <<F("callback")>> \o Enter, "out", "out")
    /\ Piece(Leave \o <<F("start")>>, "out", "end")
    /\ Piece(<<F("wake")>> \o Leave \o <<F("descriptor")>> \o Enter, "out", "out")
<1>1. /\ Piece(Enter, "in", "out") /\ Piece(Leave, "out", "in") /\ Piece(<<F("ocaml")>>, "in", "end")
      /\ Piece(<<F("yield")>>, "in", "in") /\ Piece(<<F("cleanup")>>, "in", "in") /\ Piece(<<F("callback")>>, "in", "in")
      /\ Piece(<<F("descriptor")>>, "in", "in") /\ Piece(<<F("wake")>>, "out", "out") /\ Piece(<<F("start")>>, "in", "end")
  BY Pieces, InPieces, OutPieces
<1>2. Piece(<<F("yield")>> \o <<F("ocaml")>>, "in", "end") /\ Piece(<<F("cleanup")>> \o <<F("ocaml")>>, "in", "end")
      /\ Piece(Leave \o <<F("start")>>, "out", "end")
  BY <1>1, TwoPieces
<1>3. ASSUME NEW f, Piece(<<f>>, "out", "out") PROVE Piece(Enter \o <<f>> \o Leave \o <<F("ocaml")>>, "in", "end")
  <2>1. Piece(Enter \o <<f>>, "in", "out") BY <1>1, <1>3, TwoPieces
  <2>2. Piece(Enter \o <<f>> \o Leave, "in", "in") BY <1>1, <2>1, TwoPieces
  <2> QED BY <1>1, <2>2, TwoPieces
<1>4. ASSUME NEW l \in {"syscall", "join"}, NEW y PROVE Piece(Blocking(l, y) \o <<F("ocaml")>>, "in", "end")
  <2>1. Piece(<<On(l, y)>>, "out", "out") BY OutPieces DEF On
  <2> QED BY <1>3, <2>1 DEF Blocking
<1>5. ASSUME NEW y PROVE Piece(Enter \o <<Frame("sigmask", NoOne, y)>> \o Leave \o <<F("ocaml")>>, "in", "end")
  <2>1. Piece(<<Frame("sigmask", NoOne, y)>>, "out", "out") BY OutPieces
  <2> QED BY <1>3, <2>1
<1>6. Piece(Leave \o <<F("callback")>> \o Enter, "out", "out")
  <2>1. Piece(Leave \o <<F("callback")>>, "out", "in") BY <1>1, TwoPieces
  <2> QED BY <1>1, <2>1, TwoPieces
<1>7. Piece(<<F("wake")>> \o Leave \o <<F("descriptor")>> \o Enter, "out", "out")
  <2>1. Piece(<<F("wake")>> \o Leave, "out", "in") BY <1>1, TwoPieces
  <2>2. Piece(<<F("wake")>> \o Leave \o <<F("descriptor")>>, "out", "in") BY <1>1, <2>1, TwoPieces
  <2> QED BY <1>1, <2>2, TwoPieces
<1> QED BY <1>2, <1>4, <1>5, <1>6, <1>7

-----------------------------------------------------------------------------
(* Steps of the runtime that stay inside or outside *)

\* What the invariant is about and these steps leave alone.
Passive == UNCHANGED <<prog, pos, life, busy, state, ring, holder, lastLocked>>

LEMMA TypesKept ==
    ASSUME Types, Passive
    PROVE  Types'
  BY DEF Types, Passive, state, ring

LEMMA StateSame ==
    ASSUME Owned, NEW t \in Names, UNCHANGED state
    PROVE  StateKept(t)
<1>1. curr' = curr /\ cs' = cs /\ saved' = saved /\ mine' = mine
  BY DEF state
<1>2. Inside(stack[t]) => cs = <<t, mine[t]>>
  BY DEF Owned
<1> QED BY <1>1, <1>2 DEF StateKept

LEMMA PlainStep ==
    ASSUME IInv, NEW t \in Names, NEW l, At(t, l),
           l \notin {"register", "unregister", "take", "doze", "link", "unlink", "lockchan", "setkey", "unlockchan"},
           NEW fs, (fs = <<>> /\ After(l) = Before(l)) \/ (Piece(fs, Before(l), After(l)) /\ l # "wake"), Continue(t, fs),
           Passive
    PROVE  IInv'
<1> l \notin Alone \union Chan
  BY DEF Alone, Chan
<1>1. stack[t][1].pc = l /\ (l # "wake" => life[t] = "alive")
  BY AtFacts
<1>2. Goes(stack[t], fs, Before(l)) /\ (life[t] = "alive" \/ fs = <<>>)
  BY <1>1 DEF Goes
<1>3. Types'
  BY TypesKept DEF IInv
<1>4. StateKept(t)
  BY StateSame DEF IInv, Passive
<1>5. UNCHANGED <<life, busy, ring, lastLocked>> /\ \A c \in Channels : holder'[c] = holder[c]
  BY DEF Passive
<1> QED BY <1>2, <1>3, <1>4, <1>5, QuietStep

LEMMA LockSteps ==
    ASSUME IInv, NEW t \in Names,
           \/ st_masterlock_acquire(t) /\ busy /\ At(t, "acquire")
           \/ Awake(t) /\ busy
           \/ st_masterlock_release(t) \/ caml_enter_blocking_section(t) \/ caml_leave_blocking_section(t)
           \/ caml_thread_yield(t)
    PROVE  IInv'
<1>1. CASE st_masterlock_acquire(t) /\ busy /\ At(t, "acquire")
  <2>0. Top(t).pc = "acquire"
    BY <1>1 DEF At, Top
  <2>1. At(t, "acquire") /\ Continue(t, <<On("sleep", Top(t).x)>>) /\ Passive
    BY <1>1, <2>0 DEF st_masterlock_acquire, Passive, locks
  <2>2. Piece(<<On("sleep", Top(t).x)>>, Before("acquire"), After("acquire"))
    BY OutPieces, Modes DEF On
  <2> QED BY <2>1, <2>2, PlainStep
<1>2. CASE Awake(t) /\ busy
  <2>1. over # "fatal" /\ Passive /\ stack' = stack
    BY <1>2 DEF Awake, At, Passive, locks
  <2>2. stack' = [u \in Names |-> stack'[u]] /\ \A u \in Names : Move(stack[u], stack'[u])
    <3>1. stack = [u \in Names |-> stack[u]] /\ \A u \in Names : Move(stack[u], stack[u])
      BY MoveSame DEF IInv, Stacks, Shapes
    <3> QED BY <2>1, <3>1
  <2>3. Types' /\ Lives' /\ StateKept(t)
    <3>1. Types' BY <2>1, TypesKept DEF IInv, Passive
    <3>2. StateKept(t) BY <2>1, StateSame DEF IInv, Passive
    <3>3. Lives' BY <2>1 DEF IInv, Passive, Lives, state
    <3> QED BY <3>1, <3>2, <3>3
  <2>4. UNCHANGED <<life, busy, ring, lastLocked>> /\ \A c \in Channels : holder'[c] = holder[c]
    BY <2>1 DEF Passive
  <2> QED BY <2>1, <2>2, <2>3, <2>4, QuietMoves
<1>3. CASE st_masterlock_release(t)
  <2>1. At(t, "wake") /\ Continue(t, <<>>) /\ Passive
    BY <1>3 DEF st_masterlock_release, Passive, locks
  <2>2. After("wake") = Before("wake")
    BY Modes
  <2> QED BY <2>1, <2>2, PlainStep
<1>4. CASE caml_enter_blocking_section(t)
  <2>1. PICK fs : fs = IF signals_are_pending THEN <<F("acquire")>> \o Enter ELSE <<>>
    OBVIOUS
  <2>2. At(t, "recheck") /\ Continue(t, fs) /\ Passive
    BY <1>4, <2>1 DEF caml_enter_blocking_section, Passive, locks, lockvars
  <2>3. fs = <<>> \/ Piece(fs, Before("recheck"), After("recheck"))
    BY <2>1, RuntimeCode, Modes
  <2>4. After("recheck") = Before("recheck")
    BY Modes
  <2> QED BY <2>2, <2>3, <2>4, PlainStep
<1>5. CASE caml_leave_blocking_section(t)
  <2>1. At(t, "unblocked") /\ Continue(t, <<F("psig")>>) /\ Passive
    BY <1>5 DEF caml_leave_blocking_section, Passive, locks, lockvars
  <2>2. Piece(<<F("psig")>>, Before("unblocked"), After("unblocked"))
    BY InPieces, Modes
  <2> QED BY <2>1, <2>2, PlainStep
<1>6. CASE caml_thread_yield(t)
  <2>1. PICK fs : fs = IF waiters = 0 THEN <<>> ELSE <<F("psig"), F("handover"), F("psig")>>
    OBVIOUS
  <2>2. At(t, "yield") /\ Continue(t, fs) /\ Passive
    BY <1>6, <2>1 DEF caml_thread_yield, Passive, locks, lockvars
  <2>3. fs = <<>> \/ Piece(fs, Before("yield"), After("yield"))
    BY <2>1, RuntimeCode, Modes
  <2>4. After("yield") = Before("yield")
    BY Modes
  <2> QED BY <2>2, <2>3, <2>4, PlainStep
<1> QED BY <1>1, <1>2, <1>3, <1>4, <1>5, <1>6

LEMMA SignalSteps ==
    ASSUME IInv, NEW t \in Names,
           \/ caml_process_pending_signals_exn(t) \/ caml_execute_signal_exn(t)
           \/ HandlerReturns(t) \/ caml_do_pending_actions_exn(t)
    PROVE  IInv'
<1>1. CASE caml_process_pending_signals_exn(t)
  <2>1. PICK fs : fs = IF signals_are_pending THEN <<Frame("scan", Top(t).x, Signals)>> ELSE <<>>
    OBVIOUS
  <2>2. At(t, "psig") /\ Continue(t, fs) /\ Passive
    BY <1>1, <2>1 DEF caml_process_pending_signals_exn, Passive, locks, lockvars
  <2>3. fs = <<>> \/ Piece(fs, Before("psig"), After("psig"))
    BY <2>1, InPieces, Modes
  <2>4. After("psig") = Before("psig")
    BY Modes
  <2> QED BY <2>2, <2>3, <2>4, PlainStep
<1>2. CASE caml_execute_signal_exn(t)
  <2>1. At(t, "scan") /\ Passive
    BY <1>2 DEF caml_execute_signal_exn, Passive, locks, lockvars
  <2>2. PICK fs : Continue(t, fs) /\ (fs = <<>> \/ \E x, y, w, z : fs = <<Frame("handler", x, y), Frame("scan", w, z)>>)
    BY <1>2 DEF caml_execute_signal_exn
  <2>3. fs = <<>> \/ Piece(fs, Before("scan"), After("scan"))
    BY <2>2, RuntimeCode, Modes
  <2>4. After("scan") = Before("scan")
    BY Modes
  <2> QED BY <2>1, <2>2, <2>3, <2>4, PlainStep
<1>3. CASE HandlerReturns(t)
  <2>1. At(t, "handled") /\ Continue(t, <<>>) /\ Passive
    BY <1>3 DEF HandlerReturns, Passive, locks, lockvars
  <2>2. After("handled") = Before("handled")
    BY Modes
  <2> QED BY <2>1, <2>2, PlainStep
<1>4. CASE caml_do_pending_actions_exn(t)
  <2>1. At(t, "ocaml") /\ Continue(t, <<On("psig", "actions"), F("ocaml")>>) /\ Passive
    BY <1>4 DEF caml_do_pending_actions_exn, Passive, locks, lockvars
  <2>2. Piece(<<On("psig", "actions"), F("ocaml")>>, Before("ocaml"), After("ocaml"))
    BY RuntimeCode, Modes
  <2> QED BY <2>1, <2>2, PlainStep
<1> QED BY <1>1, <1>2, <1>3, <1>4

LEMMA OtherSteps ==
    ASSUME IInv, NEW t \in Names,
           \/ st_event_wait(t) \/ caml_thread_new_descriptor(t) \/ caml_thread_cleanup(t)
           \/ caml_thread_sigmask(t) \/ SystemCall(t) \/ caml_thread_exit(t) \/ caml_thread_start(t)
    PROVE  IInv'
<1>1. CASE st_event_wait(t)
  <2>1. PICK fs : fs = IF Top(t).x \in ended THEN <<>> ELSE <<On("joining", Top(t).x)>>
    OBVIOUS
  <2>2. At(t, "join") /\ Continue(t, fs) /\ Passive
    BY <1>1, <2>1 DEF st_event_wait, Passive, locks, lockvars
  <2>3. fs = <<>> \/ Piece(fs, Before("join"), After("join"))
    BY <2>1, OutPieces, Modes DEF On
  <2>4. After("join") = Before("join")
    BY Modes
  <2> QED BY <2>2, <2>3, <2>4, PlainStep
<1>2. CASE caml_thread_new_descriptor(t) \/ caml_thread_cleanup(t) \/ caml_thread_sigmask(t) \/ SystemCall(t)
  <2>1. PICK l : l \in {"descriptor", "cleanup", "sigmask", "syscall"} /\ At(t, l) /\ Continue(t, <<>>) /\ Passive
    BY <1>2 DEF caml_thread_new_descriptor, caml_thread_cleanup, caml_thread_sigmask, SystemCall, Passive, locks, lockvars
  <2>2. After(l) = Before(l)
    BY <2>1, Modes
  <2> QED BY <2>1, <2>2, PlainStep
<1>3. CASE caml_thread_exit(t)
  <2>1. At(t, "ocaml") /\ Continue(t, <<F("stop")>>) /\ Passive
    BY <1>3 DEF caml_thread_exit, Passive, locks, lockvars
  <2>2. Piece(<<F("stop")>>, Before("ocaml"), After("ocaml"))
    BY InPieces, Modes
  <2> QED BY <2>1, <2>2, PlainStep
<1>4. CASE caml_thread_start(t)
  <2>1. At(t, "start") /\ Continue(t, <<F("ocaml")>>) /\ Passive
    BY <1>4 DEF caml_thread_start, Passive, locks, lockvars
  <2>2. Piece(<<F("ocaml")>>, Before("start"), After("start"))
    BY InPieces, Modes
  <2> QED BY <2>1, <2>2, PlainStep
<1> QED BY <1>1, <1>2, <1>3, <1>4

\* Locks other than those of channels.
LEMMA MutexStep ==
    ASSUME IInv, NEW t \in Names, NEW l \in {"lock", "wait"}, At(t, l),
           NEW fs, (fs = <<>> /\ After(l) = Before(l)) \/ Piece(fs, Before(l), After(l)), Continue(t, fs),
           UNCHANGED <<prog, pos, life, busy, state, ring, lastLocked>>,
           NEW x \in Mutexes, NEW u \in Names \union {NoOne}, holder' = [holder EXCEPT ![x] = u]
    PROVE  IInv'
<1> l \notin {"wake"} \union Alone \union Chan
  BY DEF Alone, Chan
<1>1. stack[t][1].pc = l /\ life[t] = "alive"
  BY AtFacts
<1>2. Goes(stack[t], fs, Before(l))
  BY <1>1 DEF Goes
<1>3. Types'
  BY DEF IInv, Types, state, ring
<1>4. StateKept(t)
  BY StateSame DEF IInv
<1>5. \A c \in Channels : holder'[c] = holder[c]
  BY NamesAssumption DEF IInv, Types
<1> QED BY <1>1, <1>2, <1>3, <1>4, <1>5, QuietStep

LEMMA MutexSteps ==
    ASSUME IInv, NEW t \in Names, st_mutex_lock(t) \/ st_condvar_wait(t)
    PROVE  IInv'
<1>1. \A l : At(t, l) => stack[t][1].pc = l /\ Shape(stack[t]) /\ Len(stack[t]) \in Nat /\ Len(stack[t]) > 0
  BY AtFacts
<1>2. CASE st_mutex_lock(t)
  <2>1. /\ At(t, "lock") /\ Continue(t, <<>>) /\ holder' = [holder EXCEPT ![Top(t).x] = t]
        /\ UNCHANGED <<prog, pos, life, busy, state, ring, lastLocked>>
    BY <1>2 DEF st_mutex_lock, locks, lockvars
  <2>2. PointOK(stack[t], 1)
    BY <1>1, <2>1 DEF Shape
  <2>3. Top(t).x \in Mutexes
    BY <1>1, <2>1, <2>2 DEF PointOK, Top
  <2>4. After("lock") = Before("lock")
    BY Modes
  <2> QED BY <2>1, <2>3, <2>4, MutexStep
<1>3. CASE st_condvar_wait(t)
  <2>1. /\ At(t, "wait") /\ Continue(t, <<On("waiting", Top(t).x)>>) /\ holder' = [holder EXCEPT ![stack[t][2].x] = NoOne]
        /\ UNCHANGED <<prog, pos, life, busy, state, ring, lastLocked>>
    BY <1>3 DEF st_condvar_wait, locks, lockvars
  <2>2. PointOK(stack[t], 1)
    BY <1>1, <2>1 DEF Shape
  <2>3. 1 < Len(stack[t]) /\ stack[t][2].pc = "lock"
    BY <1>1, <2>1, <2>2 DEF PointOK
  <2>4. PointOK(stack[t], 2)
    BY <1>1, <2>1, <2>3 DEF Shape
  <2>5. stack[t][2].x \in Mutexes
    BY <2>3, <2>4 DEF PointOK
  <2>6. Piece(<<On("waiting", Top(t).x)>>, Before("wait"), After("wait"))
    BY OutPieces, Modes DEF On
  <2> QED BY <2>1, <2>5, <2>6, MutexStep
<1> QED BY <1>2, <1>3

-----------------------------------------------------------------------------
(* Steps into and out of the master lock *)

LEMMA Spliced ==
    ASSUME IInv, NEW t \in Names, NEW l, At(t, l), l \notin {"wake"} \union Alone \union Chan,
           NEW fs, NEW a, Goes(stack[t], fs, a), Continue(t, fs),
           life' = life, \A u \in Names \ {t} : mine'[u] = mine[u]
    PROVE  /\ Stacks' /\ Shapes' /\ Lives'
           /\ \A u \in Names \ {t} : stack'[u] = stack[u]
           /\ (Inside(stack'[t]) <=> a = "in") /\ ~Linking(stack'[t])
           /\ \A u \in Names : \A c \in Channels : Alike(stack'[u], stack[u], c)
<1>1. /\ stack[t] # <<>> /\ stack[t][1].pc = l /\ IsSeq(stack[t]) /\ Shape(stack[t]) /\ life[t] = "alive"
  BY AtFacts
<1>2. PICK q : q = fs \o Tail(stack[t])
  OBVIOUS
<1>3. stack' = [stack EXCEPT ![t] = q]
  BY <1>2 DEF Continue
<1>4. PICK s : s = stack[t]
  OBVIOUS
<1>5. /\ Shape(q) /\ IsSeq(q) /\ Settled(q)
      /\ Inside(q) <=> a = "in"
      /\ s[1].pc \notin Chan => \A c : Alike(q, s, c)
  <2>1. IsSeq(s) /\ s # <<>> /\ Shape(s) /\ s[1].pc \notin Alone /\ q = fs \o Tail(s) /\ Goes(s, fs, a)
    BY <1>1, <1>2, <1>4
  <2>2. Spliceable(s, q, a)
    BY <2>1, SpliceShape
  <2> QED BY <2>2 DEF Spliceable
<1>6. stack' = [u \in Names |-> stack'[u]] /\ stack'[t] = q /\ \A u \in Names \ {t} : stack'[u] = stack[u]
  BY <1>3, TurnFacts DEF IInv
<1>7. Stacks'
  BY <1>5, <1>6 DEF IInv, Stacks
<1>8. Shapes'
  BY <1>5, <1>6 DEF IInv, Shapes
<1>9. Lives'
  <2>1. Living(life[t], q, mine'[t], t) BY <1>1, <1>5, LivingFacts
  <2> QED BY <1>3, <2>1, LivesTurn DEF IInv
<1>10. \A u \in Names : \A c \in Channels : Alike(stack'[u], stack[u], c)
  <2>1. \A c : Alike(q, stack[t], c) BY <1>1, <1>4, <1>5
  <2>2. \A u \in Names : \A c : Alike(stack[u], stack[u], c) BY DEF Alike
  <2> QED BY <1>6, <2>1, <2>2
<1>11. ~Linking(stack'[t])
  BY <1>5, <1>6 DEF Settled, Linking, Alone
<1> QED BY <1>5, <1>6, <1>7, <1>8, <1>9, <1>10, <1>11

LEMMA EnterStep ==
    ASSUME IInv, NEW t \in Names, NEW l \in {"acquire", "sleep"}, At(t, l), ~busy, busy' = TRUE,
           Continue(t, <<>>), caml_thread_restore_runtime_state(t),
           UNCHANGED <<prog, pos, life, ring, holder, lastLocked>>
    PROVE  IInv'
<1>1. curr' = t /\ cs' = saved[t] /\ saved' = saved /\ mine' = mine
  BY DEF caml_thread_restore_runtime_state
<1>2. stack[t][1].pc = l /\ life[t] = "alive" /\ over = "no" /\ ~Inside(stack[t])
  <2>1. l \notin Inner /\ l \notin {"wake"} \union Alone BY DEF Inner, Alone
  <2> QED BY <2>1, AtFacts
<1>3. Goes(stack[t], <<>>, "in")
  BY <1>2, Modes DEF Goes
<1>4. /\ Stacks' /\ Shapes' /\ Lives'
      /\ \A u \in Names \ {t} : stack'[u] = stack[u]
      /\ Inside(stack'[t]) /\ ~Linking(stack'[t])
      /\ \A u \in Names : \A c \in Channels : Alike(stack'[u], stack[u], c)
  <2>1. l \notin {"wake"} \union Alone \union Chan /\ life' = life /\ \A u \in Names \ {t} : mine'[u] = mine[u]
    BY <1>1 DEF Alone, Chan
  <2> QED BY <1>3, <2>1, Spliced
<1>5. saved[t] = <<t, mine[t]>> /\ \A u \in Names : ~Inside(stack[u])
  BY <1>2 DEF IInv, Owned
<1>6. Owned'
  <2>1. ASSUME NEW u \in Names
        PROVE  /\ Inside(stack'[u]) => busy' /\ curr' = u /\ cs' = <<u, mine'[u]>>
               /\ life'[u] = "alive" /\ ~Inside(stack'[u]) => saved'[u] = <<u, mine'[u]>>
    <3>1. CASE u = t BY <1>1, <1>4, <1>5, <3>1
    <3>2. CASE u # t
      <4>1. stack'[u] = stack[u] BY <1>4, <3>2
      <4> QED BY <1>1, <1>5, <4>1 DEF IInv, Owned
    <3> QED BY <3>1, <3>2
  <2> QED BY <2>1 DEF Owned
<1>7. Types'
  <2>1. saved[t] \in Names \X {0, 1} BY DEF IInv, Types
  <2> QED BY <1>1, <2>1 DEF IInv, Types, ring
<1>8. Ring'
  BY RingKept DEF IInv
<1>9. Locking'
  <2>1. over # "fatal" /\ \A c \in Channels : holder'[c] = holder[c] BY <1>2
  <2> QED BY <1>4, <2>1, LockingKept DEF IInv, Types
<1>10. Exclusive'
  <2>1. \A u \in Names : ~Linking(stack[u]) BY DEF IInv, Exclusive
  <2>2. \A u \in Names : ~Linking(stack'[u]) BY <1>4, <2>1
  <2> QED BY <2>2 DEF Exclusive
<1> QED BY <1>4, <1>6, <1>7, <1>8, <1>9, <1>10 DEF IInv

LEMMA SaveFacts ==
    ASSUME IInv, NEW t \in Names, Inside(stack[t]), caml_thread_save_runtime_state
    PROVE  /\ curr' = curr /\ cs' = cs /\ mine' = mine /\ curr = t
           /\ saved' = [saved EXCEPT ![t] = <<t, mine[t]>>] /\ saved'[t] = <<t, mine[t]>>
           /\ saved' \in [Names -> Names \X {0, 1}]
           /\ \A u \in Names \ {t} : saved'[u] = saved[u] /\ ~Inside(stack[u])
<1>1. curr = t /\ cs = <<t, mine[t]>>
  BY DEF IInv, Owned
<1>2. saved' = [saved EXCEPT ![t] = <<t, mine[t]>>] /\ curr' = curr /\ cs' = cs /\ mine' = mine
  BY <1>1 DEF caml_thread_save_runtime_state
<1>3. saved \in [Names -> Names \X {0, 1}] /\ cs \in Names \X {0, 1}
  BY DEF IInv, Types
<1>4. \A u \in Names \ {t} : ~Inside(stack[u])
  BY <1>1 DEF IInv, Owned
<1>5. saved' \in [Names -> Names \X {0, 1}] /\ saved'[t] = <<t, mine[t]>> /\ \A u \in Names \ {t} : saved'[u] = saved[u]
  <2>1. PICK v : v = <<t, mine[t]>> OBVIOUS
  <2>2. v \in Names \X {0, 1} /\ saved' = [saved EXCEPT ![t] = v] BY <1>1, <1>2, <1>3, <2>1
  <2>3. saved' \in [Names -> Names \X {0, 1}] /\ saved'[t] = v /\ \A u \in Names \ {t} : saved'[u] = saved[u] BY <1>3, <2>2
  <2> QED BY <2>1, <2>3
<1> QED BY <1>1, <1>2, <1>4, <1>5

LEMMA LeaveStep ==
    ASSUME IInv, NEW t \in Names, NEW l, At(t, l), l \in Inner \ {"unlockchan"}, NEW fs, Piece(fs, "out", After(l)),
           busy' = FALSE, Continue(t, fs), caml_thread_save_runtime_state,
           UNCHANGED <<prog, pos, life, ring, holder, lastLocked>>
    PROVE  IInv'
<1>1. l \notin {"wake"} \union Alone \union Chan
  BY DEF Inner, Alone, Chan
<1>2. stack[t][1].pc = l /\ life[t] = "alive" /\ over = "no" /\ Inside(stack[t])
  BY <1>1, AtFacts
<1>3. /\ curr' = curr /\ cs' = cs /\ mine' = mine /\ saved'[t] = <<t, mine[t]>>
      /\ saved' \in [Names -> Names \X {0, 1}]
      /\ \A u \in Names \ {t} : saved'[u] = saved[u] /\ ~Inside(stack[u])
  BY <1>2, SaveFacts
<1>4. Goes(stack[t], fs, "out")
  BY <1>2 DEF Goes
<1>5. /\ Stacks' /\ Shapes' /\ Lives'
      /\ \A u \in Names \ {t} : stack'[u] = stack[u]
      /\ ~Inside(stack'[t]) /\ ~Linking(stack'[t])
      /\ \A u \in Names : \A c \in Channels : Alike(stack'[u], stack[u], c)
  <2>1. life' = life /\ \A u \in Names \ {t} : mine'[u] = mine[u]
    BY <1>3
  <2>2. /\ Stacks' /\ Shapes' /\ Lives'
        /\ \A u \in Names \ {t} : stack'[u] = stack[u]
        /\ (Inside(stack'[t]) <=> "out" = "in") /\ ~Linking(stack'[t])
        /\ \A u \in Names : \A c \in Channels : Alike(stack'[u], stack[u], c)
    BY <1>1, <1>4, <2>1, Spliced
  <2> QED BY <2>2
<1>6. Owned'
  <2>1. ASSUME NEW u \in Names
        PROVE  /\ Inside(stack'[u]) => busy' /\ curr' = u /\ cs' = <<u, mine'[u]>>
               /\ life'[u] = "alive" /\ ~Inside(stack'[u]) => saved'[u] = <<u, mine'[u]>>
    <3>1. CASE u = t BY <1>3, <1>5, <3>1
    <3>2. CASE u # t
      <4>1. stack'[u] = stack[u] /\ saved'[u] = saved[u] /\ ~Inside(stack[u]) BY <1>3, <1>5, <3>2
      <4> QED BY <1>3, <4>1 DEF IInv, Owned
    <3> QED BY <3>1, <3>2
  <2> QED BY <2>1 DEF Owned
<1>7. Types'
  BY <1>3 DEF IInv, Types, ring
<1>8. Ring'
  BY RingKept DEF IInv
<1>9. Locking'
  <2>1. over # "fatal" /\ \A c \in Channels : holder'[c] = holder[c] BY <1>2
  <2> QED BY <1>5, <2>1, LockingKept DEF IInv, Types
<1>10. Exclusive'
  <2>1. \A u \in Names : ~Linking(stack[u]) BY <1>2, NoneLinks DEF IInv
  <2>2. \A u \in Names : ~Linking(stack'[u]) BY <1>5, <2>1
  <2> QED BY <2>2 DEF Exclusive
<1> QED BY <1>5, <1>6, <1>7, <1>8, <1>9, <1>10 DEF IInv

\* A step inside that saves the state and stays inside.
LEMMA SaveStep ==
    ASSUME IInv, NEW t \in Names, NEW l \in Inner \ {"unlockchan"}, At(t, l),
           NEW fs, (fs = <<>> /\ After(l) = Before(l)) \/ Piece(fs, Before(l), After(l)), Continue(t, fs),
           caml_thread_save_runtime_state, UNCHANGED <<prog, pos, life, busy, ring, holder, lastLocked>>
    PROVE  IInv'
<1>1. l \notin {"wake"} \union Alone \union Chan
  BY DEF Inner, Alone, Chan
<1>2. stack[t][1].pc = l /\ life[t] = "alive" /\ over = "no" /\ Inside(stack[t])
  BY <1>1, AtFacts
<1>3. /\ curr' = curr /\ cs' = cs /\ mine' = mine
      /\ saved' \in [Names -> Names \X {0, 1}]
      /\ \A u \in Names \ {t} : saved'[u] = saved[u]
  BY <1>2, SaveFacts
<1>4. Goes(stack[t], fs, Before(l))
  BY <1>2 DEF Goes
<1>5. Types'
  BY <1>3 DEF IInv, Types, ring
<1>6. StateKept(t)
  BY <1>2, <1>3 DEF IInv, Owned, StateKept
<1>7. \A c \in Channels : holder'[c] = holder[c]
  OBVIOUS
<1> QED BY <1>1, <1>2, <1>4, <1>5, <1>6, <1>7, QuietStep

LEMMA MasterLockSteps ==
    ASSUME IInv, NEW t \in Names,
           \/ st_masterlock_acquire(t) /\ At(t, "acquire")
           \/ Awake(t) /\ (busy \/ At(t, "sleep"))
           \/ caml_thread_enter_blocking_section(t)
           \/ st_thread_yield(t) \/ caml_threadstatus_terminate(t)
    PROVE  IInv'
<1>0. \A l \in {"acquire", "sleep"} : At(t, l) /\ Taken(t) => Continue(t, <<>>) /\ caml_thread_restore_runtime_state(t)
  BY DEF At, Taken, Top
<1>1. CASE st_masterlock_acquire(t) /\ At(t, "acquire")
  <2>1. CASE busy BY <1>1, <2>1, LockSteps
  <2>2. CASE ~busy
    <3>1. /\ At(t, "acquire") /\ busy' = TRUE /\ Continue(t, <<>>) /\ caml_thread_restore_runtime_state(t)
          /\ UNCHANGED <<prog, pos, life, ring, holder, lastLocked>>
      BY <1>0, <1>1, <2>2 DEF st_masterlock_acquire, locks
    <3> QED BY <2>2, <3>1, EnterStep
  <2> QED BY <2>1, <2>2
<1>2. CASE Awake(t) /\ (busy \/ At(t, "sleep"))
  <2>1. CASE busy BY <1>2, <2>1, LockSteps
  <2>2. CASE ~busy
    <3>1. /\ At(t, "sleep") /\ busy' = TRUE /\ Continue(t, <<>>) /\ caml_thread_restore_runtime_state(t)
          /\ UNCHANGED <<prog, pos, life, ring, holder, lastLocked>>
      BY <1>0, <1>2, <2>2 DEF Awake, locks
    <3> QED BY <2>2, <3>1, EnterStep
  <2> QED BY <2>1, <2>2
<1>3. CASE caml_thread_enter_blocking_section(t)
  <2>1. /\ At(t, "release") /\ busy' = FALSE /\ Continue(t, <<F("wake"), F("recheck")>>) /\ caml_thread_save_runtime_state
        /\ UNCHANGED <<prog, pos, life, ring, holder, lastLocked>>
    BY <1>3 DEF caml_thread_enter_blocking_section, locks
  <2>2. Piece(<<F("wake"), F("recheck")>>, "out", After("release"))
    BY RuntimeCode, Modes
  <2>3. "release" \in Inner \ {"unlockchan"}
    BY DEF Inner
  <2> QED BY <2>1, <2>2, <2>3, LeaveStep
<1>4. CASE st_thread_yield(t)
  <2>1. At(t, "handover") /\ caml_thread_save_runtime_state /\ UNCHANGED <<prog, pos, life, ring, holder, lastLocked>>
    BY <1>4 DEF st_thread_yield, locks
  <2>2. "handover" \in Inner \ {"unlockchan"}
    BY DEF Inner
  <2>3. CASE waiters = 0
    <3>1. Continue(t, <<>>) /\ busy' = busy BY <1>4, <2>3 DEF st_thread_yield, lockvars
    <3>2. After("handover") = Before("handover") BY Modes
    <3> QED BY <2>1, <2>2, <3>1, <3>2, SaveStep
  <2>4. CASE waiters # 0
    <3>1. Continue(t, <<F("sleep")>>) /\ busy' = FALSE BY <1>4, <2>4 DEF st_thread_yield
    <3>2. Piece(<<F("sleep")>>, "out", After("handover")) BY OutPieces, Modes
    <3> QED BY <2>1, <2>2, <3>1, <3>2, LeaveStep
  <2> QED BY <2>3, <2>4
<1>5. CASE caml_threadstatus_terminate(t)
  <2>1. /\ At(t, "stop") /\ Continue(t, <<F("stopping")>>) /\ caml_thread_save_runtime_state
        /\ UNCHANGED <<prog, pos, life, busy, ring, holder, lastLocked>>
    BY <1>5 DEF caml_threadstatus_terminate, lockvars
  <2>2. Piece(<<F("stopping")>>, Before("stop"), After("stop"))
    BY InPieces, Modes
  <2>3. "stop" \in Inner \ {"unlockchan"}
    BY DEF Inner
  <2> QED BY <2>1, <2>2, <2>3, SaveStep
<1> QED BY <1>1, <1>2, <1>3, <1>4, <1>5

-----------------------------------------------------------------------------
(* Operations of the program *)

\* OCaml code, and the end of a thread, have no frame under them.
LEMMA LastFrame ==
    ASSUME NEW s, IsSeq(s), Shape(s), s # <<>>, After(s[1].pc) = "end"
    PROVE  Len(s) = 1
<1>1. Len(s) \in Nat /\ Len(s) > 0
  BY DEF IsSeq
<1>2. PointOK(s, 1)
  BY <1>1 DEF Shape
<1>3. \A l : Before(l) # "end"
  BY DEF Before
<1>4. ~(1 < Len(s))
  BY <1>2, <1>3 DEF PointOK
<1>5. PICK m : m = Len(s)
  OBVIOUS
<1>6. m \in Nat /\ m > 0 /\ ~(1 < m)
  BY <1>1, <1>4, <1>5
<1>7. m = 1
  BY ONLY <1>6
<1> QED BY <1>5, <1>7

LEMMA NoneOwned ==
    ASSUME NEW s, IsSeq(s), Shape(s), Len(s) \in {0, 1}, NEW c
    PROVE  Apart(s, c)
<1>1. ASSUME NEW k \in 1..Len(s), s[k].pc \in Chan PROVE FALSE
  <2>1. k = Len(s) - 1 \/ k = Len(s) - 9 BY <1>1 DEF Shape, PointOK, Chan
  <2>2. PICK m : m = Len(s) OBVIOUS
  <2>3. m \in {0, 1} /\ k \in 1..m /\ (k = m - 1 \/ k = m - 9) BY <2>1, <2>2
  <2> QED BY ONLY <2>3
<1>2. s # <<>> => 1 \in 1..Len(s)
  BY DEF IsSeq
<1> QED BY <1>1, <1>2 DEF Owns, Keying, Apart, Chan

LEMMA MoveSplice ==
    ASSUME NEW s, IsSeq(s), Shape(s), s # <<>>, s[1].pc \in {"ocaml", "waiting", "joining"},
           NEW fs, Goes(s, fs, Before(s[1].pc)), NEW q, q = fs \o Tail(s)
    PROVE  Move(s, q)
<1> s[1].pc \notin Alone \union Chan
  BY DEF Alone, Chan
<1>1. PICK a : a = Before(s[1].pc)
  OBVIOUS
<1>2. Spliceable(s, q, a)
  <2>1. Goes(s, fs, a) BY <1>1
  <2> QED BY <2>1, SpliceShape
<1>3. Inside(s) <=> a = "in"
  BY <1>1 DEF Inside, Before
<1>4. ~Linking(q) /\ ~Linking(s)
  BY <1>2 DEF Spliceable, Settled, Linking, Alone
<1> QED BY <1>2, <1>3, <1>4 DEF Move, Spliceable

\* A thread whose wait is over.
LEMMA MoveTail ==
    ASSUME NEW s, IsSeq(s), Shape(s), s # <<>>, s[1].pc = "waiting"
    PROVE  Move(s, Tail(s))
<1>1. PICK q : q = <<>> \o Tail(s)
  OBVIOUS
<1>2. Goes(s, <<>>, Before(s[1].pc))
  BY Modes DEF Goes
<1>3. Move(s, q)
  BY <1>1, <1>2, MoveSplice
<1>4. q = Tail(s)
  <2>1. PICK A : s \in Seq(A) BY DEF IsSeq
  <2>2. PICK r : r = Tail(s) OBVIOUS
  <2>3. r \in Seq(A) BY <2>1, <2>2
  <2>4. <<>> \o r = r BY <2>3
  <2> QED BY <1>1, <2>2, <2>4
<1> QED BY <1>3, <1>4

\* OCaml code changes its stack.
LEMMA RunFacts ==
    ASSUME IInv, NEW t \in Names, Inside(stack[t]), Runs(t)
    PROVE  /\ cs' = <<t, mine'[t]>> /\ cs' \in Names \X {0, 1} /\ mine' \in [Names -> {0, 1}]
           /\ \A u \in Names \ {t} : mine'[u] = mine[u]
<1>1. cs = <<t, mine[t]>> /\ mine \in [Names -> {0, 1}]
  BY DEF IInv, Owned, Types
<1>2. PICK m : m = mine[t]
  OBVIOUS
<1>3. m \in {0, 1} /\ 1 - m \in {0, 1} /\ cs[1] = t /\ cs[2] = m
  BY <1>1, <1>2
<1>4. cs' = <<t, 1 - m>> /\ mine' = [mine EXCEPT ![t] = 1 - m]
  BY <1>2, <1>3 DEF Runs
<1>5. mine' \in [Names -> {0, 1}] /\ mine'[t] = 1 - m /\ \A u \in Names \ {t} : mine'[u] = mine[u]
  BY <1>1, <1>3, <1>4
<1> QED BY <1>3, <1>4, <1>5

LEMMA OpFacts ==
    ASSUME IInv, NEW t \in Names, pos[t] <= Len(prog.ops[t])
    PROVE  Op(t) \in Operation \/ (t \in OfC /\ Op(t) \in ForeignOperation)
<1>1. prog \in Programs /\ pos[t] \in Nat \ {0}
  BY DEF IInv, Types
<1>2. CASE t \in OfC
  <2>1. prog.ops[t] \in Seq(ForeignOperation) BY <1>1, <1>2, ProgramsAssumption
  <2> QED BY <1>1, <1>2, <2>1 DEF Op
<1>3. CASE t \notin OfC
  <2>1. prog.ops[t] \in Seq(Operation) BY <1>1, <1>3, ProgramsAssumption
  <2> QED BY <1>1, <1>3, <2>1 DEF Op
<1> QED BY <1>2, <1>3

LEMMA OnFacts ==
    ASSUME NEW o, o \in Operation
    PROVE  /\ o.do \in {"lock", "unlock"} => o.on \in Mutexes
           /\ o.do = "wait" => o.with \in Mutexes
           /\ o.do = "channel" => o.on \in Channels
           /\ o.do \in {"create", "join"} => o.on \in Names \ OfC
  BY DEF Operation

LEMMA StepFacts ==
    ASSUME IInv, NEW t \in Names, NEW name, Step(t, name)
    PROVE  /\ At(t, "ocaml") /\ over = "no" /\ stack[t] # <<>> /\ stack[t][1].pc = "ocaml" /\ Len(stack[t]) = 1
           /\ IsSeq(stack[t]) /\ Shape(stack[t]) /\ Inside(stack[t]) /\ life[t] = "alive" /\ curr = t
           /\ cs' = <<t, mine'[t]>> /\ cs' \in Names \X {0, 1} /\ mine' \in [Names -> {0, 1}]
           /\ \A u \in Names \ {t} : mine'[u] = mine[u] /\ ~Inside(stack[u])
           /\ pos' \in [Names -> Nat \ {0}] /\ prog' = prog /\ curr' = curr
           /\ Op(t).do = name /\ (name \notin {"register", "callback", "unregister"} => Op(t) \in Operation)
<1>1. /\ At(t, "ocaml") /\ pos[t] <= Len(prog.ops[t]) /\ Op(t).do = name /\ Runs(t)
      /\ pos' = [pos EXCEPT ![t] = @ + 1] /\ prog' = prog /\ curr' = curr
  BY DEF Step
<1>2. /\ over = "no" /\ stack[t] # <<>> /\ stack[t][1].pc = "ocaml" /\ IsSeq(stack[t]) /\ Shape(stack[t])
      /\ Inside(stack[t]) /\ life[t] = "alive"
  <2>1. "ocaml" \in Inner /\ "ocaml" \notin {"wake"} \union Alone BY DEF Inner, Alone
  <2> QED BY <1>1, <2>1, AtFacts
<1>3. Len(stack[t]) = 1
  <2>1. PICK s : s = stack[t] OBVIOUS
  <2>2. After(s[1].pc) = "end" BY <1>2, <2>1, Modes
  <2>3. Len(s) = 1 BY <1>2, <2>1, <2>2, LastFrame
  <2> QED BY <2>1, <2>3
<1>4. /\ cs' = <<t, mine'[t]>> /\ cs' \in Names \X {0, 1} /\ mine' \in [Names -> {0, 1}]
      /\ \A u \in Names \ {t} : mine'[u] = mine[u]
  BY <1>1, <1>2, RunFacts
<1>5. curr = t /\ \A u \in Names \ {t} : ~Inside(stack[u])
  BY <1>2 DEF IInv, Owned
<1>6. pos' \in [Names -> Nat \ {0}]
  BY <1>1 DEF IInv, Types
<1>7. name \notin {"register", "callback", "unregister"} => Op(t) \in Operation
  <2>1. Op(t) \in Operation \/ (t \in OfC /\ Op(t) \in ForeignOperation) BY <1>1, OpFacts
  <2>2. Op(t) \in ForeignOperation => Op(t).do \in {"register", "callback", "unregister"} BY DEF ForeignOperation
  <2> QED BY <1>1, <2>1, <2>2
<1> QED BY <1>1, <1>2, <1>3, <1>4, <1>5, <1>6, <1>7

\* OCaml code runs; some threads, all of them linked, move.
LEMMA RunMoves ==
    ASSUME IInv, NEW t \in Names, NEW name, Step(t, name), saved' = saved,
           stack' = [u \in Names |-> stack'[u]],
           \A u \in Names : stack'[u] = stack[u] \/ (life[u] = "alive" /\ Move(stack[u], stack'[u])),
           UNCHANGED <<life, busy, ring, lastLocked>>,
           holder' \in [Mutexes \union Channels -> Names \union {NoOne}], \A c \in Channels : holder'[c] = holder[c]
    PROVE  IInv'
<1>1. /\ over = "no" /\ Inside(stack[t]) /\ life[t] = "alive"
      /\ cs' = <<t, mine'[t]>> /\ cs' \in Names \X {0, 1} /\ mine' \in [Names -> {0, 1}]
      /\ \A u \in Names \ {t} : mine'[u] = mine[u]
      /\ pos' \in [Names -> Nat \ {0}] /\ prog' = prog /\ curr' = curr
  BY StepFacts
<1>2. \A u \in Names : Move(stack[u], stack'[u])
  <2>1. \A u \in Names : Move(stack[u], stack[u])
    BY MoveSame DEF IInv, Stacks, Shapes
  <2> QED BY <2>1
<1>3. Types'
  BY <1>1 DEF IInv, Types, ring
<1>4. Lives'
  <2>1. ASSUME NEW u \in Names PROVE Living(life'[u], stack'[u], mine'[u], u)
    <3>1. CASE u = t \/ stack'[u] # stack[u]
      <4>1. life'[u] = "alive" BY <1>1, <3>1
      <4>2. Settled(stack'[u])
        <5>1. CASE stack'[u] # stack[u] BY <1>2, <5>1 DEF Move
        <5>2. CASE u = t /\ stack'[u] = stack[u]
          <6>1. stack[t][1].pc = "ocaml" BY StepFacts
          <6> QED BY <5>2, <6>1 DEF Settled, Alone
        <5> QED BY <3>1, <5>1, <5>2
      <4> QED BY <4>1, <4>2, LivingFacts
    <3>2. CASE u # t /\ stack'[u] = stack[u]
      <4>1. stack'[u] = stack[u] /\ mine'[u] = mine[u] /\ life'[u] = life[u] BY <1>1, <3>2
      <4> QED BY <4>1 DEF IInv, Lives
    <3> QED BY <3>1, <3>2
  <2> QED BY <2>1 DEF Lives
<1>5. StateKept(t)
  BY <1>1 DEF StateKept
<1>6. over # "fatal" /\ UNCHANGED <<life, busy, ring, lastLocked>>
  BY <1>1
<1> QED BY <1>2, <1>3, <1>4, <1>5, <1>6, QuietMoves

\* The operation calls C functions, or is over at once.
LEMMA RunCalls ==
    ASSUME IInv, NEW t \in Names, NEW name, Step(t, name), saved' = saved,
           stack' = stack \/ \E fs : Calls(t, fs) /\ Piece(fs \o <<F("ocaml")>>, "in", "end"),
           UNCHANGED <<life, busy, ring, lastLocked>>,
           holder' \in [Mutexes \union Channels -> Names \union {NoOne}], \A c \in Channels : holder'[c] = holder[c]
    PROVE  IInv'
<1>1. stack = [u \in Names |-> stack[u]]
  BY DEF IInv, Stacks
<1>2. CASE stack' = stack
  <2>1. stack' = [u \in Names |-> stack'[u]] /\ \A u \in Names : stack'[u] = stack[u] BY <1>1, <1>2
  <2> QED BY <2>1, RunMoves
<1>3. ASSUME NEW fs, Calls(t, fs), Piece(fs \o <<F("ocaml")>>, "in", "end") PROVE IInv'
  <2>1. PICK q : q = (fs \o <<F("ocaml")>>) \o Tail(stack[t])
    OBVIOUS
  <2>2. stack' = [stack EXCEPT ![t] = q]
    BY <1>3, <2>1 DEF Calls, Continue
  <2>3. stack' = [u \in Names |-> stack'[u]] /\ stack'[t] = q /\ \A u \in Names \ {t} : stack'[u] = stack[u]
    BY <2>2, TurnFacts DEF IInv
  <2>4. /\ stack[t] # <<>> /\ stack[t][1].pc = "ocaml" /\ IsSeq(stack[t]) /\ Shape(stack[t]) /\ life[t] = "alive"
    BY StepFacts
  <2>5. Move(stack[t], q)
    <3>1. PICK s, g : s = stack[t] /\ g = fs \o <<F("ocaml")>> OBVIOUS
    <3>2. Goes(s, g, Before(s[1].pc)) BY <1>3, <2>4, <3>1, Modes DEF Goes
    <3>3. IsSeq(s) /\ Shape(s) /\ s # <<>> /\ q = g \o Tail(s) /\ s[1].pc = "ocaml" BY <2>1, <2>4, <3>1
    <3>4. Move(s, q) BY <3>2, <3>3, MoveSplice
    <3> QED BY <3>1, <3>4
  <2>6. \A u \in Names : stack'[u] = stack[u] \/ (life[u] = "alive" /\ Move(stack[u], stack'[u]))
    BY <2>3, <2>4, <2>5
  <2> QED BY <2>3, <2>6, RunMoves
<1> QED BY <1>2, <1>3

LEMMA LockCode ==
    /\ \A m \in Mutexes : Piece(Blocking("lock", m) \o <<F("ocaml")>>, "in", "end")
    /\ \A m \in Mutexes : \A c :
         Piece(Enter \o <<On("wait", c), On("lock", m)>> \o Leave \o <<F("ocaml")>>, "in", "end")
<1>1. /\ Piece(Enter, "in", "out") /\ Piece(Leave, "out", "in") /\ Piece(<<F("ocaml")>>, "in", "end")
  BY Pieces, InPieces
<1>2. ASSUME NEW fs, Piece(fs, "out", "out") PROVE Piece(Enter \o fs \o Leave \o <<F("ocaml")>>, "in", "end")
  <2>1. Piece(Enter \o fs, "in", "out") BY <1>1, <1>2, TwoPieces
  <2>2. Piece(Enter \o fs \o Leave, "in", "in") BY <1>1, <2>1, TwoPieces
  <2> QED BY <1>1, <2>2, TwoPieces
<1>3. ASSUME NEW m \in Mutexes PROVE Piece(Blocking("lock", m) \o <<F("ocaml")>>, "in", "end")
  <2>1. On("lock", m).pc = "lock" /\ On("lock", m).x = m BY DEF On, Frame
  <2>2. Piece(<<On("lock", m)>>, "out", "out") BY <2>1, OneFrame, Modes
  <2> QED BY <1>2, <2>2 DEF Blocking
<1>4. ASSUME NEW m \in Mutexes, NEW c
      PROVE  Piece(Enter \o <<On("wait", c), On("lock", m)>> \o Leave \o <<F("ocaml")>>, "in", "end")
  <2>1. PICK s, f, g : s = <<f, g>> /\ f = On("wait", c) /\ g = On("lock", m) OBVIOUS
  <2>2. s \in Seq({f, g}) /\ Len(s) = 2 /\ s[1] = f /\ s[2] = g BY <2>1
  <2>3. f.pc = "wait" /\ g.pc = "lock" /\ g.x = m BY <2>1 DEF On, Frame
  <2>4. ASSUME NEW k \in 1..Len(s) PROVE Free(s, k)
    <3>1. (k = 1 /\ k < Len(s) /\ k + 1 = 2) \/ k = 2 BY <2>2
    <3> QED BY <2>2, <2>3, <3>1 DEF Free
  <2>5. ASSUME NEW k \in 1..(Len(s) - 1) PROVE After(s[k].pc) = Before(s[k + 1].pc)
    <3>1. k = 1 /\ k + 1 = 2 BY <2>2
    <3> QED BY <2>2, <2>3, <3>1, Modes
  <2>6. Piece(s, "out", "out")
    BY <2>2, <2>3, <2>4, <2>5, Modes DEF Piece, IsSeq
  <2> QED BY <1>2, <2>1, <2>6
<1> QED BY <1>3, <1>4

\* Operations without locks of channels, threads or fork.
LEMMA PlainOperations ==
    ASSUME IInv, NEW t \in Names, DoYield(t) \/ DoBlock(t) \/ DoSigmask(t) \/ caml_thread_join(t) \/ DoCleanup(t)
    PROVE  IInv'
<1>1. holder \in [Mutexes \union Channels -> Names \union {NoOne}]
  BY DEF IInv, Types
<1>2. /\ saved' = saved /\ UNCHANGED <<life, busy, ring, lastLocked, holder>>
  BY DEF DoYield, DoBlock, DoSigmask, caml_thread_join, DoCleanup, locks, lockvars
<1>3. /\ holder' \in [Mutexes \union Channels -> Names \union {NoOne}]
      /\ \A c \in Channels : holder'[c] = holder[c]
  BY <1>1, <1>2
<1>4. \E name : Step(t, name)
  BY DEF DoYield, DoBlock, DoSigmask, caml_thread_join, DoCleanup
<1>5. stack' = stack \/ \E fs : Calls(t, fs) /\ Piece(fs \o <<F("ocaml")>>, "in", "end")
  <2>1. CASE DoYield(t)
    BY <2>1, ProgramCode DEF DoYield
  <2>2. CASE DoBlock(t)
    BY <2>2, ProgramCode DEF DoBlock
  <2>3. CASE DoSigmask(t)
    BY <2>3, ProgramCode DEF DoSigmask
  <2>4. CASE caml_thread_join(t)
    BY <2>4, ProgramCode DEF caml_thread_join
  <2>5. CASE DoCleanup(t)
    BY <2>5, ProgramCode DEF DoCleanup
  <2> QED BY <2>1, <2>2, <2>3, <2>4, <2>5
<1> QED BY <1>2, <1>3, <1>4, <1>5, RunCalls

LEMMA MutexOperations ==
    ASSUME IInv, NEW t \in Names, caml_mutex_lock(t) \/ caml_mutex_unlock(t) \/ caml_condition_wait(t)
    PROVE  IInv'
<1>1. holder \in [Mutexes \union Channels -> Names \union {NoOne}] /\ Mutexes \intersect Channels = {}
  BY NamesAssumption DEF IInv, Types
<1>2. saved' = saved /\ UNCHANGED <<life, busy, ring, lastLocked>>
  BY DEF caml_mutex_lock, caml_mutex_unlock, caml_condition_wait, locks, lockvars
<1>3. CASE caml_mutex_lock(t)
  <2>1. Step(t, "lock") BY <1>3 DEF caml_mutex_lock
  <2>2. Op(t).on \in Mutexes
    <3>1. Op(t).do = "lock" /\ Op(t) \in Operation BY <2>1, StepFacts
    <3> QED BY <3>1, OnFacts
  <2>3. holder' = holder \/ holder' = [holder EXCEPT ![Op(t).on] = t] BY <1>3 DEF caml_mutex_lock
  <2>4. stack' = stack \/ Calls(t, Blocking("lock", Op(t).on)) BY <1>3 DEF caml_mutex_lock
  <2>5. stack' = stack \/ \E fs : Calls(t, fs) /\ Piece(fs \o <<F("ocaml")>>, "in", "end")
    BY <2>2, <2>4, LockCode
  <2>6. holder' \in [Mutexes \union Channels -> Names \union {NoOne}] /\ \A c \in Channels : holder'[c] = holder[c]
    BY <1>1, <2>2, <2>3
  <2> QED BY <1>2, <2>1, <2>5, <2>6, RunCalls
<1>4. CASE caml_mutex_unlock(t)
  <2>1. Step(t, "unlock") /\ stack' = stack /\ holder' = [holder EXCEPT ![Op(t).on] = NoOne] BY <1>4 DEF caml_mutex_unlock
  <2>2. Op(t).on \in Mutexes
    <3>1. Op(t).do = "unlock" /\ Op(t) \in Operation BY <2>1, StepFacts
    <3> QED BY <3>1, OnFacts
  <2>3. holder' \in [Mutexes \union Channels -> Names \union {NoOne}] /\ \A c \in Channels : holder'[c] = holder[c]
    BY <1>1, <2>1, <2>2
  <2> QED BY <1>2, <2>1, <2>3, RunCalls
<1>5. CASE caml_condition_wait(t)
  <2>1. /\ Step(t, "wait") /\ Calls(t, Enter \o <<On("wait", Op(t).on), On("lock", Op(t).with)>> \o Leave)
        /\ holder' = holder
    BY <1>5 DEF caml_condition_wait, locks
  <2>2. Op(t).with \in Mutexes
    <3>1. Op(t).do = "wait" /\ Op(t) \in Operation BY <2>1, StepFacts
    <3> QED BY <3>1, OnFacts
  <2>3. \E fs : Calls(t, fs) /\ Piece(fs \o <<F("ocaml")>>, "in", "end")
    BY <2>1, <2>2, LockCode
  <2>4. holder' \in [Mutexes \union Channels -> Names \union {NoOne}] /\ \A c \in Channels : holder'[c] = holder[c]
    BY <1>1, <2>1
  <2> QED BY <1>2, <2>1, <2>3, <2>4, RunCalls
<1> QED BY <1>3, <1>4, <1>5

LEMMA WakeMoves ==
    ASSUME IInv, NEW u \in Names, NEW c, Waits(u, c)
    PROVE  life[u] = "alive" /\ Move(stack[u], Tail(stack[u]))
<1>1. stack[u] # <<>> /\ stack[u][1].pc = "waiting"
  BY DEF Waits, On, Frame
<1>2. IsSeq(stack[u]) /\ Shape(stack[u])
  BY DEF IInv, Stacks, Shapes
<1>3. life[u] = "alive"
  BY <1>1 DEF IInv, Lives, Living, Alone
<1> QED BY <1>1, <1>2, <1>3, MoveTail

LEMMA ConditionOperations ==
    ASSUME IInv, NEW t \in Names, caml_condition_signal(t) \/ caml_condition_broadcast(t)
    PROVE  IInv'
<1>1. holder \in [Mutexes \union Channels -> Names \union {NoOne}] /\ stack = [u \in Names |-> stack[u]]
  BY DEF IInv, Types, Stacks
<1>2. saved' = saved /\ UNCHANGED <<life, busy, ring, lastLocked, holder>>
  BY DEF caml_condition_signal, caml_condition_broadcast, locks, lockvars
<1>3. \E name : Step(t, name)
  BY DEF caml_condition_signal, caml_condition_broadcast
<1>4. stack' = [u \in Names |-> stack'[u]] /\ \A u \in Names : stack'[u] = stack[u] \/ (life[u] = "alive" /\ Move(stack[u], stack'[u]))
  <2>1. CASE stack' = stack
    BY <1>1, <2>1
  <2>2. ASSUME NEW u \in Names, Waits(u, Op(t).on), stack' = [stack EXCEPT ![u] = Tail(@)]
        PROVE  stack' = [v \in Names |-> stack'[v]] /\ \A v \in Names : stack'[v] = stack[v] \/ (life[v] = "alive" /\ Move(stack[v], stack'[v]))
    <3>1. PICK q : q = Tail(stack[u]) OBVIOUS
    <3>2. stack' = [stack EXCEPT ![u] = q] BY <2>2, <3>1
    <3>3. stack' = [v \in Names |-> stack'[v]] /\ stack'[u] = q /\ \A v \in Names \ {u} : stack'[v] = stack[v]
      BY <3>2, TurnFacts DEF IInv
    <3>4. life[u] = "alive" /\ Move(stack[u], q) BY <2>2, <3>1, WakeMoves
    <3> QED BY <3>3, <3>4
  <2>3. ASSUME stack' = [u \in Names |-> IF Waits(u, Op(t).on) THEN Tail(stack[u]) ELSE stack[u]]
        PROVE  stack' = [v \in Names |-> stack'[v]] /\ \A v \in Names : stack'[v] = stack[v] \/ (life[v] = "alive" /\ Move(stack[v], stack'[v]))
    <3>1. stack' = [v \in Names |-> stack'[v]] BY <2>3
    <3>2. \A v \in Names : stack'[v] = IF Waits(v, Op(t).on) THEN Tail(stack[v]) ELSE stack[v] BY <2>3
    <3>3. \A v \in Names : Waits(v, Op(t).on) => life[v] = "alive" /\ Move(stack[v], Tail(stack[v])) BY WakeMoves
    <3> QED BY <3>1, <3>2, <3>3
  <2> QED BY <2>1, <2>2, <2>3 DEF caml_condition_signal, caml_condition_broadcast
<1>5. /\ holder' \in [Mutexes \union Channels -> Names \union {NoOne}]
      /\ \A c \in Channels : holder'[c] = holder[c]
  BY <1>1, <1>2
<1> QED BY <1>2, <1>3, <1>4, <1>5, RunMoves

LEMMA CallbackStep ==
    ASSUME IInv, NEW t \in Names, caml_callback(t)
    PROVE  IInv'
<1>1. /\ At(t, "callback") /\ Runs(t) /\ Continue(t, <<>>)
      /\ UNCHANGED <<prog, pos, life, busy, curr, saved, ring, holder, lastLocked>>
  BY DEF caml_callback, locks, lockvars
<1>2. stack[t][1].pc = "callback" /\ Inside(stack[t]) /\ life[t] = "alive" /\ "callback" \notin Alone \union Chan
  <2>1. "callback" \in Inner /\ "callback" \notin {"wake"} \union Alone \union Chan BY DEF Inner, Alone, Chan
  <2> QED BY <1>1, <2>1, AtFacts
<1>3. /\ cs' = <<t, mine'[t]>> /\ cs' \in Names \X {0, 1} /\ mine' \in [Names -> {0, 1}]
      /\ \A u \in Names \ {t} : mine'[u] = mine[u]
  BY <1>1, <1>2, RunFacts
<1>4. Types'
  BY <1>1, <1>3 DEF IInv, Types, ring
<1>5. StateKept(t)
  BY <1>1, <1>2, <1>3 DEF StateKept
<1>6. Goes(stack[t], <<>>, Before("callback"))
  BY <1>2, Modes DEF Goes
<1>7. \A c \in Channels : holder'[c] = holder[c]
  BY <1>1
<1> QED BY <1>1, <1>2, <1>4, <1>5, <1>6, <1>7, QuietStep

-----------------------------------------------------------------------------
(* Operations on channels *)

\* q is s and then r.
JoinOf(q, s, r) ==
    /\ IsSeq(q) /\ Len(q) = Len(s) + Len(r) /\ Len(s) \in Nat /\ Len(r) \in Nat
    /\ \A i \in 1..Len(s) : q[i] = s[i]
    /\ \A i \in 1..Len(r) : q[Len(s) + i] = r[i]

LEMMA Joined ==
    ASSUME NEW s, NEW r, IsSeq(s), IsSeq(r), NEW q, q = s \o r
    PROVE  JoinOf(q, s, r)
<1>1. PICK A, B : s \in Seq(A) /\ r \in Seq(B)
  BY DEF IsSeq
<1>2. /\ q \in Seq(A \union B) /\ Len(q) = Len(s) + Len(r) /\ Len(s) \in Nat /\ Len(r) \in Nat
      /\ \A i \in 1..Len(s) : q[i] = s[i]
      /\ \A i \in (Len(s) + 1)..Len(q) : q[i] = r[i - Len(s)] /\ i - Len(s) \in 1..Len(r)
  BY <1>1, ConcatFacts
<1>3. ASSUME NEW i \in 1..Len(r) PROVE q[Len(s) + i] = r[i]
  <2>1. PICK j : j = Len(s) + i OBVIOUS
  <2>2. j \in (Len(s) + 1)..Len(q) /\ j - Len(s) = i BY <1>2, <2>1
  <2> QED BY <1>2, <2>1, <2>2
<1> QED BY <1>2, <1>3 DEF IsSeq, JoinOf

LEMMA BlockingFacts ==
    ASSUME NEW l, NEW x, NEW b, b = Blocking(l, x)
    PROVE  /\ IsSeq(b) /\ Len(b) = 5 /\ b[1].pc = "psig" /\ b[2].pc = "release" /\ b[3] = On(l, x)
           /\ b[4].pc = "acquire" /\ b[5].pc = "unblocked"
<1>1. PICK e, m, v : e = Enter /\ m = <<On(l, x)>> /\ v = Leave
  OBVIOUS
<1>2. \A z : F(z).pc = z
  BY DEF F, Frame
<1>3. IsSeq(e) /\ Len(e) = 2 /\ e[1].pc = "psig" /\ e[2].pc = "release"
  <2>1. PICK f, g : f = F("psig") /\ g = F("release") OBVIOUS
  <2>2. e = <<f, g>> BY <1>1, <2>1 DEF Enter
  <2>3. e \in Seq({f, g}) /\ Len(e) = 2 /\ e[1] = f /\ e[2] = g BY <2>2
  <2> QED BY <1>2, <2>1, <2>3 DEF IsSeq
<1>4. IsSeq(m) /\ Len(m) = 1 /\ m[1] = On(l, x)
  <2>1. PICK f : f = On(l, x) OBVIOUS
  <2>2. m \in Seq({f}) /\ Len(m) = 1 /\ m[1] = f BY <1>1, <2>1
  <2> QED BY <2>1, <2>2 DEF IsSeq
<1>5. IsSeq(v) /\ Len(v) = 2 /\ v[1].pc = "acquire" /\ v[2].pc = "unblocked"
  <2>1. PICK f, g : f = F("acquire") /\ g = F("unblocked") OBVIOUS
  <2>2. v = <<f, g>> BY <1>1, <2>1 DEF Leave
  <2>3. v \in Seq({f, g}) /\ Len(v) = 2 /\ v[1] = f /\ v[2] = g BY <2>2
  <2> QED BY <1>2, <2>1, <2>3 DEF IsSeq
<1>6. PICK d : d = e \o m
  OBVIOUS
<1>7. IsSeq(d) /\ Len(d) = 3 /\ d[1] = e[1] /\ d[2] = e[2] /\ d[3] = m[1]
  <2>1. /\ IsSeq(d) /\ Len(d) = Len(e) + Len(m)
        /\ \A i \in 1..Len(e) : d[i] = e[i]
        /\ \A i \in 1..Len(m) : d[Len(e) + i] = m[i]
    <3>1. JoinOf(d, e, m) BY <1>3, <1>4, <1>6, Joined
    <3> QED BY <3>1 DEF JoinOf
  <2>2. Len(d) = 3 /\ 1 \in 1..Len(e) /\ 2 \in 1..Len(e) /\ 1 \in 1..Len(m) /\ Len(e) + 1 = 3 BY <1>3, <1>4, <2>1
  <2> QED BY <2>1, <2>2
<1>8. b = d \o v
  BY <1>1, <1>6 DEF Blocking
<1>9. IsSeq(b) /\ Len(b) = 5 /\ b[1] = d[1] /\ b[2] = d[2] /\ b[3] = d[3] /\ b[4] = v[1] /\ b[5] = v[2]
  <2>1. /\ IsSeq(b) /\ Len(b) = Len(d) + Len(v)
        /\ \A i \in 1..Len(d) : b[i] = d[i]
        /\ \A i \in 1..Len(v) : b[Len(d) + i] = v[i]
    <3>1. JoinOf(b, d, v) BY <1>5, <1>7, <1>8, Joined
    <3> QED BY <3>1 DEF JoinOf
  <2>2. /\ Len(b) = 5 /\ 1 \in 1..Len(d) /\ 2 \in 1..Len(d) /\ 3 \in 1..Len(d) /\ 1 \in 1..Len(v) /\ 2 \in 1..Len(v)
        /\ Len(d) + 1 = 4 /\ Len(d) + 2 = 5
    BY <1>5, <1>7, <2>1
  <2> QED BY <2>1, <2>2
<1> QED BY <1>3, <1>4, <1>5, <1>7, <1>9

\* The frames of a channel operation that has the lock.
Locked(q, c) ==
    /\ IsSeq(q) /\ Len(q) = 7
    /\ q[1].pc = "psig" /\ q[2].pc = "release" /\ q[3].pc = "syscall" /\ q[4].pc = "acquire" /\ q[5].pc = "unblocked"
    /\ q[6] = On("unlockchan", c) /\ q[7].pc = "ocaml"

LEMMA LockedShape ==
    ASSUME NEW q, NEW c \in Channels, Locked(q, c)
    PROVE  Shape(q) /\ Inside(q) /\ Settled(q) /\ \A d : Owns(q, d) <=> d = c
<1>1. On("unlockchan", c).pc = "unlockchan" /\ On("unlockchan", c).x = c
  BY DEF On, Frame
<1>2. \A k \in 1..Len(q) : k \in {1, 2, 3, 4, 5, 6, 7}
  BY DEF Locked
<1>3. {q[1].pc, q[2].pc, q[3].pc, q[4].pc, q[5].pc, q[6].pc, q[7].pc} \subseteq Inner \union Outer
  BY <1>1 DEF Locked, Inner, Outer
<1>4. /\ After(q[1].pc) = Before(q[2].pc) /\ After(q[2].pc) = Before(q[3].pc) /\ After(q[3].pc) = Before(q[4].pc)
      /\ After(q[4].pc) = Before(q[5].pc) /\ After(q[5].pc) = Before(q[6].pc) /\ After(q[6].pc) = Before(q[7].pc)
      /\ After(q[7].pc) = "end"
  BY <1>1, Modes DEF Locked
<1>5. PointOK(q, 1) /\ PointOK(q, 2) /\ PointOK(q, 3) /\ PointOK(q, 4) /\ PointOK(q, 5)
  BY <1>3, <1>4 DEF PointOK, Locked, Alone
<1>6. PointOK(q, 6) /\ PointOK(q, 7)
  BY <1>1, <1>3, <1>4 DEF PointOK, Locked, Alone
<1>7. Shape(q)
  BY <1>2, <1>5, <1>6 DEF Shape
<1>8. Inside(q)
  <2>0. Len(<<>>) = 0 OBVIOUS
  <2>a. Len(q) = 7 BY DEF Locked
  <2>1. q # <<>> BY <2>0, <2>a
  <2> QED BY <2>1 DEF Inside, Locked, Inner
<1>9. \A d : Owns(q, d) <=> d = c
  <2>1. 6 \in 1..Len(q) /\ q[6].pc = "unlockchan" /\ q[6].x = c BY <1>1 DEF Locked
  <2>2. \A k \in 1..Len(q) : q[k].pc \notin {"lockchan", "setkey"} /\ (q[k].pc = "unlockchan" => k = 6) BY <1>1, <1>2 DEF Locked
  <2> QED BY <2>1, <2>2 DEF Owns
<1>10. Settled(q)
  BY DEF Locked, Settled, Alone
<1> QED BY <1>7, <1>8, <1>9, <1>10

\* The frames of a channel operation that waits for the lock.
Contending(q, c) ==
    /\ IsSeq(q) /\ Len(q) = 12
    /\ q[1].pc = "psig" /\ q[2].pc = "release" /\ q[3] = On("lockchan", c) /\ q[4].pc = "acquire" /\ q[5].pc = "unblocked"
    /\ q[6].pc = "psig" /\ q[7].pc = "release" /\ q[8].pc = "syscall" /\ q[9].pc = "acquire" /\ q[10].pc = "unblocked"
    /\ q[11] = On("unlockchan", c) /\ q[12].pc = "ocaml"

LEMMA ContendingShape ==
    ASSUME NEW q, NEW c \in Channels, Contending(q, c)
    PROVE  Shape(q) /\ Inside(q) /\ Settled(q) /\ \A d : ~Owns(q, d)
<1>1. /\ On("unlockchan", c).pc = "unlockchan" /\ On("unlockchan", c).x = c
      /\ On("lockchan", c).pc = "lockchan" /\ On("lockchan", c).x = c
  BY DEF On, Frame
<1>2. \A k \in 1..Len(q) : k \in {1, 2, 3, 4, 5, 6, 7, 8, 9, 10, 11, 12}
  BY DEF Contending
<1>3. /\ {q[1].pc, q[2].pc, q[3].pc, q[4].pc, q[5].pc, q[6].pc} \subseteq Inner \union Outer
      /\ {q[7].pc, q[8].pc, q[9].pc, q[10].pc, q[11].pc, q[12].pc} \subseteq Inner \union Outer
  BY <1>1 DEF Contending, Inner, Outer
<1>4. /\ After(q[1].pc) = Before(q[2].pc) /\ After(q[2].pc) = Before(q[3].pc) /\ After(q[3].pc) = Before(q[4].pc)
      /\ After(q[4].pc) = Before(q[5].pc) /\ After(q[5].pc) = Before(q[6].pc) /\ After(q[6].pc) = Before(q[7].pc)
  BY <1>1, Modes DEF Contending
<1>5. /\ After(q[7].pc) = Before(q[8].pc) /\ After(q[8].pc) = Before(q[9].pc) /\ After(q[9].pc) = Before(q[10].pc)
      /\ After(q[10].pc) = Before(q[11].pc) /\ After(q[11].pc) = Before(q[12].pc) /\ After(q[12].pc) = "end"
  BY <1>1, Modes DEF Contending
<1>6. PointOK(q, 1) /\ PointOK(q, 2) /\ PointOK(q, 4) /\ PointOK(q, 5) /\ PointOK(q, 6)
  BY <1>3, <1>4 DEF PointOK, Contending, Alone
<1>7. PointOK(q, 3)
  BY <1>1, <1>3, <1>4 DEF PointOK, Contending, Alone
<1>8. PointOK(q, 7) /\ PointOK(q, 8) /\ PointOK(q, 9) /\ PointOK(q, 10)
  BY <1>3, <1>5 DEF PointOK, Contending, Alone
<1>9. PointOK(q, 11) /\ PointOK(q, 12)
  BY <1>1, <1>3, <1>5 DEF PointOK, Contending, Alone
<1>10. Shape(q)
  BY <1>2, <1>6, <1>7, <1>8, <1>9 DEF Shape
<1>11. Inside(q)
  <2>0. Len(<<>>) = 0 OBVIOUS
  <2>a. Len(q) = 12 BY DEF Contending
  <2>1. q # <<>> BY <2>0, <2>a
  <2> QED BY <2>1 DEF Inside, Contending, Inner
<1>12. \A d : ~Owns(q, d)
  <2>1. 3 \in 1..Len(q) /\ q[3].pc = "lockchan" BY <1>1 DEF Contending
  <2> QED BY <2>1 DEF Owns
<1>13. Settled(q)
  BY DEF Contending, Settled, Alone
<1> QED BY <1>10, <1>11, <1>12, <1>13

LEMMA ChannelCode ==
    ASSUME NEW c, NEW f, f.pc = "ocaml", NEW r, IsSeq(r), Len(r) = 0,
           NEW call, call = Blocking("syscall", NoOne) \o <<On("unlockchan", c)>>
    PROVE  /\ Locked((call \o <<f>>) \o r, c)
           /\ Contending(((Blocking("lockchan", c) \o call) \o <<f>>) \o r, c)
<1>1. PICK b, u, o, w : b = Blocking("syscall", NoOne) /\ u = <<On("unlockchan", c)>> /\ o = <<f>> /\ w = Blocking("lockchan", c)
  OBVIOUS
<1>2. /\ IsSeq(b) /\ Len(b) = 5 /\ b[1].pc = "psig" /\ b[2].pc = "release" /\ b[3].pc = "syscall"
      /\ b[4].pc = "acquire" /\ b[5].pc = "unblocked"
  <2>1. On("syscall", NoOne).pc = "syscall" BY DEF On, Frame
  <2> QED BY <1>1, <2>1, BlockingFacts
<1>3. /\ IsSeq(w) /\ Len(w) = 5 /\ w[1].pc = "psig" /\ w[2].pc = "release" /\ w[3] = On("lockchan", c)
      /\ w[4].pc = "acquire" /\ w[5].pc = "unblocked"
  BY <1>1, BlockingFacts
<1>4. IsSeq(u) /\ Len(u) = 1 /\ u[1] = On("unlockchan", c) /\ IsSeq(o) /\ Len(o) = 1 /\ o[1] = f
  <2>1. PICK g : g = On("unlockchan", c) OBVIOUS
  <2>2. u \in Seq({g}) /\ Len(u) = 1 /\ u[1] = g BY <1>1, <2>1
  <2>3. o \in Seq({f}) /\ Len(o) = 1 /\ o[1] = f BY <1>1
  <2> QED BY <2>1, <2>2, <2>3 DEF IsSeq
<1>5. /\ IsSeq(call) /\ Len(call) = 6 /\ call[1] = b[1] /\ call[2] = b[2] /\ call[3] = b[3] /\ call[4] = b[4] /\ call[5] = b[5]
      /\ call[6] = u[1]
  <2>1. /\ IsSeq(call) /\ Len(call) = Len(b) + Len(u)
        /\ \A i \in 1..Len(b) : call[i] = b[i]
        /\ \A i \in 1..Len(u) : call[Len(b) + i] = u[i]
    <3>1. JoinOf(call, b, u) BY <1>1, <1>2, <1>4, Joined
    <3> QED BY <3>1 DEF JoinOf
  <2>2. Len(call) = 6 /\ 1..Len(b) = {1, 2, 3, 4, 5} /\ 1 \in 1..Len(u) /\ Len(b) + 1 = 6 BY <1>2, <1>4, <2>1
  <2> QED BY <2>1, <2>2
<1>6. ASSUME NEW s, IsSeq(s), NEW q, q = (s \o o) \o r PROVE JoinOf(q, s, o)
  <2>1. PICK p : p = s \o o OBVIOUS
  <2>2. JoinOf(p, s, o) BY <1>4, <1>6, <2>1, Joined
  <2>3. q = p \o r BY <1>6, <2>1
  <2>4. IsSeq(p) BY <2>2 DEF JoinOf
  <2>5. JoinOf(q, p, r) BY <2>3, <2>4, Joined
  <2>6. IsSeq(q) /\ Len(q) = Len(p) /\ Len(p) \in Nat /\ \A i \in 1..Len(p) : q[i] = p[i]
    BY <2>5 DEF JoinOf
  <2>7. /\ Len(p) = Len(s) + Len(o) /\ Len(s) \in Nat /\ Len(o) \in Nat
        /\ \A i \in 1..Len(s) : p[i] = s[i]
        /\ \A i \in 1..Len(o) : p[Len(s) + i] = o[i]
    BY <2>2 DEF JoinOf
  <2>8. (\A i \in 1..Len(s) : i \in 1..Len(p)) /\ (\A i \in 1..Len(o) : Len(s) + i \in 1..Len(p))
    BY <2>7
  <2>9. (\A i \in 1..Len(s) : q[i] = s[i]) /\ (\A i \in 1..Len(o) : q[Len(s) + i] = o[i])
    BY <2>6, <2>7, <2>8
  <2> QED BY <2>6, <2>7, <2>9 DEF JoinOf
<1>7. Locked((call \o <<f>>) \o r, c)
  <2>1. PICK q : q = (call \o o) \o r OBVIOUS
  <2>2. JoinOf(q, call, o) BY <1>5, <1>6, <2>1
  <2>3. 1..Len(call) = {1, 2, 3, 4, 5, 6} /\ Len(call) + 1 = 7 /\ 1 \in 1..Len(o) BY <1>4, <1>5
  <2>5. /\ IsSeq(q) /\ Len(q) = 7 /\ q[1] = call[1] /\ q[2] = call[2] /\ q[3] = call[3] /\ q[4] = call[4]
        /\ q[5] = call[5] /\ q[6] = call[6] /\ q[7] = f
    BY <1>4, <1>5, <2>2, <2>3 DEF JoinOf
  <2>4. Locked(q, c) BY <1>2, <1>4, <1>5, <2>5 DEF Locked
  <2> QED BY <1>1, <2>1, <2>4
<1>8. Contending(((Blocking("lockchan", c) \o call) \o <<f>>) \o r, c)
  <2>1. PICK s : s = w \o call OBVIOUS
  <2>2. /\ IsSeq(s) /\ Len(s) = Len(w) + Len(call)
        /\ \A i \in 1..Len(w) : s[i] = w[i]
        /\ \A i \in 1..Len(call) : s[Len(w) + i] = call[i]
    <3>1. JoinOf(s, w, call) BY <1>3, <1>5, <2>1, Joined
    <3> QED BY <3>1 DEF JoinOf
  <2>3. /\ Len(s) = 11 /\ 1..Len(w) = {1, 2, 3, 4, 5} /\ 1..Len(call) = {1, 2, 3, 4, 5, 6} /\ Len(w) + 1 = 6 /\ Len(w) + 2 = 7
        /\ Len(w) + 3 = 8 /\ Len(w) + 4 = 9 /\ Len(w) + 5 = 10 /\ Len(w) + 6 = 11
    BY <1>3, <1>5, <2>2
  <2>4. /\ s[1] = w[1] /\ s[2] = w[2] /\ s[3] = w[3] /\ s[4] = w[4] /\ s[5] = w[5]
        /\ s[6] = call[1] /\ s[7] = call[2] /\ s[8] = call[3] /\ s[9] = call[4] /\ s[10] = call[5] /\ s[11] = call[6]
    <3>1. s[1] = w[1] /\ s[2] = w[2] /\ s[3] = w[3] /\ s[4] = w[4] /\ s[5] = w[5] BY <2>2, <2>3
    <3>2. s[6] = call[1] /\ s[7] = call[2] /\ s[8] = call[3]
      <4>1. s[Len(w) + 1] = call[1] /\ s[Len(w) + 2] = call[2] /\ s[Len(w) + 3] = call[3] BY <2>2, <2>3
      <4> QED BY <2>3, <4>1
    <3>3. s[9] = call[4] /\ s[10] = call[5] /\ s[11] = call[6]
      <4>1. s[Len(w) + 4] = call[4] /\ s[Len(w) + 5] = call[5] /\ s[Len(w) + 6] = call[6] BY <2>2, <2>3
      <4> QED BY <2>3, <4>1
    <3> QED BY <3>1, <3>2, <3>3
  <2>5. PICK q : q = (s \o o) \o r OBVIOUS
  <2>6. JoinOf(q, s, o) BY <1>6, <2>2, <2>5
  <2>7. 1..Len(s) = {1, 2, 3, 4, 5, 6, 7, 8, 9, 10, 11} /\ Len(s) + 1 = 12 /\ 1 \in 1..Len(o) BY <1>4, <2>3
  <2>9. /\ IsSeq(q) /\ Len(q) = 12 /\ q[12] = f
        /\ q[1] = s[1] /\ q[2] = s[2] /\ q[3] = s[3] /\ q[4] = s[4] /\ q[5] = s[5] /\ q[6] = s[6]
        /\ q[7] = s[7] /\ q[8] = s[8] /\ q[9] = s[9] /\ q[10] = s[10] /\ q[11] = s[11]
    BY <1>4, <2>3, <2>6, <2>7 DEF JoinOf
  <2>10. /\ q[1].pc = "psig" /\ q[2].pc = "release" /\ q[3] = On("lockchan", c) /\ q[4].pc = "acquire" /\ q[5].pc = "unblocked"
    BY <1>3, <2>4, <2>9
  <2>11. /\ q[6].pc = "psig" /\ q[7].pc = "release" /\ q[8].pc = "syscall" /\ q[9].pc = "acquire" /\ q[10].pc = "unblocked"
         /\ q[11] = On("unlockchan", c) /\ q[12].pc = "ocaml"
    BY <1>2, <1>4, <1>5, <2>4, <2>9
  <2>8. Contending(q, c) BY <2>9, <2>10, <2>11 DEF Contending
  <2> QED BY <1>1, <2>1, <2>5, <2>8
<1> QED BY <1>7, <1>8

\* The stack of a linked thread becomes q; the other parts of the invariant are given.
LEMMA ChannelTurn ==
    ASSUME IInv, NEW t \in Names, stack[t] # <<>>, life[t] = "alive", NEW q, stack' = [stack EXCEPT ![t] = q],
           IsSeq(q), Shape(q), Inside(q) <=> Inside(stack[t]), stack[t][1].pc \notin Alone, q # <<>> => q[1].pc \notin Alone,
           Types', StateKept(t), Locking', UNCHANGED <<life, busy, ring>>
    PROVE  IInv'
<1>1. stack' = [u \in Names |-> stack'[u]] /\ stack'[t] = q /\ \A u \in Names \ {t} : stack'[u] = stack[u]
  BY TurnFacts DEF IInv
<1>2. Stacks' /\ Shapes'
  <2>1. \A u \in Names : IsSeq(stack'[u]) /\ Shape(stack'[u]) BY <1>1 DEF IInv, Stacks, Shapes
  <2> QED BY <1>1, <2>1 DEF Stacks, Shapes
<1>3. Lives'
  <2>1. Living(life[t], q, mine'[t], t) BY LivingFacts
  <2> QED BY <2>1, LivesTurn DEF IInv, StateKept
<1>4. Owned'
  <2>1. \A u \in Names : Inside(stack'[u]) <=> Inside(stack[u]) BY <1>1
  <2> QED BY <2>1, OwnedKept DEF IInv
<1>5. Ring'
  BY RingKept DEF IInv
<1>6. Exclusive'
  <2>1. ~Linking(q) /\ ~Linking(stack[t]) BY DEF Linking, Alone
  <2>2. \A u \in Names : (Inside(stack'[u]) <=> Inside(stack[u])) /\ (Linking(stack'[u]) <=> Linking(stack[u])) BY <1>1, <2>1
  <2> QED BY <2>2, ExclusiveKept DEF IInv
<1> QED BY <1>2, <1>3, <1>4, <1>5, <1>6 DEF IInv

\* The operation of t has set the key for channel x and is about to set it for y; of the
\* channels it holds h.
OwnsOnly(q, x) == \A c \in Channels : Owns(q, c) <=> c = x
KeysOnly(q, y) == \A c \in Channels : Keying(q, c) <=> c = y
Holds(t, h) ==
    \A c \in Channels :
      IF c = h THEN holder[c] \in {t, NoOne} /\ holder'[c] = t
      ELSE holder'[c] = IF holder[c] = t THEN NoOne ELSE holder[c]

LEMMA LockingTurn ==
    ASSUME IInv, over = "no", NEW t \in Names, NEW q, stack' = [stack EXCEPT ![t] = q], life[t] = "alive", life' = life,
           NEW x \in Channels \union {NoOne}, lastLocked' = [lastLocked EXCEPT ![t] = x],
           NEW y, NEW h, \A c \in Channels : c = h <=> c = x \/ c = y,
           OwnsOnly(q, x), KeysOnly(q, y), Holds(t, h)
    PROVE  Locking'
<1>1. /\ \A u \in Names : life[u] # "dead" => \A c \in Channels : lastLocked[u] = c <=> Owns(stack[u], c)
      /\ \A c \in Channels : holder[c] # NoOne =>
           life[holder[c]] = "alive" /\ (lastLocked[holder[c]] = c \/ Keying(stack[holder[c]], c))
      /\ \A u \in Names : life[u] # "dead" => \A c \in Channels :
           lastLocked[u] = c \/ Keying(stack[u], c) => holder[c] = u
  BY DEF IInv, Locking
<1>2. /\ lastLocked \in [Names -> Channels \union {NoOne}]
      /\ holder \in [Mutexes \union Channels -> Names \union {NoOne}] /\ NoOne \notin Names
  BY NamesAssumption DEF IInv, Types
<1>3. lastLocked'[t] = x /\ \A u \in Names \ {t} : lastLocked'[u] = lastLocked[u]
  BY <1>2
<1>4. stack'[t] = q /\ \A u \in Names \ {t} : stack'[u] = stack[u]
  BY TurnFacts DEF IInv
<1>5. \A u \in Names : life'[u] # "dead" => \A c \in Channels : lastLocked'[u] = c <=> Owns(stack'[u], c)
  <2>1. ASSUME NEW u \in Names, life'[u] # "dead", NEW c \in Channels PROVE lastLocked'[u] = c <=> Owns(stack'[u], c)
    <3>1. CASE u = t BY <1>3, <1>4, <3>1 DEF OwnsOnly
    <3>2. CASE u # t
      <4>1. lastLocked'[u] = lastLocked[u] /\ stack'[u] = stack[u] BY <1>3, <1>4, <3>2
      <4> QED BY <1>1, <2>1, <4>1
    <3> QED BY <3>1, <3>2
  <2> QED BY <2>1
<1>6. ASSUME NEW c \in Channels, holder'[c] # NoOne
      PROVE  life'[holder'[c]] = "alive" /\ (lastLocked'[holder'[c]] = c \/ Keying(stack'[holder'[c]], c))
  <2>1. CASE c = h
    <3>1. holder'[c] = t /\ (c = x \/ c = y) BY <2>1 DEF Holds
    <3>2. lastLocked'[t] = c \/ Keying(stack'[t], c) BY <1>3, <1>4, <3>1 DEF KeysOnly
    <3> QED BY <3>1, <3>2
  <2>2. CASE c # h
    <3>1. PICK u : u = holder[c] OBVIOUS
    <3>2. holder'[c] = u /\ u \in Names \ {t} BY <1>2, <1>6, <2>2, <3>1 DEF Holds
    <3>3. life[u] = "alive" /\ (lastLocked[u] = c \/ Keying(stack[u], c)) BY <1>1, <1>2, <3>1, <3>2
    <3>4. lastLocked'[u] = lastLocked[u] /\ stack'[u] = stack[u] BY <1>3, <1>4, <3>2
    <3> QED BY <3>2, <3>3, <3>4
  <2> QED BY <2>1, <2>2
<1>7. ASSUME NEW u \in Names, life'[u] # "dead", NEW c \in Channels, lastLocked'[u] = c \/ Keying(stack'[u], c)
      PROVE  holder'[c] = u
  <2>1. CASE u = t
    <3>1. c = x \/ c = y BY <1>3, <1>4, <1>7, <2>1 DEF KeysOnly
    <3> QED BY <2>1, <3>1 DEF Holds
  <2>2. CASE u # t
    <3>1. lastLocked'[u] = lastLocked[u] /\ stack'[u] = stack[u] BY <1>3, <1>4, <2>2
    <3>2. holder[c] = u BY <1>1, <1>7, <3>1
    <3>3. holder[c] \notin {t, NoOne} BY <1>2, <2>2, <3>2
    <3> QED BY <3>2, <3>3 DEF Holds
  <2> QED BY <2>1, <2>2
<1> QED BY <1>5, <1>6, <1>7 DEF Locking

\* Without a frame that is about to set the key.
LEMMA NoKeys ==
    ASSUME NEW q, Settled(q)
    PROVE  KeysOnly(q, NoOne)
<1>1. NoOne \notin Channels
  BY NamesAssumption
<1> QED BY <1>1 DEF KeysOnly, Keying, Settled

\* What a thread's stack says of the channels it holds.
Holding(t) ==
    /\ \A c \in Channels : lastLocked[t] = c <=> Owns(stack[t], c)
    /\ \A c \in Channels : holder[c] = t <=> (lastLocked[t] = c \/ Keying(stack[t], c))
    /\ lastLocked[t] \in Channels \union {NoOne} /\ NoOne \notin Channels /\ NoOne \notin Names
    /\ holder \in [Mutexes \union Channels -> Names \union {NoOne}]
    /\ lastLocked \in [Names -> Channels \union {NoOne}]
LEMMA HolderFacts ==
    ASSUME IInv, over = "no", NEW t \in Names, life[t] = "alive"
    PROVE  Holding(t)
<1>1. /\ lastLocked \in [Names -> Channels \union {NoOne}]
      /\ holder \in [Mutexes \union Channels -> Names \union {NoOne}]
  BY DEF IInv, Types
<1>2. NoOne \notin Channels /\ NoOne \notin Names
  BY NamesAssumption
<1>3. \A c \in Channels : lastLocked[t] = c <=> Owns(stack[t], c)
  BY DEF IInv, Locking
<1>4. \A c \in Channels : holder[c] = t => lastLocked[t] = c \/ Keying(stack[t], c)
  BY <1>2 DEF IInv, Locking
<1>5. \A c \in Channels : lastLocked[t] = c \/ Keying(stack[t], c) => holder[c] = t
  BY DEF IInv, Locking
<1> QED BY <1>1, <1>2, <1>3, <1>4, <1>5 DEF Holding

LEMMA ChannelOperation ==
    ASSUME IInv, NEW t \in Names, ChannelOp(t)
    PROVE  IInv'
<1>1. PICK c, call : c = Op(t).on /\ call = Blocking("syscall", NoOne) \o <<On("unlockchan", c)>>
  OBVIOUS
<1>2. /\ Step(t, "channel") /\ saved' = saved /\ UNCHANGED <<life, busy, ring>>
      /\ \/ /\ holder[c] = NoOne /\ holder' = [holder EXCEPT ![c] = t] /\ lastLocked' = [lastLocked EXCEPT ![t] = c]
            /\ Calls(t, call)
         \/ Calls(t, Blocking("lockchan", c) \o call) /\ holder' = holder /\ lastLocked' = lastLocked
  BY <1>1 DEF ChannelOp, lockvars
<1>3. /\ over = "no" /\ stack[t] # <<>> /\ Len(stack[t]) = 1 /\ stack[t][1].pc = "ocaml"
      /\ IsSeq(stack[t]) /\ Shape(stack[t]) /\ Inside(stack[t]) /\ life[t] = "alive"
      /\ cs' = <<t, mine'[t]>> /\ cs' \in Names \X {0, 1} /\ mine' \in [Names -> {0, 1}]
      /\ \A u \in Names \ {t} : mine'[u] = mine[u]
      /\ pos' \in [Names -> Nat \ {0}] /\ prog' = prog /\ curr' = curr
      /\ Op(t).do = "channel" /\ Op(t) \in Operation
  BY <1>2, StepFacts
<1>4. c \in Channels
  BY <1>1, <1>3, OnFacts
<1>5. PICK r : r = Tail(stack[t])
  OBVIOUS
<1>6. IsSeq(r) /\ Len(r) = 0
  <2>1. PICK s, A : s = stack[t] /\ s \in Seq(A) BY <1>3 DEF IsSeq
  <2>2. r \in Seq(A) /\ Len(r) = 0 BY <1>3, <1>5, <2>1
  <2> QED BY <2>2 DEF IsSeq
<1>7. Holding(t)
  BY <1>3, HolderFacts
<1>8. lastLocked[t] = NoOne /\ \A d \in Channels : holder[d] # t
  <2>1. PICK s : s = stack[t] OBVIOUS
  <2>2. \A d : Apart(s, d) BY <1>3, <2>1, NoneOwned
  <2> QED BY <1>7, <2>1, <2>2 DEF Holding, Apart
<1>9. StateKept(t)
  BY <1>2, <1>3 DEF StateKept
<1>10. F("ocaml").pc = "ocaml" /\ stack[t][1].pc \notin Alone
  BY <1>3 DEF F, Frame, Alone
<1>11. CASE /\ holder[c] = NoOne /\ holder' = [holder EXCEPT ![c] = t] /\ lastLocked' = [lastLocked EXCEPT ![t] = c]
            /\ Calls(t, call)
  <2>1. PICK q : q = (call \o <<F("ocaml")>>) \o r OBVIOUS
  <2>2. stack' = [stack EXCEPT ![t] = q] BY <1>5, <1>11, <2>1 DEF Calls, Continue
  <2>3. Locked(q, c) BY <1>1, <1>6, <1>10, <2>1, ChannelCode
  <2>4. Shape(q) /\ Inside(q) /\ Settled(q) /\ (\A d : Owns(q, d) <=> d = c) /\ IsSeq(q)
    <3>1. IsSeq(q) BY <2>3 DEF Locked
    <3> QED BY <1>4, <2>3, <3>1, LockedShape
  <2>5. Holds(t, c)
    BY <1>4, <1>7, <1>8, <1>11 DEF Holds, Holding
  <2>6. Locking'
    <3>1. life' = life /\ OwnsOnly(q, c) BY <1>2, <2>4 DEF OwnsOnly
    <3>2. KeysOnly(q, NoOne) /\ \A d \in Channels : d = c <=> d = c \/ d = NoOne BY <1>7, <2>4, NoKeys DEF Holding
    <3> QED BY <1>3, <1>4, <1>11, <2>2, <2>5, <3>1, <3>2, LockingTurn
  <2>7. Types'
    BY <1>2, <1>3, <1>4, <1>11 DEF IInv, Types, ring
  <2>8. q # <<>> => q[1].pc \notin Alone BY <2>4 DEF Settled
  <2> QED BY <1>2, <1>3, <1>9, <1>10, <2>2, <2>4, <2>6, <2>7, <2>8, ChannelTurn
<1>12. CASE Calls(t, Blocking("lockchan", c) \o call) /\ holder' = holder /\ lastLocked' = lastLocked
  <2>1. PICK q : q = ((Blocking("lockchan", c) \o call) \o <<F("ocaml")>>) \o r OBVIOUS
  <2>2. stack' = [stack EXCEPT ![t] = q] BY <1>5, <1>12, <2>1 DEF Calls, Continue
  <2>3. Contending(q, c) BY <1>1, <1>6, <1>10, <2>1, ChannelCode
  <2>4. Shape(q) /\ Inside(q) /\ Settled(q) /\ (\A d : ~Owns(q, d)) /\ IsSeq(q)
    <3>1. IsSeq(q) BY <2>3 DEF Contending
    <3> QED BY <1>4, <2>3, <3>1, ContendingShape
  <2>5. Holds(t, NoOne)
    BY <1>7, <1>8, <1>12 DEF Holds, Holding
  <2>6. lastLocked' = [lastLocked EXCEPT ![t] = NoOne]
    BY <1>7, <1>8, <1>12 DEF Holding
  <2>7. Locking'
    <3>1. life' = life /\ OwnsOnly(q, NoOne) /\ NoOne \in Channels \union {NoOne} BY <1>2, <1>7, <2>4 DEF OwnsOnly, Holding
    <3>2. KeysOnly(q, NoOne) BY <2>4, NoKeys
    <3> QED BY <1>3, <2>2, <2>5, <2>6, <3>1, <3>2, LockingTurn
  <2>8. Types'
    BY <1>2, <1>3, <1>12 DEF IInv, Types, ring
  <2>9. q # <<>> => q[1].pc \notin Alone BY <2>4 DEF Settled
  <2> QED BY <1>2, <1>3, <1>9, <1>10, <2>2, <2>4, <2>7, <2>8, <2>9, ChannelTurn
<1> QED BY <1>2, <1>11, <1>12

\* Popping a frame.
LEMMA PopFacts ==
    ASSUME NEW s, IsSeq(s), Shape(s), s # <<>>, s[1].pc \notin Alone, NEW q, q = <<>> \o Tail(s)
    PROVE  /\ IsSeq(q) /\ Shape(q) /\ Settled(q) /\ (Inside(q) <=> After(s[1].pc) = "in")
           /\ Len(s) \in Nat /\ Len(s) > 0 /\ Len(q) = Len(s) - 1
           /\ \A i \in 1..Len(q) : q[i] = s[i + 1] /\ i + 1 \in 1..Len(s)
<1>1. PICK fs, a : fs = <<>> /\ a = After(s[1].pc)
  OBVIOUS
<1>2. Goes(s, fs, a)
  BY <1>1 DEF Goes
<1>3. Shape(q) /\ IsSeq(q) /\ Settled(q) /\ (Inside(q) <=> a = "in")
  <2>1. q = fs \o Tail(s) BY <1>1
  <2>2. Spliceable(s, q, a) BY <1>2, <2>1, SpliceShape
  <2> QED BY <2>2 DEF Spliceable
<1>4. PICK A : s \in Seq(A)
  BY DEF IsSeq
<1>5. PICK r : r = Tail(s)
  OBVIOUS
<1>6. r \in Seq(A) /\ Len(r) = Len(s) - 1 /\ Len(s) \in Nat /\ Len(s) > 0 /\ \A i \in 1..Len(r) : r[i] = s[i + 1]
  BY <1>4, <1>5
<1>7. q = r
  <2>1. <<>> \o r = r BY <1>6
  <2> QED BY <1>5, <2>1
<1>8. \A i \in 1..Len(q) : i + 1 \in 1..Len(s)
  BY <1>6, <1>7
<1> QED BY <1>1, <1>3, <1>6, <1>7, <1>8

\* The frames of a thread about to lock channel c, or to set the key for it.
AboutTo(t, l, s, c) ==
    /\ over = "no" /\ s # <<>> /\ s[1].pc = l /\ IsSeq(s) /\ Shape(s) /\ life[t] = "alive" /\ ~Inside(s)
    /\ Len(s) = 10 /\ s[9].pc = "unlockchan" /\ s[9].x = c /\ c \in Channels /\ s[1].x = c
    /\ \A k \in 1..Len(s) : (s[k].pc \in {"lockchan", "setkey"} => k = 1) /\ (s[k].pc = "unlockchan" => k = 9)
    /\ \A d : ~Owns(s, d)
LEMMA ChannelFrames ==
    ASSUME IInv, NEW t \in Names, NEW l \in {"lockchan", "setkey"}, At(t, l), NEW s, s = stack[t], NEW c, c = Top(t).x
    PROVE  AboutTo(t, l, s, c)
<1>3. /\ over = "no" /\ s # <<>> /\ s[1].pc = l /\ IsSeq(s) /\ Shape(s) /\ Len(s) \in Nat /\ Len(s) > 0
      /\ life[t] = "alive" /\ ~Inside(s)
  <2>1. l \notin {"wake"} \union Alone /\ l \notin Inner BY DEF Inner, Alone
  <2> QED BY <2>1, AtFacts
<1>6. PointOK(s, 1)
  BY <1>3 DEF Shape
<1>7. Len(s) = 10 /\ s[9].pc = "unlockchan" /\ s[9].x = c /\ s[1].x = c
  <2>1. 1 = Len(s) - 9 /\ s[Len(s) - 1].pc = "unlockchan" /\ s[Len(s) - 1].x = s[1].x BY <1>3, <1>6 DEF PointOK
  <2>2. PICK m : m = Len(s) OBVIOUS
  <2>3. m \in Nat /\ 1 = m - 9 BY <1>3, <2>1, <2>2
  <2>4. m = 10 /\ m - 1 = 9 BY ONLY <2>3
  <2>5. c = s[1].x BY DEF Top
  <2> QED BY <2>1, <2>2, <2>4, <2>5
<1>8. c \in Channels
  <2>1. 9 \in 1..Len(s) BY <1>7
  <2>2. PointOK(s, 9) BY <1>3, <2>1 DEF Shape
  <2> QED BY <1>7, <2>2 DEF PointOK
<1>9. \A k \in 1..Len(s) : (s[k].pc \in {"lockchan", "setkey"} => k = 1) /\ (s[k].pc = "unlockchan" => k = 9)
  BY <1>3, <1>7 DEF Shape, PointOK
<1>10. \A d : ~Owns(s, d)
  <2>1. 1 \in 1..Len(s) BY <1>3
  <2> QED BY <1>3, <2>1 DEF Owns
<1> QED BY <1>3, <1>7, <1>8, <1>9, <1>10 DEF AboutTo

LEMMA ChannelLockStep ==
    ASSUME IInv, NEW t \in Names, caml_io_mutex_lock(t)
    PROVE  IInv'
<1>1. PICK s, c : s = stack[t] /\ c = Top(t).x
  OBVIOUS
<1>2. /\ At(t, "lockchan") /\ holder[c] = NoOne /\ holder' = [holder EXCEPT ![c] = t] /\ lastLocked' = lastLocked
      /\ Continue(t, <<On("setkey", c)>>) /\ UNCHANGED <<prog, pos, life, busy, state, ring>>
  BY <1>1 DEF caml_io_mutex_lock, lockvars
<1>3. /\ over = "no" /\ s # <<>> /\ s[1].pc = "lockchan" /\ IsSeq(s) /\ Shape(s) /\ life[t] = "alive" /\ ~Inside(s)
      /\ Len(s) = 10 /\ s[9].pc = "unlockchan" /\ s[9].x = c /\ c \in Channels /\ s[1].x = c
      /\ \A k \in 1..Len(s) : (s[k].pc \in {"lockchan", "setkey"} => k = 1) /\ (s[k].pc = "unlockchan" => k = 9)
      /\ \A d : ~Owns(s, d)
  <2>1. AboutTo(t, "lockchan", s, c) BY <1>1, <1>2, ChannelFrames
  <2> QED BY <2>1 DEF AboutTo
<1>4. PICK f, q : f = On("setkey", c) /\ q = <<f>> \o Tail(s)
  OBVIOUS
<1>5. IsSeq(q) /\ Len(q) = 10 /\ q[1] = f /\ q # <<>> /\ \A i \in 1..10 : i # 1 => q[i] = s[i]
  <2>1. PICK A : s \in Seq(A) BY <1>3 DEF IsSeq
  <2>2. PICK r, g : r = Tail(s) /\ g = <<f>> OBVIOUS
  <2>3. r \in Seq(A) /\ Len(r) = 9 /\ \A i \in 1..9 : r[i] = s[i + 1]
    <3>1. Len(s) = 10 /\ s # <<>> BY <1>3
    <3>2. r \in Seq(A) /\ Len(r) = Len(s) - 1 /\ \A i \in 1..Len(r) : r[i] = s[i + 1] BY <2>1, <2>2, <3>1
    <3>3. Len(r) = 9 BY <3>1, <3>2
    <3> QED BY <3>2, <3>3
  <2>4. g \in Seq({f}) /\ Len(g) = 1 /\ g[1] = f BY <2>2
  <2>5. JoinOf(q, g, r) BY <1>4, <2>2, <2>3, <2>4, Joined DEF IsSeq
  <2>6. IsSeq(q) /\ Len(q) = 10 /\ q[1] = f BY <2>3, <2>4, <2>5 DEF JoinOf
  <2>7. ASSUME NEW i \in 1..10, i # 1 PROVE q[i] = s[i]
    <3>1. PICK j : j = i - 1 OBVIOUS
    <3>2. j \in 1..9 /\ j + 1 = i /\ 1 + j = i BY <2>7, <3>1
    <3>3. q[Len(g) + j] = r[j] BY <2>3, <2>5, <3>2 DEF JoinOf
    <3>4. r[j] = s[i] BY <2>3, <3>2
    <3> QED BY <2>4, <3>2, <3>3, <3>4
  <2>8. q # <<>>
    <3>1. Len(<<>>) = 0 OBVIOUS
    <3> QED BY <2>6, <3>1
  <2> QED BY <2>6, <2>7, <2>8
<1>6. f.pc = "setkey" /\ f.x = c
  BY <1>4 DEF On, Frame
<1>7. Shape(q)
  <2>1. ASSUME NEW k \in 1..10, k # 1 PROVE PointOK(q, k)
    <3>1. PointOK(s, k) /\ q[k] = s[k] /\ s[k].pc \notin {"lockchan", "setkey"} BY <1>3, <1>5, <2>1 DEF Shape
    <3>2. k < 10 => k + 1 \in 1..10 /\ k + 1 # 1 BY <2>1
    <3>3. k < 10 => q[k + 1] = s[k + 1] BY <1>5, <3>2
    <3> QED BY <1>3, <1>5, <3>1, <3>3 DEF PointOK
  <2>2. PointOK(q, 1)
    <3>1. PointOK(s, 1) BY <1>3 DEF Shape
    <3>2. q[2] = s[2] /\ q[9] = s[9] BY <1>5
    <3>3. After("lockchan") = After("setkey") BY Modes
    <3>4. After(s[1].pc) = Before(s[2].pc) BY <1>3, <3>1 DEF PointOK
    <3>5. After(q[1].pc) = Before(q[2].pc) BY <1>3, <1>5, <1>6, <3>2, <3>3, <3>4
    <3>6. q[1].pc = "setkey" /\ q[1].x = c /\ q[9].pc = "unlockchan" /\ q[9].x = c /\ Len(q) = 10 BY <1>3, <1>5, <1>6, <3>2
    <3>7. "setkey" \in Outer /\ "setkey" \notin Alone BY DEF Outer, Alone
    <3> QED BY <3>5, <3>6, <3>7 DEF PointOK
  <2> QED BY <1>5, <2>1, <2>2 DEF Shape
<1>8. OwnsOnly(q, NoOne) /\ KeysOnly(q, c) /\ \A d \in Channels : d = c <=> d = NoOne \/ d = c
  <2>1. 1 \in 1..Len(q) BY <1>5
  <2>2. \A d : ~Owns(q, d) BY <1>5, <1>6, <2>1 DEF Owns
  <2>3. \A d : Keying(q, d) <=> d = c BY <1>5, <1>6 DEF Keying
  <2> QED BY <2>2, <2>3, NamesAssumption DEF OwnsOnly, KeysOnly
<1>9. Holding(t)
  BY <1>3, HolderFacts
<1>10. lastLocked[t] = NoOne /\ \A d \in Channels : holder[d] # t
  <2>1. \A d : ~Keying(s, d) BY <1>3 DEF Keying
  <2> QED BY <1>1, <1>3, <1>9, <2>1 DEF Holding
<1>11. Holds(t, c)
  BY <1>2, <1>3, <1>9, <1>10 DEF Holds, Holding
<1>12. stack' = [stack EXCEPT ![t] = q]
  BY <1>1, <1>2, <1>4 DEF Continue
<1>13. Locking'
  <2>1. life' = life /\ NoOne \in Channels \union {NoOne} BY <1>2
  <2>2. lastLocked' = [lastLocked EXCEPT ![t] = NoOne] BY <1>2, <1>9, <1>10 DEF Holding
  <2> QED BY <1>3, <1>8, <1>11, <1>12, <2>1, <2>2, LockingTurn
<1>14. Types'
  BY <1>2, <1>3 DEF IInv, Types, state, ring
<1>15. StateKept(t)
  BY <1>2, StateSame DEF IInv
<1>16. (Inside(q) <=> Inside(stack[t])) /\ stack[t][1].pc \notin Alone /\ q[1].pc \notin Alone
  BY <1>1, <1>3, <1>5, <1>6 DEF Inside, Inner, Alone
<1> QED BY <1>1, <1>2, <1>3, <1>5, <1>7, <1>12, <1>13, <1>14, <1>15, <1>16, ChannelTurn

LEMMA KeyStep ==
    ASSUME IInv, NEW t \in Names, st_tls_set(t)
    PROVE  IInv'
<1>1. PICK s, c : s = stack[t] /\ c = Top(t).x
  OBVIOUS
<1>2. /\ At(t, "setkey") /\ holder' = holder /\ lastLocked' = [lastLocked EXCEPT ![t] = c]
      /\ Continue(t, <<>>) /\ UNCHANGED <<prog, pos, life, busy, state, ring>>
  BY <1>1 DEF st_tls_set, lockvars
<1>3. /\ over = "no" /\ s # <<>> /\ s[1].pc = "setkey" /\ IsSeq(s) /\ Shape(s) /\ life[t] = "alive" /\ ~Inside(s)
      /\ Len(s) = 10 /\ s[9].pc = "unlockchan" /\ s[9].x = c /\ c \in Channels /\ s[1].x = c
      /\ \A k \in 1..Len(s) : (s[k].pc \in {"lockchan", "setkey"} => k = 1) /\ (s[k].pc = "unlockchan" => k = 9)
      /\ \A d : ~Owns(s, d)
  <2>1. AboutTo(t, "setkey", s, c) BY <1>1, <1>2, ChannelFrames
  <2> QED BY <2>1 DEF AboutTo
<1>4. PICK q : q = <<>> \o Tail(s)
  OBVIOUS
<1>5. /\ IsSeq(q) /\ Shape(q) /\ Settled(q) /\ (Inside(q) <=> After(s[1].pc) = "in")
      /\ Len(q) = Len(s) - 1
      /\ \A i \in 1..Len(q) : q[i] = s[i + 1] /\ i + 1 \in 1..Len(s)
  <2>1. s[1].pc \notin Alone BY <1>3 DEF Alone
  <2>2. IsSeq(s) /\ Shape(s) /\ s # <<>> BY <1>3
  <2> QED BY ONLY <1>4, <2>1, <2>2, PopFacts
<1>6. OwnsOnly(q, c)
  <2>1. 8 \in 1..Len(q) /\ 8 + 1 = 9 BY <1>3, <1>5
  <2>2. q[8].pc = "unlockchan" /\ q[8].x = c BY <1>3, <1>5, <2>1
  <2>3. ASSUME NEW i \in 1..Len(q) PROVE q[i].pc \notin {"lockchan", "setkey"} /\ (q[i].pc = "unlockchan" => i = 8)
    <3>1. q[i] = s[i + 1] /\ i + 1 \in 1..Len(s) /\ i + 1 # 1 /\ (i + 1 = 9 => i = 8) BY <1>5
    <3> QED BY <1>3, <3>1
  <2> QED BY <2>1, <2>2, <2>3 DEF OwnsOnly, Owns
<1>7. KeysOnly(q, NoOne) /\ \A d \in Channels : d = c <=> d = c \/ d = NoOne
  BY <1>5, NoKeys, NamesAssumption
<1>8. Holding(t)
  BY <1>3, HolderFacts
<1>9. Holds(t, c)
  <2>1. \A d : Keying(s, d) <=> d = c BY <1>3 DEF Keying
  <2>2. \A d \in Channels : holder[d] = t <=> d = c BY <1>1, <1>3, <1>8, <2>1 DEF Holding
  <2> QED BY <1>2, <2>2 DEF Holds
<1>10. stack' = [stack EXCEPT ![t] = q]
  BY <1>1, <1>2, <1>4 DEF Continue
<1>11. Locking'
  <2>1. life' = life BY <1>2
  <2> QED BY <1>2, <1>3, <1>6, <1>7, <1>9, <1>10, <2>1, LockingTurn
<1>12. Types'
  BY <1>2, <1>3 DEF IInv, Types, state, ring
<1>13. StateKept(t)
  BY <1>2, StateSame DEF IInv
<1>14. (Inside(q) <=> Inside(stack[t])) /\ stack[t][1].pc \notin Alone /\ (q # <<>> => q[1].pc \notin Alone)
  <2>1. After(s[1].pc) = "out" BY <1>3, Modes
  <2> QED BY <1>1, <1>3, <1>5, <2>1 DEF Settled, Alone
<1> QED BY <1>1, <1>2, <1>3, <1>5, <1>10, <1>11, <1>12, <1>13, <1>14, ChannelTurn

\* An exception leaves the channel of the operation unlocked and goes to the OCaml code, or ends the program.
LEMMA RaiseStep ==
    ASSUME IInv, NEW t \in Names, NEW l \in {"handler", "unlockchan"}, At(t, l), caml_raise(t),
           UNCHANGED <<prog, pos, life, busy, state, ring>>
    PROVE  IInv'
<1>1. PICK s, code : s = stack[t] /\ code = {k \in DOMAIN s : s[k].pc = "ocaml"}
  OBVIOUS
<1>2. /\ IF code = {} THEN over' = "fatal" /\ stack' = stack
         ELSE stack' = [stack EXCEPT ![t] = SubSeq(s, Min(code), Len(s))] /\ over' = over
      /\ lastLocked' = [lastLocked EXCEPT ![t] = NoOne]
      /\ holder' = IF lastLocked[t] = NoOne THEN holder ELSE [holder EXCEPT ![lastLocked[t]] = NoOne]
  BY <1>1 DEF caml_raise
<1>3. /\ over = "no" /\ s # <<>> /\ IsSeq(s) /\ Shape(s) /\ Len(s) \in Nat /\ Len(s) > 0
      /\ life[t] = "alive" /\ Inside(s) /\ s[1].pc = l /\ s[1].pc \notin Alone
  <2>1. l \notin {"wake"} \union Alone /\ l \in Inner BY DEF Inner, Alone
  <2> QED BY <1>1, <2>1, AtFacts
<1>4. /\ \A d \in Channels : holder[d] = t <=> lastLocked[t] = d
      /\ lastLocked[t] \in Channels \union {NoOne} /\ NoOne \notin Channels /\ NoOne \notin Names
      /\ holder \in [Mutexes \union Channels -> Names \union {NoOne}]
      /\ lastLocked \in [Names -> Channels \union {NoOne}]
  <2>1. Holding(t) BY <1>3, HolderFacts
  <2>2. \A d : ~Keying(s, d) BY <1>3 DEF Keying
  <2> QED BY <1>1, <2>1, <2>2 DEF Holding
<1>5. /\ holder' \in [Mutexes \union Channels -> Names \union {NoOne}]
      /\ lastLocked' \in [Names -> Channels \union {NoOne}]
  BY <1>2, <1>4
<1>6. Types'
  BY <1>5 DEF IInv, Types, state, ring
<1>7. StateKept(t)
  BY StateSame DEF IInv
<1>8. CASE code = {}
  <2>1. over' = "fatal" /\ stack' = stack BY <1>2, <1>8
  <2>2. Locking' BY <2>1 DEF Locking
  <2>3. \A u \in Names : stack'[u] = stack[u] BY <2>1
  <2>4. Stacks' /\ Shapes' BY <2>1 DEF IInv, Stacks, Shapes
  <2>5. Lives' BY <2>1 DEF IInv, Lives, state
  <2>6. Owned'
    <3>1. \A u \in Names : Inside(stack'[u]) <=> Inside(stack[u]) BY <2>3
    <3> QED BY <1>7, <3>1, OwnedKept DEF IInv
  <2>7. Ring' BY RingKept DEF IInv
  <2>8. Exclusive' BY <2>3, ExclusiveKept DEF IInv
  <2> QED BY <1>6, <2>2, <2>4, <2>5, <2>6, <2>7, <2>8 DEF IInv
<1>9. CASE code # {}
  <2>1. DOMAIN s = 1..Len(s) BY <1>3 DEF IsSeq
  <2>2. ASSUME NEW k \in code PROVE k = Len(s)
    <3>1. k \in 1..Len(s) /\ s[k].pc = "ocaml" BY <1>1, <2>1
    <3>2. PointOK(s, k) BY <1>3, <3>1 DEF Shape
    <3>3. After(s[k].pc) = "end" BY <3>1, Modes
    <3>4. ~(k < Len(s)) BY <3>2, <3>3 DEF PointOK, Before
    <3> QED BY <1>3, <3>1, <3>4
  <2>3. PICK n : n = Len(s) OBVIOUS
  <2>4. code = {n} /\ s[n].pc = "ocaml" /\ n \in Nat /\ n > 0 BY <1>1, <1>3, <1>9, <2>2, <2>3
  <2>5. Min(code) = n BY <2>4 DEF Min
  <2>6. PICK q : q = SubSeq(s, n, n) OBVIOUS
  <2>7. stack' = [stack EXCEPT ![t] = q] BY <1>2, <1>9, <2>3, <2>5, <2>6
  <2>8. IsSeq(q) /\ Len(q) = 1 /\ q[1].pc = "ocaml"
    <3>1. PICK A : s \in Seq(A) BY <1>3 DEF IsSeq
    <3>2. q \in Seq(A) /\ Len(q) = 1 /\ q[1] = s[n] BY <2>3, <2>4, <2>6, <3>1
    <3> QED BY <2>4, <3>2 DEF IsSeq
  <2>9. Shape(q)
    <3>1. PointOK(q, 1) BY <2>8, Modes DEF PointOK, Inner, Alone
    <3>2. \A k \in 1..Len(q) : k = 1 BY <2>8
    <3> QED BY <3>1, <3>2 DEF Shape
  <2>10. Inside(q)
    <3>0. Len(<<>>) = 0 OBVIOUS
    <3>1. q # <<>> BY <2>8, <3>0
    <3> QED BY <2>8, <3>1 DEF Inside, Inner
  <2>11. OwnsOnly(q, NoOne) /\ KeysOnly(q, NoOne)
    <3>1. \A c : Apart(q, c) BY <2>8, <2>9, NoneOwned
    <3> QED BY <1>4, <3>1 DEF OwnsOnly, KeysOnly, Apart
  <2>12. Holds(t, NoOne) BY <1>2, <1>4 DEF Holds
  <2>13. Locking'
    <3>1. life' = life /\ NoOne \in Channels \union {NoOne} OBVIOUS
    <3> QED BY <1>2, <1>3, <2>7, <2>11, <2>12, <3>1, LockingTurn
  <2>14. q[1].pc \notin Alone BY <2>8 DEF Alone
  <2> QED BY <1>1, <1>3, <1>6, <1>7, <2>7, <2>8, <2>9, <2>10, <2>13, <2>14, ChannelTurn
<1> QED BY <1>8, <1>9

LEMMA HandlerStep ==
    ASSUME IInv, NEW t \in Names, Handler(t)
    PROVE  IInv'
<1>1. At(t, "handler") /\ UNCHANGED <<prog, pos, life, busy, state, ring>>
  BY DEF Handler, lockvars
<1>2. CASE caml_raise(t)
  BY <1>1, <1>2, RaiseStep
<1>3. CASE ~caml_raise(t)
  <2>1. PICK fs : fs = (IF Top(t).x = Preempt THEN <<F("yield")>> ELSE <<>>) \o <<Frame("handled", Top(t).x, Top(t).set)>>
    OBVIOUS
  <2>2. Continue(t, fs) /\ Passive
    BY <1>1, <1>3, <2>1 DEF Handler, Passive
  <2>3. Piece(fs, Before("handler"), After("handler"))
    <3>1. fs = <<F("yield")>> \o <<Frame("handled", Top(t).x, Top(t).set)>> \/ fs = <<>> \o <<Frame("handled", Top(t).x, Top(t).set)>>
      BY <2>1
    <3> QED BY <3>1, RuntimeCode, Modes, ZenonT(40)
  <2> QED BY <1>1, <2>2, <2>3, PlainStep
<1> QED BY <1>2, <1>3

LEMMA ChannelUnlockStep ==
    ASSUME IInv, NEW t \in Names, caml_io_mutex_unlock(t)
    PROVE  IInv'
<1>1. PICK s, c : s = stack[t] /\ c = Top(t).x
  OBVIOUS
<1>2. /\ At(t, "unlockchan") /\ UNCHANGED <<prog, pos, life, busy, state, ring>>
      /\ \/ /\ holder' = [holder EXCEPT ![c] = NoOne] /\ lastLocked' = [lastLocked EXCEPT ![t] = NoOne]
            /\ Continue(t, <<>>) /\ over' = over
         \/ caml_raise(t)
  BY <1>1 DEF caml_io_mutex_unlock, lockvars
<1>3. CASE caml_raise(t)
  BY <1>2, <1>3, RaiseStep
<1>4. CASE /\ holder' = [holder EXCEPT ![c] = NoOne] /\ lastLocked' = [lastLocked EXCEPT ![t] = NoOne]
           /\ Continue(t, <<>>) /\ over' = over
  <2>1. /\ over = "no" /\ s # <<>> /\ s[1].pc = "unlockchan" /\ IsSeq(s) /\ Shape(s) /\ Len(s) \in Nat /\ Len(s) > 0
        /\ life[t] = "alive" /\ Inside(s) /\ s[1].pc \notin Alone
    <3>1. "unlockchan" \notin {"wake"} \union Alone /\ "unlockchan" \in Inner BY DEF Inner, Alone
    <3> QED BY <1>1, <1>2, <3>1, AtFacts
  <2>2. PICK q : q = <<>> \o Tail(s)
    OBVIOUS
  <2>3. IsSeq(q) /\ Shape(q) /\ Settled(q) /\ (Inside(q) <=> After(s[1].pc) = "in") /\ Len(q) = Len(s) - 1
    BY <2>1, <2>2, PopFacts
  <2>4. PointOK(s, 1)
    BY <2>1 DEF Shape
  <2>5. 1 = Len(s) - 1 /\ c \in Channels
    BY <1>1, <2>1, <2>4 DEF PointOK, Top
  <2>6. Len(q) = 1
    BY <2>3, <2>5
  <2>7. Holding(t)
    BY <2>1, HolderFacts
  <2>8. OwnsOnly(q, NoOne) /\ KeysOnly(q, NoOne)
    <3>1. \A d : Apart(q, d) BY <2>3, <2>6, NoneOwned
    <3> QED BY <2>7, <3>1 DEF OwnsOnly, KeysOnly, Apart, Holding
  <2>9. \A d : (Owns(s, d) <=> d = c) /\ ~Keying(s, d)
    <3>1. \A k \in 1..Len(s) : (s[k].pc = "unlockchan" => k = 1) /\ s[k].pc \notin {"lockchan", "setkey"}
      <4>2. PICK m : m = Len(s) OBVIOUS
      <4>3. m \in Nat /\ 1 = m - 1 BY <2>1, <2>5, <4>2
      <4>4. \A k \in 1..m : k # m - 9 BY ONLY <4>3
      <4>1. \A k \in 1..Len(s) : k # Len(s) - 9 BY <4>2, <4>4
      <4> QED BY <2>1, <2>5, <4>1 DEF Shape, PointOK
    <3>2. s[1].x = c /\ 1 \in 1..Len(s) BY <1>1, <2>1 DEF Top
    <3> QED BY <2>1, <3>1, <3>2 DEF Owns, Keying
  <2>10. Holds(t, NoOne)
    <3>1. \A d \in Channels : holder[d] = t <=> d = c BY <1>1, <2>7, <2>9 DEF Holding
    <3> QED BY <1>4, <2>5, <2>7, <3>1 DEF Holds, Holding
  <2>11. stack' = [stack EXCEPT ![t] = q]
    BY <1>1, <1>4, <2>2 DEF Continue
  <2>12. Locking'
    <3>1. life' = life /\ NoOne \in Channels \union {NoOne} BY <1>2
    <3> QED BY <1>4, <2>1, <2>8, <2>10, <2>11, <3>1, LockingTurn
  <2>13. Types'
    BY <1>2, <1>4, <2>5 DEF IInv, Types, state, ring
  <2>14. StateKept(t)
    BY <1>2, StateSame DEF IInv
  <2>15. Inside(q) <=> Inside(stack[t])
    <3>1. After(s[1].pc) = "in" BY <2>1, Modes
    <3> QED BY <1>1, <2>1, <2>3, <3>1
  <2>16. q # <<>> => q[1].pc \notin Alone BY <2>3 DEF Settled
  <2> QED BY <1>1, <1>2, <2>1, <2>3, <2>11, <2>12, <2>13, <2>14, <2>15, <2>16, ChannelTurn
<1> QED BY <1>2, <1>3, <1>4

-----------------------------------------------------------------------------
(* The ring *)

LEMMA RingSingle ==
    ASSUME NEW t, NEW n, NEW p, n[t] = t, p[t] = t
    PROVE  RingOf({t}, n, p)
<1>1. \A S \in SUBSET {t} : S # {} => S = {t}
  OBVIOUS
<1> QED BY <1>1 DEF RingOf

\* u goes in between a and b.
LEMMA RingInsert ==
    ASSUME NEW L, NEW n, NEW p, RingOf(L, n, p), NEW a \in L, NEW b, b = n[a], NEW u, u \notin L, NEW m, NEW r,
           m[u] = b, m[a] = u, \A v \in L \ {a} : m[v] = n[v],
           r[u] = a, r[b] = u, \A v \in L \ {b} : r[v] = p[v]
    PROVE  RingOf(L \union {u}, m, r)
<1>1. \A v \in L : n[v] \in L /\ p[v] \in L /\ p[n[v]] = v /\ n[p[v]] = v
  BY DEF RingOf
<1>2. b \in L /\ p[b] = a
  BY <1>1
<1>3. ASSUME NEW v \in L \union {u} PROVE m[v] \in L \union {u} /\ r[m[v]] = v
  <2>1. CASE v = u BY <1>2, <2>1
  <2>2. CASE v = a BY <2>2
  <2>3. CASE v \in L \ {a}
    <3>1. n[v] \in L \ {b} BY <1>1, <1>2, <2>3
    <3> QED BY <1>1, <2>3, <3>1
  <2> QED BY <2>1, <2>2, <2>3
<1>4. ASSUME NEW v \in L \union {u} PROVE r[v] \in L \union {u} /\ m[r[v]] = v
  <2>1. CASE v = u BY <2>1
  <2>2. CASE v = b BY <2>2
  <2>3. CASE v \in L \ {b}
    <3>1. p[v] \in L \ {a} BY <1>1, <1>2, <2>3
    <3> QED BY <1>1, <2>3, <3>1
  <2> QED BY <2>1, <2>2, <2>3
<1>5. ASSUME NEW S \in SUBSET (L \union {u}), S # {}, \A v \in S : m[v] \in S PROVE S = L \union {u}
  <2>1. PICK T : T = S \ {u} OBVIOUS
  <2>2. T \in SUBSET L BY <2>1
  <2>3. T # {}
    <3>1. CASE T = {}
      <4>1. u \in S BY <1>5, <2>1, <3>1
      <4>2. b \in S BY <1>5, <4>1
      <4> QED BY <1>2, <2>1, <3>1, <4>2
    <3> QED BY <3>1
  <2>4. ASSUME NEW v \in T PROVE n[v] \in T
    <3>1. CASE v = a
      <4>1. u \in S BY <1>5, <2>1, <3>1
      <4>2. b \in S BY <1>5, <4>1
      <4> QED BY <1>2, <2>1, <3>1, <4>2
    <3>2. CASE v # a
      <4>1. m[v] = n[v] /\ m[v] \in S BY <1>5, <2>1, <2>2, <3>2
      <4>2. n[v] # u BY <1>1, <2>2
      <4> QED BY <2>1, <4>1, <4>2
    <3> QED BY <3>1, <3>2
  <2>5. T = L BY <2>2, <2>3, <2>4 DEF RingOf
  <2>6. u \in S
    <3>1. a \in S BY <2>1, <2>5
    <3> QED BY <1>5, <3>1
  <2> QED BY <2>1, <2>5, <2>6
<1> QED BY <1>3, <1>4, <1>5 DEF RingOf

\* t, between a and b, is taken out.
Bypass(L, t, a, b, n, p, m, r) ==
    /\ \A v \in L \ {t} : m[v] = IF v = a THEN b ELSE n[v]
    /\ \A v \in L \ {t} : r[v] = IF v = b THEN a ELSE p[v]

LEMMA RingRemove ==
    ASSUME NEW L, NEW n, NEW p, RingOf(L, n, p), NEW t \in L, NEW a, a = p[t], NEW b, b = n[t], NEW m, NEW r,
           Bypass(L, t, a, b, n, p, m, r)
    PROVE  RingOf(L \ {t}, m, r) /\ (b = t => L = {t})
<1>0. /\ \A v \in L \ {t} : m[v] = IF v = a THEN b ELSE n[v]
      /\ \A v \in L \ {t} : r[v] = IF v = b THEN a ELSE p[v]
  BY DEF Bypass
<1>1. \A v \in L : n[v] \in L /\ p[v] \in L /\ p[n[v]] = v /\ n[p[v]] = v
  BY DEF RingOf
<1>2. a \in L /\ b \in L /\ n[a] = t /\ p[b] = t
  BY <1>1
<1>3. b = t => L = {t}
  <2>1. b = t => {t} \in SUBSET L /\ {t} # {} /\ \A v \in {t} : n[v] \in {t} OBVIOUS
  <2> QED BY <2>1 DEF RingOf
<1>4. CASE b = t
  <2>1. L \ {t} = {} BY <1>3, <1>4
  <2>2. RingOf({}, m, r) BY DEF RingOf
  <2> QED BY <1>2, <1>3, <2>1, <2>2
<1>5. CASE b # t
  <2>0. a # t
    <3>1. a = t => n[t] = t BY <1>2
    <3> QED BY <1>5, <3>1
  <2>1. ASSUME NEW v \in L \ {t} PROVE m[v] \in L \ {t} /\ r[m[v]] = v
    <3>1. CASE v = a BY <1>0, <1>2, <1>5, <3>1
    <3>2. CASE v # a
      <4>1. m[v] = n[v] /\ n[v] \in L BY <1>0, <1>1, <3>2
      <4>2. n[v] # t BY <1>1, <3>2
      <4>3. n[v] # b BY <1>1, <1>2
      <4>4. r[n[v]] = p[n[v]] BY <1>0, <4>1, <4>2, <4>3
      <4> QED BY <1>1, <4>1, <4>2, <4>4
    <3> QED BY <3>1, <3>2
  <2>2. ASSUME NEW v \in L \ {t} PROVE r[v] \in L \ {t} /\ m[r[v]] = v
    <3>1. CASE v = b BY <1>0, <1>2, <2>0, <3>1
    <3>2. CASE v # b
      <4>1. r[v] = p[v] /\ p[v] \in L BY <1>0, <1>1, <3>2
      <4>2. p[v] # t BY <1>1, <3>2
      <4>3. p[v] # a BY <1>1, <1>2
      <4>4. m[p[v]] = n[p[v]] BY <1>0, <4>1, <4>2, <4>3
      <4> QED BY <1>1, <4>1, <4>2, <4>4
    <3> QED BY <3>1, <3>2
  <2>3. ASSUME NEW S \in SUBSET (L \ {t}), S # {}, \A v \in S : m[v] \in S PROVE S = L \ {t}
    <3>1. PICK T : T = IF a \in S THEN S \union {t} ELSE S OBVIOUS
    <3>2. T \in SUBSET L /\ T # {} BY <2>3, <3>1
    <3>3. ASSUME NEW v \in T PROVE n[v] \in T
      <4>1. CASE v = t
        <5>1. a \in S BY <2>3, <3>1, <4>1
        <5>2. m[a] = b /\ m[a] \in S BY <1>0, <1>2, <2>0, <2>3, <5>1
        <5> QED BY <3>1, <4>1, <5>2
      <4>2. CASE v = a /\ v # t
        <5>1. a \in S BY <3>1, <4>2
        <5> QED BY <1>2, <3>1, <4>2, <5>1
      <4>3. CASE v # a /\ v # t
        <5>1. v \in S BY <3>1, <4>3
        <5>2. m[v] = n[v] /\ m[v] \in S BY <1>0, <2>3, <4>3, <5>1
        <5> QED BY <3>1, <5>2
      <4> QED BY <4>1, <4>2, <4>3
    <3>4. T = L BY <3>2, <3>3 DEF RingOf
    <3> QED BY <2>3, <3>1, <3>4
  <2>4. RingOf(L \ {t}, m, r) BY <2>1, <2>2, <2>3 DEF RingOf
  <2> QED BY <1>2, <1>3, <2>4
<1> QED BY <1>4, <1>5

\* caml_thread_new_info and the registration of a thread of C.
LEMMA LinkFacts ==
    ASSUME IInv, NEW a \in Linked, NEW u \in Names \ Linked, Link(u, a)
    PROVE  /\ RingOf(Linked \union {u}, nxt', prv')
           /\ nxt' \in [Names -> Names \union {NoOne}] /\ prv' \in [Names -> Names \union {NoOne}]
<1>1. nxt \in [Names -> Names \union {NoOne}] /\ prv \in [Names -> Names \union {NoOne}] /\ RingOf(Linked, nxt, prv)
  BY DEF IInv, Types, Ring
<1>2. Linked \subseteq Names
  BY DEF Linked
<1>3. PICK b : b = nxt[a]
  OBVIOUS
<1>4. b \in Linked
  BY <1>1, <1>3 DEF RingOf
<1>5. u # a /\ u # b /\ a \in Names /\ b \in Names
  BY <1>2, <1>4
<1>6. /\ nxt' = [nxt EXCEPT ![u] = b, ![a] = u]
      /\ prv' = IF b = a THEN [prv EXCEPT ![u] = a, ![a] = u] ELSE [prv EXCEPT ![u] = a, ![b] = u]
  BY <1>3 DEF Link
<1>7. /\ nxt' \in [Names -> Names \union {NoOne}] /\ nxt'[u] = b /\ nxt'[a] = u
      /\ \A v \in Linked \ {a} : nxt'[v] = nxt[v]
  BY <1>1, <1>2, <1>5, <1>6
<1>8. /\ prv' \in [Names -> Names \union {NoOne}] /\ prv'[u] = a /\ prv'[b] = u
      /\ \A v \in Linked \ {b} : prv'[v] = prv[v]
  <2>1. CASE b = a BY <1>1, <1>2, <1>5, <1>6, <2>1
  <2>2. CASE b # a BY <1>1, <1>2, <1>5, <1>6, <2>2
  <2> QED BY <2>1, <2>2
<1>9. RingOf(Linked \union {u}, nxt', prv')
  <2>1. PICK L, m, r : L = Linked /\ m = nxt' /\ r = prv' OBVIOUS
  <2>2. RingOf(L \union {u}, m, r) BY <1>1, <1>3, <1>7, <1>8, <2>1, RingInsert
  <2> QED BY <2>1, <2>2
<1> QED BY <1>7, <1>8, <1>9

\* caml_thread_remove_info, at the end of a thread and when C code unregisters it.
LEMMA RemoveFacts ==
    ASSUME IInv, NEW t \in Linked, caml_thread_remove_info(t)
    PROVE  /\ RingOf(Linked \ {t}, nxt', prv')
           /\ nxt' \in [Names -> Names \union {NoOne}] /\ prv' \in [Names -> Names \union {NoOne}]
           /\ all_threads' \in Names \union {NoOne}
           /\ all_threads' \in Linked \ {t} \/ (all_threads' = NoOne /\ Linked \ {t} = {})
<1>1. nxt \in [Names -> Names \union {NoOne}] /\ prv \in [Names -> Names \union {NoOne}] /\ RingOf(Linked, nxt, prv)
  BY DEF IInv, Types, Ring
<1>2. Linked \subseteq Names
  BY DEF Linked
<1>3. PICK a, b : a = prv[t] /\ b = nxt[t]
  OBVIOUS
<1>4. a \in Linked /\ b \in Linked /\ t \in Names
  BY <1>1, <1>2, <1>3 DEF RingOf
<1>5. /\ prv' = [[prv EXCEPT ![b] = a] EXCEPT ![t] = NoOne] /\ nxt' = [[nxt EXCEPT ![a] = b] EXCEPT ![t] = NoOne]
      /\ all_threads' = IF b = t THEN NoOne ELSE IF all_threads = t THEN b ELSE all_threads
  BY <1>3 DEF caml_thread_remove_info
<1>6. PICK g, h : g = [prv EXCEPT ![b] = a] /\ h = [nxt EXCEPT ![a] = b]
  OBVIOUS
<1>7. /\ g \in [Names -> Names \union {NoOne}] /\ \A v \in Names : g[v] = IF v = b THEN a ELSE prv[v]
      /\ h \in [Names -> Names \union {NoOne}] /\ \A v \in Names : h[v] = IF v = a THEN b ELSE nxt[v]
  BY <1>1, <1>2, <1>4, <1>6
<1>8. /\ prv' \in [Names -> Names \union {NoOne}] /\ \A v \in Names \ {t} : prv'[v] = g[v]
      /\ nxt' \in [Names -> Names \union {NoOne}] /\ \A v \in Names \ {t} : nxt'[v] = h[v]
  BY <1>4, <1>5, <1>6, <1>7
<1>9. /\ \A v \in Linked \ {t} : nxt'[v] = IF v = a THEN b ELSE nxt[v]
      /\ \A v \in Linked \ {t} : prv'[v] = IF v = b THEN a ELSE prv[v]
  BY <1>2, <1>7, <1>8
<1>10. RingOf(Linked \ {t}, nxt', prv') /\ (b = t => Linked = {t})
  <2>1. PICK L, m, r : L = Linked /\ m = nxt' /\ r = prv' OBVIOUS
  <2>2. Bypass(L, t, a, b, nxt, prv, m, r) BY <1>9, <2>1 DEF Bypass
  <2>3. RingOf(L, nxt, prv) /\ t \in L BY <1>1, <2>1
  <2>4. RingOf(L \ {t}, m, r) /\ (b = t => L = {t}) BY ONLY <1>3, <2>2, <2>3, RingRemove
  <2> QED BY <2>1, <2>4
<1>11. all_threads \in Linked
  BY DEF IInv, Ring
<1>12. all_threads' \in Linked \ {t} \/ (all_threads' = NoOne /\ Linked \ {t} = {})
  BY <1>4, <1>5, <1>10, <1>11
<1> QED BY <1>2, <1>8, <1>10, <1>12

-----------------------------------------------------------------------------
(* Threads start, end, register and unregister *)

\* A piece on its own.
LEMMA PieceShape ==
    ASSUME NEW fs, NEW a, NEW b \in {"out", "end"}, Piece(fs, a, b)
    PROVE  IsSeq(fs) /\ Shape(fs) /\ fs # <<>> /\ (Inside(fs) <=> a = "in") /\ Settled(fs) /\ \A c : Apart(fs, c)
<1>1. /\ IsSeq(fs)
      /\ Len(fs) > 0 /\ Before(fs[1].pc) = a /\ After(fs[Len(fs)].pc) = b
      /\ \A k \in 1..Len(fs) : Free(fs, k)
      /\ \A k \in 1..(Len(fs) - 1) : After(fs[k].pc) = Before(fs[k + 1].pc)
  BY DEF Piece
<1>2. Len(fs) \in Nat
  BY <1>1 DEF IsSeq
<1>3. ASSUME NEW k \in 1..Len(fs) PROVE PointOK(fs, k)
  <2>1. Free(fs, k) BY <1>1
  <2>2. fs[k].pc \in Inner \union Outer /\ fs[k].pc \notin {"unlockchan", "lockchan", "setkey", "take", "doze"} \union Alone
    BY <2>1 DEF Free, Plain, Special, Outer, Alone
  <2>3. k < Len(fs) => k \in 1..(Len(fs) - 1) BY <1>2
  <2>4. k < Len(fs) => After(fs[k].pc) = Before(fs[k + 1].pc) BY <1>1, <2>3
  <2>5. k = Len(fs) => After(fs[k].pc) \in {"out", "end"} BY <1>1
  <2>6. (fs[k].pc = "lock" => fs[k].x \in Mutexes) /\ (fs[k].pc = "wait" => k < Len(fs) /\ fs[k + 1].pc = "lock")
    BY <2>1 DEF Free
  <2> QED BY <2>2, <2>4, <2>5, <2>6 DEF PointOK
<1>4. fs # <<>>
  <2>1. Len(<<>>) = 0 OBVIOUS
  <2> QED BY <1>1, <2>1
<1>5. Inside(fs) <=> a = "in"
  BY <1>1, <1>4 DEF Inside, Before
<1>6. \A k \in 1..Len(fs) : fs[k].pc \notin {"unlockchan", "setkey"} \union Alone
  BY <1>1 DEF Free, Plain, Special, Alone
<1>7. fs[1].pc \notin {"unlockchan", "setkey"} \union Alone
  BY <1>1, <1>2, <1>6
<1>8. Settled(fs) /\ \A c : Apart(fs, c)
  BY <1>6, <1>7 DEF Settled, Apart, Owns, Keying
<1> QED BY <1>1, <1>3, <1>4, <1>5, <1>8 DEF Shape

LEMMA OnlyFrame ==
    ASSUME NEW s, IsSeq(s), Len(s) = 1, NEW fs, IsSeq(fs)
    PROVE  fs \o Tail(s) = fs
<1>1. PICK A, B : s \in Seq(A) /\ fs \in Seq(B)
  BY DEF IsSeq
<1>2. PICK r : r = Tail(s)
  OBVIOUS
<1>3. r \in Seq(A) /\ Len(r) = 0
  BY <1>1, <1>2
<1>4. r = <<>>
  BY <1>3
<1>5. fs \o <<>> = fs
  BY <1>1
<1> QED BY <1>2, <1>4, <1>5

LEMMA EmptyStack ==
    IsSeq(<<>>) /\ Shape(<<>>) /\ ~Inside(<<>>) /\ ~Linking(<<>>) /\ \A c : Apart(<<>>, c)
<1>1. <<>> \in Seq({}) /\ Len(<<>>) = 0
  OBVIOUS
<1>2. \A k \in 1..Len(<<>>) : FALSE
  BY <1>1
<1>3. IsSeq(<<>>)
  BY <1>1 DEF IsSeq
<1>4. Shape(<<>>)
  BY <1>2 DEF Shape
<1>5. ~Inside(<<>>) /\ ~Linking(<<>>)
  BY DEF Inside, Linking
<1>6. \A c : Apart(<<>>, c)
  BY <1>2 DEF Apart, Owns, Keying
<1> QED BY <1>3, <1>4, <1>5, <1>6

\* Lives of threads change, but not those that hold channels.
LEMMA LockingLives ==
    ASSUME IInv, over = "no", lastLocked' = lastLocked, \A c \in Channels : holder'[c] = holder[c],
           \A u \in Names : life'[u] # "dead" => life[u] # "dead" /\ \A c \in Channels : Alike(stack'[u], stack[u], c),
           \A u \in Names : \A c \in Channels : holder[c] = u /\ life[u] = "alive" => life'[u] = "alive"
    PROVE  Locking'
<1>1. /\ \A t \in Names : life[t] # "dead" => \A c \in Channels : lastLocked[t] = c <=> Owns(stack[t], c)
      /\ \A c \in Channels : holder[c] # NoOne =>
           life[holder[c]] = "alive" /\ (lastLocked[holder[c]] = c \/ Keying(stack[holder[c]], c))
      /\ \A t \in Names : life[t] # "dead" => \A c \in Channels :
           lastLocked[t] = c \/ Keying(stack[t], c) => holder[c] = t
  BY DEF IInv, Locking
<1>2. \A c \in Channels : holder[c] \in Names \union {NoOne}
  BY DEF IInv, Types
<1>3. \A t \in Names : life'[t] # "dead" => \A c \in Channels : lastLocked'[t] = c <=> Owns(stack'[t], c)
  BY <1>1 DEF Alike
<1>4. ASSUME NEW c \in Channels, holder'[c] # NoOne
      PROVE  life'[holder'[c]] = "alive" /\ (lastLocked'[holder'[c]] = c \/ Keying(stack'[holder'[c]], c))
  <2>1. PICK h : h = holder[c] OBVIOUS
  <2>2. holder'[c] = h /\ h \in Names BY <1>2, <1>4, <2>1
  <2>3. life[h] = "alive" /\ (lastLocked[h] = c \/ Keying(stack[h], c)) BY <1>1, <1>4, <2>1, <2>2
  <2>4. life'[h] = "alive" BY <2>1, <2>2, <2>3
  <2>5. Alike(stack'[h], stack[h], c) BY <2>2, <2>4
  <2> QED BY <2>2, <2>3, <2>4, <2>5 DEF Alike
<1>5. \A t \in Names : life'[t] # "dead" => \A c \in Channels :
        lastLocked'[t] = c \/ Keying(stack'[t], c) => holder'[c] = t
  BY <1>1 DEF Alike
<1> QED BY <1>3, <1>4, <1>5 DEF Locking

\* A thread of C outside of the runtime starts, waits for the lock, or has it for the ring.
LEMMA AloneTurn ==
    ASSUME IInv, over = "no", NEW t \in Names, NEW q, stack' = [stack EXCEPT ![t] = q],
           IsSeq(q), Shape(q), ~Inside(q), ~Inside(stack[t]), \A c : Apart(q, c) /\ Apart(stack[t], c),
           Living(life[t], q, mine[t], t), Types', UNCHANGED <<life, state, ring, holder, lastLocked>>,
           \/ busy' = busy /\ ~Linking(q) /\ ~Linking(stack[t])
           \/ ~busy /\ busy'
    PROVE  IInv'
<1>1. stack' = [u \in Names |-> stack'[u]] /\ stack'[t] = q /\ \A u \in Names \ {t} : stack'[u] = stack[u]
  BY TurnFacts DEF IInv
<1>2. curr' = curr /\ cs' = cs /\ saved' = saved /\ mine' = mine /\ life' = life
  BY DEF state
<1>3. Stacks' /\ Shapes'
  <2>1. \A u \in Names : IsSeq(stack'[u]) /\ Shape(stack'[u]) BY <1>1 DEF IInv, Stacks, Shapes
  <2> QED BY <1>1, <2>1 DEF Stacks, Shapes
<1>4. Lives'
  BY <1>2, LivesTurn DEF IInv
<1>5. \A u \in Names : Inside(stack'[u]) <=> Inside(stack[u])
  BY <1>1
<1>6. Owned'
  BY <1>2, <1>5 DEF IInv, Owned
<1>7. Ring'
  BY RingKept DEF IInv
<1>8. Locking'
  <2>1. \A u \in Names : \A c \in Channels : Alike(stack'[u], stack[u], c) BY <1>1 DEF Alike, Apart
  <2>2. holder \in [Mutexes \union Channels -> Names \union {NoOne}] BY DEF IInv, Types
  <2> QED BY <2>1, <2>2, LockingKept DEF IInv
<1>9. Exclusive'
  <2>1. CASE busy' = busy /\ ~Linking(q) /\ ~Linking(stack[t])
    <3>1. \A u \in Names : Linking(stack'[u]) <=> Linking(stack[u]) BY <1>1, <2>1
    <3> QED BY <1>5, <2>1, <3>1, ExclusiveKept DEF IInv
  <2>2. CASE ~busy /\ busy'
    <3>1. \A u \in Names : ~Inside(stack[u]) /\ ~Linking(stack[u]) BY <2>2 DEF IInv, Owned, Exclusive
    <3>2. \A u \in Names \ {t} : ~Inside(stack'[u]) /\ ~Linking(stack'[u]) BY <1>1, <3>1
    <3> QED BY <2>2, <3>2 DEF Exclusive
  <2> QED BY <2>1, <2>2
<1> QED BY <1>3, <1>4, <1>6, <1>7, <1>8, <1>9 DEF IInv

LEMMA AloneFrame ==
    ASSUME NEW l \in Alone, NEW x, NEW q, q = <<On(l, x)>>, l \in {"take", "doze"} => x \in {"link", "unlink"}
    PROVE  /\ IsSeq(q) /\ Shape(q) /\ ~Inside(q) /\ (\A c : Apart(q, c)) /\ Len(q) = 1 /\ q # <<>>
           /\ q[1].pc = l /\ q[1].x = x
<1>1. PICK f : f = On(l, x)
  OBVIOUS
<1>2. q \in Seq({f}) /\ Len(q) = 1 /\ q[1] = f /\ q # <<>>
  BY <1>1
<1>3. q[1].pc = l /\ q[1].x = x
  BY <1>1, <1>2 DEF On, Frame
<1>4. After(l) = "out" /\ l \in Outer
  BY Modes DEF Outer
<1>5. l \notin Inner /\ l \notin {"unlockchan", "lockchan", "setkey", "lock", "wait"}
  BY DEF Inner, Alone
<1>6. PointOK(q, 1)
  BY <1>2, <1>3, <1>4, <1>5 DEF PointOK
<1>7. \A k \in 1..Len(q) : k = 1
  BY <1>2
<1>8. IsSeq(q) /\ Shape(q)
  BY <1>2, <1>6, <1>7 DEF Shape, IsSeq
<1>9. ~Inside(q)
  BY <1>3, <1>5 DEF Inside
<1>10. \A c : Apart(q, c)
  BY <1>2, <1>8, NoneOwned
<1> QED BY <1>2, <1>3, <1>8, <1>9, <1>10

\* Where such a thread is.
LEMMA AloneFacts ==
    ASSUME IInv, NEW t \in Names, NEW l \in Alone, At(t, l), NEW s, s = stack[t]
    PROVE  /\ over = "no" /\ s # <<>> /\ IsSeq(s) /\ Shape(s) /\ Len(s) = 1 /\ s[1].pc = l
           /\ ~Inside(s) /\ (\A c : Apart(s, c)) /\ life[t] \notin {"dead", "none"}
           /\ life[t] \in {"outside", "alive"} /\ Living(life[t], s, mine[t], t)
           /\ l \in {"take", "doze"} => s[1].x \in {"link", "unlink"}
           /\ Aim(s) = IF l \in {"take", "doze"} THEN s[1].x ELSE l
<1>1. /\ over = "no" /\ s # <<>> /\ s[1].pc = l /\ IsSeq(s) /\ Shape(s) /\ Len(s) = 1 /\ (Inside(s) <=> l \in Inner)
  BY AtFacts
<1>2. ~Inside(s)
  BY <1>1 DEF Inner, Alone
<1>3. \A c : Apart(s, c)
  BY <1>1, NoneOwned
<1>4. Living(life[t], s, mine[t], t) /\ life[t] \in {"none", "alive", "outside", "dead"}
  BY DEF IInv, Lives, Types
<1>5. l # "wake"
  BY DEF Alone
<1>6. life[t] \notin {"dead", "none"} /\ life[t] \in {"outside", "alive"}
  BY <1>1, <1>4, <1>5 DEF Living
<1>7. PointOK(s, 1)
  BY <1>1 DEF Shape
<1>8. l \in {"take", "doze"} => s[1].x \in {"link", "unlink"}
  BY <1>1, <1>7 DEF PointOK
<1>9. Aim(s) = IF l \in {"take", "doze"} THEN s[1].x ELSE l
  BY <1>1 DEF Aim
<1> QED BY <1>1, <1>2, <1>3, <1>4, <1>6, <1>8, <1>9

\* The current function of a thread of C goes on as one frame on its own, or returns.
LEMMA AloneStep ==
    ASSUME IInv, NEW t \in Names, NEW l \in Alone, At(t, l), NEW m \in Alone, NEW x,
           m \in {"take", "doze"} => x \in {"link", "unlink"}, NEW fs, Continue(t, fs),
           \/ fs = <<>>
           \/ fs = <<On(m, x)>> /\ Aim(fs) \in {Aim(stack[t])} \union (IF life[t] = "alive" THEN {"unlink"} ELSE {"link"}),
           UNCHANGED <<prog, pos, life, state, ring, holder, lastLocked>>,
           \/ busy' = busy /\ {l, m} \intersect {"link", "unlink"} = {}
           \/ ~busy /\ busy' = TRUE
    PROVE  IInv'
<1>1. PICK s : s = stack[t]
  OBVIOUS
<1>2. /\ over = "no" /\ s # <<>> /\ IsSeq(s) /\ Shape(s) /\ Len(s) = 1 /\ s[1].pc = l
      /\ ~Inside(s) /\ (\A c : Apart(s, c)) /\ life[t] \notin {"dead", "none"}
      /\ life[t] \in {"outside", "alive"} /\ Living(life[t], s, mine[t], t)
  BY <1>1, AloneFacts
<1>3. /\ IsSeq(fs) /\ Shape(fs) /\ ~Inside(fs) /\ (\A c : Apart(fs, c)) /\ Living(life[t], fs, mine[t], t)
      /\ Linking(fs) => m \in {"link", "unlink"}
  <2>1. CASE fs = <<>>
    <3>1. Living(life[t], <<>>, mine[t], t) BY <1>2, LivingFacts
    <3> QED BY <2>1, <3>1, EmptyStack
  <2>2. CASE fs = <<On(m, x)>> /\ Aim(fs) \in {Aim(stack[t])} \union (IF life[t] = "alive" THEN {"unlink"} ELSE {"link"})
    <3>1. /\ IsSeq(fs) /\ Shape(fs) /\ ~Inside(fs) /\ (\A c : Apart(fs, c)) /\ Len(fs) = 1 /\ fs # <<>>
          /\ fs[1].pc = m /\ fs[1].x = x
      BY <2>2, AloneFrame
    <3>2. (Aim(fs) = "link" => life[t] # "alive") /\ (Aim(fs) = "unlink" => life[t] = "alive")
      BY <1>1, <1>2, <2>2 DEF Living
    <3>3. Living(life[t], fs, mine[t], t) BY <1>2, <3>1, <3>2 DEF Living
    <3>4. Linking(fs) => m \in {"link", "unlink"} BY <3>1 DEF Linking
    <3> QED BY <3>1, <3>3, <3>4
  <2> QED BY <2>1, <2>2
<1>4. stack' = [stack EXCEPT ![t] = fs]
  <2>1. fs \o Tail(s) = fs BY <1>2, <1>3, OnlyFrame
  <2> QED BY <1>1, <2>1 DEF Continue
<1>5. Linking(s) => l \in {"link", "unlink"}
  BY <1>2 DEF Linking
<1>6. Types'
  BY DEF IInv, Types, state, ring
<1>7. \/ busy' = busy /\ ~Linking(fs) /\ ~Linking(s)
      \/ ~busy /\ busy'
  BY <1>3, <1>5
<1> QED BY <1>1, <1>2, <1>3, <1>4, <1>6, <1>7, AloneTurn

\* A thread of C that registers or unregisters wants the lock for the ring, or has nothing to do.
LEMMA RegisterCalls ==
    ASSUME IInv, NEW t \in Names, caml_c_thread_register(t) \/ caml_c_thread_unregister(t)
    PROVE  IInv'
<1>1. PICK l, fs :
        /\ l \in {"register", "unregister"} /\ At(t, l) /\ Continue(t, fs)
        /\ UNCHANGED <<prog, pos, life, busy, state, ring, holder, lastLocked>>
        /\ fs = <<>> \/ fs = <<On("take", IF life[t] = "alive" THEN "unlink" ELSE "link")>>
  <2>1. CASE caml_c_thread_register(t) BY <2>1 DEF caml_c_thread_register, locks, lockvars
  <2>2. CASE caml_c_thread_unregister(t) BY <2>2 DEF caml_c_thread_unregister, locks, lockvars
  <2> QED BY <2>1, <2>2
<1>2. PICK x : x = IF life[t] = "alive" THEN "unlink" ELSE "link"
  OBVIOUS
<1>3. l \in Alone /\ "take" \in Alone /\ {l, "take"} \intersect {"link", "unlink"} = {}
  BY <1>1 DEF Alone
<1>4. fs = <<On("take", x)>> => Aim(fs) = x
  BY <1>2, <1>3, AloneFrame DEF Aim
<1>5. \/ fs = <<>>
      \/ fs = <<On("take", x)>> /\ Aim(fs) \in {Aim(stack[t])} \union (IF life[t] = "alive" THEN {"unlink"} ELSE {"link"})
  BY <1>1, <1>2, <1>4
<1>6. UNCHANGED <<prog, pos, life, state, ring, holder, lastLocked>> /\ busy' = busy
  BY <1>1
<1>7. x \in {"link", "unlink"}
  BY <1>2
<1> QED BY <1>1, <1>3, <1>5, <1>6, <1>7, AloneStep

\* It sleeps while the lock is busy, and takes it for the ring when it is free.
LEMMA TakeSteps ==
    ASSUME IInv, NEW t \in Names, NEW l \in {"take", "doze"}, At(t, l),
           st_masterlock_acquire(t) \/ (Awake(t) /\ ~busy)
    PROVE  IInv'
<1>1. PICK s, x : s = stack[t] /\ x = s[1].x
  OBVIOUS
<1>2. s[1].pc = l /\ x \in {"link", "unlink"} /\ Aim(s) = x /\ s # <<>>
  <2>1. l \in Alone BY DEF Alone
  <2> QED BY <1>1, <2>1, AloneFacts
<1>3. UNCHANGED <<prog, pos, life, ring, holder, lastLocked>>
  BY DEF st_masterlock_acquire, Awake, locks
<1>4. l \in Alone /\ x \in Alone /\ "doze" \in Alone
  BY <1>2 DEF Alone
<1>5. CASE busy
  <2>1. st_masterlock_acquire(t) BY <1>5
  <2>2. Continue(t, <<On("doze", x)>>) /\ UNCHANGED <<busy, state>>
    BY <1>1, <1>2, <1>5, <2>1 DEF st_masterlock_acquire, Top
  <2>3. PICK fs : fs = <<On("doze", x)>> OBVIOUS
  <2>4. Aim(fs) = x BY <1>2, <1>4, <2>3, AloneFrame DEF Aim
  <2>5. Aim(fs) \in {Aim(stack[t])} \union (IF life[t] = "alive" THEN {"unlink"} ELSE {"link"}) BY <1>1, <1>2, <2>4
  <2>6. {l, "doze"} \intersect {"link", "unlink"} = {} OBVIOUS
  <2> QED BY <1>2, <1>3, <1>4, <2>2, <2>3, <2>5, <2>6, AloneStep
<1>6. CASE ~busy
  <2>1. busy' = TRUE /\ Taken(t) BY <1>6 DEF st_masterlock_acquire, Awake
  <2>2. Continue(t, <<F(x)>>) /\ UNCHANGED state BY <1>1, <1>2, <2>1 DEF Taken, Top
  <2>3. PICK fs : fs = <<On(x, NoOne)>> OBVIOUS
  <2>4. Continue(t, fs) BY <2>2, <2>3 DEF F, On
  <2>5. x \notin {"take", "doze"} BY <1>2
  <2>6. Aim(fs) = x BY <1>4, <2>3, <2>5, AloneFrame DEF Aim
  <2>7. Aim(fs) \in {Aim(stack[t])} \union (IF life[t] = "alive" THEN {"unlink"} ELSE {"link"}) BY <1>1, <1>2, <2>6
  <2> QED BY <1>3, <1>4, <1>6, <2>1, <2>2, <2>3, <2>4, <2>5, <2>7, AloneStep
<1> QED BY <1>5, <1>6

\* C code of a thread calls into the library.
LEMMA FromCStep ==
    ASSUME IInv, NEW t \in Names, FromC(t)
    PROVE  IInv'
<1>1. /\ over = "no" /\ t \in OfC /\ life[t] # "dead" /\ stack[t] = <<>> /\ pos[t] <= Len(prog.ops[t])
      /\ Op(t).do = "callback" => life[t] = "alive"
      /\ pos' = [pos EXCEPT ![t] = @ + 1]
      /\ UNCHANGED <<prog, life, busy, state, ring, holder, lastLocked>>
  BY DEF FromC, locks, lockvars
<1>2. Op(t).do \in {"register", "callback", "unregister"}
  <2>1. prog \in Programs /\ pos[t] \in Nat \ {0} BY DEF IInv, Types
  <2>2. prog.ops[t] \in Seq(ForeignOperation) BY <1>1, <2>1, ProgramsAssumption
  <2>3. Op(t) \in ForeignOperation BY <1>1, <2>1, <2>2 DEF Op
  <2> QED BY <2>3 DEF ForeignOperation
<1>3. PICK q : /\ stack' = [stack EXCEPT ![t] = q]
               /\ \/ q = <<F("register")>> \/ q = <<F("unregister")>>
                  \/ (q = Leave \o <<F("callback")>> \o Enter /\ life[t] = "alive")
  <2>1. PICK q : q = CASE Op(t).do = "register" -> <<F("register")>>
                       [] Op(t).do = "callback" -> Leave \o <<F("callback")>> \o Enter
                       [] Op(t).do = "unregister" -> <<F("unregister")>>
    OBVIOUS
  <2>2. stack' = [stack EXCEPT ![t] = q] BY <2>1 DEF FromC
  <2>3. CASE Op(t).do = "register" BY <2>1, <2>2, <2>3
  <2>4. CASE Op(t).do = "callback" BY <1>1, <2>1, <2>2, <2>4
  <2>5. CASE Op(t).do = "unregister" BY <2>1, <2>2, <2>5
  <2> QED BY <1>2, <2>3, <2>4, <2>5
<1>4. /\ IsSeq(q) /\ Shape(q) /\ ~Inside(q) /\ ~Linking(q) /\ \A c : Apart(q, c)
      /\ Living(life[t], q, mine[t], t)
  <2>1. ASSUME NEW l \in {"register", "unregister"}, q = <<F(l)>>
        PROVE  IsSeq(q) /\ Shape(q) /\ ~Inside(q) /\ ~Linking(q) /\ (\A c : Apart(q, c)) /\ Living(life[t], q, mine[t], t)
    <3>1. l \in Alone /\ l \notin {"take", "doze"} BY DEF Alone
    <3>2. q = <<On(l, NoOne)>> BY <2>1 DEF F, On
    <3>3. IsSeq(q) /\ Shape(q) /\ ~Inside(q) /\ (\A c : Apart(q, c)) /\ Len(q) = 1 /\ q # <<>> /\ q[1].pc = l
      BY <3>1, <3>2, AloneFrame
    <3>4. life[t] # "none" BY <1>1 DEF IInv, Lives, Living
    <3>5. ~Linking(q) /\ Aim(q) = l BY <3>1, <3>3 DEF Linking, Aim
    <3>6. Living(life[t], q, mine[t], t) BY <1>1, <3>1, <3>3, <3>4, <3>5 DEF Living
    <3> QED BY <3>3, <3>5, <3>6
  <2>2. ASSUME q = Leave \o <<F("callback")>> \o Enter, life[t] = "alive"
        PROVE  IsSeq(q) /\ Shape(q) /\ ~Inside(q) /\ ~Linking(q) /\ (\A c : Apart(q, c)) /\ Living(life[t], q, mine[t], t)
    <3>1. Piece(q, "out", "out") BY <2>2, ProgramCode
    <3>2. IsSeq(q) /\ Shape(q) /\ q # <<>> /\ (Inside(q) <=> "out" = "in") /\ Settled(q) /\ \A c : Apart(q, c)
      BY <3>1, PieceShape
    <3>3. ~Linking(q) BY <3>2 DEF Settled, Linking, Alone
    <3>4. Living(life[t], q, mine[t], t) BY <2>2, <3>2, LivingFacts
    <3> QED BY <3>2, <3>3, <3>4
  <2> QED BY <1>3, <2>1, <2>2
<1>5. ~Inside(stack[t]) /\ ~Linking(stack[t]) /\ \A c : Apart(stack[t], c)
  BY <1>1, EmptyStack
<1>6. Types'
  BY <1>1 DEF IInv, Types, state, ring
<1> QED BY <1>1, <1>3, <1>4, <1>5, <1>6, AloneTurn

\* The stack of t becomes q, and t may start or end; the other threads live on.
LEMMA LifeTurn ==
    ASSUME IInv, NEW t \in Names, NEW q, IsSeq(q), Shape(q), stack' = [u \in Names |-> stack'[u]], stack'[t] = q,
           \A u \in Names \ {t} : stack'[u] = stack[u] \/ (life[u] = "alive" /\ Move(stack[u], stack'[u])),
           NEW k \in {"alive", "outside", "dead"}, life' = [life EXCEPT ![t] = k],
           \A u \in Names \ {t} : life[u] = "alive" \/ mine'[u] = mine[u],
           Settled(q), k = "alive" \/ (Len(q) = 1 /\ q[1].pc = "wake")
    PROVE  /\ Stacks' /\ Shapes' /\ Lives' /\ life'[t] = k /\ \A u \in Names \ {t} : life'[u] = life[u]
           /\ life' \in [Names -> {"none", "alive", "outside", "dead"}]
           /\ Linked' = IF k = "alive" THEN Linked \union {t} ELSE Linked \ {t}
           /\ (\A u \in Names : ~Linking(stack[u])) => \A u \in Names : ~Linking(stack'[u])
<1>1. life'[t] = k /\ (\A u \in Names \ {t} : life'[u] = life[u]) /\ life' \in [Names -> {"none", "alive", "outside", "dead"}]
  BY DEF IInv, Types
<1>2. Linked' = IF k = "alive" THEN Linked \union {t} ELSE Linked \ {t}
  BY <1>1 DEF Linked
<1>3. \A u \in Names : IsSeq(stack'[u]) /\ Shape(stack'[u])
  <2>1. ASSUME NEW u \in Names PROVE IsSeq(stack'[u]) /\ Shape(stack'[u])
    <3>1. CASE u = t BY <3>1
    <3>2. CASE u # t /\ stack'[u] = stack[u] BY <3>2 DEF IInv, Stacks, Shapes
    <3>3. CASE u # t /\ Move(stack[u], stack'[u]) BY <3>3 DEF Move
    <3> QED BY <3>1, <3>2, <3>3
  <2> QED BY <2>1
<1>4. Stacks' /\ Shapes'
  BY <1>3 DEF Stacks, Shapes
<1>5. ASSUME NEW u \in Names PROVE Living(life'[u], stack'[u], mine'[u], u)
  <2>1. CASE u = t /\ k = "alive" BY <1>1, <2>1, LivingFacts
  <2>2. CASE u = t /\ k # "alive"
    <3>1. Len(q) = 1 /\ q[1].pc = "wake" /\ q # <<>> BY <2>2
    <3>2. Aim(q) = "wake" BY <3>1 DEF Aim
    <3> QED BY <1>1, <2>2, <3>1, <3>2 DEF Living
  <2>3. CASE u # t /\ life[u] = "alive" /\ stack'[u] = stack[u]
    <3>1. Living(life[u], stack[u], mine[u], u) BY DEF IInv, Lives
    <3> QED BY <1>1, <2>3, <3>1 DEF Living
  <2>4. CASE u # t /\ life[u] = "alive" /\ stack'[u] # stack[u]
    <3>1. Settled(stack'[u]) BY <2>4 DEF Move
    <3> QED BY <1>1, <2>4, <3>1, LivingFacts
  <2>5. CASE u # t /\ life[u] # "alive"
    <3>1. life'[u] = life[u] /\ stack'[u] = stack[u] /\ mine'[u] = mine[u] BY <1>1, <2>5
    <3> QED BY <3>1 DEF IInv, Lives
  <2> QED BY <2>1, <2>2, <2>3, <2>4, <2>5
<1>6. Lives'
  BY <1>5 DEF Lives
<1>7. ~Linking(q)
  BY DEF Settled, Linking, Alone
<1>8. ASSUME \A u \in Names : ~Linking(stack[u]) PROVE \A u \in Names : ~Linking(stack'[u])
  BY <1>7, <1>8 DEF Move
<1> QED BY <1>1, <1>2, <1>4, <1>6, <1>8

LEMMA WakeFrame ==
    ASSUME NEW q, q = <<F("wake")>>
    PROVE  IsSeq(q) /\ Shape(q) /\ ~Inside(q) /\ Settled(q) /\ (\A c : Apart(q, c)) /\ Len(q) = 1 /\ q[1].pc = "wake"
<1>1. Piece(q, "out", "out")
  BY OutPieces
<1>2. IsSeq(q) /\ Shape(q) /\ q # <<>> /\ (Inside(q) <=> "out" = "in") /\ Settled(q) /\ \A c : Apart(q, c)
  BY <1>1, PieceShape
<1>3. Len(q) = 1 /\ q[1].pc = "wake"
  BY DEF F, Frame
<1> QED BY <1>2, <1>3

LEMMA StopStep ==
    ASSUME IInv, NEW t \in Names, caml_thread_stop(t)
    PROVE  IInv'
<1>1. /\ At(t, "stopping") /\ caml_thread_remove_info(t) /\ life' = [life EXCEPT ![t] = "dead"] /\ busy' = FALSE
      /\ UNCHANGED <<prog, pos, state, holder, lastLocked, over>>
  BY DEF caml_thread_stop, locks
<1>2. stack' = [u \in Names |->
                   IF u = t THEN <<F("wake")>>
                   ELSE IF stack[u] # <<>> /\ stack[u][1] = On("joining", t)
                        THEN <<On("join", t)>> \o Tail(stack[u]) ELSE stack[u]]
  BY DEF caml_thread_stop
<1>3. /\ over = "no" /\ stack[t] # <<>> /\ IsSeq(stack[t]) /\ Shape(stack[t]) /\ Inside(stack[t])
      /\ life[t] = "alive" /\ stack[t][1].pc = "stopping"
  <2>1. "stopping" \in Inner /\ "stopping" \notin {"wake"} \union Alone BY DEF Inner, Alone
  <2> QED BY <1>1, <2>1, AtFacts
<1>4. \A c : Apart(stack[t], c)
  <2>1. PICK s : s = stack[t] OBVIOUS
  <2>2. Len(s) = 1 BY <1>3, <2>1, Modes, LastFrame
  <2> QED BY <1>3, <2>1, <2>2, NoneOwned
<1>5. PICK q : q = <<F("wake")>>
  OBVIOUS
<1>6. IsSeq(q) /\ Shape(q) /\ ~Inside(q) /\ Settled(q) /\ (\A c : Apart(q, c)) /\ Len(q) = 1 /\ q[1].pc = "wake"
  BY <1>5, WakeFrame
<1>7. stack' = [u \in Names |-> stack'[u]] /\ stack'[t] = q
  BY <1>2, <1>5
<1>8. ASSUME NEW u \in Names \ {t}
      PROVE  stack'[u] = stack[u] \/ (life[u] = "alive" /\ Move(stack[u], stack'[u]))
  <2>1. CASE ~(stack[u] # <<>> /\ stack[u][1] = On("joining", t)) BY <1>2, <2>1
  <2>2. CASE stack[u] # <<>> /\ stack[u][1] = On("joining", t)
    <3>1. stack'[u] = <<On("join", t)>> \o Tail(stack[u]) BY <1>2, <2>2
    <3>2. stack[u][1].pc = "joining" BY <2>2 DEF On, Frame
    <3>3. life[u] = "alive" BY <2>2, <3>2 DEF IInv, Lives, Living, Alone
    <3>4. PICK s, g, r : s = stack[u] /\ g = <<On("join", t)>> /\ r = stack'[u] OBVIOUS
    <3>5. Piece(g, "out", "out") BY <3>4, OutPieces DEF On
    <3>6. Goes(s, g, Before(s[1].pc)) BY <3>2, <3>4, <3>5, Modes DEF Goes
    <3>7. IsSeq(s) /\ Shape(s) BY <3>4 DEF IInv, Stacks, Shapes
    <3>8. Move(s, r) BY <2>2, <3>1, <3>2, <3>4, <3>6, <3>7, MoveSplice
    <3> QED BY <3>3, <3>4, <3>8
  <2> QED BY <2>1, <2>2
<1>9. mine' = mine /\ saved' = saved /\ curr' = curr /\ cs' = cs
  BY <1>1 DEF state
<1>10. /\ Stacks' /\ Shapes' /\ Lives' /\ life'[t] = "dead" /\ (\A u \in Names \ {t} : life'[u] = life[u])
       /\ life' \in [Names -> {"none", "alive", "outside", "dead"}] /\ Linked' = Linked \ {t}
       /\ \A u \in Names : ~Linking(stack'[u])
  <2>1. PICK k : k = "dead" OBVIOUS
  <2>2. k \in {"alive", "outside", "dead"} /\ life' = [life EXCEPT ![t] = k] BY <1>1, <2>1
  <2>3. /\ Stacks' /\ Shapes' /\ Lives' /\ life'[t] = k /\ (\A u \in Names \ {t} : life'[u] = life[u])
        /\ life' \in [Names -> {"none", "alive", "outside", "dead"}]
        /\ Linked' = IF k = "alive" THEN Linked \union {t} ELSE Linked \ {t}
        /\ (\A u \in Names : ~Linking(stack[u])) => \A u \in Names : ~Linking(stack'[u])
    BY <1>6, <1>7, <1>8, <1>9, <2>2, LifeTurn, ZenonT(40)
  <2>4. \A u \in Names : ~Linking(stack[u]) BY <1>3, NoneLinks DEF IInv
  <2> QED BY <2>1, <2>3, <2>4
<1>11. /\ RingOf(Linked \ {t}, nxt', prv')
       /\ nxt' \in [Names -> Names \union {NoOne}] /\ prv' \in [Names -> Names \union {NoOne}]
       /\ all_threads' \in Names \union {NoOne}
       /\ all_threads' \in Linked \ {t} \/ (all_threads' = NoOne /\ Linked \ {t} = {})
  <2>1. t \in Linked BY <1>3 DEF Linked
  <2> QED BY <1>1, <2>1, RemoveFacts
<1>12. Ring'
  BY <1>10, <1>11 DEF Ring
<1>13. Types'
  BY <1>1, <1>9, <1>10, <1>11 DEF IInv, Types
<1>14. Owned'
  <2>1. ASSUME NEW u \in Names \ {t} PROVE ~Inside(stack[u]) /\ ~Inside(stack'[u])
    <3>1. ~Inside(stack[u]) BY <1>3 DEF IInv, Owned
    <3> QED BY <1>8, <3>1 DEF Move
  <2>2. \A u \in Names : ~Inside(stack'[u]) BY <1>6, <1>7, <2>1
  <2>3. \A u \in Names : life'[u] = "alive" => saved'[u] = <<u, mine'[u]>>
    BY <1>9, <1>10, <2>1 DEF IInv, Owned
  <2> QED BY <2>2, <2>3 DEF Owned
<1>15. Locking'
  <2>1. \A u \in Names : life'[u] # "dead" => life[u] # "dead" /\ \A c \in Channels : Alike(stack'[u], stack[u], c)
    <3>1. ASSUME NEW u \in Names, life'[u] # "dead" PROVE life[u] # "dead" /\ \A c \in Channels : Alike(stack'[u], stack[u], c)
      <4>1. u # t /\ life'[u] = life[u] BY <1>10, <3>1
      <4> QED BY <1>8, <3>1, <4>1 DEF Move, Alike
    <3> QED BY <3>1
  <2>2. \A c \in Channels : holder[c] # t
    BY <1>3, <1>4, HolderFacts DEF Holding, Apart
  <2>3. \A v \in Names : \A c \in Channels : holder[c] = v /\ life[v] = "alive" => life'[v] = "alive"
    BY <1>10, <2>2
  <2> QED BY <1>1, <1>3, <2>1, <2>3, LockingLives
<1>16. Exclusive'
  BY <1>10 DEF Exclusive
<1> QED BY <1>10, <1>12, <1>13, <1>14, <1>15, <1>16 DEF IInv

LEMMA RegisterStep ==
    ASSUME IInv, NEW t \in Names, RegisterInfo(t)
    PROVE  IInv'
<1>1. /\ At(t, "link") /\ busy' = FALSE /\ life' = [life EXCEPT ![t] = "alive"]
      /\ saved' = [saved EXCEPT ![t] = <<t, 0>>] /\ mine' = [mine EXCEPT ![t] = 0]
      /\ Continue(t, <<F("wake")>> \o Leave \o <<F("descriptor")>> \o Enter)
      /\ UNCHANGED <<prog, pos, curr, cs, holder, lastLocked, over>>
  BY DEF RegisterInfo, caml_thread_new_info, locks, lockvars
<1>2. /\ over = "no" /\ stack[t] # <<>> /\ IsSeq(stack[t]) /\ Shape(stack[t]) /\ ~Inside(stack[t])
      /\ Len(stack[t]) = 1 /\ stack[t][1].pc = "link"
      /\ life[t] \notin {"alive", "dead"} /\ \A c : Apart(stack[t], c)
  <2>1. "link" \in Alone BY DEF Alone
  <2>2. PICK s : s = stack[t] OBVIOUS
  <2>3. /\ over = "no" /\ s # <<>> /\ IsSeq(s) /\ Shape(s) /\ Len(s) = 1 /\ s[1].pc = "link"
        /\ ~Inside(s) /\ (\A c : Apart(s, c)) /\ life[t] # "dead"
        /\ Living(life[t], s, mine[t], t) /\ Aim(s) = "link"
    BY <1>1, <2>1, <2>2, AloneFacts
  <2>4. life[t] # "alive" BY <2>3 DEF Living
  <2> QED BY <2>2, <2>3, <2>4
<1>3. \A u \in Names \ {t} : ~Inside(stack[u]) /\ ~Linking(stack[u])
  BY <1>2 DEF IInv, Exclusive, Linking
<1>4. PICK q : q = <<F("wake")>> \o Leave \o <<F("descriptor")>> \o Enter
  OBVIOUS
<1>5. IsSeq(q) /\ Shape(q) /\ ~Inside(q) /\ Settled(q) /\ \A c : Apart(q, c)
  <2>1. Piece(q, "out", "out") BY <1>4, ProgramCode
  <2>2. IsSeq(q) /\ Shape(q) /\ q # <<>> /\ (Inside(q) <=> "out" = "in") /\ Settled(q) /\ \A c : Apart(q, c)
    BY <2>1, PieceShape
  <2> QED BY <2>2
<1>6. stack' = [stack EXCEPT ![t] = q]
  <2>1. PICK s : s = stack[t] OBVIOUS
  <2>2. q \o Tail(s) = q BY <1>2, <1>5, <2>1, OnlyFrame
  <2> QED BY <1>1, <1>4, <2>1, <2>2 DEF Continue
<1>7. stack' = [u \in Names |-> stack'[u]] /\ stack'[t] = q /\ \A u \in Names \ {t} : stack'[u] = stack[u]
  BY <1>6, TurnFacts DEF IInv
<1>8. /\ mine' \in [Names -> {0, 1}] /\ mine'[t] = 0 /\ \A u \in Names \ {t} : mine'[u] = mine[u]
      /\ saved' \in [Names -> Names \X {0, 1}] /\ saved'[t] = <<t, 0>> /\ \A u \in Names \ {t} : saved'[u] = saved[u]
  BY <1>1 DEF IInv, Types
<1>9. /\ Stacks' /\ Shapes' /\ Lives' /\ life'[t] = "alive" /\ (\A u \in Names \ {t} : life'[u] = life[u])
      /\ life' \in [Names -> {"none", "alive", "outside", "dead"}] /\ Linked' = Linked \union {t}
  <2>1. PICK k : k = "alive" OBVIOUS
  <2>2. k \in {"alive", "outside", "dead"} /\ life' = [life EXCEPT ![t] = k] BY <1>1, <2>1
  <2>3. /\ Stacks' /\ Shapes' /\ Lives' /\ life'[t] = k /\ (\A u \in Names \ {t} : life'[u] = life[u])
        /\ life' \in [Names -> {"none", "alive", "outside", "dead"}]
        /\ Linked' = IF k = "alive" THEN Linked \union {t} ELSE Linked \ {t}
    BY <1>5, <1>7, <1>8, <2>1, <2>2, LifeTurn
  <2> QED BY <2>1, <2>3
<1>10. /\ RingOf(Linked \union {t}, nxt', prv')
       /\ nxt' \in [Names -> Names \union {NoOne}] /\ prv' \in [Names -> Names \union {NoOne}]
       /\ all_threads' \in Linked \union {t}
  <2>1. nxt \in [Names -> Names \union {NoOne}] /\ prv \in [Names -> Names \union {NoOne}]
    BY DEF IInv, Types
  <2>2. t \notin Linked BY <1>2 DEF Linked
  <2>3. CASE all_threads = NoOne
    <3>1. nxt' = [nxt EXCEPT ![t] = t] /\ prv' = [prv EXCEPT ![t] = t] /\ all_threads' = t
      BY <2>3 DEF RegisterInfo
    <3>2. Linked = {}
      <4>1. NoOne \notin Linked BY NamesAssumption DEF Linked
      <4> QED BY <2>3, <4>1 DEF IInv, Ring
    <3>3. /\ nxt' \in [Names -> Names \union {NoOne}] /\ nxt'[t] = t
          /\ prv' \in [Names -> Names \union {NoOne}] /\ prv'[t] = t
      BY <2>1, <3>1
    <3>4. PICK n, p : n = nxt' /\ p = prv' OBVIOUS
    <3>5. RingOf({t}, n, p) BY <3>3, <3>4, RingSingle
    <3>6. Linked \union {t} = {t} BY <3>2
    <3> QED BY <3>1, <3>3, <3>4, <3>5, <3>6
  <2>4. CASE all_threads # NoOne
    <3>1. Link(t, all_threads) /\ all_threads' = all_threads BY <2>4 DEF RegisterInfo
    <3>2. all_threads \in Linked BY <2>4 DEF IInv, Ring
    <3> QED BY <2>2, <3>1, <3>2, LinkFacts
  <2> QED BY <2>3, <2>4
<1>11. Ring'
  BY <1>9, <1>10 DEF Ring
<1>12. all_threads' \in Names \union {NoOne}
  BY <1>10 DEF Linked
<1>13. Types'
  BY <1>1, <1>8, <1>9, <1>10, <1>12 DEF IInv, Types
<1>14. Owned'
  <2>1. ASSUME NEW u \in Names
        PROVE  /\ Inside(stack'[u]) => busy' /\ curr' = u /\ cs' = <<u, mine'[u]>>
               /\ life'[u] = "alive" /\ ~Inside(stack'[u]) => saved'[u] = <<u, mine'[u]>>
    <3>1. CASE u = t BY <1>5, <1>7, <1>8, <3>1
    <3>2. CASE u # t
      <4>1. stack'[u] = stack[u] /\ life'[u] = life[u] /\ mine'[u] = mine[u] /\ saved'[u] = saved[u]
        BY <1>7, <1>8, <1>9, <3>2
      <4> QED BY <1>3, <3>2, <4>1 DEF IInv, Owned
    <3> QED BY <3>1, <3>2
  <2> QED BY <2>1 DEF Owned
<1>15. Locking'
  <2>1. \A u \in Names : life'[u] # "dead" => life[u] # "dead" /\ \A c \in Channels : Alike(stack'[u], stack[u], c)
    <3>1. ASSUME NEW u \in Names, life'[u] # "dead"
          PROVE  life[u] # "dead" /\ \A c \in Channels : Alike(stack'[u], stack[u], c)
      <4>1. CASE u = t BY <1>2, <1>5, <1>7, <4>1 DEF Alike, Apart
      <4>2. CASE u # t BY <1>7, <1>9, <3>1, <4>2 DEF Alike
      <4> QED BY <4>1, <4>2
    <3> QED BY <3>1
  <2>2. \A v \in Names : \A c \in Channels : holder[c] = v /\ life[v] = "alive" => life'[v] = "alive"
    BY <1>9
  <2> QED BY <1>1, <1>2, <2>1, <2>2, LockingLives
<1>16. Exclusive'
  <2>1. ~Linking(q) BY <1>5 DEF Settled, Linking, Alone
  <2>2. \A u \in Names : ~Linking(stack'[u]) BY <1>3, <1>7, <2>1
  <2> QED BY <2>2 DEF Exclusive
<1> QED BY <1>9, <1>11, <1>13, <1>14, <1>15, <1>16 DEF IInv

LEMMA UnregisterStep ==
    ASSUME IInv, NEW t \in Names, UnregisterInfo(t)
    PROVE  IInv'
<1>1. /\ At(t, "unlink") /\ busy' = FALSE /\ life' = [life EXCEPT ![t] = "outside"]
      /\ caml_thread_remove_info(t) /\ Continue(t, <<F("wake")>>)
      /\ UNCHANGED <<prog, pos, state, holder, lastLocked, over>>
  BY DEF UnregisterInfo, locks, lockvars
<1>2. /\ over = "no" /\ stack[t] # <<>> /\ IsSeq(stack[t]) /\ Shape(stack[t]) /\ ~Inside(stack[t])
      /\ Len(stack[t]) = 1 /\ stack[t][1].pc = "unlink" /\ life[t] = "alive" /\ \A c : Apart(stack[t], c)
  <2>1. "unlink" \in Alone BY DEF Alone
  <2>2. PICK s : s = stack[t] OBVIOUS
  <2>3. /\ over = "no" /\ s # <<>> /\ IsSeq(s) /\ Shape(s) /\ Len(s) = 1 /\ s[1].pc = "unlink"
        /\ ~Inside(s) /\ (\A c : Apart(s, c)) /\ Living(life[t], s, mine[t], t) /\ Aim(s) = "unlink"
    BY <1>1, <2>1, <2>2, AloneFacts
  <2>4. life[t] = "alive" BY <2>3 DEF Living
  <2> QED BY <2>2, <2>3, <2>4
<1>3. \A u \in Names \ {t} : ~Inside(stack[u]) /\ ~Linking(stack[u])
  BY <1>2 DEF IInv, Exclusive, Linking
<1>4. PICK q : q = <<F("wake")>>
  OBVIOUS
<1>5. IsSeq(q) /\ Shape(q) /\ ~Inside(q) /\ Settled(q) /\ (\A c : Apart(q, c)) /\ Len(q) = 1 /\ q[1].pc = "wake"
  BY <1>4, WakeFrame
<1>6. stack' = [stack EXCEPT ![t] = q]
  <2>1. PICK s : s = stack[t] OBVIOUS
  <2>2. q \o Tail(s) = q BY <1>2, <1>5, <2>1, OnlyFrame
  <2> QED BY <1>1, <1>4, <2>1, <2>2 DEF Continue
<1>7. stack' = [u \in Names |-> stack'[u]] /\ stack'[t] = q /\ \A u \in Names \ {t} : stack'[u] = stack[u]
  BY <1>6, TurnFacts DEF IInv
<1>8. mine' = mine /\ saved' = saved /\ curr' = curr /\ cs' = cs
  BY <1>1 DEF state
<1>9. /\ Stacks' /\ Shapes' /\ Lives' /\ life'[t] = "outside" /\ (\A u \in Names \ {t} : life'[u] = life[u])
      /\ life' \in [Names -> {"none", "alive", "outside", "dead"}] /\ Linked' = Linked \ {t}
  <2>1. PICK k : k = "outside" OBVIOUS
  <2>2. k \in {"alive", "outside", "dead"} /\ life' = [life EXCEPT ![t] = k] BY <1>1, <2>1
  <2>3. /\ Stacks' /\ Shapes' /\ Lives' /\ life'[t] = k /\ (\A u \in Names \ {t} : life'[u] = life[u])
        /\ life' \in [Names -> {"none", "alive", "outside", "dead"}]
        /\ Linked' = IF k = "alive" THEN Linked \union {t} ELSE Linked \ {t}
    BY <1>5, <1>7, <1>8, <2>2, LifeTurn, ZenonT(40)
  <2> QED BY <2>1, <2>3
<1>10. /\ RingOf(Linked \ {t}, nxt', prv')
       /\ nxt' \in [Names -> Names \union {NoOne}] /\ prv' \in [Names -> Names \union {NoOne}]
       /\ all_threads' \in Names \union {NoOne}
       /\ all_threads' \in Linked \ {t} \/ (all_threads' = NoOne /\ Linked \ {t} = {})
  <2>1. t \in Linked BY <1>2 DEF Linked
  <2> QED BY <1>1, <2>1, RemoveFacts
<1>11. Ring'
  BY <1>9, <1>10 DEF Ring
<1>12. Types'
  BY <1>1, <1>8, <1>9, <1>10 DEF IInv, Types
<1>13. Owned'
  <2>1. ASSUME NEW u \in Names
        PROVE  /\ Inside(stack'[u]) => busy' /\ curr' = u /\ cs' = <<u, mine'[u]>>
               /\ life'[u] = "alive" /\ ~Inside(stack'[u]) => saved'[u] = <<u, mine'[u]>>
    <3>1. CASE u = t BY <1>5, <1>7, <1>9, <3>1
    <3>2. CASE u # t
      <4>1. stack'[u] = stack[u] /\ life'[u] = life[u] BY <1>7, <1>9, <3>2
      <4> QED BY <1>3, <1>8, <3>2, <4>1 DEF IInv, Owned
    <3> QED BY <3>1, <3>2
  <2> QED BY <2>1 DEF Owned
<1>14. Locking'
  <2>1. \A u \in Names : life'[u] # "dead" => life[u] # "dead" /\ \A c \in Channels : Alike(stack'[u], stack[u], c)
    <3>1. ASSUME NEW u \in Names, life'[u] # "dead"
          PROVE  life[u] # "dead" /\ \A c \in Channels : Alike(stack'[u], stack[u], c)
      <4>1. CASE u = t BY <1>2, <1>5, <1>7, <4>1 DEF Alike, Apart
      <4>2. CASE u # t BY <1>7, <1>9, <3>1, <4>2 DEF Alike
      <4> QED BY <4>1, <4>2
    <3> QED BY <3>1
  <2>2. \A c \in Channels : holder[c] # t
    BY <1>1, <1>2, HolderFacts DEF Holding, Apart
  <2>3. \A v \in Names : \A c \in Channels : holder[c] = v /\ life[v] = "alive" => life'[v] = "alive"
    BY <1>9, <2>2
  <2> QED BY <1>1, <1>2, <2>1, <2>3, LockingLives
<1>15. Exclusive'
  <2>1. ~Linking(q) BY <1>5 DEF Settled, Linking, Alone
  <2>2. \A u \in Names : ~Linking(stack'[u]) BY <1>3, <1>7, <2>1
  <2> QED BY <2>2 DEF Exclusive
<1> QED BY <1>9, <1>11, <1>12, <1>13, <1>14, <1>15 DEF IInv

LEMMA NewStep ==
    ASSUME IInv, NEW t \in Names, caml_thread_new(t)
    PROVE  IInv'
<1>1. PICK u : u = Op(t).on
  OBVIOUS
<1>2. /\ Step(t, "create") /\ life[u] = "none"
      /\ UNCHANGED <<busy, all_threads, holder, lastLocked, over>>
  BY <1>1 DEF caml_thread_new, locks, lockvars
<1>3. /\ At(t, "ocaml") /\ over = "no" /\ stack[t] # <<>> /\ Len(stack[t]) = 1
      /\ IsSeq(stack[t]) /\ Shape(stack[t]) /\ Inside(stack[t]) /\ life[t] = "alive" /\ curr = t
      /\ cs' = <<t, mine'[t]>> /\ cs' \in Names \X {0, 1} /\ mine' \in [Names -> {0, 1}]
      /\ \A v \in Names \ {t} : mine'[v] = mine[v] /\ ~Inside(stack[v])
      /\ pos' \in [Names -> Nat \ {0}] /\ prog' = prog /\ curr' = curr
      /\ Op(t).do = "create" /\ Op(t) \in Operation
  BY <1>2, StepFacts
<1>4. u \in Names \ OfC /\ u # t
  <2>1. u \in Names \ OfC BY <1>1, <1>3, OnFacts
  <2> QED BY <1>2, <1>3, <2>1
<1>5. CASE UNCHANGED <<stack, life, saved, nxt, prv, mask, ticker>>
  <2>1. UNCHANGED <<life, busy, ring, lastLocked>> BY <1>2, <1>5 DEF ring
  <2>2. /\ holder' \in [Mutexes \union Channels -> Names \union {NoOne}]
        /\ \A c \in Channels : holder'[c] = holder[c]
    BY <1>2 DEF IInv, Types
  <2>3. saved' = saved /\ stack' = stack BY <1>5
  <2> QED BY <1>2, <2>1, <2>2, <2>3, RunCalls
<1>6. CASE /\ Link(u, curr) /\ life' = [life EXCEPT ![u] = "alive"] /\ saved' = [saved EXCEPT ![u] = <<u, 0>>]
           /\ stack' = [stack EXCEPT ![u] = Leave \o <<F("start")>>]
  <2>1. PICK q : q = Leave \o <<F("start")>> OBVIOUS
  <2>2. IsSeq(q) /\ Shape(q) /\ ~Inside(q) /\ Settled(q) /\ \A c : Apart(q, c)
    <3>1. Piece(q, "out", "end") BY <2>1, ProgramCode
    <3>2. IsSeq(q) /\ Shape(q) /\ q # <<>> /\ (Inside(q) <=> "out" = "in") /\ Settled(q) /\ \A c : Apart(q, c)
      BY <3>1, PieceShape
    <3> QED BY <3>2
  <2>3. stack' = [v \in Names |-> stack'[v]] /\ stack'[u] = q /\ \A v \in Names \ {u} : stack'[v] = stack[v]
    <3>1. stack' = [stack EXCEPT ![u] = q] BY <1>6, <2>1
    <3> QED BY <1>4, <3>1, TurnFacts DEF IInv
  <2>4. stack[u] = <<>> /\ mine[u] = 0 BY <1>2, <1>4 DEF IInv, Lives, Living
  <2>5. saved' \in [Names -> Names \X {0, 1}] /\ saved'[u] = <<u, 0>> /\ \A v \in Names \ {u} : saved'[v] = saved[v]
    BY <1>4, <1>6 DEF IInv, Types
  <2>6. /\ Stacks' /\ Shapes' /\ Lives' /\ life'[u] = "alive" /\ (\A v \in Names \ {u} : life'[v] = life[v])
        /\ life' \in [Names -> {"none", "alive", "outside", "dead"}] /\ Linked' = Linked \union {u}
    <3>1. PICK k : k = "alive" OBVIOUS
    <3>2. k \in {"alive", "outside", "dead"} /\ life' = [life EXCEPT ![u] = k] BY <1>6, <3>1
    <3>3. \A v \in Names \ {u} : life[v] = "alive" \/ mine'[v] = mine[v] BY <1>3
    <3>4. /\ Stacks' /\ Shapes' /\ Lives' /\ life'[u] = k /\ (\A v \in Names \ {u} : life'[v] = life[v])
          /\ life' \in [Names -> {"none", "alive", "outside", "dead"}]
          /\ Linked' = IF k = "alive" THEN Linked \union {u} ELSE Linked \ {u}
      BY <1>4, <2>2, <2>3, <3>1, <3>2, <3>3, LifeTurn
    <3> QED BY <3>1, <3>4
  <2>7. /\ RingOf(Linked \union {u}, nxt', prv')
        /\ nxt' \in [Names -> Names \union {NoOne}] /\ prv' \in [Names -> Names \union {NoOne}]
    <3>1. t \in Linked /\ u \in Names \ Linked BY <1>2, <1>3, <1>4 DEF Linked
    <3>2. Link(u, t) BY <1>3, <1>6
    <3> QED BY <3>1, <3>2, LinkFacts
  <2>8. all_threads' = all_threads /\ all_threads \in Linked
    <3>1. t \in Linked BY <1>3 DEF Linked
    <3> QED BY <1>2, <3>1 DEF IInv, Ring
  <2>9. Ring' BY <2>6, <2>7, <2>8 DEF Ring
  <2>10. Types'
    <3>1. all_threads' \in Names \union {NoOne} BY <2>8 DEF Linked
    <3> QED BY <1>2, <1>3, <2>5, <2>6, <2>7, <3>1 DEF IInv, Types
  <2>11. Owned'
    <3>1. ASSUME NEW v \in Names
          PROVE  /\ Inside(stack'[v]) => busy' /\ curr' = v /\ cs' = <<v, mine'[v]>>
                 /\ life'[v] = "alive" /\ ~Inside(stack'[v]) => saved'[v] = <<v, mine'[v]>>
      <4>1. CASE v = u BY <1>3, <1>4, <2>2, <2>3, <2>4, <2>5, <4>1
      <4>2. CASE v = t
        <5>1. stack'[t] = stack[t] BY <1>4, <2>3
        <5>2. busy BY <1>3 DEF IInv, Owned
        <5> QED BY <1>2, <1>3, <4>2, <5>1, <5>2
      <4>3. CASE v # u /\ v # t
        <5>1. stack'[v] = stack[v] /\ life'[v] = life[v] /\ mine'[v] = mine[v] /\ saved'[v] = saved[v] /\ ~Inside(stack[v])
          BY <1>3, <2>3, <2>5, <2>6, <4>3
        <5> QED BY <5>1 DEF IInv, Owned
      <4> QED BY <4>1, <4>2, <4>3
    <3> QED BY <3>1 DEF Owned
  <2>12. Locking'
    <3>1. \A v \in Names : life'[v] # "dead" => life[v] # "dead" /\ \A c \in Channels : Alike(stack'[v], stack[v], c)
      <4>1. ASSUME NEW v \in Names, life'[v] # "dead"
            PROVE  life[v] # "dead" /\ \A c \in Channels : Alike(stack'[v], stack[v], c)
        <5>1. CASE v = u BY <1>2, <2>2, <2>3, <2>4, <5>1, EmptyStack DEF Alike, Apart
        <5>2. CASE v # u BY <2>3, <2>6, <4>1, <5>2 DEF Alike
        <5> QED BY <5>1, <5>2
      <4> QED BY <4>1
    <3>2. \A v \in Names : \A c \in Channels : holder[c] = v /\ life[v] = "alive" => life'[v] = "alive"
      BY <2>6
    <3> QED BY <1>2, <1>3, <3>1, <3>2, LockingLives
  <2>13. Exclusive'
    <3>1. ~Linking(q) BY <2>2 DEF Settled, Linking, Alone
    <3>2. \A v \in Names : ~Linking(stack[v]) BY <1>3, NoneLinks DEF IInv
    <3>3. \A v \in Names : ~Linking(stack'[v]) BY <2>3, <3>1, <3>2
    <3> QED BY <3>3 DEF Exclusive
  <2> QED BY <2>6, <2>9, <2>10, <2>11, <2>12, <2>13 DEF IInv
<1> QED BY <1>1, <1>5, <1>6 DEF caml_thread_new, caml_thread_new_info

\* After fork the thread that forked is the only one, also in the ring.
LEMMA ForkStep ==
    ASSUME IInv, NEW t \in Names, caml_thread_reinitialize(t)
    PROVE  IInv'
<1>1. /\ Step(t, "fork")
      /\ life' = [u \in Names |-> IF u = t \/ life[u] = "none" THEN life[u] ELSE "dead"]
      /\ stack' = [u \in Names |-> IF u = t THEN stack[t] ELSE <<>>]
      /\ nxt' = [u \in Names |-> IF u = t THEN t ELSE NoOne]
      /\ prv' = [u \in Names |-> IF u = t THEN t ELSE NoOne]
      /\ all_threads' = t /\ busy' = TRUE
      /\ holder' = [l \in Mutexes \union Channels |-> IF l \in Channels THEN NoOne ELSE holder[l]]
      /\ UNCHANGED <<saved, lastLocked, over>>
  BY DEF caml_thread_reinitialize
<1>2. /\ over = "no" /\ stack[t] # <<>> /\ Len(stack[t]) = 1
      /\ IsSeq(stack[t]) /\ Shape(stack[t]) /\ Inside(stack[t]) /\ life[t] = "alive" /\ curr = t
      /\ cs' = <<t, mine'[t]>> /\ cs' \in Names \X {0, 1} /\ mine' \in [Names -> {0, 1}]
      /\ \A v \in Names \ {t} : mine'[v] = mine[v] /\ ~Inside(stack[v])
      /\ pos' \in [Names -> Nat \ {0}] /\ prog' = prog /\ curr' = curr
  BY <1>1, StepFacts
<1>3. stack' = [u \in Names |-> stack'[u]] /\ stack'[t] = stack[t] /\ \A u \in Names \ {t} : stack'[u] = <<>>
  BY <1>1
<1>4. /\ life' \in [Names -> {"none", "alive", "outside", "dead"}] /\ life'[t] = "alive"
      /\ \A u \in Names \ {t} : life'[u] = "dead" \/ (life'[u] = "none" /\ life[u] = "none")
  BY <1>1, <1>2 DEF IInv, Types
<1>5. Stacks' /\ Shapes'
  <2>1. \A u \in Names : IsSeq(stack'[u]) /\ Shape(stack'[u]) BY <1>2, <1>3, EmptyStack
  <2> QED BY <1>3, <2>1 DEF Stacks, Shapes
<1>6. Lives'
  <2>1. ASSUME NEW u \in Names PROVE Living(life'[u], stack'[u], mine'[u], u)
    <3>1. CASE u = t
      <4>1. Living(life[t], stack[t], mine[t], t) BY DEF IInv, Lives
      <4> QED BY <1>2, <1>3, <1>4, <3>1, <4>1 DEF Living
    <3>2. CASE u # t
      <4>1. life'[u] = "none" => mine[u] = 0 /\ u \notin OfC BY <1>4, <3>2 DEF IInv, Lives, Living
      <4>2. stack'[u] = <<>> /\ mine'[u] = mine[u] /\ Aim(<<>>) = "-" BY <1>2, <1>3, <3>2 DEF Aim
      <4> QED BY <1>4, <3>2, <4>1, <4>2 DEF Living
    <3> QED BY <3>1, <3>2
  <2> QED BY <2>1 DEF Lives
<1>7. Linked' = {t}
  BY <1>4 DEF Linked
<1>8. /\ nxt' \in [Names -> Names \union {NoOne}] /\ prv' \in [Names -> Names \union {NoOne}]
      /\ nxt'[t] = t /\ prv'[t] = t
  BY <1>1
<1>9. Ring'
  <2>1. PICK n, p : n = nxt' /\ p = prv' OBVIOUS
  <2>2. RingOf({t}, n, p) BY <1>8, <2>1, RingSingle
  <2>3. RingOf(Linked', nxt', prv') BY <1>7, <2>1, <2>2
  <2> QED BY <1>1, <1>7, <2>3 DEF Ring
<1>10. holder' \in [Mutexes \union Channels -> Names \union {NoOne}] /\ \A c \in Channels : holder'[c] = NoOne
  <2>1. \A l \in Mutexes \union Channels : holder[l] \in Names \union {NoOne} BY DEF IInv, Types
  <2> QED BY <1>1, <2>1
<1>11. Types'
  BY <1>1, <1>2, <1>4, <1>8, <1>10 DEF IInv, Types
<1>12. Owned'
  <2>1. ASSUME NEW u \in Names
        PROVE  /\ Inside(stack'[u]) => busy' /\ curr' = u /\ cs' = <<u, mine'[u]>>
               /\ life'[u] = "alive" /\ ~Inside(stack'[u]) => saved'[u] = <<u, mine'[u]>>
    <3>1. CASE u = t BY <1>1, <1>2, <1>3, <3>1
    <3>2. CASE u # t BY <1>3, <1>4, <3>2, EmptyStack
    <3> QED BY <3>1, <3>2
  <2> QED BY <2>1 DEF Owned
<1>13. Locking'
  <2>1. /\ \A u \in Names : life[u] # "dead" => \A c \in Channels : lastLocked[u] = c <=> Owns(stack[u], c)
        /\ \A c : Apart(stack[t], c) /\ Apart(<<>>, c)
    <3>1. PICK s : s = stack[t] OBVIOUS
    <3>2. \A c : Apart(s, c) BY <1>2, <3>1, NoneOwned
    <3> QED BY <1>2, <3>1, <3>2, EmptyStack DEF IInv, Locking
  <2>2. ASSUME NEW u \in Names, life'[u] # "dead", NEW c \in Channels PROVE lastLocked'[u] # c /\ Apart(stack'[u], c)
    <3>1. CASE u = t BY <1>1, <1>2, <1>3, <2>1, <3>1 DEF Apart
    <3>2. CASE u # t
      <4>1. life[u] = "none" BY <1>4, <2>2, <3>2
      <4>2. stack[u] = <<>> BY <4>1 DEF IInv, Lives, Living
      <4> QED BY <1>1, <1>3, <2>1, <3>2, <4>1, <4>2 DEF Apart
    <3> QED BY <3>1, <3>2
  <2> QED BY <1>10, <2>2 DEF Locking, Apart
<1>14. Exclusive'
  <2>1. ~Linking(stack[t]) BY <1>2, NoneLinks DEF IInv
  <2>2. \A u \in Names : ~Linking(stack'[u]) BY <1>3, <2>1, EmptyStack
  <2> QED BY <2>2 DEF Exclusive
<1> QED BY <1>5, <1>6, <1>9, <1>11, <1>12, <1>13, <1>14 DEF IInv

-----------------------------------------------------------------------------
(* The theorems *)

LEMMA InitInv ==
    Init => IInv
<1> SUFFICES ASSUME Init PROVE IInv
  OBVIOUS
<1>0. Main \in Names /\ Main \notin OfC /\ NoOne \notin Names \union Mutexes \union Channels
  BY NamesAssumption
<1>1. PICK q : q = <<F("ocaml")>>
  OBVIOUS
<1>2. IsSeq(q) /\ Shape(q) /\ Inside(q) /\ Settled(q) /\ (\A c : Apart(q, c)) /\ q # <<>> /\ q[1].pc = "ocaml"
  <2>1. Piece(q, "in", "end") BY <1>1, InPieces
  <2>2. IsSeq(q) /\ Shape(q) /\ q # <<>> /\ (Inside(q) <=> "in" = "in") /\ Settled(q) /\ \A c : Apart(q, c)
    BY <2>1, PieceShape
  <2>3. q[1].pc = "ocaml" BY <1>1 DEF F, Frame
  <2> QED BY <2>2, <2>3
<1>3. stack = [t \in Names |-> stack[t]] /\ stack[Main] = q /\ \A t \in Names \ {Main} : stack[t] = <<>>
  BY <1>0, <1>1 DEF Init
<1>4. /\ life \in [Names -> {"none", "alive", "outside", "dead"}] /\ life[Main] = "alive"
      /\ \A t \in Names \ {Main} : life[t] = IF t \in OfC THEN "outside" ELSE "none"
  BY <1>0 DEF Init
<1>5. Stacks /\ Shapes
  <2>1. \A t \in Names : IsSeq(stack[t]) /\ Shape(stack[t]) BY <1>2, <1>3, EmptyStack
  <2> QED BY <1>3, <2>1 DEF Stacks, Shapes
<1>6. /\ nxt \in [Names -> Names \union {NoOne}] /\ prv \in [Names -> Names \union {NoOne}]
      /\ nxt[Main] = Main /\ prv[Main] = Main /\ all_threads = Main
  BY <1>0 DEF Init
<1>7. Types
  <2>1. /\ prog \in Programs /\ pos \in [Names -> Nat \ {0}] /\ busy \in BOOLEAN /\ curr \in Names
        /\ saved \in [Names -> Names \X {0, 1}] /\ mine \in [Names -> {0, 1}] /\ cs \in Names \X {0, 1}
    BY <1>0 DEF Init
  <2>2. /\ holder \in [Mutexes \union Channels -> Names \union {NoOne}]
        /\ lastLocked \in [Names -> Channels \union {NoOne}]
    BY DEF Init
  <2> QED BY <1>0, <1>4, <1>6, <2>1, <2>2 DEF Types
<1>8. Lives
  <2>1. \A t \in Names : mine[t] = 0 BY DEF Init
  <2>2. Living("alive", q, mine[Main], Main) BY <1>2, LivingFacts
  <2>3. Aim(<<>>) = "-" BY DEF Aim
  <2>4. \A t \in Names \ {Main} : Living(life[t], <<>>, mine[t], t) BY <1>4, <2>1, <2>3 DEF Living
  <2> QED BY <1>3, <1>4, <2>2, <2>4 DEF Lives
<1>9. Owned
  <2>1. busy /\ curr = Main /\ cs = <<Main, mine[Main]>> BY <1>0 DEF Init
  <2> QED BY <1>2, <1>3, <1>4, <2>1, EmptyStack DEF Owned
<1>10. Ring
  <2>1. Linked = {Main} BY <1>0, <1>4 DEF Linked
  <2>2. RingOf({Main}, nxt, prv) BY <1>6, RingSingle
  <2> QED BY <1>6, <2>1, <2>2 DEF Ring
<1>11. Locking
  <2>1. \A c \in Channels : holder[c] = NoOne BY DEF Init
  <2>2. \A t \in Names : lastLocked[t] = NoOne BY DEF Init
  <2>3. \A t \in Names : \A c : Apart(stack[t], c) BY <1>2, <1>3, EmptyStack
  <2> QED BY <1>0, <2>1, <2>2, <2>3 DEF Locking, Apart
<1>12. Exclusive
  <2>1. ~Linking(q) BY <1>2 DEF Settled, Linking, Alone
  <2>2. \A t \in Names : ~Linking(stack[t]) BY <1>3, <2>1, EmptyStack
  <2> QED BY <2>2 DEF Exclusive
<1> QED BY <1>5, <1>7, <1>8, <1>9, <1>10, <1>11, <1>12 DEF IInv

\* Signals from outside, the tick thread and the end of the process leave the threads alone.
LEMMA StillStep ==
    ASSUME IInv, Passive, stack' = stack, over' = over \/ (over = "no" /\ over' # "fatal")
    PROVE  IInv'
<1>1. Stacks' /\ Shapes'
  BY DEF IInv, Stacks, Shapes
<1>2. Types'
  BY TypesKept DEF IInv
<1>3. life' = life /\ busy' = busy /\ curr' = curr /\ cs' = cs /\ saved' = saved /\ mine' = mine
      /\ holder' = holder /\ lastLocked' = lastLocked
  BY DEF Passive, state
<1>4. Lives'
  BY <1>3 DEF IInv, Lives
<1>5. Owned'
  BY <1>3 DEF IInv, Owned
<1>6. Ring'
  BY RingKept DEF IInv, Passive
<1>7. Locking'
  BY <1>3 DEF IInv, Locking
<1>8. Exclusive'
  BY <1>3 DEF IInv, Exclusive
<1> QED BY <1>1, <1>2, <1>4, <1>5, <1>6, <1>7, <1>8 DEF IInv

LEMMA NextInv ==
    ASSUME IInv, [Next]_vars
    PROVE  IInv'
<1>1. CASE UNCHANGED vars
  <2>1. Passive /\ stack' = stack /\ over' = over BY <1>1 DEF vars, Passive, lockvars, locks
  <2> QED BY <2>1, StillStep
<1>2. CASE caml_thread_tick
  <2>1. Passive /\ stack' = stack /\ over' = over BY <1>2 DEF caml_thread_tick, Passive, lockvars, locks
  <2> QED BY <2>1, StillStep
<1>3. CASE ProcessEnds
  <2>1. Passive /\ stack' = stack /\ over = "no" /\ over' # "fatal"
    BY <1>3 DEF ProcessEnds, At, Passive, lockvars, locks
  <2> QED BY <2>1, StillStep
<1>4. ASSUME NEW t \in Names, caml_record_signal(t) PROVE IInv'
  <2>1. Passive /\ stack' = stack /\ over' = over BY <1>4 DEF caml_record_signal, Passive, lockvars, locks
  <2> QED BY <2>1, StillStep
<1>5. ASSUME NEW t \in Names, Runtime(t) PROVE IInv'
  <2>1. CASE \/ st_masterlock_acquire(t) /\ At(t, "acquire")
             \/ Awake(t) /\ (busy \/ At(t, "sleep"))
             \/ caml_thread_enter_blocking_section(t)
             \/ st_thread_yield(t) \/ caml_threadstatus_terminate(t)
    BY <2>1, MasterLockSteps
  <2>a. CASE st_masterlock_acquire(t) /\ At(t, "take") BY <2>a, TakeSteps
  <2>b. CASE Awake(t) /\ ~busy /\ At(t, "doze") BY <2>b, TakeSteps
  <2>c. (st_masterlock_acquire(t) => At(t, "acquire") \/ At(t, "take")) /\ (Awake(t) => At(t, "sleep") \/ At(t, "doze"))
    BY DEF st_masterlock_acquire, Awake
  <2>2. CASE \/ st_masterlock_release(t) \/ caml_enter_blocking_section(t) \/ caml_leave_blocking_section(t)
             \/ caml_thread_yield(t)
    BY <2>2, LockSteps
  <2>3. CASE \/ caml_process_pending_signals_exn(t) \/ caml_execute_signal_exn(t)
             \/ HandlerReturns(t) \/ caml_do_pending_actions_exn(t)
    BY <2>3, SignalSteps
  <2>4. CASE \/ st_event_wait(t) \/ caml_thread_new_descriptor(t) \/ caml_thread_cleanup(t)
             \/ caml_thread_sigmask(t) \/ SystemCall(t) \/ caml_thread_start(t)
    BY <2>4, OtherSteps
  <2>5. CASE st_mutex_lock(t) \/ st_condvar_wait(t) BY <2>5, MutexSteps
  <2>6. CASE caml_callback(t) BY <2>6, CallbackStep
  <2>7. CASE Handler(t) BY <2>7, HandlerStep
  <2>8. CASE caml_io_mutex_lock(t) BY <2>8, ChannelLockStep
  <2>9. CASE caml_io_mutex_unlock(t) BY <2>9, ChannelUnlockStep
  <2>10. CASE caml_thread_stop(t) BY <2>10, StopStep
  <2>11. CASE caml_c_thread_register(t) \/ caml_c_thread_unregister(t) BY <2>11, RegisterCalls
  <2>12. CASE RegisterInfo(t) BY <2>12, RegisterStep
  <2>13. CASE UnregisterInfo(t) BY <2>13, UnregisterStep
  <2>14. CASE st_tls_set(t) BY <2>14, KeyStep
  <2> QED BY <1>5, <2>1, <2>2, <2>3, <2>4, <2>5, <2>6, <2>7, <2>8, <2>9, <2>10, <2>11, <2>12, <2>13, <2>14,
             <2>a, <2>b, <2>c DEF Runtime
<1>6. ASSUME NEW t \in Names, Program(t) PROVE IInv'
  <2>1. CASE DoYield(t) \/ DoBlock(t) \/ DoSigmask(t) \/ caml_thread_join(t) \/ DoCleanup(t)
    BY <2>1, PlainOperations
  <2>2. CASE caml_mutex_lock(t) \/ caml_mutex_unlock(t) \/ caml_condition_wait(t) BY <2>2, MutexOperations
  <2>3. CASE caml_condition_signal(t) \/ caml_condition_broadcast(t) BY <2>3, ConditionOperations
  <2>4. CASE ChannelOp(t) BY <2>4, ChannelOperation
  <2>5. CASE caml_thread_new(t) BY <2>5, NewStep
  <2>6. CASE caml_thread_reinitialize(t) BY <2>6, ForkStep
  <2>7. CASE caml_thread_exit(t) BY <2>7, OtherSteps
  <2>8. CASE FromC(t) BY <2>8, FromCStep
  <2> QED BY <1>6, <2>1, <2>2, <2>3, <2>4, <2>5, <2>6, <2>7, <2>8 DEF Program
<1> QED BY <1>1, <1>2, <1>3, <1>4, <1>5, <1>6 DEF Next

\* The master lock, the ring of infos, the frames of the threads and the locks of the
\* channels fit together after every sequence of calls, for any threads and programs.
THEOREM InvariantHolds ==
    Spec => []IInv
<1>1. Init => IInv
  BY InitInv
<1>2. IInv /\ [Next]_vars => IInv'
  BY NextInv
<1> QED BY <1>1, <1>2, PTL DEF Spec

\* The ring has no closed part, so that the walk from a linked info meets every one.
LEMMA WalkAll ==
    ASSUME IInv, NEW t \in Linked
    PROVE  Walk(t) = Linked
<1>1. /\ \A u \in Linked : nxt[u] \in Linked
      /\ \A S \in SUBSET Linked : S # {} /\ (\A u \in S : nxt[u] \in S) => S = Linked
  BY DEF IInv, Ring, RingOf
<1>2. NoOne \notin Linked /\ Linked \subseteq Names
  BY NamesAssumption DEF Linked
<1>3. PICK closed : closed = {c \in SUBSET (Names \union {NoOne}) : t \in c /\ \A u \in c \ {NoOne} : nxt[u] \in c}
  OBVIOUS
<1>4. Walk(t) = {u \in Names \union {NoOne} : \A c \in closed : u \in c}
  BY <1>3 DEF Walk
<1>5. Linked \in closed
  BY <1>1, <1>2, <1>3
<1>6. ASSUME NEW c \in closed PROVE Linked \subseteq c
  <2>1. t \in c /\ \A u \in c \ {NoOne} : nxt[u] \in c BY <1>3
  <2>2. PICK S : S = c \intersect Linked OBVIOUS
  <2>3. S \in SUBSET Linked /\ S # {} BY <2>1, <2>2
  <2>4. \A u \in S : nxt[u] \in S BY <1>1, <1>2, <2>1, <2>2
  <2>5. S = Linked BY <1>1, <2>3, <2>4
  <2> QED BY <2>2, <2>5
<1> QED BY <1>2, <1>4, <1>5, <1>6

\* While OCaml code runs no other thread is inside, curr_thread and Caml_state are its own, and
\* a collection that it starts finds every linked thread, with the registers that it left with.
THEOREM RuntimeIsOwned ==
    Spec => []RuntimeStateOwned
<1>1. IInv => RuntimeStateOwned
  <2> SUFFICES ASSUME IInv, NEW t \in Names, over = "no", stack[t] # <<>>,
                      stack[t][1].pc \in {"ocaml", "handler", "callback", "descriptor"}
               PROVE  /\ busy /\ curr = t /\ cs = <<t, mine[t]>>
                      /\ \A u \in Names \ {t} : stack[u] # <<>> =>
                           stack[u][1].pc \notin {"ocaml", "handler", "callback", "descriptor", "release", "handover",
                                                    "start", "link", "unlink"}
                      /\ Walk(t) = Linked /\ (all_threads \in Linked)
                      /\ \A u \in Linked : prv[nxt[u]] = u
                      /\ \A u \in Linked \ {t} : saved[u] = <<u, mine[u]>>
    BY DEF RuntimeStateOwned, Linked
  <2>1. {"ocaml", "handler", "callback", "descriptor", "release", "handover", "start"} \subseteq Inner BY DEF Inner
  <2>2. Inside(stack[t]) BY <2>1 DEF Inside
  <2>3. busy /\ curr = t /\ cs = <<t, mine[t]>> BY <2>2 DEF IInv, Owned
  <2>4. \A u \in Names \ {t} : ~Inside(stack[u]) BY <2>3 DEF IInv, Owned
  <2>5. \A u \in Names \ {t} : stack[u] # <<>> =>
          stack[u][1].pc \notin {"ocaml", "handler", "callback", "descriptor", "release", "handover",
                                   "start", "link", "unlink"}
    <3>1. \A u \in Names : ~Linking(stack[u]) BY <2>2, NoneLinks DEF IInv
    <3> QED BY <2>1, <2>4, <3>1 DEF Inside, Linking
  <2>6. t \in Linked BY DEF IInv, Lives, Living, Linked, Alone
  <2>7. Walk(t) = Linked BY <2>6, WalkAll
  <2>8. (all_threads \in Linked) /\ \A u \in Linked : prv[nxt[u]] = u BY <2>6 DEF IInv, Ring, RingOf
  <2>9. \A u \in Linked \ {t} : saved[u] = <<u, mine[u]>> BY <2>4 DEF IInv, Owned, Linked
  <2> QED BY <2>3, <2>5, <2>7, <2>8, <2>9
<1> QED BY <1>1, InvariantHolds, PTL

\* However an operation on a channel ends, by its return, by a failing call or by the exception
\* of a signal handler, the channel is unlocked: who holds one is still in the operation, and
\* the key that the exception unlocks by names a channel that the thread holds.
THEOREM ChannelsAreReleased ==
    Spec => []ChannelsReleased
<1>1. ASSUME IInv, over # "fatal", NEW c \in Channels, holder[c] # NoOne, life[holder[c]] = "alive"
      PROVE  \E k \in DOMAIN stack[holder[c]] : stack[holder[c]][k] = On("unlockchan", c)
  <2>1. PICK h : h = holder[c] OBVIOUS
  <2>2. h \in Names BY <1>1, <2>1 DEF IInv, Types
  <2>3. life[h] = "alive" /\ (lastLocked[h] = c \/ Keying(stack[h], c)) BY <1>1, <2>1 DEF IInv, Locking
  <2>4. PICK s : s = stack[h] OBVIOUS
  <2>5. IsSeq(s) /\ Shape(s) /\ Len(s) \in Nat BY <1>1, <2>2, <2>4 DEF IInv, Stacks, Shapes, IsSeq
  <2>6. \E k \in 1..Len(s) : s[k].pc = "unlockchan" /\ s[k].x = c
    <3>1. CASE lastLocked[h] = c
      <4>1. Owns(stack[h], c) BY <1>1, <2>2, <2>3, <3>1 DEF IInv, Locking
      <4> QED BY <2>4, <4>1 DEF Owns
    <3>2. CASE Keying(s, c)
      <4>1. s # <<>> /\ s[1].pc = "setkey" /\ s[1].x = c BY <3>2 DEF Keying
      <4>2. 1 \in 1..Len(s) BY <2>5, <4>1 DEF IsSeq
      <4>3. PointOK(s, 1) BY <2>5, <4>2 DEF Shape
      <4>4. s[Len(s) - 1].pc = "unlockchan" /\ s[Len(s) - 1].x = c /\ 1 = Len(s) - 9 BY <4>1, <4>3 DEF PointOK
      <4>5. Len(s) - 1 \in 1..Len(s)
        <5>1. PICK n : n = Len(s) OBVIOUS
        <5>2. n \in Nat /\ 1 = n - 9 BY <2>5, <4>4, <5>1
        <5>3. n - 1 \in 1..n BY ONLY <5>2
        <5> QED BY <5>1, <5>3
      <4> QED BY <4>4, <4>5
    <3> QED BY <2>3, <2>4, <3>1, <3>2
  <2>7. PICK k \in 1..Len(s) : s[k].pc = "unlockchan" /\ s[k].x = c BY <2>6
  <2>8. s[k] = On("unlockchan", c) BY <2>5, <2>7 DEF Shape, PointOK
  <2>9. DOMAIN s = 1..Len(s) BY <2>5 DEF IsSeq
  <2> QED BY <2>1, <2>4, <2>7, <2>8, <2>9
<1>2. ASSUME IInv, over # "fatal", NEW t \in Names, life[t] = "alive", lastLocked[t] # NoOne
      PROVE  holder[lastLocked[t]] = t
  <2>1. lastLocked[t] \in Channels BY <1>2 DEF IInv, Types
  <2> QED BY <1>2, <2>1 DEF IInv, Locking
<1>3. IInv => ChannelsReleased
  BY <1>1, <1>2 DEF ChannelsReleased
<1> QED BY <1>3, InvariantHolds, PTL
=============================================================================
