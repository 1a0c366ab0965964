-------------------------- MODULE CodeSectionsProofs ------------------------
(***************************************************************************)
(* The invariants of CodeSections for any number of loads, releases,       *)
(* callbacks, nested phrases and compilations.  The argument: a section    *)
(* that a closure, a running function or a Cranelift name depends on has   *)
(* functions, the toplevel only releases sections that have none, and      *)
(* looking a section up by its bytecode finds exactly that section.        *)
(***************************************************************************)
EXTENDS CodeSections, SequenceTheorems, TLAPS

Sections == [live : {TRUE}, number : Nat, base : Addrs \union {CallbackCode},
             buf : Nat, funs : SUBSET Offsets]
Slots == Sections \union {None}
Acts == [k : {"main", "phrase", "callback", "fn"}, code : Nat, buf : Nat,
         base : Addrs \union {CallbackCode}, free : BOOLEAN]

Types ==
    /\ sections \in Seq(Slots)
    /\ running \in Seq(Acts)
    /\ allocated \subseteq Addrs
    /\ loads \in Nat

\* The bytecode of a live section is allocated, or is the callback code.
BaseOwned ==
    \A i \in Live(sections) :
      \/ sections[i].base \in allocated
      \/ sections[i].base = CallbackCode /\ callbackCompiled

CallbackLive == callbackCompiled => \E i \in Live(sections) : sections[i].base = CallbackCode

Loaded(a) == a.k \in {"main", "phrase"}

\* The section an activation runs in.
Owns(i, a) ==
    /\ sections[i].buf = a.code
    /\ IF a.k = "fn" THEN sections[i].funs # {} ELSE sections[i].base = a.base
    /\ a.k = "phrase" /\ a.free => sections[i].funs = {}

ActOK(a) ==
    /\ \E i \in Live(sections) : Owns(i, a)
    /\ a.buf = a.code \/ (a.buf = ApplyBuf /\ applyCompiled)
    /\ a.k = "callback" => a.base = CallbackCode
    /\ Loaded(a) => a.base \in allocated
ActOwned == \A r \in 1..Len(running) : ActOK(running[r])

\* Each loaded buffer is entered once.
LoadsApart ==
    \A r, q \in 1..Len(running) :
      Loaded(running[r]) /\ Loaded(running[q]) /\ running[r].base = running[q].base => r = q

\* The section a closure was made in is live and has its function.
FnOwned(fn) ==
    /\ fn.k = "fn"
    /\ fn.number + 1 \in Live(sections)
    /\ sections[fn.number + 1].buf = fn.buf
    /\ fn.off \in sections[fn.number + 1].funs
HeapOwned == \A p \in heap : p.k \in {"fn", "restart"} /\ FnOwned(FnOf(p))

\* A defined name stands for an optimised closure of a live section.
NamesOwned ==
    \A d \in defined :
      /\ d[1] + 1 \in Live(sections)
      /\ sections[d[1] + 1].funs # {}
      /\ \E o \in optimised : o.entry = <<sections[d[1] + 1].buf, d[2]>>

\* The shared apply code is there before the first optimised function.
ApplyThere == optimised # {} => applyCompiled

Store == Types /\ SectionNumberIsIndex /\ OneSectionPerCode /\ BaseOwned /\ CallbackLive
Users == ActOwned /\ LoadsApart /\ HeapOwned
Compiled == OptimisedFromOwnCode /\ StackMapsOfOwnFunction /\ NamesOwned /\ ApplyThere
IInv == Store /\ Users /\ Compiled /\ NeverPanics

-----------------------------------------------------------------------------
(* The vector of sections *)

\* The fields of a live section.
LEMMA LiveFields ==
    ASSUME Types, NEW i \in Live(sections)
    PROVE  sections[i] \in Sections
  BY DEF Types, Live, Slots, None

\* Pushing a section leaves the others where they are.
LEMMA PushKeeps ==
    ASSUME NEW secs \in Seq(Slots), NEW a \in Addrs \union {CallbackCode},
           NEW buf \in Nat, NEW funs \in SUBSET Offsets
    PROVE  LET new == Pushed(secs, a, buf, funs)
           IN  /\ new \in Seq(Slots)
               /\ Live(new) = Live(secs) \union {Len(secs) + 1}
               /\ \A i \in Live(secs) : new[i] = secs[i] /\ i # Len(secs) + 1 /\ i \in Nat
               /\ new[Len(secs) + 1] = Section(Len(secs), a, buf, funs)
<1> DEFINE s == Section(Len(secs), a, buf, funs)
           new == Append(secs, s)
<1>1. s \in Slots /\ s.live
  BY DEF Section, Slots, Sections
<1> HIDE DEF s
<1>2. /\ new \in Seq(Slots) /\ Len(new) = Len(secs) + 1 /\ Len(secs) \in Nat
      /\ \A i \in 1..Len(secs) : new[i] = secs[i]
      /\ new[Len(secs) + 1] = s
  BY <1>1
<1>3. Live(new) = Live(secs) \union {Len(secs) + 1}
  BY <1>1, <1>2 DEF Live
<1> QED BY <1>2, <1>3 DEF Pushed, s, Live

\* Releasing the section at index i, by its number, leaves exactly the others live.
LEMMA ReleaseKeeps ==
    ASSUME NEW secs \in Seq(Slots), NEW i \in Live(secs)
    PROVE  LET new == Released(secs, i - 1)
           IN  /\ new \in Seq(Slots)
               /\ Live(new) = Live(secs) \ {i}
               /\ \A j \in Live(new) : new[j] = secs[j]
<1> DEFINE new == Released(secs, i - 1)
<1>0. i \in 1..Len(secs) /\ Len(secs) \in Nat /\ secs[i].live
  BY DEF Live
<1>1. CASE i = Len(secs)
  <2>1. new = SubSeq(secs, 1, Len(secs) - 1)
    BY <1>0, <1>1 DEF Released
  <2>2. /\ new \in Seq(Slots) /\ Len(new) = Len(secs) - 1
        /\ \A j \in 1..(Len(secs) - 1) : new[j] = secs[j]
    BY <1>0, <2>1
  <2> HIDE DEF new
  <2> QED BY <1>0, <1>1, <2>2 DEF Live, new
<1>2. CASE i # Len(secs)
  <2>1. new = [secs EXCEPT ![i] = None]
    BY <1>0, <1>2 DEF Released
  <2>2. /\ new \in Seq(Slots) /\ Len(new) = Len(secs) /\ new[i] = None
        /\ \A j \in 1..Len(secs) : j # i => new[j] = secs[j]
    BY <1>0, <2>1 DEF Slots
  <2>3. ~None.live
    BY DEF None
  <2> HIDE DEF new
  <2> QED BY <1>0, <2>2, <2>3 DEF Live, new
<1> QED BY <1>1, <1>2

\* get_section_for_code finds the one live section that has this bytecode.
LEMMA LookupFinds ==
    ASSUME NEW secs, NEW a, NEW i \in Live(secs), secs[i].base = a,
           \A j, k \in Live(secs) : secs[j].base = secs[k].base => j = k
    PROVE  SectionFor(secs, a) = i
<1> DEFINE found == {j \in Live(secs) : secs[j].base = a}
<1>1. found = {i}
  OBVIOUS
<1>2. i \in Nat /\ i # 0
  BY DEF Live
<1>3. (CHOOSE j \in found : \A k \in found : j <= k) = i
  BY <1>1, <1>2
<1> QED BY <1>1, <1>3 DEF SectionFor

\* Entering code appends an activation and leaves the others.
LEMMA EnterKeeps ==
    ASSUME NEW s \in Seq(Acts), NEW e \in Acts
    PROVE  /\ Append(s, e) \in Seq(Acts) /\ Len(s) \in Nat
           /\ Len(Append(s, e)) = Len(s) + 1
           /\ \A r \in 1..Len(s) : Append(s, e)[r] = s[r]
           /\ Append(s, e)[Len(s) + 1] = e
  OBVIOUS

\* Leaving code takes the innermost activation away and leaves the others.
LEMMA PopKeeps ==
    ASSUME Types, running # <<>>
    PROVE  /\ Pop \in Seq(Acts) /\ Len(Pop) = Len(running) - 1
           /\ Len(running) \in Nat \ {0}
           /\ \A r \in 1..Len(Pop) : r \in 1..Len(running) /\ r # Len(running) /\ Pop[r] = running[r]
<1>1. running \in Seq(Acts) /\ Len(running) \in Nat \ {0}
  BY DEF Types
<1>2. /\ Pop \in Seq(Acts) /\ Len(Pop) = Len(running) - 1
      /\ \A r \in 1..(Len(running) - 1) : Pop[r] = running[r]
  <2>1. \A r \in 1..(Len(running) - 1) : running[r] \in Acts
    BY <1>1
  <2>2. /\ Pop \in Seq(Acts)
        /\ Len(Pop) = IF 1 <= Len(running) - 1 THEN (Len(running) - 1) - 1 + 1 ELSE 0
        /\ \A r \in 1..((Len(running) - 1) - 1 + 1) : Pop[r] = running[1 + r - 1]
    BY <1>1, <2>1, SubSeqProperties DEF Pop
  <2>3. PICK n \in Nat : n = Len(running) - 1
    BY <1>1
  <2>4. (IF 1 <= n THEN n - 1 + 1 ELSE 0) = n /\ n - 1 + 1 = n
    OBVIOUS
  <2>5. \A r \in 1..n : Pop[r] = running[r]
    BY <2>2, <2>3, <2>4
  <2> QED BY <2>2, <2>3, <2>4, <2>5
<1> QED BY <1>1, <1>2

-----------------------------------------------------------------------------
(* The steps that only add *)

\* Sections stay where they are; new ones may have come.
Grows ==
    /\ Live(sections) \subseteq Live(sections')
    /\ \A i \in Live(sections) : sections'[i] = sections[i]

\* Closures keep the section they were made in while sections are only added.
LEMMA GrowKeepsHeap ==
    ASSUME HeapOwned, Grows, UNCHANGED heap
    PROVE  HeapOwned'
  BY DEF HeapOwned, Grows, FnOwned, FnOf

\* What is compiled keeps its section while sections are only added.
LEMMA GrowKeepsCompiled ==
    ASSUME Compiled, Grows, UNCHANGED <<applyCompiled, compiler>>
    PROVE  Compiled'
<1>1. NamesOwned'
  BY DEF Compiled, NamesOwned, Grows, compiler
<1> QED BY <1>1 DEF Compiled, OptimisedFromOwnCode, StackMapsOfOwnFunction, ApplyThere, compiler

\* An activation keeps its section while sections are only added.
LEMMA GrowKeepsAct ==
    ASSUME Grows, allocated \subseteq allocated', applyCompiled => applyCompiled'
    PROVE  \A a : ActOK(a) => ActOK(a)'
<1> TAKE a
<1> HAVE ActOK(a)
<1>1. PICK i \in Live(sections) : Owns(i, a)
  BY DEF ActOK
<1>2. i \in Live(sections') /\ Owns(i, a)'
  BY <1>1 DEF Grows, Owns
<1> QED BY <1>2 DEF ActOK, Loaded

\* A section for bytecode that no live section has can be pushed.
LEMMA PushStep ==
    ASSUME Types, SectionNumberIsIndex, OneSectionPerCode,
           NEW a \in Addrs \union {CallbackCode}, NEW funs \in SUBSET Offsets,
           \A i \in Live(sections) : sections[i].base # a,
           loads' = loads + 1, sections' = Pushed(sections, a, loads', funs)
    PROVE  /\ loads' \in Nat /\ sections' \in Seq(Slots)
           /\ SectionNumberIsIndex' /\ OneSectionPerCode' /\ Grows
           /\ Live(sections') = Live(sections) \union {Len(sections) + 1}
           /\ sections'[Len(sections) + 1] = Section(Len(sections), a, loads', funs)
<1> DEFINE n == Len(sections) + 1
<1>1. loads' \in Nat /\ sections \in Seq(Slots) /\ Len(sections) \in Nat
  BY DEF Types
<1>2. /\ sections' \in Seq(Slots)
      /\ Live(sections') = Live(sections) \union {n}
      /\ \A i \in Live(sections) : sections'[i] = sections[i] /\ i # n /\ i \in Nat
      /\ sections'[n] = Section(Len(sections), a, loads', funs)
  BY <1>1, PushKeeps
<1>3. sections'[n].number = n - 1 /\ sections'[n].base = a
  BY <1>1, <1>2 DEF Section
<1> HIDE DEF n
<1>4. SectionNumberIsIndex'
  BY <1>2, <1>3 DEF SectionNumberIsIndex
<1>5. OneSectionPerCode'
  BY <1>2, <1>3 DEF OneSectionPerCode
<1>6. Grows
  BY <1>2 DEF Grows
<1> QED BY <1>1, <1>2, <1>4, <1>5, <1>6 DEF n

\* Entering code: the activations that are there keep their sections, and the new one,
\* if it was just loaded, has bytecode of its own.
LEMMA EnterUsers ==
    ASSUME Types, Users, Grows, allocated \subseteq allocated', applyCompiled => applyCompiled',
           NEW act \in Acts, ActOK(act)', Loaded(act) => act.base \notin allocated,
           running' = Append(running, act), UNCHANGED heap
    PROVE  running' \in Seq(Acts) /\ Users'
<1> USE DEF Users
<1>1. /\ running' \in Seq(Acts) /\ Len(running) \in Nat /\ Len(running') = Len(running) + 1
      /\ \A r \in 1..Len(running) : running'[r] = running[r]
      /\ running'[Len(running) + 1] = act
  BY EnterKeeps DEF Types
<1>2. ActOwned'
  <2>1. \A b : ActOK(b) => ActOK(b)'
    BY GrowKeepsAct
  <2> SUFFICES ASSUME NEW r \in 1..Len(running')
               PROVE  ActOK(running[r])'
    BY DEF ActOwned
  <2>2. CASE r \in 1..Len(running)
    BY <1>1, <2>1, <2>2 DEF ActOwned
  <2>3. CASE r = Len(running) + 1
    BY <1>1, <2>3
  <2> QED BY <1>1, <2>2, <2>3
<1>3. LoadsApart'
  BY <1>1 DEF LoadsApart, ActOwned, ActOK, Loaded
<1>4. HeapOwned'
  BY GrowKeepsHeap
<1> QED BY <1>1, <1>2, <1>3, <1>4

\* caml_prepare_bytecode on a buffer that was just allocated, and its first instruction.
LEMMA LoadStep ==
    ASSUME IInv, NEW k \in {"main", "phrase"}, NEW a \in Addrs, NEW funs \in SUBSET Offsets,
           LoadAndEnter(k, a, funs)
    PROVE  IInv'
<1> USE DEF IInv, Store
<1>n. PICK n : n = Len(sections) + 1
  OBVIOUS
<1>a. PICK act : act = Act(k, loads', loads', a, funs = {})
  OBVIOUS
<1>1. /\ a \notin allocated /\ allocated' = allocated \union {a}
      /\ loads' = loads + 1 /\ sections' = Pushed(sections, a, loads', funs)
      /\ running' = Append(running, act)
      /\ UNCHANGED <<callbackCompiled, applyCompiled, heap, compiler, panicked>>
  BY <1>a DEF LoadAndEnter
<1>2. \A i \in Live(sections) : sections[i].base # a
  BY <1>1, AddrsAssumption DEF BaseOwned
<1>3. /\ loads' \in Nat /\ sections' \in Seq(Slots)
      /\ SectionNumberIsIndex' /\ OneSectionPerCode' /\ Grows
      /\ Live(sections') = Live(sections) \union {n}
      /\ sections'[n] = Section(Len(sections), a, loads', funs)
  BY <1>n, <1>1, <1>2, PushStep
<1>4. sections'[n].base = a /\ sections'[n].buf = loads' /\ sections'[n].funs = funs
  BY <1>3 DEF Section
<1>5. /\ act \in Acts /\ act.k = k /\ act.code = loads' /\ act.buf = loads'
      /\ act.base = a /\ act.free = (funs = {})
  BY <1>a, <1>3 DEF Act, Acts
<1>6. BaseOwned' /\ CallbackLive'
  BY <1>1, <1>3, <1>4 DEF BaseOwned, CallbackLive, Grows
<1>7. ActOK(act)'
  <2>1. Owns(n, act)'
    BY <1>4, <1>5 DEF Owns
  <2> QED BY <2>1, <1>1, <1>3, <1>5 DEF ActOK, Loaded
<1>8. running' \in Seq(Acts) /\ Users'
  BY <1>1, <1>3, <1>5, <1>7, EnterUsers
<1>9. Types'
  BY <1>1, <1>3, <1>8 DEF Types
<1>10. Compiled'
  BY <1>1, <1>3, GrowKeepsCompiled
<1> QED BY <1>1, <1>3, <1>6, <1>8, <1>9, <1>10 DEF NeverPanics

\* Entering code of a section that is there already.
LEMMA EnterStep ==
    ASSUME IInv, NEW act \in Acts, ~Loaded(act), ActOK(act), running' = Append(running, act),
           UNCHANGED <<store, heap, compiler, panicked>>
    PROVE  IInv'
<1> USE DEF IInv, Store, store
<1>1. Grows
  BY DEF Grows
<1>2. ActOK(act)'
  BY <1>1, GrowKeepsAct
<1>3. running' \in Seq(Acts) /\ Users'
  BY <1>1, <1>2, EnterUsers
<1>4. Store'
  BY <1>3 DEF Types, SectionNumberIsIndex, OneSectionPerCode, BaseOwned, CallbackLive
<1>5. Compiled'
  BY <1>1, GrowKeepsCompiled
<1> QED BY <1>3, <1>4, <1>5 DEF NeverPanics

\* A call: the section of the closure's function is live, so its code can be entered.
LEMMA CallStep ==
    ASSUME IInv, NEW p \in heap, Call(p)
    PROVE  IInv'
<1>0. PICK fn : fn = FnOf(p)
  OBVIOUS
<1>1. PICK i \in Live(sections) : sections[i].buf = fn.buf /\ sections[i].funs # {}
  BY <1>0 DEF IInv, Users, HeapOwned, FnOwned
<1>2. fn.buf \in Nat
  BY <1>1, LiveFields DEF IInv, Store, Sections
<1>3. PICK act : act = Act("fn", fn.buf, IF Optimised(fn) THEN ApplyBuf ELSE fn.buf,
                           CallbackCode, FALSE)
  OBVIOUS
<1>4. /\ act \in Acts /\ act.k = "fn" /\ act.code = fn.buf
      /\ act.buf = act.code \/ (act.buf = ApplyBuf /\ Optimised(fn))
  BY <1>2, <1>3 DEF Act, Acts, ApplyBuf
<1>5. Optimised(fn) => applyCompiled
  BY DEF IInv, Compiled, ApplyThere, Optimised
<1>6. Owns(i, act)
  BY <1>1, <1>4 DEF Owns
<1>7. ActOK(act) /\ ~Loaded(act)
  BY <1>4, <1>5, <1>6 DEF ActOK, Loaded
<1>8. running' = Append(running, act) /\ UNCHANGED <<store, heap, compiler, panicked>>
  BY <1>0, <1>3 DEF Call
<1> QED BY <1>4, <1>7, <1>8, EnterStep

\* A callback enters the callback code, which the first one compiles.
LEMMA CallbackStep ==
    ASSUME IInv, Callback
    PROVE  IInv'
<1> USE DEF IInv, Store
<1>1. CASE callbackCompiled
  <2>1. PICK i \in Live(sections) : sections[i].base = CallbackCode
    BY <1>1 DEF CallbackLive
  <2>2. sections' = sections /\ SectionFor(sections', CallbackCode) = i /\ i # 0
    BY <1>1, <2>1, LookupFinds DEF Callback, OneSectionPerCode, Live
  <2>3. PICK act : act = Act("callback", sections[i].buf, sections[i].buf, CallbackCode, FALSE)
    OBVIOUS
  <2>4. running' = Append(running, act) /\ UNCHANGED <<store, heap, compiler, panicked>>
    BY <1>1, <2>2, <2>3 DEF Callback, store
  <2>5. sections[i].buf \in Nat
    BY LiveFields DEF Sections
  <2>6. /\ act \in Acts /\ act.k = "callback" /\ act.code = sections[i].buf
        /\ act.buf = act.code /\ act.base = CallbackCode
    BY <2>3, <2>5 DEF Act, Acts
  <2>7. ActOK(act) /\ ~Loaded(act)
    BY <2>1, <2>6 DEF ActOK, Owns, Loaded
  <2> QED BY <2>4, <2>6, <2>7, EnterStep
<1>2. CASE ~callbackCompiled
  <2>1. /\ loads' = loads + 1 /\ sections' = Pushed(sections, CallbackCode, loads', {})
        /\ callbackCompiled' = TRUE /\ UNCHANGED <<applyCompiled, allocated, heap, compiler>>
    BY <1>2 DEF Callback
  <2>2. \A i \in Live(sections) : sections[i].base # CallbackCode
    BY <1>2, AddrsAssumption DEF BaseOwned, Types
  <2>3. PICK n : n = Len(sections) + 1
    OBVIOUS
  <2>4. /\ loads' \in Nat /\ sections' \in Seq(Slots)
        /\ SectionNumberIsIndex' /\ OneSectionPerCode' /\ Grows
        /\ Live(sections') = Live(sections) \union {n}
        /\ sections'[n] = Section(Len(sections), CallbackCode, loads', {})
    <3>1. CallbackCode \in Addrs \union {CallbackCode} /\ {} \in SUBSET Offsets
      OBVIOUS
    <3> QED BY <2>1, <2>2, <2>3, <3>1, PushStep
  <2>5. sections'[n].base = CallbackCode /\ sections'[n].buf = loads'
    BY <2>4 DEF Section
  <2>6. SectionFor(sections', CallbackCode) = n /\ n # 0
    <3>1. n \in Live(sections') /\ n # 0
      BY <2>4 DEF Live
    <3> QED BY <2>4, <2>5, <3>1, LookupFinds DEF OneSectionPerCode
  <2>7. PICK act : act = Act("callback", loads', loads', CallbackCode, FALSE)
    OBVIOUS
  <2>8. running' = Append(running, act) /\ UNCHANGED panicked
    BY <2>5, <2>6, <2>7 DEF Callback
  <2>9. /\ act \in Acts /\ act.k = "callback" /\ act.code = loads'
        /\ act.buf = act.code /\ act.base = CallbackCode
    BY <2>4, <2>7 DEF Act, Acts
  <2>10. ActOK(act)' /\ ~Loaded(act)
    <3>1. Owns(n, act)'
      BY <2>5, <2>9 DEF Owns
    <3> QED BY <3>1, <2>4, <2>9 DEF ActOK, Loaded
  <2>11. running' \in Seq(Acts) /\ Users'
    BY <2>1, <2>4, <2>8, <2>9, <2>10, EnterUsers
  <2>12. BaseOwned' /\ CallbackLive'
    BY <2>1, <2>4, <2>5 DEF BaseOwned, CallbackLive, Grows
  <2>13. Types'
    BY <2>1, <2>4, <2>11 DEF Types
  <2>14. Compiled'
    BY <2>1, <2>4, GrowKeepsCompiled
  <2> QED BY <2>4, <2>8, <2>11, <2>12, <2>13, <2>14 DEF NeverPanics
<1> QED BY <1>1, <1>2

-----------------------------------------------------------------------------
(* The steps that take away *)

\* Leaving an activation whose code stays.
LEMMA LeaveStep ==
    ASSUME IInv, running # <<>>, running' = Pop, UNCHANGED <<store, heap, compiler, panicked>>
    PROVE  IInv'
<1> USE DEF IInv, Store, Users, store
<1>1. /\ running' \in Seq(Acts)
      /\ \A r \in 1..Len(running') : r \in 1..Len(running) /\ running'[r] = running[r]
  BY PopKeeps
<1>2. Grows
  BY DEF Grows
<1>3. \A b : ActOK(b) => ActOK(b)'
  BY <1>2, GrowKeepsAct
<1>4. ActOwned'
  <2> SUFFICES ASSUME NEW r \in 1..Len(running')
               PROVE  ActOK(running[r])'
    BY DEF ActOwned
  <2> QED BY <1>1, <1>3 DEF ActOwned
<1>5. LoadsApart'
  BY <1>1 DEF LoadsApart, Loaded
<1>6. HeapOwned' /\ Compiled'
  BY <1>2, GrowKeepsHeap, GrowKeepsCompiled
<1>7. Store'
  BY <1>1 DEF Types, SectionNumberIsIndex, OneSectionPerCode, BaseOwned, CallbackLive
<1> QED BY <1>4, <1>5, <1>6, <1>7 DEF NeverPanics

\* The end of a phrase that can be freed.  The lookup finds the phrase's own section.  No
\* other activation, no closure and no name is of that section: a function or a name
\* belongs to a section with functions, callbacks to the callback code's, and another
\* phrase, even one that is still being run around this one, has bytecode of its own.
LEMMA ReleaseStep ==
    ASSUME IInv, EndPhrase, Top.free
    PROVE  IInv'
<1> USE DEF IInv, Store, Users
<1>0. /\ running # <<>> /\ Top.k = "phrase"
      /\ UNCHANGED <<callbackCompiled, applyCompiled, loads, heap, compiler>>
  BY DEF EndPhrase
<1>1. /\ Pop \in Seq(Acts) /\ Len(running) \in Nat \ {0}
      /\ \A r \in 1..Len(Pop) : r \in 1..Len(running) /\ r # Len(running) /\ Pop[r] = running[r]
  BY <1>0, PopKeeps
<1>2. ActOK(Top) /\ Loaded(Top) /\ Top.base \in allocated /\ Top.base # CallbackCode
  BY <1>0, <1>1, AddrsAssumption DEF ActOwned, ActOK, Loaded, Top, Types
<1>3. PICK j \in Live(sections) : Owns(j, Top)
  BY <1>2 DEF ActOK
<1>4. sections[j].base = Top.base /\ sections[j].funs = {} /\ sections[j].number = j - 1
  BY <1>0, <1>3 DEF Owns, SectionNumberIsIndex
<1>5. SectionFor(sections, Top.base) = j /\ j # 0
  BY <1>4, LookupFinds DEF OneSectionPerCode, Live
<1>6. /\ sections' = Released(sections, j - 1) /\ allocated' = allocated \ {Top.base}
      /\ running' = Pop /\ UNCHANGED panicked
  BY <1>4, <1>5 DEF EndPhrase
<1>7. /\ sections' \in Seq(Slots) /\ Live(sections') = Live(sections) \ {j}
      /\ \A i \in Live(sections') : sections'[i] = sections[i]
  BY <1>6, ReleaseKeeps DEF Types
<1>8. Types'
  BY <1>0, <1>1, <1>6, <1>7 DEF Types
<1>9. SectionNumberIsIndex' /\ OneSectionPerCode'
  BY <1>7 DEF SectionNumberIsIndex, OneSectionPerCode
<1>10. BaseOwned' /\ CallbackLive'
  BY <1>0, <1>2, <1>4, <1>6, <1>7 DEF BaseOwned, CallbackLive, OneSectionPerCode
<1>11. ActOwned'
  <2> SUFFICES ASSUME NEW r \in 1..Len(running')
               PROVE  ActOK(running[r])'
    BY DEF ActOwned
  <2>1. PICK a : a = running[r]
    OBVIOUS
  <2>2. ActOK(a) /\ running'[r] = a /\ (Loaded(a) => a.base # Top.base)
    BY <1>1, <1>2, <1>6, <2>1 DEF ActOwned, LoadsApart, Top
  <2>3. PICK i \in Live(sections) : Owns(i, a)
    BY <2>2 DEF ActOK
  <2>4. a.k \in {"main", "phrase", "callback", "fn"}
    <3>1. a \in Acts
      <4>1. r \in 1..Len(running) /\ running \in Seq(Acts)
        BY <1>1, <1>6 DEF Types
      <4> QED BY <2>1, <4>1
    <3> QED BY <3>1 DEF Acts
  <2>5. i # j
    BY <1>2, <1>4, <2>2, <2>3, <2>4 DEF Owns, ActOK, Loaded
  <2>6. i \in Live(sections') /\ Owns(i, a)'
    BY <1>7, <2>3, <2>5 DEF Owns
  <2>7. ActOK(a)'
    BY <1>0, <1>6, <2>2, <2>6 DEF ActOK, Loaded
  <2> QED BY <2>2, <2>7
<1>12. LoadsApart'
  BY <1>1, <1>6 DEF LoadsApart, Loaded
<1>13. HeapOwned'
  <2> SUFFICES ASSUME NEW p \in heap
               PROVE  p.k \in {"fn", "restart"} /\ FnOwned(FnOf(p))'
    BY <1>0 DEF HeapOwned
  <2>1. p.k \in {"fn", "restart"} /\ FnOwned(FnOf(p)) /\ FnOf(p).number + 1 # j
    BY <1>4 DEF HeapOwned, FnOwned
  <2> QED BY <1>7, <2>1 DEF FnOwned, FnOf
<1>14. Compiled'
  <2>1. NamesOwned'
    <3> SUFFICES ASSUME NEW d \in defined
                 PROVE  /\ d[1] + 1 \in Live(sections')
                        /\ sections'[d[1] + 1].funs # {}
                        /\ \E o \in optimised : o.entry = <<sections'[d[1] + 1].buf, d[2]>>
      BY <1>0 DEF NamesOwned, compiler
    <3>1. /\ d[1] + 1 \in Live(sections) /\ sections[d[1] + 1].funs # {}
          /\ \E o \in optimised : o.entry = <<sections[d[1] + 1].buf, d[2]>>
      BY DEF Compiled, NamesOwned
    <3>2. d[1] + 1 # j
      BY <1>4, <3>1
    <3> QED BY <1>7, <3>1, <3>2
  <2> QED BY <1>0, <2>1 DEF Compiled, OptimisedFromOwnCode, StackMapsOfOwnFunction, ApplyThere, compiler
<1> QED BY <1>6, <1>8, <1>9, <1>10, <1>11, <1>12, <1>13, <1>14 DEF NeverPanics

-----------------------------------------------------------------------------
(* The steps of the heap and of the optimising compiler *)

\* Only the heap changes: new closures are of live sections that have their function.
LEMMA HeapStep ==
    ASSUME IInv, HeapOwned', UNCHANGED <<store, running, compiler, panicked>>
    PROVE  IInv'
<1> USE DEF IInv, Store, Users, store
<1>1. Grows
  BY DEF Grows
<1>2. Store'
  BY DEF Types, SectionNumberIsIndex, OneSectionPerCode, BaseOwned, CallbackLive
<1>3. ActOwned' /\ LoadsApart'
  <2>1. \A b : ActOK(b) => ActOK(b)'
    BY <1>1, GrowKeepsAct
  <2> QED BY <2>1 DEF ActOwned, LoadsApart, Loaded
<1>4. Compiled'
  BY <1>1, GrowKeepsCompiled
<1> QED BY <1>2, <1>3, <1>4 DEF NeverPanics

\* CLOSURE: the pointer is one of the section whose code is running.
LEMMA MakeClosureStep ==
    ASSUME IInv, NEW i \in Live(sections), NEW off \in Offsets, MakeClosure(i, off)
    PROVE  IInv'
<1>1. /\ off \in sections[i].funs /\ heap' = heap \union {FnPtr(sections[i], off)}
      /\ UNCHANGED <<store, running, compiler, panicked>>
  BY DEF MakeClosure
<1>2. PICK q : q = FnPtr(sections[i], off)
  OBVIOUS
<1>3. /\ q.k = "fn" /\ q.buf = sections[i].buf /\ q.off = off
      /\ q.number = sections[i].number /\ FnOf(q) = q
  BY <1>2 DEF FnPtr, FnOf
<1>4. q.number + 1 = i
  BY <1>3 DEF IInv, Store, SectionNumberIsIndex, Live
<1>5. FnOwned(FnOf(q))
  BY <1>1, <1>3, <1>4 DEF FnOwned
<1>6. HeapOwned'
  BY <1>1, <1>2, <1>3, <1>5 DEF IInv, Users, HeapOwned, FnOwned, FnOf, store
<1> QED BY <1>1, <1>6, HeapStep

\* A partial application stands for the function that the closure stood for.
LEMMA PartialApplyStep ==
    ASSUME IInv, NEW p \in heap, PartialApply(p)
    PROVE  IInv'
<1>1. /\ heap' = heap \union {RestartPtr(IF p.k = "restart" THEN p.buf ELSE Top.buf, FnOf(p))}
      /\ UNCHANGED <<store, running, compiler, panicked>>
  BY DEF PartialApply
<1>2. PICK q : q = RestartPtr(IF p.k = "restart" THEN p.buf ELSE Top.buf, FnOf(p))
  OBVIOUS
<1>3. q.k = "restart" /\ FnOf(q) = FnOf(p)
  BY <1>2 DEF RestartPtr, FnOf
<1>4. HeapOwned'
  BY <1>1, <1>2, <1>3 DEF IInv, Users, HeapOwned, FnOwned, FnOf, store
<1> QED BY <1>1, <1>4, HeapStep

\* Only the compiler's tables change, and the apply code may have been made.
LEMMA TablesStep ==
    ASSUME IInv, Compiled', applyCompiled => applyCompiled',
           UNCHANGED <<sections, callbackCompiled, allocated, loads, running, heap, panicked>>
    PROVE  IInv'
<1> USE DEF IInv, Store, Users
<1>1. Grows
  BY DEF Grows
<1>2. Store'
  BY DEF Types, SectionNumberIsIndex, OneSectionPerCode, BaseOwned, CallbackLive
<1>3. ActOwned' /\ LoadsApart'
  <2>1. \A b : ActOK(b) => ActOK(b)'
    BY <1>1, GrowKeepsAct
  <2> QED BY <2>1 DEF ActOwned, LoadsApart, Loaded
<1>4. HeapOwned'
  BY <1>1, GrowKeepsHeap
<1> QED BY <1>2, <1>3, <1>4 DEF NeverPanics

\* The closure is not even tried.
LEMMA CompileRefusedStep ==
    ASSUME IInv, NEW p \in heap, CompileRefused(p)
    PROVE  IInv'
<1>1. UNCHANGED <<store, running, heap, optimised, defined, stackMapsTodo, stackMaps, panicked>>
  BY DEF CompileRefused
<1>2. Compiled'
  BY <1>1 DEF IInv, Compiled, OptimisedFromOwnCode, StackMapsOfOwnFunction, ApplyThere,
              NamesOwned, store
<1> QED BY <1>1, <1>2, TablesStep DEF store

\* The closure's number is that of the live section it was made in, so that the lookup
\* succeeds, and what is compiled, named and filed is its own code.
LEMMA CompileClosureStep ==
    ASSUME IInv, NEW p \in heap, CompileClosure(p)
    PROVE  IInv'
<1>1. p.k = "fn" /\ FnOf(p) = p
  BY DEF CompileClosure, Hot, FnOf
<1>2. /\ p.number + 1 \in Live(sections) /\ sections[p.number + 1].buf = p.buf
      /\ sections[p.number + 1].funs # {}
  BY <1>1 DEF IInv, Users, HeapOwned, FnOwned
<1>3. /\ applyCompiled' = TRUE
      /\ UNCHANGED <<sections, callbackCompiled, allocated, loads, running, heap, panicked>>
      /\ CompileSucceeds(p) \/ CompileFails(p)
  BY <1>2 DEF CompileClosure, HasSection
<1>4. Compiled'
  <2> USE DEF IInv, Compiled
  <2>1. CASE CompileFails(p)
    BY <1>3, <2>1 DEF CompileFails, OptimisedFromOwnCode, StackMapsOfOwnFunction, ApplyThere, NamesOwned
  <2>2. CASE CompileSucceeds(p)
    <3>1. PICK o : o = [entry |-> Entry(p), code |-> <<sections[p.number + 1].buf, p.off>>]
      OBVIOUS
    <3>2. o.entry = <<p.buf, p.off>> /\ o.code = <<p.buf, p.off>>
      BY <1>2, <3>1 DEF Entry
    <3>3. /\ optimised' = optimised \union {o} /\ defined' = defined \union {<<p.number, p.off>>}
          /\ stackMaps' = stackMaps \union {[at |-> Entry(p), of |-> e] : e \in {Entry(p)}}
      BY <2>2, <3>1 DEF CompileSucceeds, Name, Emitted
    <3>4. OptimisedFromOwnCode'
      BY <3>2, <3>3 DEF OptimisedFromOwnCode
    <3>5. StackMapsOfOwnFunction'
      BY <3>3 DEF StackMapsOfOwnFunction
    <3>6. NamesOwned'
      BY <1>2, <1>3, <3>2, <3>3 DEF NamesOwned
    <3> QED BY <1>3, <3>4, <3>5, <3>6 DEF ApplyThere
  <2> QED BY <1>3, <2>1, <2>2
<1> QED BY <1>3, <1>4, TablesStep

-----------------------------------------------------------------------------
(* The invariant of the specification *)

\* The inductive invariant holds at the start,
LEMMA InitIInv == Init => IInv
<1> SUFFICES ASSUME Init PROVE IInv
  OBVIOUS
<1>1. Live(sections) = {} /\ Len(running) = 0
  BY DEF Init, Live
<1>2. Types
  BY DEF Init, Types
<1> QED BY <1>1, <1>2 DEF Init, IInv, Store, Users, Compiled, SectionNumberIsIndex,
      OneSectionPerCode, BaseOwned, CallbackLive, ActOwned, LoadsApart, HeapOwned,
      OptimisedFromOwnCode, StackMapsOfOwnFunction, NamesOwned, ApplyThere, NeverPanics

\* and every step preserves it.
LEMMA NextIInv == IInv /\ [Next]_vars => IInv'
<1> SUFFICES ASSUME IInv, [Next]_vars PROVE IInv'
  OBVIOUS
<1>1. ASSUME NEW a \in Addrs, NEW funs \in SUBSET Offsets, Startup(a, funs) PROVE IInv'
  BY <1>1, LoadStep DEF Startup
<1>2. ASSUME NEW a \in Addrs, NEW funs \in SUBSET Offsets, LoadPhrase(a, funs) PROVE IInv'
  BY <1>2, LoadStep DEF LoadPhrase
<1>3. ASSUME EndPhrase PROVE IInv'
  <2>1. CASE Top.free
    BY <1>3, <2>1, ReleaseStep
  <2>2. CASE ~Top.free
    BY <1>3, <2>2, LeaveStep DEF EndPhrase, store
  <2> QED BY <2>1, <2>2
<1>4. ASSUME Return PROVE IInv'
  BY <1>4, LeaveStep DEF Return
<1>5. ASSUME NEW i \in Live(sections), NEW off \in Offsets, MakeClosure(i, off) PROVE IInv'
  BY <1>5, MakeClosureStep
<1>6. ASSUME NEW p \in heap, PartialApply(p) \/ Call(p) PROVE IInv'
  BY <1>6, PartialApplyStep, CallStep
<1>7. ASSUME NEW p \in heap, CompileRefused(p) \/ CompileClosure(p) PROVE IInv'
  BY <1>7, CompileRefusedStep, CompileClosureStep
<1>8. ASSUME UNCHANGED vars PROVE IInv'
  BY <1>8, HeapStep DEF vars, IInv, Users, HeapOwned, FnOwned, FnOf, store
<1> QED BY <1>1, <1>2, <1>3, <1>4, <1>5, <1>6, <1>7, <1>8, CallbackStep DEF Next, Finished

\* The invariant holds in every state of every execution.
THEOREM Invariance == Spec => []IInv
  BY InitIInv, NextIInv, PTL DEF Spec

\* Indexing the vector with a section's number always finds that section, however many
\* sections were pushed, popped and cleared (release_section, compile_closure_optimised).
THEOREM NumbersAreIndexes == Spec => []SectionNumberIsIndex
<1>1. IInv => SectionNumberIsIndex
  BY DEF IInv, Store
<1> QED BY Invariance, <1>1, PTL

\* get_section_for_code never has two sections to choose from, although bytecode addresses
\* are used again.
THEOREM LookupIsUnique == Spec => []OneSectionPerCode
<1>1. IInv => OneSectionPerCode
  BY DEF IInv, Store
<1> QED BY Invariance, <1>1, PTL

\* Releasing a phrase never takes the section of a function that the program still holds,
\* directly or under a partial application.
THEOREM FunctionsOutliveNoSection == Spec => []FunctionCodeLive
<1>1. IInv => FunctionCodeLive
  BY DEF IInv, Users, HeapOwned, FnOwned, FunctionCodeLive
<1> QED BY Invariance, <1>1, PTL

\* Releasing a phrase never unmaps code that an activation is to return to.
THEOREM RunningCodeStays == Spec => []RunningCodeMapped
<1>1. IInv => RunningCodeMapped
  <2> SUFFICES ASSUME IInv, NEW r \in 1..Len(running)
               PROVE  running[r].code \in Mapped /\ running[r].buf \in Mapped
    BY DEF RunningCodeMapped
  <2>1. ActOK(running[r])
    BY DEF IInv, Users, ActOwned
  <2>2. PICK i \in Live(sections) : sections[i].buf = running[r].code
    BY <2>1 DEF ActOK, Owns
  <2> QED BY <2>1, <2>2 DEF ActOK, Mapped
<1> QED BY Invariance, <1>1, PTL

\* A closure's optimised code is made from the bytecode of its own section.
THEOREM OptimisedCodeIsOwn == Spec => []OptimisedFromOwnCode
<1>1. IInv => OptimisedFromOwnCode
  BY DEF IInv, Compiled
<1> QED BY Invariance, <1>1, PTL

\* The stack maps found at an address of optimised code are those of the function there,
\* also after compilations that were abandoned half way (stack_maps_todo).
THEOREM StackMapsAreOwn == Spec => []StackMapsOfOwnFunction
<1>1. IInv => StackMapsOfOwnFunction
  BY DEF IInv, Compiled
<1> QED BY Invariance, <1>1, PTL

\* Section numbers come back, the names made from them never collide: a name that is taken
\* is of a function whose section is still live, and that function is optimised already.
THEOREM NamesAreFree == Spec => []NameIsFree
<1>1. IInv => NameIsFree
  <2> SUFFICES ASSUME IInv, NEW p \in heap, Hot(p), Name(p) \in defined
               PROVE  FALSE
    BY DEF NameIsFree
  <2>1. p.k = "fn" /\ FnOf(p) = p /\ ~Optimised(p)
    BY DEF Hot, FnOf
  <2>2. sections[p.number + 1].buf = p.buf
    BY <2>1 DEF IInv, Users, HeapOwned, FnOwned
  <2>3. PICK d \in defined : d = <<p.number, p.off>>
    BY DEF Name
  <2>4. d[1] = p.number /\ d[2] = p.off
    BY <2>3
  <2>5. \E o \in optimised : o.entry = <<sections[d[1] + 1].buf, d[2]>>
    BY DEF IInv, Compiled, NamesOwned
  <2> QED BY <2>1, <2>2, <2>4, <2>5 DEF Optimised, Entry
<1> QED BY Invariance, <1>1, PTL

\* No lookup of a section by bytecode or by number fails: the hooks' unwrap and expect calls
\* never abort the program.
THEOREM LookupsSucceed == Spec => []NeverPanics
<1>1. IInv => NeverPanics
  BY DEF IInv
<1> QED BY Invariance, <1>1, PTL
=============================================================================
