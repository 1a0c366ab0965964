---------------------------- MODULE CodeSections ----------------------------
(***************************************************************************)
(* The life of compiled code: CompilerData's vector of sections, the       *)
(* executable buffer each one owns, and the pointers into those buffers    *)
(* that the running program and its heap hold.                             *)
(*                                                                         *)
(* Bytecode is loaded (caml_prepare_bytecode) for the main program and for *)
(* every phrase the toplevel reifies, and released again after a phrase    *)
(* that defines no function.  A section is pushed with its index as its    *)
(* number; the number is stored in the metadata of every closure of the    *)
(* section, and is how a hot closure finds its bytecode and gets its       *)
(* Cranelift function name.  Releasing the last section pops it, so that   *)
(* numbers are used again.                                                 *)
(*                                                                         *)
(* The hooks all hold the global lock from start to end and run no OCaml   *)
(* code under it, so each is one action.  The program is an oracle: the    *)
(* code that is running may load, call, make closures, or apply partially. *)
(***************************************************************************)
EXTENDS Integers, Sequences, FiniteSets

CONSTANTS
    Addrs,        \* where caml_stat_alloc can put a bytecode buffer
    CallbackCode, \* the address of the static caml_callback_code
    Offsets,      \* bytecode offsets at which a function can start
    MaxLoads,     \* bound: buffers ever compiled
    MaxDepth,     \* bound: nested activations
    MaxClosures   \* bound: different code pointers the program holds

ASSUME AddrsAssumption == CallbackCode \notin Addrs
ASSUME LoadBoundAssumption == MaxLoads \in Nat /\ MaxDepth \in Nat /\ MaxClosures \in Nat

VARIABLES
    sections,         \* CompilerData.sections
    callbackCompiled, \* CompilerData.callback_compiled
    applyCompiled,    \* CompilerData.cranelift_apply is there
    allocated,        \* addresses of the bytecode buffers caml_stat_alloc gave out
    loads,            \* buffers ever compiled; the last one's identity
    running,          \* activations, innermost last
    heap,             \* code pointers of the closures the program holds
    failed,           \* closure metadata entries with status -3
    optimised,        \* entries with status -2, each with what was compiled for it
    defined,          \* names defined in the JITModule
    stackMapsTodo,    \* OptimisedCompiler.stack_maps_todo: whose maps are waiting
    stackMaps,        \* OptimisedCompiler.stack_maps: under whose code, whose map
    panicked          \* an unwrap or expect failed: fatal_error

store == <<sections, callbackCompiled, applyCompiled, allocated, loads>>
compiler == <<failed, optimised, defined, stackMapsTodo, stackMaps>>
vars == <<store, running, heap, compiler, panicked>>

-----------------------------------------------------------------------------
(* Sections *)

None == [live |-> FALSE]
Section(number, base, buf, funs) ==
    [live |-> TRUE, number |-> number, base |-> base, buf |-> buf, funs |-> funs]

Live(secs) == {i \in 1..Len(secs) : secs[i].live}

\* Mutant: the lookup does not compare base addresses.
SectionForAnyBase(secs, a) ==
    IF Live(secs) = {} THEN 0 ELSE CHOOSE i \in Live(secs) : \A j \in Live(secs) : i <= j

\* get_section_for_code: the first live section for this bytecode, or 0.  The code
\* compares the length too; a lookup always names a whole block of bytecode, and no two
\* that exist together have one base address.
SectionFor(secs, a) ==
    LET found == {i \in Live(secs) : secs[i].base = a}
    IN  IF found = {} THEN 0 ELSE CHOOSE i \in found : \A j \in found : i <= j

\* Mutant: the number of a section is the number of live sections.
PushedAfterLive(secs, a, buf, funs) ==
    Append(secs, Section(Cardinality(Live(secs)), a, buf, funs))

\* compile: the section is pushed with the current length as its number.
Pushed(secs, a, buf, funs) == Append(secs, Section(Len(secs), a, buf, funs))

\* Mutant: the last section is popped, whichever is released.
ReleasedPops(secs, number) == SubSeq(secs, 1, Len(secs) - 1)

\* release_section, once the section's number is known.
Released(secs, number) ==
    IF number = Len(secs) - 1
    THEN SubSeq(secs, 1, Len(secs) - 1)
    ELSE [secs EXCEPT ![number + 1] = None]

\* The buffer of the shared apply code; it belongs to no section and is never freed.
ApplyBuf == 0
\* The executable buffers that are mapped: dropping a Section unmaps its own.
Mapped == {sections[i].buf : i \in Live(sections)} \union (IF applyCompiled THEN {ApplyBuf} ELSE {})

(* Code pointers.  A function's points at its metadata entry, which holds  *)
(* its section's number; a partial application's at the ->restart_closure  *)
(* of the buffer whose ->apply made it.                                    *)
FnPtr(sec, off) == [k |-> "fn", buf |-> sec.buf, off |-> off, number |-> sec.number]
RestartPtr(buf, fn) == [k |-> "restart", buf |-> buf, fn |-> fn]
FnOf(p) == IF p.k = "restart" THEN p.fn ELSE p
Entry(fn) == <<fn.buf, fn.off>>
Optimised(fn) == \E o \in optimised : o.entry = Entry(fn)

(* Activations: main, a phrase, a callback, or a function, with the buffer *)
(* of its section, the buffer whose ->apply its calls use, and, for what   *)
(* was loaded, its bytecode and whether that is to be freed.               *)
Act(k, code, buf, base, free) ==
    [k |-> k, code |-> code, buf |-> buf, base |-> base, free |-> free]
Top == running[Len(running)]
Pop == SubSeq(running, 1, Len(running) - 1)
CanEnter == ~panicked /\ Len(running) < MaxDepth

-----------------------------------------------------------------------------
(* Loading, running and releasing bytecode *)

\* Compile a buffer that was just read or reified, and enter its first instruction.
LoadAndEnter(k, a, funs) ==
    /\ loads < MaxLoads /\ loads' = loads + 1
    /\ a \in Addrs \ allocated
    /\ allocated' = allocated \union {a}
    /\ sections' = Pushed(sections, a, loads', funs)
    /\ running' = Append(running, Act(k, loads', loads', a, funs = {}))
    /\ UNCHANGED <<callbackCompiled, applyCompiled, heap, compiler, panicked>>

\* caml_main: caml_load_code, then caml_interprete on the whole program.
Startup(a, funs) ==
    /\ ~panicked /\ sections = <<>>
    /\ LoadAndEnter("main", a, funs)

\* load_lambda: caml_reify_bytecode and closure ().  can_free is fun_code = [].
LoadPhrase(a, funs) ==
    /\ CanEnter /\ running # <<>>
    /\ LoadAndEnter("phrase", a, funs)

\* Mutant: the toplevel releases every phrase.
EndPhraseAlwaysFrees ==
    /\ ~panicked /\ running # <<>> /\ Top.k = "phrase"
    /\ LET i == SectionFor(sections, Top.base)
       IN  IF i = 0 THEN panicked' = TRUE /\ UNCHANGED <<sections, allocated, running>>
           ELSE /\ sections' = Released(sections, sections[i].number)
                /\ allocated' = allocated \ {Top.base} /\ running' = Pop /\ UNCHANGED panicked
    /\ UNCHANGED <<callbackCompiled, applyCompiled, loads, heap, compiler>>

\* The phrase returns, or an exception of it reaches load_lambda: if it can be freed,
\* release_bytecode, on_bytecode_released, release_section, and caml_stat_free.
EndPhrase ==
    /\ ~panicked /\ running # <<>> /\ Top.k = "phrase"
    /\ IF Top.free
       THEN LET i == SectionFor(sections, Top.base)
            IN  IF i = 0 THEN panicked' = TRUE /\ UNCHANGED <<sections, allocated, running>>
                ELSE /\ sections' = Released(sections, sections[i].number)
                     /\ allocated' = allocated \ {Top.base}
                     /\ running' = Pop /\ UNCHANGED panicked
       ELSE running' = Pop /\ UNCHANGED <<sections, allocated, panicked>>
    /\ UNCHANGED <<callbackCompiled, applyCompiled, loads, heap, compiler>>

\* caml_callbackN_exn: interpret_bytecode on caml_callback_code, which the first
\* callback compiles, at whatever point of the program it happens.
Callback ==
    /\ CanEnter /\ running # <<>>
    /\ IF callbackCompiled
       THEN UNCHANGED <<sections, callbackCompiled, loads>>
       ELSE /\ loads < MaxLoads /\ loads' = loads + 1
            /\ sections' = Pushed(sections, CallbackCode, loads', {})
            /\ callbackCompiled' = TRUE
    /\ LET i == SectionFor(sections', CallbackCode)
       IN  IF i = 0 THEN panicked' = TRUE /\ UNCHANGED running
           ELSE LET buf == sections'[i].buf
                IN  /\ running' = Append(running, Act("callback", buf, buf, CallbackCode, FALSE))
                    /\ UNCHANGED panicked
    /\ UNCHANGED <<applyCompiled, allocated, heap, compiler>>

-----------------------------------------------------------------------------
(* What running code does *)

\* CLOSURE and CLOSUREREC in code of section i: a pointer from closure_addresses.
MakeClosure(i, off) ==
    /\ ~panicked /\ running # <<>>
    /\ Top.code = sections[i].buf /\ off \in sections[i].funs
    /\ heap' = heap \union {FnPtr(sections[i], off)} /\ Cardinality(heap') <= MaxClosures
    /\ UNCHANGED <<store, running, compiler, panicked>>

\* Too few arguments: make_restart_closure of the ->apply in use, which is that of the
\* closure's own restart_code when the closure is itself a partial application.
PartialApply(p) ==
    /\ ~panicked /\ running # <<>>
    /\ p.k = "restart" => p.buf \in Mapped
    /\ heap' = heap \union {RestartPtr(IF p.k = "restart" THEN p.buf ELSE Top.buf, FnOf(p))}
    /\ Cardinality(heap') <= MaxClosures
    /\ UNCHANGED <<store, running, compiler, panicked>>

\* A call of a closure; optimised bodies make their calls through the shared apply code.
Call(p) ==
    /\ CanEnter /\ running # <<>>
    /\ p.buf \in Mapped
    /\ LET fn == FnOf(p)
       IN  running' = Append(running,
             Act("fn", fn.buf, IF Optimised(fn) THEN ApplyBuf ELSE fn.buf, CallbackCode, FALSE))
    /\ UNCHANGED <<store, heap, compiler, panicked>>

\* A function, a callback or the main program comes to an end.
Return ==
    /\ ~panicked /\ running # <<>> /\ Top.k # "phrase"
    /\ running' = Pop
    /\ UNCHANGED <<store, heap, compiler, panicked>>

-----------------------------------------------------------------------------
(* compile_closure_optimised for a closure that has just become hot *)

Hot(p) ==
    /\ ~panicked /\ running # <<>>
    /\ p.k = "fn" /\ p.buf \in Mapped
    /\ Entry(p) \notin failed /\ ~Optimised(p)

\* closure_{section}_{offset}
Name(p) == <<p.number, p.off>>
HasSection(p) == p.number + 1 \in Live(sections)

\* More than five arguments: not even tried.
CompileRefused(p) ==
    /\ Hot(p)
    /\ failed' = failed \union {Entry(p)}
    /\ UNCHANGED <<store, running, heap, optimised, defined, stackMapsTodo, stackMaps, panicked>>

\* Mutant: stack_maps_todo is not cleared first.
TodoKept(p) == stackMapsTodo \union {Entry(p)}

\* stack_maps_todo after clear() and the emission of p's function.
Emitted(p) == {Entry(p)}

\* The code of the section with the closure's number is compiled under its name, and
\* the waiting stack maps are filed under its address.
CompileSucceeds(p) ==
    /\ Name(p) \notin defined
    /\ defined' = defined \union {Name(p)}
    /\ optimised' = optimised \union
         {[entry |-> Entry(p), code |-> <<sections[p.number + 1].buf, p.off>>]}
    /\ stackMaps' = stackMaps \union {[at |-> Entry(p), of |-> e] : e \in Emitted(p)}
    /\ stackMapsTodo' = {}
    /\ UNCHANGED failed

\* Unsupported, an error before the function is emitted, or a panic of Cranelift,
\* caught, while it is being emitted.
CompileFails(p) ==
    /\ failed' = failed \union {Entry(p)}
    /\ stackMapsTodo' \in {{}, Emitted(p)}
    /\ UNCHANGED <<optimised, defined, stackMaps>>

\* "No such section" if there is none; the first compilation makes the apply code.
CompileClosure(p) ==
    /\ Hot(p)
    /\ IF HasSection(p)
       THEN /\ applyCompiled' = TRUE /\ UNCHANGED panicked
            /\ CompileSucceeds(p) \/ CompileFails(p)
       ELSE panicked' = TRUE /\ UNCHANGED <<applyCompiled, compiler>>
    /\ UNCHANGED <<sections, callbackCompiled, allocated, loads, running, heap>>

-----------------------------------------------------------------------------
Init ==
    /\ sections = <<>> /\ callbackCompiled = FALSE /\ applyCompiled = FALSE
    /\ allocated = {} /\ loads = 0
    /\ running = <<>> /\ heap = {}
    /\ failed = {} /\ optimised = {} /\ defined = {}
    /\ stackMapsTodo = {} /\ stackMaps = {}
    /\ panicked = FALSE

\* The program has exited.
Finished == running = <<>> /\ sections # <<>> /\ UNCHANGED vars

Next ==
    \/ \E a \in Addrs, funs \in SUBSET Offsets : Startup(a, funs) \/ LoadPhrase(a, funs)
    \/ EndPhrase \/ Callback \/ Return
    \/ \E i \in Live(sections), off \in Offsets : MakeClosure(i, off)
    \/ \E p \in heap :
         PartialApply(p) \/ Call(p) \/ CompileRefused(p) \/ CompileClosure(p)
    \/ Finished

Spec == Init /\ [][Next]_vars

-----------------------------------------------------------------------------
(* Properties *)

\* The shape of the compiler's state.
TypeOK ==
    /\ \A i \in 1..Len(sections) : sections[i].live \in BOOLEAN
    /\ callbackCompiled \in BOOLEAN /\ applyCompiled \in BOOLEAN /\ panicked \in BOOLEAN
    /\ allocated \subseteq Addrs /\ loads \in 0..MaxLoads
    /\ \A p \in heap : p.k \in {"fn", "restart"}
    /\ stackMapsTodo \subseteq failed

\* A section's number is its index, whatever was pushed, popped and cleared in between:
\* release_section and compile_closure_optimised index the vector with it.
SectionNumberIsIndex == \A i \in Live(sections) : sections[i].number = i - 1

\* No two live sections have the same bytecode, although caml_stat_alloc gives freed
\* addresses out again: get_section_for_code and find_section_for_address have one answer.
OneSectionPerCode ==
    \A i, j \in Live(sections) : sections[i].base = sections[j].base => i = j

\* A function's closure outlives no section: the number in its metadata is still that of
\* the live section the closure was made in, so its bytecode and metadata can be read.
FunctionCodeLive ==
    \A p \in heap : FnOf(p).number + 1 \in Live(sections)
                      /\ sections[FnOf(p).number + 1].buf = FnOf(p).buf

\* Code that is executing is never unmapped by a release.
RunningCodeMapped ==
    \A i \in 1..Len(running) : running[i].code \in Mapped /\ running[i].buf \in Mapped

\* A hot closure is given optimised code made from its own bytecode, also when section
\* numbers have been used again.
OptimisedFromOwnCode == \A o \in optimised : o.code = o.entry

\* When a closure becomes hot, its Cranelift name is not taken by a function of a section
\* that is gone: declare_function/define_function do not fail with a duplicate.
NameIsFree == \A p \in heap : Hot(p) => Name(p) \notin defined

\* caml_oldify's stack maps are those of the function the return address is in, also after
\* compilations that were abandoned half way.
StackMapsOfOwnFunction == \A m \in stackMaps : m.at = m.of

\* None of the unwrap and expect calls on sections fails, in any order of events.
NeverPanics == ~panicked

\* The toplevel "works correctly allowing for interactive use": every closure the program
\* holds, a partial application too, has its code pointer in code that is still mapped.
ClosureCodeMapped == \A p \in heap : p.buf \in Mapped
=============================================================================
