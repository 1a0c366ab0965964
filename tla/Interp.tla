------------------------------- MODULE Interp -------------------------------
(* The instructions of the bytecode interpreter as users of the heap.  accu  *)
(* and env are registers; sp stands for the values on the OCaml stack, which *)
(* the collector scans.  Integers, addresses of code and the number of extra *)
(* arguments are left out.                                                   *)
EXTENDS StubSteps

Instruct(step) ==
    Prim({"accu", "env", "sp"},
         Begin_roots({"sp"}) \o step \o End_roots \o Return({"accu", "env", "sp"}))

\* What the instructions save on the stack around a collection, a C call, the
\* pending actions and the debugger, which gets copies only.
Setup_for_gc == Begin_roots({"accu", "env"})
Restore_after_gc == End_roots
Setup_for_c_call == Begin_roots({"env"})
Restore_after_c_call == End_roots
Setup_for_event == Begin_roots({"accu", "env"})
Restore_after_event == End_roots
Setup_for_debugger == Read({"accu", "env"})
caml_debugger == Enter \o Leave
Restore_after_debugger == Read({"accu", "env"})
Check_trap_barrier == When(caml_debugger)

Push == Read({"accu"})                       \* *--sp = accu
Stack(v) == LoadOf(v, {"sp"})                \* v = sp[i]
Field(v, w) == LoadOf(v, {w})                \* v = Field(w, i)
Int == Unit({"accu"})
Global == LoadOf("caml_global_data", {})

-----------------------------------------------------------------------------
ACC == Instruct(When(Push) \o Stack("accu"))
POP == Instruct(<<>>)
ASSIGN == Instruct(Read({"accu"}) \o Int)
ENVACC == Instruct(When(Push) \o Field("accu", "env"))

check_stacks == When(Read({"sp"}))
process_actions == Setup_for_event \o Poll("") \o Restore_after_event
CheckSignals == When(process_actions)
\* A call leaves the closure in env.
Enter_closure == Read({"accu"}) \o Let("env", "accu") \o Int
PUSH_RETADDR == Instruct(Read({"env"}))
APPLY == Instruct(Enter_closure \o check_stacks \o CheckSignals)
APPLY1 == Instruct(Read({"sp", "env"}) \o Enter_closure \o check_stacks \o CheckSignals)
APPTERM == Instruct(Read({"sp"}) \o Enter_closure \o check_stacks \o CheckSignals)
RETURN == Instruct(Either(Enter_closure, Stack("env")))
RESTART == Instruct(Read({"env"}) \o Field("env", "env"))
GRAB ==
    Instruct(Either(Int,
                    Setup_for_gc \o AllocSmall("accu") \o Restore_after_gc
                    \o Fill("accu", {"env", "sp"}) \o Stack("env")))
Closure(infix) ==
    When(Push)
    \o Either(Setup_for_gc \o AllocSmall("accu") \o Restore_after_gc \o Fill("accu", {"sp"}),
              AllocShr("accu") \o Initialize("accu", {"sp"}))
    \o Fill("accu", {}) \o infix
CLOSURE == Instruct(Closure(<<>>))
CLOSUREREC == Instruct(Closure(Push \o Loop(Fill("accu", {}) \o Push)))
OFFSETCLOSURE == Instruct(When(Push) \o Let("accu", "env"))
GETGLOBAL == Instruct(When(Push) \o Global \o Field("accu", "caml_global_data"))
GETGLOBALFIELD ==
    Instruct(When(Push) \o Global \o Field("accu", "caml_global_data") \o Field("accu", "accu"))
SETGLOBAL == Instruct(Global \o Store("caml_global_data", {"accu"}) \o Int)
ATOM == Instruct(When(Push) \o Int)

MAKEBLOCK ==
    Instruct(Either(Setup_for_gc \o AllocSmall("block") \o Restore_after_gc
                    \o Fill("block", {"accu", "sp"}),
                    AllocShr("block") \o Initialize("block", {"accu", "sp"}))
             \o Let("accu", "block"))
MAKEBLOCK1 ==
    Instruct(Setup_for_gc \o AllocSmall("block") \o Restore_after_gc
             \o Fill("block", {"accu", "sp"}) \o Let("accu", "block"))
MAKEFLOATBLOCK ==
    Instruct(Either(Setup_for_gc \o Alloc("block") \o Restore_after_gc, AllocShrData("block"))
             \o Read({"accu", "sp", "block"}) \o Let("accu", "block"))
GETFIELD == Instruct(Field("accu", "accu"))
GETFLOATFIELD ==
    Instruct(Read({"accu"}) \o Setup_for_gc \o Alloc("accu") \o Restore_after_gc \o Read({"accu"}))
SETFIELD == Instruct(Stack("v") \o Store("accu", {"v"}) \o Int)
SETFLOATFIELD == Instruct(Read({"accu", "sp"}) \o Int)
VECTLENGTH == Instruct(Read({"accu"}) \o Int)
GETVECTITEM == Instruct(Read({"sp"}) \o Field("accu", "accu"))
SETVECTITEM == Instruct(Stack("v") \o Store("accu", {"v"}) \o Int)
GETSTRINGCHAR == Instruct(Read({"accu", "sp"}) \o Int)
BRANCH == Instruct(<<>>)
SWITCH == Instruct(When(Read({"accu"})))

-----------------------------------------------------------------------------
\* A handler of this activation gets the exception, or the caller of the
\* interpreter does.
raise_notrace ==
    Either(Read({"accu"}) \o End_roots \o Return({"accu"}), Stack("env"))
PUSHTRAP == Instruct(Read({"env"}))
POPTRAP == Instruct(CheckSignals)
\* The registers are not saved for the debugger here.
RAISE == Breaking(Instruct(Check_trap_barrier \o Read({"accu"}) \o raise_notrace), {"heap"})
CHECK_SIGNALS == Instruct(CheckSignals)
C_CALL == Instruct(Setup_for_c_call \o Callback("accu", {"accu", "sp"}) \o Restore_after_c_call)
C_CALLN == Instruct(Push \o Setup_for_c_call \o Callback("accu", {"sp"}) \o Restore_after_c_call)
CONSTINT == Instruct(When(Push) \o Int)
ARITH == Instruct(Read({"sp"}) \o Int)
BEQ == Instruct(<<>>)
DIVINT == Instruct(Read({"sp"}) \o When(Setup_for_c_call \o Raise({})) \o Int)
OFFSETREF == Instruct(Fill("accu", {}) \o Int)
ISINT == Instruct(Int)
GETMETHOD == Instruct(Stack("obj") \o Field("meths", "obj") \o Field("accu", "meths"))
Search == Loop(Read({"meths"})) \o Field("accu", "meths")
GETPUBMET == Instruct(Push \o Int \o Stack("obj") \o Field("meths", "obj") \o Search)
GETDYNMET == Instruct(Stack("obj") \o Field("meths", "obj") \o Search)
STOP == Prim({"accu", "env", "sp"}, Begin_roots({"sp"}) \o End_roots \o Return({"accu"}))
\* The registers are used again although only the copies on the stack follow
\* the blocks; the debugger that waits for a request lets other code run.
EVENT == Breaking(Instruct(Setup_for_debugger \o caml_debugger \o Restore_after_debugger), {"heap"})
BREAK == EVENT
\* The start of the interpreter, and its second return after an exception of C.
caml_interprete ==
    Prim({"sp"}, Begin_roots({"sp"})
                 \o Either(LoadOf("accu", {}) \o raise_notrace, Unit({"accu", "env"}))
                 \o End_roots \o Return({"accu", "env", "sp"}))

Instructions ==
    {ACC, POP, ASSIGN, ENVACC, PUSH_RETADDR, APPLY, APPLY1, APPTERM, RETURN, RESTART, GRAB,
     CLOSURE, CLOSUREREC, OFFSETCLOSURE, GETGLOBAL, GETGLOBALFIELD, SETGLOBAL, ATOM,
     MAKEBLOCK, MAKEBLOCK1, MAKEFLOATBLOCK, GETFIELD, GETFLOATFIELD, SETFIELD, SETFLOATFIELD,
     VECTLENGTH, GETVECTITEM, SETVECTITEM, GETSTRINGCHAR, BRANCH, SWITCH, PUSHTRAP, POPTRAP,
     RAISE, CHECK_SIGNALS, C_CALL, C_CALLN, CONSTINT, ARITH, BEQ, DIVINT, OFFSETREF, ISINT,
     GETMETHOD, GETPUBMET, GETDYNMET, STOP, EVENT, BREAK, caml_interprete}
=============================================================================
