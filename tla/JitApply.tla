------------------------------ MODULE JitApply ------------------------------
(***************************************************************************)
(* The calling convention of the two compilers: how closures are applied,  *)
(* return, raise, and call C, when some functions run as baseline code on  *)
(* the OCaml stack and others as Cranelift functions on the native stack.  *)
(*                                                                         *)
(* Baseline code (emit_code.rs) keeps the registers r_accu, r_env,         *)
(* r_extra_args and r_sp of the ZINC machine.  A closure's code pointer is *)
(* the address of a metadata entry whose status counts calls and then says *)
(* "optimised" (-2) or "do not try again" (-3); partial applications point *)
(* at the shared entry with status -1.  Optimised code takes its arguments *)
(* in native registers and returns a pair (value, number of tail-call      *)
(* arguments left on the OCaml stack); it calls other closures through     *)
(* apply_1..apply_5 and apply_n (emit_cranelift_callback_entrypoint).      *)
(*                                                                         *)
(* What a function body does is left open, as in ApplySemantics: it may    *)
(* start any operation next.  Addresses are abstracted to heights: a       *)
(* pointer into the OCaml stack is the number of words between it and      *)
(* stack_high, so caml_realloc_stack, which moves the stack and every      *)
(* pointer into it, changes nothing here.                                  *)
(***************************************************************************)
EXTENDS Integers, Sequences, FiniteSetsExt

CONSTANTS
    Funs,        \* the functions that have a closure metadata entry
    Arity,       \* required_extra_args + 1 of each
    Optimisable, \* those compile_closure succeeds for
    MaxRegArgs,  \* most arguments passed in registers (5 in the code)
    Threshold,   \* hot_closure_threshold (10 by default)
    MaxArgs,     \* bound: arguments of one call
    MaxCallbackArgs, \* most arguments of a callback from C; caml_callback3 has 3
    MaxOps,      \* bound: calls, handlers and C calls the program starts
    MaxSignals   \* bound: asynchronous signals

ASSUME FunsAssumption ==
    /\ Arity \in [Funs -> Nat \ {0}]
    /\ Optimisable \subseteq Funs
    /\ MaxRegArgs \in Nat \ {0}
    /\ Threshold \in Nat
ASSUME BoundAssumption ==
    /\ MaxArgs \in Nat \ {0} /\ MaxCallbackArgs \in Nat \ {0}
    /\ MaxOps \in Nat /\ MaxSignals \in Nat

VARIABLES
    pc,         \* the label native code is at, see Labels
    accu,       \* r_accu; the first return value of optimised code
    env,        \* r_env
    extra,      \* r_extra_args
    rdx,        \* the second return value of optimised code
    stack,      \* the OCaml stack from r_sp: stack[i + 1] is sp[i]
    externSp,   \* Caml_state->extern_sp, as a height
    trapSp,     \* Caml_state->trapsp, as a height; 0 is stack_high
    extRaise,   \* Caml_state->external_raise: which native frame holds the jmpbuf
    native,     \* the native stack, innermost frame last
    status,     \* execution_count_status of each closure metadata entry
    todo,       \* caml_something_to_do
    tick,       \* operations started; numbers the argument tokens
    signals     \* signals handled

regs == <<accu, env, extra, rdx>>
caml == <<externSp, trapSp, extRaise>>
bounds == <<tick, signals>>
vars == <<pc, regs, stack, caml, native, status, todo, bounds>>

Labels == {"base", "opt", "apply", "dispatch", "grab", "check_opt", "return",
           "opt_return", "apply_n", "raise", "stop", "callback_stop", "c"}

-----------------------------------------------------------------------------
(* Words of the OCaml stack: values, code addresses, and raw machine words *)

Unit == <<"unit">>
Clo(f) == <<"clo", f>>
Pap(f, args) == <<"pap", f, args>>
Res(f) == <<"res", f>>
Exn(f) == <<"exn", f>>
IsPap(v) == v[1] = "pap"
Addr(l) == <<"addr", l>>      \* a code address
Link(h) == <<"link", h>>      \* a saved trapsp
ValLong(n) == <<"long", n>>   \* Val_long(n)
RawZero == <<"raw", 0>>       \* the machine word 0
LongVal(w) == w[2]            \* sar 1: Val_long(n) gives n, and 0 gives 0

FreshArgs(n) == [i \in 1..n |-> <<"tok", tick, i>>]

Height == Len(stack)
Peek(n) == SubSeq(stack, 1, n)
Drop(n) == SubSeq(stack, n + 1, Len(stack))
\* The stack seen from a pointer of height h, whatever lies below the pointer.
From(s, h) == SubSeq(s, Len(s) - h + 1, Len(s))

(* Native frames.  An "entry" frame is what emit_entrypoint pushes; an     *)
(* "opt" frame is an activation of optimised code called from baseline     *)
(* code ("asm", whose r_extra_args it preserves) or from optimised code;   *)
(* a "c" frame is C code called from baseline or optimised code, from      *)
(* ->process_events, from an allocation in jit_support_grab_closure, or    *)
(* the C program around it all; saved is the acc variable of the optimised *)
(* caller, where it is live across the call.                               *)
Entry(h, prev, reraise, narg) ==
    [k |-> "entry", initSp |-> h, prev |-> prev, reraise |-> reraise, narg |-> narg]
Opt(f, args, caller, ex) == [k |-> "opt", f |-> f, args |-> args, caller |-> caller, extra |-> ex]
C(from, ex, acc) == [k |-> "c", from |-> from, extra |-> ex, saved |-> acc, exn |-> FALSE]

Frame == native[Len(native)]
PopFrame == SubSeq(native, 1, Len(native) - 1)

\* The function whose baseline body runs.
Self == env[2]
\* It has a handler of its own on top of its arguments.
OwnTrap == stack[1] = Addr("trap")

Callable == {Clo(f) : f \in Funs} \union (IF IsPap(accu) THEN {accu} ELSE {})
\* What a body may return: something to apply when arguments are left over.
Returnable(f, pend) ==
    IF pend = 0 THEN {Res(f)} \union (IF IsPap(accu) THEN {accu} ELSE {}) ELSE Callable

StartOp == tick < MaxOps /\ tick' = tick + 1 /\ UNCHANGED signals

-----------------------------------------------------------------------------
(* Baseline bodies: emit_instruction *)

\* oc_pushretaddr!: the three words of a return frame.
ReturnFrame == <<Addr("base"), env, ValLong(extra)>>

\* PushRetAddr and Apply n, or Apply1, Apply2, Apply3, which build the same stack.
BaseApply(v, n) ==
    /\ pc = "base" /\ StartOp
    /\ stack' = FreshArgs(n) \o ReturnFrame \o stack
    /\ accu' = v /\ extra' = n - 1 /\ pc' = "apply"
    /\ UNCHANGED <<env, rdx, caml, native, status, todo>>

BaseApplyTerm(v, n) ==
    /\ pc = "base" /\ ~OwnTrap /\ StartOp
    /\ stack' = FreshArgs(n) \o Drop(Arity[Self])
    /\ accu' = v /\ extra' = extra + (n - 1) /\ pc' = "apply"
    /\ UNCHANGED <<env, rdx, caml, native, status, todo>>

BaseReturn(v) ==
    /\ pc = "base" /\ ~OwnTrap
    /\ v \in Returnable(Self, extra)
    /\ stack' = Drop(Arity[Self])
    /\ accu' = v /\ pc' = "return"
    /\ UNCHANGED <<env, extra, rdx, caml, native, status, todo, bounds>>

BasePushTrap ==
    /\ pc = "base" /\ StartOp
    /\ stack' = <<Addr("trap"), Link(trapSp), env, ValLong(extra)>> \o stack
    /\ trapSp' = Height + 4
    /\ UNCHANGED <<pc, regs, externSp, extRaise, native, status, todo>>

BasePopTrap ==
    /\ pc = "base" /\ OwnTrap /\ ~todo
    /\ trapSp' = LongVal(stack[2])
    /\ stack' = Drop(4)
    /\ UNCHANGED <<pc, regs, externSp, extRaise, native, status, todo, bounds>>

BaseRaise ==
    /\ pc = "base"
    /\ accu' = Exn(Self) /\ pc' = "raise"
    /\ UNCHANGED <<env, extra, rdx, stack, caml, native, status, todo, bounds>>

\* Mutant: setup_for_c_call pushes but does not save extern_sp.
BaseCCallNoExternSp ==
    /\ pc = "base" /\ StartOp
    /\ stack' = <<env, Addr("base")>> \o stack
    /\ native' = Append(native, C("base", extra, Unit)) /\ pc' = "c"
    /\ UNCHANGED <<regs, caml, status, todo>>

\* setup_for_c_call: the environment and the pc, then extern_sp.
BaseCCall ==
    /\ pc = "base" /\ StartOp
    /\ stack' = <<env, Addr("base")>> \o stack
    /\ externSp' = Height + 2
    /\ native' = Append(native, C("base", extra, Unit)) /\ pc' = "c"
    /\ UNCHANGED <<regs, trapSp, extRaise, status, todo>>

-----------------------------------------------------------------------------
(* ->process_events and emit_check_signals.  The pending actions run in C,  *)
(* with the machine state in six words of the OCaml stack; e is the r_env   *)
(* that is saved and next the label execution resumes at.  Here, as in the  *)
(* other two ways to get there, the registers are C's until it returns.     *)
ProcessEvents(e, next) ==
    /\ todo /\ todo' = FALSE
    /\ stack' = <<accu, Unit, Unit, Addr(next), e, ValLong(extra)>> \o stack
    /\ externSp' = Height + 6
    /\ native' = Append(native, C("events", extra, Unit)) /\ pc' = "c"
    /\ accu' = Unit /\ env' = e /\ signals' = signals + 1
    /\ UNCHANGED <<extra, rdx, trapSp, extRaise, status, tick>>

\* CHECK_SIGNALS, and POPTRAP, which runs again after the actions.
BaseCheckSignals == pc = "base" /\ ProcessEvents(env, "base")

(* ->apply, emit_apply_shared *)

ApplyChecks ==
    /\ pc = "apply"
    /\ \/ ProcessEvents(accu, "dispatch")
       \/ /\ ~todo /\ env' = accu /\ pc' = "dispatch"
          /\ UNCHANGED <<accu, extra, rdx, stack, caml, native, status, todo, bounds>>

\* ->restart_code and jit_support_restart: unpack a partial application and apply again.
Restart ==
    /\ pc = "dispatch" /\ IsPap(accu)
    /\ stack' = env[3] \o stack
    /\ accu' = Clo(env[2]) /\ extra' = extra + Len(env[3]) /\ pc' = "apply"
    /\ UNCHANGED <<env, rdx, caml, native, status, todo, bounds>>

\* GRAB done at call time: compare extra args with required_extra_args.
Dispatch ==
    /\ pc = "dispatch" /\ ~IsPap(accu)
    /\ LET required == Arity[accu[2]] - 1
       IN  IF extra < required
           THEN pc' = "grab" /\ UNCHANGED extra
           ELSE pc' = "check_opt" /\ extra' = extra - required
    /\ UNCHANGED <<accu, env, rdx, stack, caml, native, status, todo, bounds>>

\* make_restart_closure and jit_support_grab_closure, which returns to the caller.
\* Its allocation runs pending actions with accu and env saved by Setup_for_gc.
GrabClosure ==
    /\ pc = "grab" /\ ~todo
    /\ LET n == 1 + extra
       IN  /\ accu' = Pap(env[2], Peek(n))
           /\ pc' = stack[n + 1][2]
           /\ env' = stack[n + 2]
           /\ extra' = LongVal(stack[n + 3])
           /\ stack' = Drop(n + 3)
    /\ UNCHANGED <<rdx, caml, native, status, todo, bounds>>

GrabAllocSignals ==
    /\ pc = "grab" /\ todo /\ todo' = FALSE
    /\ stack' = <<accu, env, Unit>> \o stack
    /\ externSp' = Height + 3
    /\ native' = Append(native, C("grab", extra, Unit)) /\ pc' = "c"
    /\ accu' = Unit /\ signals' = signals + 1
    /\ UNCHANGED <<env, extra, rdx, trapSp, extRaise, status, tick>>

(* check_opt: tiering.  compile_closure_optimised leaves -2 or -3.          *)
CompiledStatus(f) == IF Arity[f] <= MaxRegArgs /\ f \in Optimisable THEN -2 ELSE -3

\* Mutant: compiling a hot closure leaves its count as it was.
CheckOptCountUnmarked ==
    /\ pc = "check_opt"
    /\ LET f == accu[2]
           count == status[f] + 1
       IN  /\ status[f] >= 0
           /\ IF count < Threshold
              THEN status' = [status EXCEPT ![f] = count] /\ pc' = "base"
              ELSE UNCHANGED <<status, pc>>
    /\ UNCHANGED <<regs, stack, caml, native, todo, bounds>>

CheckOptCount ==
    /\ pc = "check_opt"
    /\ LET f == accu[2]
           count == status[f] + 1
       IN  /\ status[f] >= 0
           /\ IF count < Threshold
              THEN status' = [status EXCEPT ![f] = count] /\ pc' = "base"
              ELSE status' = [status EXCEPT ![f] = CompiledStatus(f)] /\ UNCHANGED pc
    /\ UNCHANGED <<regs, stack, caml, native, todo, bounds>>

CheckOptBytecall ==
    /\ pc = "check_opt" /\ status[accu[2]] = -3
    /\ pc' = "base"
    /\ UNCHANGED <<regs, stack, caml, native, status, todo, bounds>>

\* optcall: the arguments move to registers and extern_sp drops them.
OptCall ==
    /\ pc = "check_opt" /\ status[accu[2]] = -2
    /\ LET f == accu[2]
       IN  /\ externSp' = Height - Arity[f]
           /\ native' = Append(native, Opt(f, Peek(Arity[f]), "asm", extra))
           /\ stack' = Drop(Arity[f])
    /\ accu' = Unit /\ pc' = "opt"
    /\ UNCHANGED <<env, extra, rdx, trapSp, extRaise, status, todo, bounds>>

(* perform_return *)
PerformReturn ==
    /\ pc = "return"
    /\ IF extra # 0
       THEN extra' = extra - 1 /\ pc' = "apply" /\ UNCHANGED <<env, stack>>
       ELSE /\ pc' = stack[1][2]
            /\ env' = stack[2]
            /\ extra' = LongVal(stack[3])
            /\ stack' = Drop(3)
    /\ UNCHANGED <<accu, rdx, caml, native, status, todo, bounds>>

-----------------------------------------------------------------------------
(* Optimised bodies: cranelift_compiler, and the apply_k entry points       *)

\* apply_1..apply_5, fast path: tail-jump into the optimised callee.
OptApplyFast(f, n) ==
    /\ pc = "opt" /\ StartOp
    /\ status[f] = -2 /\ Arity[f] = n /\ n <= MaxRegArgs
    /\ native' = Append(native, Opt(f, FreshArgs(n), "opt", 0))
    /\ accu' = Unit
    /\ UNCHANGED <<pc, env, extra, rdx, stack, caml, status, todo>>

\* slowcall: arguments and a frame returning to ->retaddr_offset are stored under
\* extern_sp, which does not move.  A call with more arguments than registers does
\* the same in emit_apply, with Val_long(0) for the words slowcall zeroes.
OptApplySlow(v, n) ==
    /\ pc = "opt" /\ StartOp
    /\ ~(v[1] = "clo" /\ status[v[2]] = -2 /\ Arity[v[2]] = n /\ n <= MaxRegArgs)
    /\ LET fill == IF n <= MaxRegArgs THEN RawZero ELSE ValLong(0)
       IN  stack' = FreshArgs(n) \o <<Addr("stop"), fill, fill>> \o From(stack, externSp)
    /\ accu' = v /\ extra' = n - 1 /\ pc' = "apply_n"
    /\ UNCHANGED <<env, rdx, caml, native, status, todo>>

\* apply_n: emit_entrypoint(should_reraise = true), then r_sp is computed from
\* extern_sp and the number of arguments.
ApplyN ==
    /\ pc = "apply_n"
    /\ native' = Append(native, Entry(externSp, extRaise, TRUE, 0))
    /\ extRaise' = Len(native')
    /\ stack' = From(stack, externSp + extra + 4)
    /\ env' = Unit /\ pc' = "apply"
    /\ UNCHANGED <<accu, extra, rdx, externSp, trapSp, status, todo, bounds>>

\* Mutant: emit_stop does not restore the enclosing external_raise.
StopKeepsHandler ==
    /\ pc = "stop"
    /\ rdx' = 0
    /\ externSp' = Height
    /\ native' = PopFrame /\ pc' = "opt"
    /\ UNCHANGED <<accu, env, extra, stack, trapSp, extRaise, status, todo, bounds>>

\* ->retaddr_offset: no extra arguments, emit_stop, back in optimised code.
Stop ==
    /\ pc = "stop"
    /\ rdx' = 0
    /\ extRaise' = Frame.prev /\ externSp' = Height
    /\ native' = PopFrame /\ pc' = "opt"
    /\ UNCHANGED <<accu, env, extra, stack, trapSp, status, todo, bounds>>

\* TailCall exit: push_last_n_items_for_real, return (closure, n).
OptTailCall(v, n) ==
    /\ pc = "opt" /\ StartOp
    /\ stack' = FreshArgs(n) \o From(stack, externSp)
    /\ externSp' = externSp + n
    /\ accu' = v /\ rdx' = n /\ pc' = "opt_return"
    /\ UNCHANGED <<env, extra, trapSp, extRaise, native, status, todo>>

OptReturn(v) ==
    /\ pc = "opt"
    /\ v \in Returnable(Frame.f, Frame.extra)
    /\ accu' = v /\ rdx' = 0 /\ pc' = "opt_return"
    /\ UNCHANGED <<env, extra, stack, caml, native, status, todo, bounds>>

\* Back after optcall: take r_sp from extern_sp, add rdx to the preserved r_extra_args.
OptReturnToBase ==
    /\ pc = "opt_return" /\ Frame.caller = "asm"
    /\ stack' = From(stack, externSp)
    /\ extra' = Frame.extra + rdx
    /\ native' = PopFrame /\ pc' = "return"
    /\ UNCHANGED <<accu, env, rdx, caml, status, todo, bounds>>

\* Mutant: a tail call of the callee is taken for its result.
OptReturnToOptNoTailCall ==
    /\ pc = "opt_return" /\ Frame.caller = "opt"
    /\ native' = PopFrame
    /\ stack' = From(stack, externSp - rdx) /\ externSp' = externSp - rdx
    /\ pc' = "opt"
    /\ UNCHANGED <<accu, env, extra, rdx, trapSp, extRaise, status, todo, bounds>>

\* Back in emit_apply of the calling optimised function.  Tail-call arguments are
\* slid down over a new return frame and extern_sp goes back to where it was.
OptReturnToOpt ==
    /\ pc = "opt_return" /\ Frame.caller = "opt"
    /\ native' = PopFrame
    /\ IF rdx = 0
       THEN pc' = "opt" /\ UNCHANGED <<extra, stack, externSp>>
       ELSE LET args == SubSeq(From(stack, externSp), 1, rdx)
                orig == externSp - rdx
            IN  /\ stack' = args \o <<Addr("stop"), ValLong(0), ValLong(0)>> \o From(stack, orig)
                /\ externSp' = orig
                /\ extra' = rdx - 1 /\ pc' = "apply_n"
    /\ UNCHANGED <<accu, env, rdx, trapSp, extRaise, status, todo, bounds>>

\* c_call: arguments in registers, extern_sp as it is.
OptCCall ==
    /\ pc = "opt" /\ StartOp
    /\ native' = Append(native, C("opt", 0, Unit)) /\ pc' = "c"
    /\ UNCHANGED <<regs, stack, caml, status, todo>>

OptCheckSignals ==
    /\ pc = "opt" /\ todo /\ todo' = FALSE
    /\ native' = Append(native, C("opt_events", 0, accu)) /\ pc' = "c"
    /\ accu' = Unit /\ signals' = signals + 1
    /\ UNCHANGED <<env, extra, rdx, stack, caml, status, tick>>

-----------------------------------------------------------------------------
(* Exceptions: caml_raise, ->longjmp_handler and ->raise                    *)

\* caml_raise from native code below the frame that holds the jmpbuf.
Longjmp(e) ==
    /\ extRaise > 0
    /\ native' = SubSeq(native, 1, extRaise)
    /\ stack' = From(stack, externSp)
    /\ accu' = e /\ pc' = "raise"
    /\ UNCHANGED <<env, extra, rdx, caml, status, todo, bounds>>

OptRaise == pc = "opt" /\ Longjmp(Exn(Frame.f))

\* A handler of this activation of the machine: restore its state from the trap frame.
RaiseToTrap ==
    /\ pc = "raise" /\ trapSp > Frame.initSp
    /\ LET s == From(stack, trapSp)
       IN  /\ trapSp' = LongVal(s[2])
           /\ env' = s[3] /\ extra' = LongVal(s[4])
           /\ stack' = SubSeq(s, 5, Len(s))
    /\ pc' = "base"
    /\ UNCHANGED <<accu, rdx, externSp, extRaise, native, status, todo, bounds>>

\* return_exception_result of apply_n: caml_raise again, to the enclosing handler.
RaiseAgain ==
    /\ pc = "raise" /\ trapSp <= Frame.initSp /\ Frame.reraise
    /\ extRaise' = Frame.prev
    /\ externSp' = Frame.initSp
    /\ stack' = From(stack, Frame.initSp)
    /\ native' = SubSeq(native, 1, Frame.prev)
    /\ UNCHANGED <<pc, regs, trapSp, status, todo, bounds>>

\* return_exception_result of a callback: caml_callbackN_exn sees an exception
\* result and pops what it had pushed.
RaiseToC ==
    /\ pc = "raise" /\ trapSp <= Frame.initSp /\ ~Frame.reraise
    /\ extRaise' = Frame.prev
    /\ externSp' = Frame.initSp - (Frame.narg + 4)
    /\ stack' = From(stack, externSp')
    /\ native' = [PopFrame EXCEPT ![Len(native) - 1].exn = TRUE]
    /\ pc' = "c"
    /\ UNCHANGED <<regs, trapSp, status, todo, bounds>>

-----------------------------------------------------------------------------
(* C code                                                                  *)

CExn == <<"exn", "c">>
\* The runtime running pending actions, which always propagates an exception.
Runtime == {"events", "grab", "opt_events"}

\* What happens in the caller of a C function that returns v.
CReturn(v) ==
    /\ pc = "c" /\ Frame.from # "main"
    /\ Frame.from \in Runtime => ~Frame.exn
    /\ native' = PopFrame
    /\ LET s == From(stack, externSp)
       IN  CASE Frame.from = "base" ->      \* restore_after_c_call
                  /\ env' = s[1] /\ stack' = SubSeq(s, 3, Len(s))
                  /\ accu' = v /\ extra' = Frame.extra /\ pc' = "base"
             [] Frame.from = "events" ->    \* Restore_after_event
                  /\ accu' = s[1] /\ pc' = s[4][2] /\ env' = s[5] /\ extra' = LongVal(s[6])
                  /\ stack' = SubSeq(s, 7, Len(s))
             [] Frame.from = "grab" ->      \* Restore_after_gc
                  /\ accu' = s[1] /\ env' = s[2] /\ stack' = SubSeq(s, 4, Len(s))
                  /\ extra' = Frame.extra /\ pc' = "grab"
             [] Frame.from = "opt" ->
                  accu' = v /\ pc' = "opt" /\ UNCHANGED <<env, extra, stack>>
             [] Frame.from = "opt_events" ->
                  accu' = Frame.saved /\ pc' = "opt" /\ UNCHANGED <<env, extra, stack>>
    /\ UNCHANGED <<rdx, caml, status, todo, bounds>>

\* C code raises an exception of its own, or the one a callback gave it.
CRaise ==
    /\ pc = "c" /\ Frame.from # "main"
    /\ \/ Frame.from \in {"base", "opt"} /\ Longjmp(CExn)
       \/ Frame.exn /\ Longjmp(accu)

\* caml_callbackN_exn and emit_callback_entrypoint.
Callback(f, n) ==
    /\ pc = "c" /\ StartOp
    /\ Frame.from \in Runtime => ~Frame.exn
    /\ stack' = FreshArgs(n) \o <<Addr("callback_stop"), Unit, ValLong(0), Clo(f)>>
                  \o From(stack, externSp)
    /\ externSp' = externSp + n + 4
    /\ native' = Append([native EXCEPT ![Len(native)].exn = FALSE],
                        Entry(externSp', extRaise, FALSE, n))
    /\ extRaise' = Len(native')
    /\ accu' = Clo(f) /\ extra' = n - 1 /\ env' = Unit /\ pc' = "apply"
    /\ UNCHANGED <<rdx, trapSp, status, todo>>

\* The code after the callback's APPLY: POP 1, STOP.
CallbackStop ==
    /\ pc = "callback_stop"
    /\ stack' = Drop(1)
    /\ extRaise' = Frame.prev /\ externSp' = Height - 1
    /\ native' = PopFrame /\ pc' = "c"
    /\ UNCHANGED <<regs, trapSp, status, todo, bounds>>

\* A signal handler in C sets caml_something_to_do, at any moment.
SignalArrives ==
    /\ ~todo /\ signals < MaxSignals
    /\ todo' = TRUE
    /\ UNCHANGED <<pc, regs, stack, caml, native, status, bounds>>

-----------------------------------------------------------------------------
(* The whole machine                                                       *)

\* Statuses earlier execution can have left.
ReachableStatus(f) == (0..(Threshold - 1)) \union {0, CompiledStatus(f)}

\* The C program, before its first callback.
Init ==
    /\ pc = "c" /\ accu = Unit /\ env = Unit /\ extra = 0 /\ rdx = 0
    /\ stack = <<>> /\ externSp = 0 /\ trapSp = 0 /\ extRaise = 0
    /\ native = <<C("main", 0, Unit)>>
    /\ status \in [Funs -> UNION {ReachableStatus(f) : f \in Funs}]
    /\ \A f \in Funs : status[f] \in ReachableStatus(f)
    /\ todo = FALSE /\ tick = 0 /\ signals = 0

BaseStep ==
    \/ \E v \in Callable, n \in 1..MaxArgs : BaseApply(v, n) \/ BaseApplyTerm(v, n)
    \/ \E v \in Callable \union {Res(f) : f \in Funs} : BaseReturn(v)
    \/ BasePushTrap \/ BasePopTrap \/ BaseRaise \/ BaseCCall \/ BaseCheckSignals

ApplyStep ==
    \/ ApplyChecks \/ Restart \/ Dispatch \/ GrabClosure \/ GrabAllocSignals
    \/ CheckOptCount \/ CheckOptBytecall \/ OptCall \/ PerformReturn

OptStep ==
    \/ \E f \in Funs, n \in 1..MaxArgs : OptApplyFast(f, n)
    \/ \E v \in Callable, n \in 1..MaxArgs : OptApplySlow(v, n) \/ OptTailCall(v, n)
    \/ \E v \in Callable \union {Res(f) : f \in Funs} : OptReturn(v)
    \/ ApplyN \/ Stop \/ OptReturnToBase \/ OptReturnToOpt
    \/ OptCCall \/ OptCheckSignals \/ OptRaise

RaiseStep == RaiseToTrap \/ RaiseAgain \/ RaiseToC

CStep ==
    \/ \E v \in {Unit, accu} : CReturn(v)
    \/ CRaise
    \/ \E f \in Funs, n \in 1..MaxCallbackArgs : Callback(f, n)
    \/ CallbackStop

\* The C program has nothing more to run.
Finished == pc = "c" /\ Len(native) = 1 /\ tick = MaxOps /\ UNCHANGED vars

Machine == BaseStep \/ ApplyStep \/ OptStep \/ RaiseStep \/ CStep
Next == Machine \/ SignalArrives \/ Finished

Spec == Init /\ [][Next]_vars
\* The processor keeps executing instructions.
FairSpec == Spec /\ WF_vars(Machine)

-----------------------------------------------------------------------------
(* Properties                                                              *)

EntryFrames == {i \in DOMAIN native : native[i].k = "entry"}
LastEntry(n) == Max({0} \union {i \in EntryFrames : i <= n})

\* Caml_state->external_raise (set by emit_entrypoint, restored by emit_stop and by
\* return_exception_result) is always the jmpbuf of the innermost live entry frame,
\* and each frame saved the one outside it: no longjmp lands in a frame that is gone.
HandlerChain ==
    /\ extRaise = LastEntry(Len(native))
    /\ \A i \in EntryFrames : native[i].prev = LastEntry(i - 1)

\* Whenever C code runs, extern_sp covers exactly the OCaml stack in use, so
\* caml_oldify_local_roots scans every live word and no dead one, whichever way the
\* C code was reached (setup_for_c_call, process_events, Setup_for_gc, Cranelift).
RootsScanned == pc = "c" => externSp = Height

TrapHeights == {h \in 1..Height : stack[Height - h + 1] = Addr("trap")}

\* Caml_state->trapsp heads a chain through every trap frame of the OCaml stack,
\* innermost first: no frame is skipped and no popped frame is left in it.
TrapChain ==
    /\ trapSp = Max({0} \union TrapHeights)
    /\ \A h \in TrapHeights :
         stack[Height - h + 2] = Link(Max({0} \union {g \in TrapHeights : g < h}))

\* An exception leaving an apply_n frame (ShouldReraise) always finds an enclosing
\* entry frame: caml_raise never meets a null external_raise there.
ReraiseHasHandler == pc = "raise" /\ Frame.reraise => Frame.prev > 0

\* The two chains of handlers, of C jump buffers and of OCaml trap frames, are
\* whole at every step, and an exception leaving apply_n has a handler to go to.
HandlersSound == HandlerChain /\ TrapChain /\ ReraiseHasHandler

\* "If Is_exception_result(v) returns true, an exception escaped" (the manual's
\* intf-c.etex): ->raise gives a callback's exception to C only when no trap frame of
\* the callback's own activation, above what caml_callbackN_exn pushed, is left.
OnlyEscapingReachC ==
    pc = "raise" /\ ~Frame.reraise /\ trapSp <= Frame.initSp
      => trapSp <= Frame.initSp - (Frame.narg + 4)

\* Every activation comes to an end: control always gets back to the C program, whatever
\* mix of tiers, exceptions, callbacks and signals the program goes through.
ReturnsToC == []<>(pc = "c" /\ Len(native) = 1)
=============================================================================
