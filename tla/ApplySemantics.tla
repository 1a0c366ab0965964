--------------------------- MODULE ApplySemantics ---------------------------
(***************************************************************************)
(* What function application, return and exceptions mean in an OCaml       *)
(* bytecode program, with no machine in sight: no OCaml stack layout, no   *)
(* native frames, no tiers.  This is the contract the bytecode interpreter *)
(* (runtime/interp.c: APPLY, APPTERM, RETURN, GRAB, RESTART, PUSHTRAP,     *)
(* POPTRAP, RAISE) gives, and the one JitApply is shown to implement.      *)
(*                                                                         *)
(* The program is an oracle: a running function may at any moment call any *)
(* closure with any number of arguments, return, raise, install a handler  *)
(* or call C.  Every argument is a token that is used once, so that an     *)
(* argument lost, duplicated or delivered in the wrong place shows.        *)
(***************************************************************************)
EXTENDS Integers, Sequences, FiniteSetsExt

CONSTANTS
    Funs,       \* the functions of the program
    Arity,      \* Arity[f]: how many arguments f needs before its body runs
    MaxArgs,    \* bound: arguments of one call
    MaxOps,     \* bound: calls, handlers and C calls the oracle may start
    MaxSignals  \* bound: asynchronous signals

VARIABLES
    acts,       \* the activations, innermost last
    result,     \* the value last delivered to the innermost activation
    tick,       \* operations the oracle has started; numbers the tokens
    signals     \* signals that have been delivered to OCaml code

vars == <<acts, result, tick, signals>>

-----------------------------------------------------------------------------
(* Values *)

Unit == <<"unit">>
Clo(f) == <<"clo", f>>
Pap(f, args) == <<"pap", f, args>>    \* f applied to too few arguments
Res(f) == <<"res", f>>                \* what a call of f computes
Exn(f) == <<"exn", f>>                \* the exception f raises
CExn == <<"exn", "c">>                \* the exception C code raises
IsPap(v) == v[1] = "pap"

\* The arguments of the call started now: n tokens never used before.
FreshArgs(n) == [i \in 1..n |-> <<"tok", tick, i>>]

(* Activations.  "fun" is a function body with its own arguments and the  *)
(* arguments still to be applied to what it returns; "trap" an exception   *)
(* handler of the function below it; "c" a C primitive, the only one that  *)
(* can receive an exception as a result; "sig" the runtime running pending *)
(* actions in the middle of OCaml code, with the result it must preserve.  *)
Fun(f, args, pend) == [k |-> "fun", f |-> f, args |-> args, pend |-> pend]
Trap == [k |-> "trap"]
CCode(exn) == [k |-> "c", exn |-> exn]
Sig(saved, exn) == [k |-> "sig", saved |-> saved, exn |-> exn]

Top == acts[Len(acts)]
Below == SubSeq(acts, 1, Len(acts) - 1)

(* Applying v to args on top of the activations below: the body of a       *)
(* function starts when it has all its arguments, the others wait for its  *)
(* result, and with too few arguments the result is a partial application. *)
Applied(below, v, args) ==
    LET f == v[2]
        all == (IF IsPap(v) THEN v[3] ELSE <<>>) \o args
    IN  IF Len(all) < Arity[f]
        THEN [acts |-> below, result |-> Pap(f, all)]
        ELSE [acts |-> Append(below, Fun(f, SubSeq(all, 1, Arity[f]),
                                         SubSeq(all, Arity[f] + 1, Len(all)))),
              result |-> Unit]

(* Raising e above the activations below unwinds to the innermost handler, *)
(* or to the innermost C code, which gets e as an exception result.        *)
Raised(below, e) ==
    LET i == Max({j \in DOMAIN below : below[j].k # "fun"})
    IN  IF below[i].k = "trap"
        THEN [acts |-> SubSeq(below, 1, i - 1), result |-> e]
        ELSE [acts |-> Append(SubSeq(below, 1, i - 1), [below[i] EXCEPT !.exn = TRUE]),
              result |-> e]

Become(s) == acts' = s.acts /\ result' = s.result

\* What a program can call: a closure it makes, or a partial application it was given.
Callable == {Clo(f) : f \in Funs} \union (IF IsPap(result) THEN {result} ELSE {})

InFun == Top.k = "fun"
InC == Top.k \in {"c", "sig"}
\* A function that has installed a handler runs on top of it.
InBody == InFun \/ Top.k = "trap"
StartOp == tick < MaxOps /\ tick' = tick + 1 /\ UNCHANGED signals
NoNewOp == UNCHANGED <<tick, signals>>

-----------------------------------------------------------------------------
(* Operations of a function body *)

Call(v, n) == StartOp /\ InBody /\ Become(Applied(acts, v, FreshArgs(n)))

TailCall(v, n) ==
    /\ StartOp
    /\ InFun
    /\ Become(Applied(Below, v, FreshArgs(n) \o Top.pend))

Return(v) ==
    /\ NoNewOp
    /\ InFun
    /\ \/ Top.pend = <<>> /\ Become([acts |-> Below, result |-> v])
       \/ Top.pend # <<>> /\ v \in Callable /\ Become(Applied(Below, v, Top.pend))

PushTrap == StartOp /\ InBody /\ Become([acts |-> Append(acts, Trap), result |-> result])

PopTrap == NoNewOp /\ Top = Trap /\ Become([acts |-> Below, result |-> result])

Raise(e) == NoNewOp /\ InBody /\ Become(Raised(acts, e))

CCall == StartOp /\ InBody /\ Become([acts |-> Append(acts, CCode(FALSE)), result |-> result])

(* Operations of C code and of the runtime *)

CReturn(v) ==
    /\ NoNewOp
    /\ Len(acts) > 1 /\ InC
    /\ \/ Top.k = "c" /\ Become([acts |-> Below, result |-> v])
       \/ Top.k = "sig" /\ ~Top.exn /\ Become([acts |-> Below, result |-> Top.saved])

CRaise(e) == NoNewOp /\ Len(acts) > 1 /\ InC /\ Become(Raised(Below, e))

Callback(f, n) ==
    /\ StartOp
    /\ InC /\ (Top.k = "sig" => ~Top.exn)
    /\ Become(Applied(Append(Below, [Top EXCEPT !.exn = FALSE]), Clo(f), FreshArgs(n)))

\* Pending actions run between two operations of OCaml code.
TakeSignal ==
    /\ signals < MaxSignals
    /\ signals' = signals + 1
    /\ Become([acts |-> Append(acts, Sig(result, FALSE)), result |-> Unit])
    /\ UNCHANGED tick

Init == acts = <<CCode(FALSE)>> /\ result = Unit /\ tick = 0 /\ signals = 0

Next ==
    \/ \E v \in Callable, n \in 1..MaxArgs : Call(v, n) \/ TailCall(v, n)
    \/ \E v \in Callable \union {Res(f) : f \in Funs} : Return(v)
    \/ \E v \in {Unit, result} : CReturn(v)
    \/ PushTrap \/ PopTrap \/ CCall \/ TakeSignal
    \/ \E f \in Funs : Raise(Exn(f))
    \/ \E e \in {CExn, result} : CRaise(e)
    \/ \E f \in Funs, n \in 1..MaxArgs : Callback(f, n)

Spec == Init /\ [][Next]_vars
=============================================================================
