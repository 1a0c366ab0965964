------------------------- MODULE JitApplyRefinement -------------------------
(***************************************************************************)
(* JitApply implements ApplySemantics.  The refinement mapping reads the   *)
(* activations off the machine: it walks the OCaml stack and the native    *)
(* stack inwards from the running code, crossing from one to the other at  *)
(* the frames the calling convention leaves, exactly as a return would.    *)
(***************************************************************************)
EXTENDS JitApply

A == INSTANCE ApplySemantics WITH
       acts <- <<>>, result <- <<>>    \* for its operators on activations only

Word(h, i) == stack[Height - h + i + 1]                          \* sp[i] for an sp of height h
Words(h, n) == SubSeq(stack, Height - h + 1, Height - h + n)

RECURSIVE InBase(_, _, _, _), Continuation(_, _), InOpt(_, _), InC(_, _), Resumed(_, _, _, _, _, _)

\* The activations when code at address w resumes with r_sp at h and c native frames.
Continuation(h, c) ==
    CASE Word(h, 0) = Addr("base") ->
           InBase(Word(h, 1)[2], LongVal(Word(h, 2)), h - 3, c)
      [] Word(h, 0) = Addr("stop") -> InOpt(h - 3, c - 1)
      [] Word(h, 0) = Addr("callback_stop") -> InC(h - 4, c - 1)

\* A baseline body of f, with ex extra arguments.
InBase(f, ex, h, c) ==
    IF Word(h, 0) = Addr("trap")
    THEN Append(InBase(f, ex, h - 4, c), A!Trap)
    ELSE Append(Continuation(h - Arity[f] - ex, c),
                A!Fun(f, Words(h, Arity[f]), Words(h - Arity[f], ex)))

\* An optimised body: its frame is native[c]; only "asm" callers have extra arguments.
InOpt(h, c) ==
    LET fr == native[c]
        rest == IF fr.caller = "asm" THEN Continuation(h - fr.extra, c - 1) ELSE InOpt(h, c - 1)
    IN  Append(rest, A!Fun(fr.f, fr.args, Words(h, fr.extra)))

\* C code whose frame is native[c].
InC(h, c) ==
    LET fr == native[c]
    IN  CASE fr.from = "main" -> <<A!CCode(fr.exn)>>
          [] fr.from = "base" ->
               Append(InBase(Word(h, 0)[2], fr.extra, h - 2, c - 1), A!CCode(fr.exn))
          [] fr.from = "opt" -> Append(InOpt(h, c - 1), A!CCode(fr.exn))
          [] fr.from = "opt_events" -> Append(InOpt(h, c - 1), A!Sig(fr.saved, fr.exn))
          [] fr.from = "events" ->
               LET s == Resumed(Word(h, 3)[2], Word(h, 0), Word(h, 4), LongVal(Word(h, 5)), h - 6, c - 1)
               IN  Append(s.acts, A!Sig(s.result, fr.exn))
          [] fr.from = "grab" ->
               LET s == Resumed("grab", Word(h, 0), Word(h, 1), fr.extra, h - 3, c - 1)
               IN  Append(s.acts, A!Sig(s.result, fr.exn))

\* No program operation reads r_accu between the start of a body and its first result;
\* the interpreter has Val_unit there and baseline code the closure.
Delivered(v) == IF v[1] = "clo" THEN Unit ELSE v

\* The abstract state when the machine is at label l with these registers.
Resumed(l, a, e, ex, h, c) ==
    CASE l = "base" -> [acts |-> InBase(e[2], ex, h, c), result |-> Delivered(a)]
      [] l = "opt" -> [acts |-> InOpt(h, c), result |-> a]
      [] l \in {"apply", "dispatch", "grab"} ->
           A!Applied(Continuation(h - ex - 1, c), a, Words(h, ex + 1))
      [] l = "check_opt" ->
           LET n == Arity[a[2]] + ex
           IN  A!Applied(Continuation(h - n, c), a, Words(h, n))
      [] l = "return" ->
           IF ex = 0 THEN [acts |-> Continuation(h, c), result |-> a]
           ELSE A!Applied(Continuation(h - ex, c), a, Words(h, ex))
      [] l = "opt_return" ->
           LET fr == native[c]
               n == rdx + (IF fr.caller = "asm" THEN fr.extra ELSE 0)
               rest == IF fr.caller = "asm" THEN Continuation(externSp - n, c - 1)
                       ELSE InOpt(externSp - rdx, c - 1)
           IN  IF n = 0 THEN [acts |-> rest, result |-> a]
               ELSE A!Applied(rest, a, Words(externSp, n))
      [] l = "apply_n" ->
           A!Applied(InOpt(externSp, c), a, Words(externSp + ex + 4, ex + 1))
      [] l = "stop" -> [acts |-> InOpt(h, c - 1), result |-> a]
      [] l = "callback_stop" -> [acts |-> InC(h - 1, c - 1), result |-> a]
      [] l = "c" -> [acts |-> InC(externSp, c), result |-> Delivered(a)]
      [] l = "raise" ->
           LET fr == native[c]
           IN  IF trapSp > fr.initSp
               THEN [acts |-> InBase(Word(trapSp, 2)[2], LongVal(Word(trapSp, 3)), trapSp - 4, c),
                     result |-> a]
               ELSE IF ~fr.reraise
               THEN LET s == InC(fr.initSp - (fr.narg + 4), c - 1)
                    IN  [acts |-> [s EXCEPT ![Len(s)].exn = TRUE], result |-> a]
               ELSE A!Raised(InOpt(fr.initSp, c - 1), a)

Abstract == Resumed(pc, accu, env, extra, Height, Len(native))

Semantics == INSTANCE ApplySemantics WITH acts <- Abstract.acts, result <- Abstract.result

\* Every behaviour of the two-tier machine is one the language allows: each function
\* body starts with exactly its own arguments in order, over- and under-application,
\* tail calls across tiers, and exceptions through native frames included.
ImplementsApplySemantics == Semantics!Spec
=============================================================================
