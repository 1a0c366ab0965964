----------------------------- MODULE MCJitApply -----------------------------
(* Small programs for TLC: functions of two and three arguments, one more    *)
(* than there are registers, and, for callbacks that push more words than a  *)
(* handler has, functions of one and five.                                   *)
EXTENDS JitApplyRefinement

MCFuns == {"f2", "f3"}
MCArity == [f2 |-> 2, f3 |-> 3]

MCWideFuns == {"f1", "f5"}
MCWideArity == [f1 |-> 1, f5 |-> 5]
=============================================================================
