--------------------------- MODULE MCCodeSections ---------------------------
(* Bytecode addresses are interchangeable; there is one fewer than loads, so  *)
(* that a freed address is given out again.                                   *)
EXTENDS CodeSections, TLC

CONSTANTS a1, a2, a3, cb
MCAddrs == {a1, a2, a3}
MCOffsets == {1}
Symmetry == Permutations(MCAddrs)
=============================================================================
