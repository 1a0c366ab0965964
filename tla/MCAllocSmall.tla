---------------------------- MODULE MCAllocSmall ----------------------------
(* An arena of eight words, blocks of two and of three words.                 *)
EXTENDS AllocSmall

MCSizes == {2, 3}
=============================================================================
