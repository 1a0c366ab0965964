----------------------------- MODULE BlockStore -----------------------------
(***************************************************************************)
(* What the major heap's allocator promises: it hands out blocks of the    *)
(* size asked for that overlap no block still in use, and takes blocks     *)
(* back.                                                                   *)
(***************************************************************************)
EXTENDS Integers

CONSTANTS
    Addresses,   \* the words of the heap
    Sizes        \* the sizes asked for

VARIABLE blocks  \* the blocks in use: <<address of the header, size>>

Span(b) == b[1]..(b[1] + b[2])

Init == blocks = {}

Allocate ==
    \E b \in Addresses \X Sizes :
        /\ Span(b) \subseteq Addresses
        /\ \A c \in blocks : Span(b) \intersect Span(c) = {}
        /\ blocks' = blocks \union {b}

Release == \E dead \in SUBSET blocks : blocks' = blocks \ dead

Next == Allocate \/ Release

Spec == Init /\ [][Next]_blocks
=============================================================================
