------------------------------ MODULE FreeMem ------------------------------
(***************************************************************************)
(* The memory the free lists of freelist.c work on.  A block is named by   *)
(* the address of its header.  The state of memory and of the free list is *)
(* one record m, so that the C functions are operators from records to     *)
(* records:                                                                *)
(*   wo, col, cus     headers: wosize, colour, whether the tag is Custom   *)
(*   nx               Next_small of a block, of the list's sentinel (Fl_head) *)
(*                    and of the heads of the small lists (-i)             *)
(*   cur              caml_fl_cur_wsz                                      *)
(*   merge            caml_fl_merge                                        *)
(*   frag             nf_last_fragment, ff_last_fragment                   *)
(*   sweeping, sweep  caml_gc_phase = Phase_sweep, caml_gc_sweep_hp        *)
(*   prev, last       nf_prev, nf_last and ff_last                         *)
(*   flp, beyond      the table of the first-fit policy                    *)
(*   smerge, map      the merge pointers and bitmap of the best-fit policy *)
(*   tree, least      its tree of large blocks, and bf_large_least         *)
(*   doomed, stray    dead custom blocks to finalise; a finaliser was      *)
(*                    called on something else                             *)
(***************************************************************************)
EXTENDS Integers, Sequences, FiniteSets

CONSTANTS
    Words,       \* addresses are 1..Words
    Max,         \* Max_wosize
    NumSmall,    \* BF_NUM_SMALL
    FlpMax       \* FLP_MAX

ASSUME MemAssumption ==
    /\ Words \in Nat /\ Max \in Nat \ {0}
    /\ NumSmall \in 1..Max /\ FlpMax \in Nat \ {0}

Fl_head == 0
Null == 0

Next_in_mem(m, a) == a + 1 + m.wo[a]

\* merge_block is responsible for calling the finalisation function.
Finalise(m, a) ==
    IF ~m.cus[a] THEN m
    ELSE [m EXCEPT !.doomed = @ \ {a}, !.stray = @ \/ a \notin m.doomed]

\* The first block from p on whose successor satisfies the request, or the last.
RECURSIVE Search(_, _, _)
Search(m, p, w) ==
    IF m.nx[p] = Null \/ m.wo[m.nx[p]] >= w THEN p ELSE Search(m, m.nx[p], w)

\* Insertion of a list of new blocks f..l in address order: first link past it.
RECURSIVE Place(_, _, _)
Place(m, p, a) ==
    IF m.nx[p] # Null /\ m.nx[p] < a THEN Place(m, m.nx[p], a) ELSE p

\* nf_allocate_block and ff_allocate_block: the block is cut from the end of cur.
\* A remnant of one word is a fragment.
CutWhole(m, wh, cur) == m.wo[cur] <= wh

Cut(m, wh, p, cur) ==
    IF CutWhole(m, wh, cur)
    THEN [m EXCEPT !.cur = @ - (m.wo[cur] + 1), !.nx[p] = m.nx[cur],
                   !.merge = IF @ = cur THEN p ELSE @,
                   !.wo[cur] = 0, !.col[cur] = "white", !.cus[cur] = FALSE]
    ELSE [m EXCEPT !.cur = @ - wh, !.wo[cur] = @ - wh, !.col[cur] = "blue", !.cus[cur] = FALSE]

CutAddress(m, wh, cur) == cur + 1 + m.wo[cur] - wh

\* Mutant: a merged block is left in the list.
Successor_keep(m, c, merged) == c

\* What follows in the list: cur leaves it when bp and cur are merged.
Successor(m, c, merged) == IF merged THEN m.nx[c] ELSE c

\* The block of w words at a can be merged into the free block p before it.
Extends(m, p, a, w) == p # Fl_head /\ Next_in_mem(m, p) = a /\ m.wo[p] + w + 1 < Max

\* nf_merge_block and ff_merge_block up to what each does of its own: the dead
\* block a0 joins the fragment before it, the free block after it (which leaves
\* the list: "gone") and the free block before it, if the sizes allow.
LinkMerge(m0, a0) ==
    LET m == Finalise([m0 EXCEPT !.cur = @ + m0.wo[a0] + 1], a0)
        p == m.merge
        c == m.nx[p]
        joinF == m.frag = a0 /\ m.wo[a0] + 1 <= Max
        a == IF joinF THEN a0 - 1 ELSE a0
        w1 == IF joinF THEN m.wo[a0] + 1 ELSE m.wo[a0]
        joinC == a + 1 + w1 = c /\ w1 + m.wo[c] + 1 <= Max
        next == Successor(m, c, joinC)
        w2 == IF joinC THEN w1 + m.wo[c] + 1 ELSE w1
        joinP == Extends(m, p, a, w2)
        n == [m EXCEPT !.cur = @ + (IF joinF THEN 1 ELSE 0), !.nx[p] = next,
                       !.wo[a] = w2, !.cus[a] = FALSE]
    IN  [next |-> a + 1 + w2,
         gone |-> IF joinC THEN c ELSE Null,
         m |-> IF joinP THEN [n EXCEPT !.wo[p] = @ + w2 + 1]
               ELSE IF w2 # 0
               THEN [n EXCEPT !.col[a] = "blue", !.nx[a] = next, !.nx[p] = a, !.merge = a]
               ELSE [n EXCEPT !.frag = a + 1, !.cur = @ - 1]]

\* nf_add_blocks and ff_add_blocks: the chained new blocks f..l enter the list at
\* the end, or at their place.
LinkAdd(m, f, l) ==
    LET p == IF f > m.last THEN m.last ELSE Place(m, Fl_head, f)
    IN  [m EXCEPT !.nx[l] = m.nx[p], !.nx[p] = f,
                  !.merge = IF p = @ /\ f < m.sweep THEN l ELSE @]

LinkInit(m) == [m EXCEPT !.nx[Fl_head] = Null, !.cur = 0]
LinkInitMerge(m) == [m EXCEPT !.frag = Null, !.merge = Fl_head]

\* The blocks linked from p, in order (at most Words of them).
Linked(m, p) ==
    LET chain[n \in 0..Words, q \in 0..Words] ==
            IF n = 0 \/ q = Null THEN <<>> ELSE <<q>> \o chain[n - 1, m.nx[q]]
    IN  chain[Words, m.nx[p]]
=============================================================================
