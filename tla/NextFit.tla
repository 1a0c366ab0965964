------------------------------ MODULE NextFit ------------------------------
(***************************************************************************)
(* The next-fit policy of freelist.c: a list in the order of addresses,    *)
(* searched from where the last allocation was made.                       *)
(***************************************************************************)
EXTENDS FreeMem

nf_allocate_block(m, wh, p, cur) ==
    [a |-> CutAddress(m, wh, cur), m |-> [Cut(m, wh, p, cur) EXCEPT !.prev = p]]

\* From nf_prev to the end, then from the start to nf_prev.
RECURSIVE SearchTo(_, _, _)
SearchTo(m, p, w) ==
    IF p = m.prev \/ m.wo[m.nx[p]] >= w THEN p ELSE SearchTo(m, m.nx[p], w)

nf_allocate(m, w) ==
    LET p == Search(m, m.prev, w)
        n == [m EXCEPT !.last = p]
        q == SearchTo(m, Fl_head, w)
    IN  IF m.nx[p] # Null THEN nf_allocate_block(m, w + 1, p, m.nx[p])
        ELSE IF q # m.prev THEN nf_allocate_block(n, w + 1, q, m.nx[q])
        ELSE [a |-> Null, m |-> n]

nf_init(m) == [LinkInit(m) EXCEPT !.prev = Fl_head]
nf_init_merge(m) == LinkInitMerge(m)

\* Mutant: nf_prev is left pointing to a block that was merged away.
nf_merge_block_stale(m, a) ==
    [next |-> LinkMerge(m, a).next, m |-> LinkMerge(m, a).m]

nf_merge_block(m, a) ==
    LET r == LinkMerge(m, a)
    IN  [next |-> r.next,
         m |-> IF r.gone # Null /\ m.prev = r.gone THEN [r.m EXCEPT !.prev = m.merge] ELSE r.m]

nf_add_blocks(m, f, l) == LinkAdd([m EXCEPT !.cur = @ + l + m.wo[l] + 1 - f], f, l)
=============================================================================
