------------------------------ MODULE FirstFit ------------------------------
(***************************************************************************)
(* The first-fit policy of freelist.c.  flp lists the links of the blocks  *)
(* larger than all before them, up to beyond, so that the first fit for a  *)
(* size is found there without walking the list.                           *)
(***************************************************************************)
EXTENDS FreeMem

\* The block after the i-th link of the table.
Flp(m, i) == m.nx[m.flp[i]]

ff_allocate_block(m, wh, i, p, cur) ==
    LET n == Cut(m, wh, p, cur)
        size == Len(m.flp)
    IN  [a |-> CutAddress(m, wh, cur),
         m |-> IF ~CutWhole(m, wh, cur) THEN n
               ELSE IF i < size /\ m.flp[i + 1] = cur
               THEN [n EXCEPT !.flp[i + 1] = p]
               ELSE IF i = size
               THEN [n EXCEPT !.beyond = IF p = Fl_head THEN Null ELSE p,
                              !.flp = SubSeq(@, 1, size - 1)]
               ELSE n]

\* The links after p, up to stop, of blocks larger than all before them and than
\* sz; at most n of them, none after the first of size at least old.
RECURSIVE Rising(_, _, _, _, _, _)
Rising(m, p, stop, sz, old, n) ==
    IF p = stop \/ n = 0 THEN <<>>
    ELSE LET c == m.nx[p]
         IN  IF m.wo[c] <= sz THEN Rising(m, c, stop, sz, old, n)
             ELSE IF m.wo[c] >= old THEN <<p>>
             ELSE <<p>> \o Rising(m, c, stop, m.wo[c], old, n - 1)

\* The end of ff_allocate: the i-th block, of size old, was removed or cut.
update_flp(m, i, old) ==
    LET size == Len(m.flp)
        below == IF i > 1 THEN m.wo[Flp(m, i - 1)] ELSE 0
        buf == Rising(m, m.flp[i], m.flp[i + 1], below, old, FlpMax - i + 1)
        all == SubSeq(m.flp, 1, i - 1) \o buf \o SubSeq(m.flp, i + 1, size)
    IN  IF i > size THEN m
        ELSE IF i = size
        THEN IF m.wo[Flp(m, i)] <= below
             THEN [m EXCEPT !.beyond = Flp(m, i), !.flp = SubSeq(@, 1, size - 1)]
             ELSE [m EXCEPT !.beyond = Null]
        ELSE IF Len(all) <= FlpMax THEN [m EXCEPT !.flp = all]
        ELSE [m EXCEPT !.flp = SubSeq(all, 1, FlpMax - 1), !.beyond = m.nx[all[FlpMax]]]

\* Extension of the table until a fit is found, the list ends or the table is full.
RECURSIVE Extend(_, _, _, _)
Extend(m, p, sz, w) ==
    LET c == m.nx[p]
        n == [m EXCEPT !.flp = Append(@, p)]
    IN  IF Len(m.flp) >= FlpMax THEN [at |-> "full", p |-> p, m |-> m]
        ELSE IF c = Null
        THEN [at |-> "end", p |-> p,
              m |-> [m EXCEPT !.last = p, !.beyond = IF p = Fl_head THEN Null ELSE p]]
        ELSE IF m.wo[c] <= sz THEN Extend(m, c, sz, w)
        ELSE IF m.wo[c] >= w THEN [at |-> "found", p |-> p, m |-> [n EXCEPT !.beyond = c]]
        ELSE Extend(n, c, m.wo[c], w)

\* The slow search past a full table.
RECURSIVE Slow(_, _, _, _)
Slow(m, p, sz, w) ==
    LET c == m.nx[p]
    IN  IF c = Null THEN [a |-> Null, m |-> [m EXCEPT !.last = p]]
        ELSE IF m.wo[c] < sz THEN Slow([m EXCEPT !.beyond = c], c, sz, w)
        ELSE IF m.wo[c] >= w THEN ff_allocate_block(m, w + 1, Len(m.flp) + 1, p, c)
        ELSE Slow(m, c, sz, w)

ff_allocate(m, w) ==
    LET size == Len(m.flp)
        hits == {i \in 1..size : m.wo[Flp(m, i)] >= w}
        taken(n, i) ==
            LET r == ff_allocate_block(n, w + 1, i, n.flp[i], Flp(n, i))
            IN  [r EXCEPT !.m = update_flp(r.m, i, n.wo[Flp(n, i)])]
        e == IF size = 0 THEN Extend(m, Fl_head, 0, w)
             ELSE Extend(m, IF m.beyond # Null THEN m.beyond ELSE Flp(m, size), m.wo[Flp(m, size)], w)
        full == [e.m EXCEPT !.beyond = IF size = FlpMax THEN Null ELSE e.p]
    IN  IF hits # {} THEN taken(m, CHOOSE i \in hits : \A j \in hits : i <= j)
        ELSE CASE e.at = "found" -> taken(e.m, Len(e.m.flp))
               [] e.at = "end" -> [a |-> Null, m |-> e.m]
               [] e.at = "full" ->
                    Slow(full, IF full.beyond # Null THEN full.beyond ELSE full.flp[FlpMax],
                         full.wo[Flp(full, FlpMax)], w)

\* Mutant: the table is not cut back where the list changes.
ff_truncate_flp_never(m, changed) == m

ff_truncate_flp(m, changed) ==
    IF changed = Fl_head THEN [m EXCEPT !.flp = <<>>, !.beyond = Null]
    ELSE LET keep == {i \in 1..Len(m.flp) : \A j \in i..Len(m.flp) : Flp(m, j) >= changed}
             n == IF keep = {} THEN Len(m.flp) ELSE (CHOOSE i \in keep : \A j \in keep : i <= j) - 1
         IN  [m EXCEPT !.flp = SubSeq(@, 1, n), !.beyond = IF @ >= changed THEN Null ELSE @]

ff_init(m) == ff_truncate_flp(LinkInit(m), Fl_head)
ff_init_merge(m) == LinkInitMerge(m)

ff_merge_block(m, a) ==
    LET r == LinkMerge(ff_truncate_flp(m, m.merge), a) IN [next |-> r.next, m |-> r.m]

ff_add_blocks(m, f, l) ==
    LET n == LinkAdd([m EXCEPT !.cur = @ + l + m.wo[l] + 1 - f], f, l)
    IN  IF f > m.last
        THEN IF Len(n.flp) < FlpMax THEN [n EXCEPT !.flp = Append(@, m.last)] ELSE n
        ELSE ff_truncate_flp(n, f)
=============================================================================
