------------------------------ MODULE BestFit ------------------------------
(***************************************************************************)
(* The best-fit policy of freelist.c.  Blocks of at most NumSmall words    *)
(* are in a list per size; its link cell bf_small_fl[i].free is m.nx[-i]   *)
(* and the cell bf_small_fl[i].merge points to is that of m.smerge[i].     *)
(* Larger blocks are in a splay tree by size, whose nodes are circular     *)
(* lists: a tree is Nil or [n, l, r], n the list from its node on.         *)
(***************************************************************************)
EXTENDS FreeMem

Nil == [nil |-> TRUE]
Node(n, l, r) == [n |-> n, l |-> l, r |-> r]
bf_large_wosize(m, t) == m.wo[t.n[1]]

RECURSIVE bf_search(_, _, _)
bf_search(m, t, sz) ==
    IF t = Nil \/ bf_large_wosize(m, t) = sz THEN t
    ELSE bf_search(m, IF bf_large_wosize(m, t) > sz THEN t.l ELSE t.r, sz)

\* Store new through the pointer that bf_search returns.
RECURSIVE Graft(_, _, _, _)
Graft(m, t, sz, new) ==
    IF t = Nil \/ bf_large_wosize(m, t) = sz THEN new
    ELSE IF bf_large_wosize(m, t) > sz THEN [t EXCEPT !.l = Graft(m, @, sz, new)]
    ELSE [t EXCEPT !.r = Graft(m, @, sz, new)]

RECURSIVE bf_search_best(_, _, _, _, _)
bf_search_best(m, t, w, best, low) ==
    IF t = Nil THEN [best |-> best, bound |-> low]
    ELSE LET sz == bf_large_wosize(m, t)
         IN  IF sz = w THEN [best |-> t, bound |-> w]
             ELSE IF sz > w THEN bf_search_best(m, t.l, w, t, low)
             ELSE bf_search_best(m, t.r, w, best, sz)

\* The trees that hang off the path: each node of left waits for its right
\* child, each node of right for its left child.
RECURSIVE Hang(_, _, _)
Hang(nodes, side, t) ==
    IF nodes = <<>> THEN t
    ELSE LET rest == Hang(Tail(nodes), side, t)
         IN  IF side = "r" THEN [nodes[1] EXCEPT !.r = rest] ELSE [nodes[1] EXCEPT !.l = rest]

\* Mutant: the rotation forgets the subtree between the two nodes.
RECURSIVE Splay_forget(_, _, _, _, _)
Splay_forget(m, x, sz, left, right) ==
    LET xsz == bf_large_wosize(m, x)
        y == IF xsz > sz THEN x.l ELSE x.r
        done(z) == Node(z.n, Hang(left, "r", z.l), Hang(right, "l", z.r))
        z == [y EXCEPT !.r = [x EXCEPT !.l = Nil]]
    IN  IF xsz = sz \/ y = Nil THEN done(x)
        ELSE IF xsz > sz
        THEN IF bf_large_wosize(m, y) <= sz THEN Splay_forget(m, y, sz, left, Append(right, x))
             ELSE IF z.l = Nil THEN done(z)
             ELSE Splay_forget(m, z.l, sz, left, Append(right, z))
        ELSE Splay_forget(m, y, sz, Append(left, x), right)

\* The loop of bf_splay at x: a rotation in the zig-zig and zag-zag cases, then
\* a link to the right or to the left.
RECURSIVE Splay(_, _, _, _, _)
Splay(m, x, sz, left, right) ==
    LET xsz == bf_large_wosize(m, x)
        y == IF xsz > sz THEN x.l ELSE x.r
        done(z) == Node(z.n, Hang(left, "r", z.l), Hang(right, "l", z.r))
        zig == [y EXCEPT !.r = [x EXCEPT !.l = y.r]]
        zag == [y EXCEPT !.l = [x EXCEPT !.r = y.l]]
    IN  IF xsz = sz \/ y = Nil THEN done(x)
        ELSE IF xsz > sz
        THEN IF bf_large_wosize(m, y) <= sz THEN Splay(m, y, sz, left, Append(right, x))
             ELSE IF zig.l = Nil THEN done(zig)
             ELSE Splay(m, zig.l, sz, left, Append(right, zig))
        ELSE IF bf_large_wosize(m, y) >= sz THEN Splay(m, y, sz, Append(left, x), right)
        ELSE IF zag.r = Nil THEN done(zag)
        ELSE Splay(m, zag.r, sz, Append(left, zag), right)

bf_splay(m, sz) == IF m.tree = Nil THEN m ELSE [m EXCEPT !.tree = Splay(m, @, sz, <<>>, <<>>)]

\* Always the zig case.
bf_splay_least(m, t) == Splay(m, t, 0, <<>>, <<>>)

bf_remove_node(m, sz) ==
    LET x == bf_search(m, m.tree, sz)
        new == IF x.l = Nil THEN x.r ELSE IF x.r = Nil THEN x.l
               ELSE [bf_splay_least(m, x.r) EXCEPT !.l = x.l]
    IN  IF x = Nil THEN m
        ELSE [m EXCEPT !.tree = Graft(m, @, sz, new), !.least = IF @ = x.n[1] THEN Null ELSE @]

\* A new node, or the tail of a list, which is then splayed to the root.
bf_insert_block(m, v) ==
    LET sz == m.wo[v]
        x == bf_search(m, m.tree, sz)
        least == IF m.least = Null \/ sz > m.wo[m.least] THEN m.least
                 ELSE IF sz < m.wo[m.least] THEN v ELSE Null
        put(new) == [m EXCEPT !.least = least, !.tree = Graft(m, @, sz, new)]
    IN  IF x = Nil THEN put(Node(<<v>>, Nil, Nil))
        ELSE bf_splay(put([x EXCEPT !.n = Append(@, v)]), sz)

\* A remnant the sweep has still to reach is left out of the list.
bf_insert_remnant_small(m, v) ==
    LET w == m.wo[v]
    IN  IF w # 0 /\ (m.sweeping => v < m.sweep)
        THEN [m EXCEPT !.cur = @ + w + 1, !.nx[v] = m.nx[-w], !.nx[-w] = v,
                       !.smerge[w] = IF @ = -w THEN v ELSE @, !.map = @ \union {w}]
        ELSE m

bf_insert_remnant(m, v) ==
    IF m.wo[v] <= NumSmall THEN bf_insert_remnant_small(m, v)
    ELSE bf_insert_block([m EXCEPT !.cur = @ + m.wo[v] + 1], v)

\* A blue block, in the order of addresses.
bf_insert_sweep(m, v) ==
    LET w == m.wo[v]
        p == Place(m, m.smerge[w], v)
    IN  IF w > NumSmall THEN bf_insert_block(m, v)
        ELSE [m EXCEPT !.map = IF m.nx[p] = Null THEN @ \union {w} ELSE @,
                       !.nx[v] = m.nx[p], !.nx[p] = v, !.smerge[w] = v]

\* The link to v, from p on.
RECURSIVE LinkTo(_, _, _)
LinkTo(m, p, v) == IF m.nx[p] \in {v, Null} THEN p ELSE LinkTo(m, m.nx[p], v)

bf_remove(m, v) ==
    LET w == m.wo[v]
        p == LinkTo(m, m.smerge[w], v)
        x == bf_search(m, m.tree, w)
    IN  IF w <= NumSmall
        THEN [m EXCEPT !.smerge[w] = p, !.nx[p] = m.nx[v],
                       !.map = IF p = -w /\ m.nx[v] = Null THEN @ \ {w} ELSE @]
        ELSE IF x.n = <<v>> THEN bf_remove_node(m, w)
        ELSE [m EXCEPT !.tree = Graft(m, @, w, [x EXCEPT !.n = SelectSeq(@, LAMBDA b : b # v)])]

\* bf_split and bf_split_small: the block is cut from the end of v; the remnant
\* is white when it is small.
bf_split(m, w, v) ==
    LET rem == m.wo[v] - (w + 1)
    IN  [m EXCEPT !.cur = @ - (m.wo[v] + 1), !.wo[v] = rem, !.cus[v] = FALSE,
                  !.col[v] = IF rem <= NumSmall THEN "white" ELSE "blue"]

SplitAddress(m, w, v) == v + m.wo[v] - w

\* The split of a block that stays where it is in the tree.
SplitInTree(m, w, v) ==
    [a |-> SplitAddress(m, w, v),
     m |-> [bf_split(m, w, v) EXCEPT !.cur = @ + m.wo[v] - w]]

\* A block taken out of the tree: given whole, or split and its remnant returned.
TakeOut(m, w, v) ==
    IF m.wo[v] = w THEN [a |-> v, m |-> [m EXCEPT !.cur = @ - (w + 1)]]
    ELSE [a |-> SplitAddress(m, w, v), m |-> bf_insert_remnant(bf_split(m, w, v), v)]

bf_alloc_from_large(m, w, t, bound, set_least) ==
    LET n == t.n[1]
        b == t.n[2]
        r == TakeOut([m EXCEPT !.tree = Graft(m, @, m.wo[n],
                          [t EXCEPT !.n = <<n>> \o SubSeq(@, 3, Len(@))])], w, b)
    IN  IF Len(t.n) = 1
        THEN IF m.wo[n] > bound + w + 1
             THEN SplitInTree(IF set_least THEN [m EXCEPT !.least = n] ELSE m, w, n)
             ELSE TakeOut(bf_remove_node(m, m.wo[n]), w, n)
        ELSE IF set_least /\ m.wo[b] # w /\ r.m.wo[b] > NumSmall
        THEN [r EXCEPT !.m.least = b]
        ELSE r

bf_allocate_from_tree(m, w, set_least) ==
    LET s == bf_search_best(m, m.tree, w, Nil, NumSmall)
    IN  IF s.best = Nil THEN [a |-> Null, m |-> m]
        ELSE bf_alloc_from_large(m, w, s.best, s.bound, set_least)

\* The first block of a small list leaves it.
Pop(m, s) ==
    LET b == m.nx[-s]
    IN  [m EXCEPT !.smerge[s] = IF @ = b THEN -s ELSE @, !.nx[-s] = m.nx[b],
                  !.map = IF m.nx[b] = Null THEN @ \ {s} ELSE @]

bf_allocate(m, w) ==
    LET larger == {s \in m.map : s > w}
        s == CHOOSE i \in larger : \A j \in larger : i <= j
        b == m.nx[-s]
    IN  IF w > NumSmall THEN bf_allocate_from_tree(m, w, FALSE)
        ELSE IF m.nx[-w] # Null
        THEN [a |-> m.nx[-w], m |-> [Pop(m, w) EXCEPT !.cur = @ - (w + 1)]]
        ELSE IF larger # {}
        THEN [a |-> SplitAddress(m, w, b),
              m |-> bf_insert_remnant_small(bf_split(Pop(m, s), w, b), b)]
        ELSE IF m.least # Null /\ m.wo[m.least] > NumSmall + w + 1
        THEN SplitInTree(m, w, m.least)
        ELSE bf_allocate_from_tree(m, w, TRUE)

\* The first blue block from p on, and the words of the white ones before it.
RECURSIVE WhitePrefix(_, _)
WhitePrefix(m, p) ==
    IF p = Null \/ m.col[p] = "blue" THEN [blue |-> p, words |-> 0]
    ELSE LET r == WhitePrefix(m, m.nx[p]) IN [r EXCEPT !.words = @ + m.wo[p] + 1]

\* The remnants, white and not in order, leave the small lists.
bf_init_merge(m) ==
    LET pre == [i \in 1..NumSmall |-> WhitePrefix(m, m.nx[-i])]
        words[i \in 0..NumSmall] == IF i = 0 THEN 0 ELSE words[i - 1] + pre[i].words
    IN  [m EXCEPT !.merge = Null, !.cur = @ - words[NumSmall],
                  !.map = @ \ {i \in 1..NumSmall : pre[i].blue = Null},
                  !.smerge = [i \in 1..NumSmall |-> -i],
                  !.nx = [p \in DOMAIN @ |-> IF p < 0 THEN pre[-p].blue ELSE @[p]]]

bf_init(m) ==
    [m EXCEPT !.nx = [p \in DOMAIN @ |-> IF p < 0 THEN Null ELSE @[p]],
              !.smerge = [i \in 1..NumSmall |-> -i], !.map = {},
              !.tree = Nil, !.least = Null, !.cur = 0]

\* The run of white and blue blocks from cur up to limit.
RECURSIVE Run(_, _, _)
Run(m, cur, limit) ==
    LET n == IF m.col[cur] = "white" THEN Finalise([m EXCEPT !.cur = @ + m.wo[cur] + 1], cur)
             ELSE bf_remove(m, cur)
        next == Next_in_mem(m, cur)
    IN  IF next >= limit \/ m.col[next] = "black" THEN [m |-> n, end |-> next]
        ELSE Run(n, next, limit)

\* The words start..end-1 become blue blocks of at most Max words.
RECURSIVE Pieces(_, _, _)
Pieces(m, start, end) ==
    LET w == IF end - start - 1 > Max THEN Max ELSE end - start - 1
        n == [m EXCEPT !.wo[start] = w, !.cus[start] = FALSE]
    IN  IF w = 0 THEN [n EXCEPT !.col[start] = "white", !.cur = @ - 1]
        ELSE LET b == bf_insert_sweep([n EXCEPT !.col[start] = "blue"], start)
             IN  IF start + w + 1 = end THEN b ELSE Pieces(b, start + w + 1, end)

\* Mutant: the run does not take in the free block before it.
bf_merge_block_alone(m, a, limit) ==
    LET r == Run(m, a, limit) IN [next |-> r.end, m |-> Pieces(r.m, a, r.end)]

bf_merge_block(m, a, limit) ==
    LET back == m.merge # Null /\ Next_in_mem(m, m.merge) = a /\ m.col[m.merge] = "blue"
        r == Run(IF back THEN bf_remove(m, m.merge) ELSE m, a, limit)
    IN  [next |-> r.end, m |-> Pieces(r.m, IF back THEN m.merge ELSE a, r.end)]

\* The chained new blocks from f on.
RECURSIVE bf_add_blocks(_, _)
bf_add_blocks(m, f) ==
    LET n == IF m.wo[f] > NumSmall THEN bf_insert_block([m EXCEPT !.cur = @ + m.wo[f] + 1], f)
             ELSE bf_insert_remnant_small([m EXCEPT !.col[f] = "white", !.cus[f] = FALSE], f)
    IN  IF m.nx[f] = Null THEN n ELSE bf_add_blocks(n, m.nx[f])

\* The blocks of a tree, in the order of its nodes.
RECURSIVE TreeLists(_)
TreeLists(t) == IF t = Nil THEN <<>> ELSE TreeLists(t.l) \o <<t.n>> \o TreeLists(t.r)
=============================================================================
