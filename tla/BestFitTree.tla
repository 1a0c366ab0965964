---------------------------- MODULE BestFitTree ----------------------------
(***************************************************************************)
(* The splay tree of the best-fit policy on its own, with enough blocks    *)
(* for every rotation: free blocks of given sizes come and go, whole.      *)
(***************************************************************************)
EXTENDS BestFit

CONSTANTS Size   \* the size of the block at each of the addresses 1..Words, above NumSmall

VARIABLES m,     \* the fields of FreeMem that the tree uses
          free   \* the blocks that were put in and not taken out
vars == <<m, free>>

Init ==
    /\ m = [wo |-> Size, tree |-> Nil, least |-> Null, cur |-> 0]
    /\ free = {}

Insert(v) ==
    /\ v \notin free
    /\ m' = bf_insert_block([m EXCEPT !.cur = @ + m.wo[v] + 1], v)
    /\ free' = free \union {v}

\* The sweep takes a block in.
Remove(v) ==
    /\ v \in free
    /\ m' = bf_remove([m EXCEPT !.cur = @ - (m.wo[v] + 1)], v)
    /\ free' = free \ {v}

\* An allocation of exactly w words.
Allocate(w) ==
    LET r == bf_allocate_from_tree(m, w, FALSE)
    IN  /\ \E v \in free : Size[v] = w
        /\ m' = r.m
        /\ free' = free \ {r.a}

Next ==
    \/ \E v \in 1..Words : Insert(v) \/ Remove(v)
    \/ \E w \in (NumSmall + 1)..Max : Allocate(w)

Spec == Init /\ [][Next]_vars

-----------------------------------------------------------------------------
Lists == TreeLists(m.tree)

\* bf_check_subtree: whatever was inserted, removed and splayed, the nodes are in the
\* order of their sizes, each list has the blocks of its size, and the tree has all
\* the free blocks and no other.
TreeExact ==
    /\ \A i \in 2..Len(Lists) : Size[Lists[i - 1][1]] < Size[Lists[i][1]]
    /\ \A i \in 1..Len(Lists) : \A k \in 1..Len(Lists[i]) : Size[Lists[i][k]] = Size[Lists[i][1]]
    /\ UNION {{Lists[i][k] : k \in 1..Len(Lists[i])} : i \in 1..Len(Lists)} = free

\* Splaying at a size brings the node of that size to the root, or the least node
\* larger or the greatest node smaller (the comment of bf_splay).
SplayToRoot ==
    m.tree # Nil => \A sz \in NumSmall..(Max + 1) :
        LET root == bf_large_wosize(m, bf_splay(m, sz).tree)
            sizes == {Size[v] : v \in free}
        IN  /\ sz \in sizes => root = sz
            /\ ~\E s \in sizes : (root < s /\ s < sz) \/ (sz < s /\ s < root)

\* The best fit is the least node large enough, and the bound is below it and no less
\* than any smaller node, so that a larger remnant may stay in its place.
BestIsBest ==
    \A w \in 1..Max :
        LET s == bf_search_best(m, m.tree, w, Nil, NumSmall)
            fits == {Size[v] : v \in {u \in free : Size[u] >= w}}
        IN  IF fits = {} THEN s.best = Nil
            ELSE LET b == bf_large_wosize(m, s.best)
                 IN  /\ b \in fits /\ \A f \in fits : b <= f
                     /\ \A v \in free : Size[v] < b => Size[v] <= s.bound
                     /\ s.bound <= b

\* The three properties above, of the tree the best-fit policy keeps its large
\* blocks in.
TreeSound == TreeExact /\ SplayToRoot /\ BestIsBest
=============================================================================
