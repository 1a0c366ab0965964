------------------------------ MODULE FreeList ------------------------------
(***************************************************************************)
(* Allocation in the major heap and the sweep that refills the free list,  *)
(* under one of the three policies of freelist.c.  The mutator's           *)
(* allocations come between any two steps of the sweep.  The block store   *)
(* of module BlockStore is what is promised.                               *)
(***************************************************************************)
EXTENDS NextFit, FirstFit, BestFit

CONSTANTS
    Chunks,      \* what malloc can give: a sequence of <<first, last>> words
    Sizes,       \* the sizes of the blocks asked for
    CustomSizes, \* the sizes of custom blocks
    MaxHeld,     \* bound on the blocks held at a time
    Cycles       \* bound on the number of sweeps

ASSUME FreeListAssumption ==
    /\ Sizes \subseteq 1..Max
    \* Chunks are whole pages and do not touch.  A page is larger than any small
    \* block, and no multiple of Max_wosize + 1 is one word short of a page.
    /\ \A i \in 1..Len(Chunks) :
           LET n == Chunks[i][2] - Chunks[i][1] + 1
           IN  n > NumSmall + 1 /\ n % (Max + 1) # 1
    /\ \A i \in 2..Len(Chunks) : Chunks[i][1] > Chunks[i - 1][2] + 1

VARIABLES
    policy,      \* caml_allocation_policy: "next", "first" or "best"
    m,           \* memory, free list and sweep (module FreeMem)
    heap,        \* the indices of the chunks of the heap
    chunk,       \* the chunk being swept
    held,        \* the blocks the program holds: <<address, size, custom>>
    nofit,       \* an allocation failed while a free block was large enough
    cycles       \* sweeps begun
vars == <<policy, m, heap, chunk, held, nofit, cycles>>

First(c) == Chunks[c][1]
Limit(c) == Chunks[c][2] + 1

caml_fl_allocate(n, w) ==
    CASE policy = "next" -> nf_allocate(n, w)
      [] policy = "first" -> ff_allocate(n, w)
      [] policy = "best" -> bf_allocate(n, w)

caml_fl_init_merge(n) ==
    CASE policy = "next" -> nf_init_merge(n)
      [] policy = "first" -> ff_init_merge(n)
      [] policy = "best" -> bf_init_merge(n)

caml_fl_init(n) ==
    CASE policy = "next" -> nf_init(n)
      [] policy = "first" -> ff_init(n)
      [] policy = "best" -> bf_init(n)

caml_fl_merge_block(n, a, limit) ==
    CASE policy = "next" -> nf_merge_block(n, a)
      [] policy = "first" -> ff_merge_block(n, a)
      [] policy = "best" -> bf_merge_block(n, a, limit)

caml_fl_add_blocks(n, f, l) ==
    CASE policy = "next" -> nf_add_blocks(n, f, l)
      [] policy = "first" -> ff_add_blocks(n, f, l)
      [] policy = "best" -> bf_add_blocks(n, f)

\* The blocks that a range of words is cut into: <<address, wosize>>.
RECURSIVE Cuts(_, _)
Cuts(from, limit) ==
    IF from >= limit THEN <<>>
    ELSE LET w == IF limit - from - 1 > Max THEN Max ELSE limit - from - 1
         IN  <<<<from, w>>>> \o Cuts(from + w + 1, limit)

\* Blue blocks chained by their first field, without the free list knowing.
Chained(n, cuts) ==
    LET at == {cuts[i][1] : i \in 1..Len(cuts)}
        idx(a) == CHOOSE i \in 1..Len(cuts) : cuts[i][1] = a
    IN  [n EXCEPT !.wo = [a \in DOMAIN @ |-> IF a \in at THEN cuts[idx(a)][2] ELSE @[a]],
                  !.col = [a \in DOMAIN @ |-> IF a \in at THEN "blue" ELSE @[a]],
                  !.nx = [a \in DOMAIN @ |->
                      IF a \notin at THEN @[a]
                      ELSE IF idx(a) = Len(cuts) THEN Null ELSE cuts[idx(a) + 1][1]]]

\* caml_make_free_blocks with do_merge.
RECURSIVE caml_make_free_blocks(_, _)
caml_make_free_blocks(n, cuts) ==
    IF cuts = <<>> THEN n
    ELSE LET a == cuts[1][1]
             w == cuts[1][2]
             small == policy = "best" /\ w > NumSmall
             b == [n EXCEPT !.wo[a] = w, !.col[a] = IF small THEN "blue" ELSE "white"]
         IN  caml_make_free_blocks(
                 IF policy = "best" THEN bf_insert_remnant(b, a)
                 ELSE caml_fl_merge_block(b, a, Null).m, Tail(cuts))

NoMemory ==
    [wo |-> [a \in 0..Words |-> 0], col |-> [a \in 0..Words |-> "white"],
     cus |-> [a \in 0..Words |-> FALSE], nx |-> [p \in (-NumSmall)..Words |-> Null],
     cur |-> 0, merge |-> Fl_head, frag |-> Null, sweeping |-> FALSE, sweep |-> 0,
     prev |-> Fl_head, last |-> Null, flp |-> <<>>, beyond |-> Null,
     smerge |-> [i \in 1..NumSmall |-> -i], map |-> {}, tree |-> Nil, least |-> Null,
     doomed |-> {}, stray |-> FALSE]

\* caml_init_major_heap, on any of the chunks.
Init ==
    \E c \in 1..Len(Chunks) :
        /\ policy \in {"next", "first", "best"}
        /\ m = caml_make_free_blocks(caml_fl_init_merge(caml_fl_init(NoMemory)), Cuts(First(c), Limit(c)))
        /\ heap = {c} /\ chunk = c
        /\ held = {} /\ nofit = FALSE /\ cycles = 0

-----------------------------------------------------------------------------
\* The free blocks of the policy's data structure.
FreeBlocks(n) ==
    LET small == {<<i, k>> \in (1..NumSmall) \X (1..Words) : k <= Len(Linked(n, -i))}
        lists == TreeLists(n.tree)
    IN  IF policy = "best"
        THEN {Linked(n, -p[1])[p[2]] : p \in small}
             \union UNION {{lists[i][k] : k \in 1..Len(lists[i])} : i \in 1..Len(lists)}
        ELSE {Linked(n, Fl_head)[k] : k \in 1..Len(Linked(n, Fl_head))}

\* The header of the block that was allocated: black ahead of the sweep.
Header(n, a, w, cus) ==
    [n EXCEPT !.wo[a] = w, !.cus[a] = cus,
              !.col[a] = IF n.sweeping /\ a >= n.sweep THEN "black" ELSE "white"]

\* caml_alloc_shr: from the free list; else the heap is expanded by a chunk from
\* malloc, and failing that Out_of_memory is raised.
caml_alloc_shr(w, cus) ==
    LET r == caml_fl_allocate(m, w)
        grown(c) == caml_fl_allocate(
            LET cuts == Cuts(First(c), Limit(c))
            IN  caml_fl_add_blocks(Chained(r.m, cuts), cuts[1][1], cuts[Len(cuts)][1]), w)
        give(s) == /\ m' = Header(s.m, s.a, w, cus)
                   /\ held' = held \union {<<s.a, w, cus>>}
    IN  /\ UNCHANGED <<chunk, cycles>>
        /\ \/ r.a # Null /\ give(r) /\ UNCHANGED <<heap, nofit>>
           \/ /\ r.a = Null
              /\ nofit' = (nofit \/ \E b \in FreeBlocks(m) : m.wo[b] >= w)
              /\ \/ \E c \in 1..Len(Chunks) \ heap :
                        /\ Cuts(First(c), Limit(c))[1][2] >= w
                        /\ heap' = heap \union {c}
                        /\ give(grown(c))
                 \/ m' = r.m /\ UNCHANGED <<heap, held>>

\* init_sweep_phase after a mark phase that found all held blocks but dead.
StartSweep(dead) ==
    LET live == held \ dead
        isLive(a) == \E b \in live : b[1] = a
        first == CHOOSE c \in heap : \A d \in heap : c <= d
        marked == [m EXCEPT
            !.col = [a \in DOMAIN @ |-> IF isLive(a) THEN "black" ELSE @[a]],
            !.doomed = @ \union {b[1] : b \in {d \in dead : d[3]}},
            !.sweeping = TRUE, !.sweep = First(first)]
    IN  /\ ~m.sweeping /\ cycles < Cycles
        /\ held' = live
        /\ m' = caml_fl_init_merge(marked)
        /\ chunk' = first
        /\ cycles' = cycles + 1
        /\ UNCHANGED <<heap, nofit>>

\* One turn of the loop of sweep_slice.
sweep_block ==
    LET a == m.sweep
        r == caml_fl_merge_block([m EXCEPT !.sweep = Next_in_mem(m, a)], a, Limit(chunk))
    IN  /\ m.sweeping /\ m.sweep < Limit(chunk)
        /\ m' = CASE m.col[a] = "white" -> [r.m EXCEPT !.sweep = r.next]
                  [] m.col[a] = "blue" -> [m EXCEPT !.sweep = Next_in_mem(m, a), !.merge = a]
                  [] m.col[a] = "black" -> [m EXCEPT !.sweep = Next_in_mem(m, a), !.col[a] = "white"]
        /\ UNCHANGED <<heap, chunk, held, nofit, cycles>>

sweep_chunk ==
    LET later == {c \in heap : c > chunk}
    IN  /\ m.sweeping /\ m.sweep >= Limit(chunk)
        /\ IF later = {}
           THEN m' = [m EXCEPT !.sweeping = FALSE] /\ UNCHANGED chunk
           ELSE /\ chunk' = CHOOSE c \in later : \A d \in later : c <= d
                /\ m' = [m EXCEPT !.sweep = First(chunk')]
        /\ UNCHANGED <<heap, held, nofit, cycles>>

Step ==
    \/ \E w \in Sizes, cus \in BOOLEAN :
          /\ cus => w \in CustomSizes
          /\ Cardinality(held) < MaxHeld
          /\ caml_alloc_shr(w, cus)
    \/ \E dead \in SUBSET held : StartSweep(dead)
    \/ sweep_block
    \/ sweep_chunk

Next == Step /\ UNCHANGED policy

Spec == Init /\ [][Next]_vars

-----------------------------------------------------------------------------
\* The headers met by walking a chunk from its first word.
RECURSIVE Walk(_, _)
Walk(a, limit) == IF a >= limit THEN {a} ELSE {a} \union Walk(Next_in_mem(m, a), limit)

Headers(c) == Walk(First(c), Limit(c)) \ {Limit(c)}
AllHeaders == UNION {Headers(c) : c \in heap}

\* The headers of every chunk lead from its first word exactly to its end, and every
\* block the program holds is met on the way, with the size and tag it was given and
\* not blue: splits, merges and fragments of freelist.c never damage a block in use.
HeapTiles ==
    /\ \A c \in heap : Limit(c) \in Walk(First(c), Limit(c))
    /\ \A b \in held : /\ b[1] \in AllHeaders
                       /\ m.wo[b[1]] = b[2] /\ m.cus[b[1]] = b[3] /\ m.col[b[1]] # "blue"

Total(n, S) ==
    LET sum[A \in SUBSET S] ==
            IF A = {} THEN 0 ELSE LET a == CHOOSE x \in A : TRUE IN n.wo[a] + 1 + sum[A \ {a}]
    IN  sum[S]

Increasing(s) == \A i \in 2..Len(s) : s[i - 1] < s[i]

\* nf_check, ff_check and bf_check hold between any two steps, and the free set is
\* exactly the blue blocks of the heap (with the white remnants of the best-fit
\* policy): no free block is lost, and none is in the set twice.
FreeSetExact ==
    LET blue == {a \in AllHeaders : m.col[a] = "blue"}
        list == Linked(m, Fl_head)
        rising == {k \in 1..Len(list) : \A j \in 1..(k - 1) : m.wo[list[j]] < m.wo[list[k]]}
        lists == TreeLists(m.tree)
        small(i) == Linked(m, -i)
        whites(i) == Cardinality({k \in 1..Len(small(i)) : m.col[small(i)[k]] = "white"})
    IN  /\ m.cur = Total(m, FreeBlocks(m))
        /\ FreeBlocks(m) \subseteq AllHeaders
        /\ blue \subseteq FreeBlocks(m)
        /\ policy # "best" =>
              /\ FreeBlocks(m) = blue /\ Increasing(list)
              /\ m.merge \in blue \union {Fl_head}
        /\ policy = "next" => m.prev \in blue \union {Fl_head}
        /\ policy = "first" =>
              /\ \A i \in 1..Len(m.flp) :
                    \E k \in rising : /\ Cardinality({j \in rising : j <= k}) = i
                                      /\ Flp(m, i) = list[k]
              /\ \A k \in rising : \/ Cardinality({j \in rising : j <= k}) <= Len(m.flp)
                                   \/ m.beyond = Null
                                   \/ list[k] >= m.nx[m.beyond]
        /\ policy = "best" =>
              /\ m.map = {i \in 1..NumSmall : small(i) # <<>>}
              /\ \A i \in 1..NumSmall :
                    /\ \A k \in 1..Len(small(i)) :
                          /\ m.wo[small(i)[k]] = i
                          /\ m.col[small(i)[k]] = (IF k <= whites(i) THEN "white" ELSE "blue")
                    /\ Increasing(SubSeq(small(i), whites(i) + 1, Len(small(i))))
                    /\ m.sweeping => m.smerge[i] \in {-i} \union {small(i)[k] : k \in 1..Len(small(i))}
              /\ \A i \in 1..Len(lists) :
                    \A k \in 1..Len(lists[i]) :
                        /\ m.wo[lists[i][k]] = m.wo[lists[i][1]]
                        /\ m.wo[lists[i][k]] > NumSmall /\ m.col[lists[i][k]] = "blue"
              /\ \A i \in 2..Len(lists) : m.wo[lists[i - 1][1]] < m.wo[lists[i][1]]
              /\ m.least # Null => lists[1] = <<m.least>>

\* Allocation fails only when no free block is large enough (the table of the
\* first-fit policy, the bitmap and the tree of best-fit hide none).
NoFitOnlyWhenNone == ~nofit

\* When no sweep of the best-fit policy is going on, no two free blocks that could be one
\* are neighbours.
Coalesced ==
    (policy = "best" /\ ~m.sweeping) =>
        \A a, b \in AllHeaders :
            (m.col[a] = "blue" /\ m.col[b] = "blue" /\ Next_in_mem(m, a) = b) =>
                m.wo[a] + m.wo[b] + 1 > Max

\* The sweep calls the finaliser of each dead custom block, once, and of no other.
FinalisedOnce == ~m.stray /\ (~m.sweeping => m.doomed = {})

\* Between any two steps of the sweep and of the program, headers, free set and
\* finalisers agree: the three invariants above in one.
HeapConsistent == HeapTiles /\ FreeSetExact /\ FinalisedOnce

Store == INSTANCE BlockStore WITH
    Addresses <- UNION {First(c)..(Limit(c) - 1) : c \in 1..Len(Chunks)},
    blocks <- {<<b[1], b[2]>> : b \in held}

\* The allocator and the sweep implement the block store: what is handed out never
\* overlaps what is in use.
StoreSpec == Store!Spec
=============================================================================
