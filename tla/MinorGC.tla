------------------------------- MODULE MinorGC ------------------------------
(* The minor collection of the runtime: what survives is copied to the major *)
(* heap, found from the stack, the roots of C, the remembered fields of old  *)
(* blocks and the finalisers; ephemerons, finalisers called last and custom  *)
(* blocks learn what did not survive.  The program builds and changes blocks *)
(* between collections; the major heap only grows.                           *)
EXTENDS Integers, Sequences, FiniteSets, SequencesExt

CONSTANTS NYoung, NOld, Slots, CRoots,
          Programs      \* [ops, young, old, ephes, table]: operations, and bounds of the heaps,
                        \* the ephemerons and the tables

VARIABLES
    prog,           \* the operations that this program uses, and its bounds
    mem,            \* address -> [tag, fld, id, fwd]: fwd when Hd_val is 0
    used,           \* [young, old]: number of blocks allocated so far
    root,           \* the OCaml stack
    croot, reg,     \* variables of C; how each is registered: "no", "plain", "gen"
    lists,          \* [young, old]: caml_global_roots_young and _old
    tables,         \* [ref, ephe, custom] of Caml_state
    fin,            \* [first, last]: finalisable tables, [tab, old]
    ready,          \* the to_do list: chunks of values
    held,           \* ids of the custom blocks that are not finalised yet
    pc,             \* "run", or the phase of the collection
    work, job,      \* locations still to be scanned; the call of caml_oldify_one
    todo,           \* oldify_todo_list
    k, redo,        \* position in the table of ephemerons
    expect          \* what the collection has to leave behind (history variable)
gc == <<pc, work, job, todo, k, redo, expect>>
vars == <<prog, mem, used, root, croot, reg, lists, tables, fin, ready, held, gc>>

Young == 1..NYoung
Old == NYoung + 1..NYoung + NOld
Infix == 100                  \* offset of the second entry point of a closure
None == -1                    \* caml_ephe_none
Base(v) == IF v > Infix THEN v - Infix ELSE v
Is_block(v) == v > 0
Is_young(v) == Base(v) \in Young
Fwd(v) == v \in Young /\ mem[v].fwd
Free == [tag |-> "free", fld |-> <<0>>, id |-> 0, fwd |-> FALSE]
Block(tag, fld, id) == [tag |-> tag, fld |-> fld, id |-> id, fwd |-> FALSE]
NoJob == [v |-> 0, p |-> <<>>, off |-> 0]
At(tag) == {b \in Young \union Old : mem[b].tag = tag}
InUse == (Young \union Old) \ At("free")
Chunk(ids) == IF ids = <<>> THEN <<>> ELSE <<ids>>
NewId == CHOOSE i \in 1..NYoung + NOld : \A b \in InUse : mem[b].id # i

Init ==
    /\ prog \in Programs
    /\ mem = [b \in Young \union Old |-> Free] /\ used = [young |-> 0, old |-> 0]
    /\ root = [s \in Slots |-> 0]
    /\ croot = [r \in CRoots |-> 0] /\ reg = [r \in CRoots |-> "no"]
    /\ lists = [young |-> {}, old |-> {}]
    /\ tables = [ref |-> <<>>, ephe |-> <<>>, custom |-> <<>>]
    /\ fin = [q \in {"first", "last"} |-> [tab |-> <<>>, old |-> 0]]
    /\ ready = <<>> /\ held = {}
    /\ pc = "run" /\ work = <<>> /\ job = NoJob /\ todo = 0 /\ k = 1 /\ redo = FALSE
    /\ expect = <<>>

Room == used.old + used.young < prog.old
Mutator(op) == pc = "run" /\ op \in prog.ops
Value == {0} \union {root[s] : s \in Slots}
Set(s, v) == root' = [root EXCEPT ![s] = v]

-----------------------------------------------------------------------------
\* Allocation in the minor heap, which is collected when it is full.
caml_alloc_small(s, tag, fld) ==
    /\ used.young < prog.young /\ Room
    /\ mem' = [mem EXCEPT ![used.young + 1] = Block(tag, fld, NewId)]
    /\ used' = [used EXCEPT !.young = @ + 1]
    /\ Set(s, used.young + 1)

New ==
    /\ pc = "run"
    /\ \E s \in Slots, x, y \in Value :
         \/ "one" \in prog.ops /\ caml_alloc_small(s, "one", <<x>>)
         \/ "two" \in prog.ops /\ caml_alloc_small(s, "two", <<x, y>>)
         \/ "closure" \in prog.ops /\ y = 0 /\ caml_alloc_small(s, "closure", <<0, x>>)
         \/ "forward" \in prog.ops /\ caml_alloc_small(s, "forward", <<x>>)
         \/ "lazy" \in prog.ops /\ caml_alloc_small(s, "lazy", <<x>>)
         \/ "double" \in prog.ops /\ caml_alloc_small(s, "double", <<0>>)
    /\ UNCHANGED <<prog, croot, reg, lists, tables, fin, ready, held, gc>>

\* A small custom block with a finaliser is noted in the table of custom blocks.
alloc_custom_gen ==
    /\ Mutator("custom")
    /\ \E s \in Slots : caml_alloc_small(s, "custom", <<0>>)
    /\ held' = held \union {NewId}
    /\ tables' = [tables EXCEPT !.custom = Append(@, used.young + 1)]
    /\ UNCHANGED <<prog, croot, reg, lists, fin, ready, gc>>

Remembered(b, i, ref) == Append(ref, <<b, i>>)
caml_initialize(b, i, v) ==
    IF Is_young(v) THEN Remembered(b, i, tables.ref) ELSE tables.ref

\* A block of the major heap whose only field is initialised.
caml_alloc_shr ==
    /\ Mutator("shr") /\ Room /\ Len(tables.ref) < prog.table
    /\ \E s \in Slots, x \in Value :
         LET b == NYoung + used.old + 1 IN
         /\ mem' = [mem EXCEPT ![b] = Block("one", <<x>>, NewId)]
         /\ tables' = [tables EXCEPT !.ref = caml_initialize(b, 1, x)]
         /\ Set(s, b)
    /\ used' = [used EXCEPT !.old = @ + 1]
    /\ UNCHANGED <<prog, croot, reg, lists, fin, ready, held, gc>>

Drop ==
    /\ Mutator("drop")
    /\ \E s \in Slots : Set(s, 0)
    /\ UNCHANGED <<prog, mem, used, croot, reg, lists, tables, fin, ready, held, gc>>

Load ==
    /\ Mutator("load")
    /\ \E s, t \in Slots : \E v \in {root[t]} :
         \/ v \in Young \union Old /\ mem[v].tag \in {"one", "two", "forward"}
            /\ \E i \in DOMAIN mem[v].fld : Set(s, mem[v].fld[i])
         \/ "closure" \in prog.ops /\ v \in At("closure") /\ Set(s, v + Infix)
    /\ UNCHANGED <<prog, mem, used, croot, reg, lists, tables, fin, ready, held, gc>>

caml_modify_forgetful(b, i, v) ==
    IF Is_young(b) \/ Is_block(mem[b].fld[i]) \/ ~Is_young(v) THEN tables.ref
    ELSE Remembered(b, i, tables.ref)
\* The write barrier.
caml_modify_ref(b, i, v) ==
    IF Is_young(b) \/ Is_young(mem[b].fld[i]) \/ ~Is_young(v) THEN tables.ref
    ELSE Remembered(b, i, tables.ref)
caml_modify ==
    /\ Mutator("modify") /\ Len(tables.ref) < prog.table
    /\ \E b \in {root[s] : s \in Slots} \cap (Young \union Old), x \in Value :
         /\ mem[b].tag \in {"one", "two", "closure"}
         /\ LET i == Len(mem[b].fld) IN
            /\ tables' = [tables EXCEPT !.ref = caml_modify_ref(b, i, x)]
            /\ mem' = [mem EXCEPT ![b].fld[i] = x]
    /\ UNCHANGED <<prog, used, root, croot, reg, lists, fin, ready, held, gc>>

-----------------------------------------------------------------------------
\* Ephemerons are always in the major heap: field 1 is the data, 2 the key.  The
\* program refers to them from its global data.
caml_ephemeron_create ==
    /\ Mutator("ephe") /\ Room /\ Cardinality(At("ephe")) < prog.ephes
    /\ mem' = [mem EXCEPT ![NYoung + used.old + 1] = Block("ephe", <<None, None>>, NewId)]
    /\ used' = [used EXCEPT !.old = @ + 1]
    /\ UNCHANGED <<prog, root, croot, reg, lists, tables, fin, ready, held, gc>>

do_set(e, i, v) ==
    /\ tables' = IF Is_young(v) /\ ~Is_young(mem[e].fld[i])
                 THEN [tables EXCEPT !.ephe = Append(@, <<e, i>>)] ELSE tables
    /\ mem' = [mem EXCEPT ![e].fld[i] = v]

\* The keys are no infix pointers, which the code lets a program store: it then erases
\* them at the next collection although the closure lives.
EpheSet ==
    /\ Mutator("ephe") /\ Len(tables.ephe) < prog.table
    /\ \E e \in At("ephe"), i \in {1, 2}, v \in {None} \union Value :
         /\ v = None \/ mem[e].fld[i] # None => "reset" \in prog.ops
         /\ i = 2 => v # 0 /\ v < Infix
         /\ do_set(e, i, v)
    /\ UNCHANGED <<prog, used, root, croot, reg, lists, fin, ready, held, gc>>

EpheGet ==
    /\ Mutator("get")
    /\ \E s \in Slots, e \in At("ephe"), i \in {1, 2} :
         mem[e].fld[i] # None /\ Set(s, mem[e].fld[i])
    /\ UNCHANGED <<prog, mem, used, croot, reg, lists, tables, fin, ready, held, gc>>

-----------------------------------------------------------------------------
\* Finalisers: the function and, for "first", the value are roots.
generic_final_register ==
    /\ Mutator("final")
    /\ \E q \in {"first", "last"}, s, t \in Slots :
         /\ Is_block(root[s]) /\ mem[Base(root[s])].tag \notin {"double", "lazy", "forward"}
         /\ Is_block(root[t]) /\ Len(fin[q].tab) + Len(ready) < prog.table
         /\ fin' = [fin EXCEPT ![q].tab =
                      Append(@, [val |-> Base(root[s]), off |-> root[s] - Base(root[s]),
                                 fun |-> root[t], id |-> mem[Base(root[s])].id])]
    /\ UNCHANGED <<prog, mem, used, root, croot, reg, lists, tables, ready, held, gc>>

caml_final_do_calls ==
    /\ Mutator("final") /\ ready # <<>>
    /\ ready' = IF Len(ready[1]) = 1 THEN Tail(ready) ELSE [ready EXCEPT ![1] = SubSeq(@, 1, Len(@) - 1)]
    /\ UNCHANGED <<prog, mem, used, root, croot, reg, lists, tables, fin, held, gc>>

-----------------------------------------------------------------------------
\* Global roots of C.
classify_gc_root(v) ==
    IF ~Is_block(v) THEN "untracked" ELSE IF Is_young(v) THEN "young" ELSE "old"

caml_register_global_root(r, v) ==
    /\ reg[r] = "no" /\ reg' = [reg EXCEPT ![r] = "plain"] /\ UNCHANGED lists
caml_register_generational_global_root(r, v) ==
    /\ reg[r] = "no" /\ reg' = [reg EXCEPT ![r] = "gen"]
    /\ lists' = [q \in {"young", "old"} |->
                   IF classify_gc_root(v) = q THEN lists[q] \union {r} ELSE lists[q]]
\* By the value that the variable has.
WithoutRoot(r) ==
    CASE classify_gc_root(croot[r]) = "old" -> [young |-> lists.young \ {r}, old |-> lists.old \ {r}]
      [] classify_gc_root(croot[r]) = "young" -> [lists EXCEPT !.young = @ \ {r}]
      [] OTHER -> lists
caml_remove_global_root(r) ==
    /\ reg[r] # "no" /\ reg' = [reg EXCEPT ![r] = "no"]
    /\ lists' = IF reg[r] = "gen" THEN WithoutRoot(r) ELSE lists
ModifiedLists_eager(r, v) ==
    IF classify_gc_root(v) = "old" /\ classify_gc_root(croot[r]) # "old"
    THEN [lists EXCEPT !.old = @ \union {r}]
    ELSE IF classify_gc_root(v) = "untracked" THEN WithoutRoot(r)
    ELSE [lists EXCEPT !.young = IF classify_gc_root(croot[r]) = "untracked"
                                 THEN @ \union {r} ELSE @]
ModifiedLists(r, v) ==
    LET c == classify_gc_root(croot[r]) IN
    CASE classify_gc_root(v) = "young" ->
           [young |-> IF c # "young" THEN lists.young \union {r} ELSE lists.young,
            old   |-> IF c = "old" THEN lists.old \ {r} ELSE lists.old]
      [] classify_gc_root(v) = "old" ->
           IF c = "untracked" THEN [lists EXCEPT !.old = @ \union {r}] ELSE lists
      [] OTHER -> WithoutRoot(r)
caml_modify_generational_global_root(r, v) ==
    reg[r] = "gen" /\ lists' = ModifiedLists(r, v) /\ UNCHANGED reg

GlobalRoot ==
    /\ Mutator("croot")
    /\ \E r \in CRoots, v \in Value :
         \/ caml_register_global_root(r, v) /\ croot' = [croot EXCEPT ![r] = v]
         \/ caml_register_generational_global_root(r, v) /\ croot' = [croot EXCEPT ![r] = v]
         \/ reg[r] = "plain" /\ croot' = [croot EXCEPT ![r] = v] /\ UNCHANGED <<reg, lists>>
         \/ caml_modify_generational_global_root(r, v) /\ croot' = [croot EXCEPT ![r] = v]
         \/ v = 0 /\ caml_remove_global_root(r) /\ croot' = [croot EXCEPT ![r] = 0]
    /\ UNCHANGED <<prog, mem, used, root, tables, fin, ready, held, gc>>

-----------------------------------------------------------------------------
(* What a collection has to leave behind, from the reachability of blocks:   *)
(* the blocks of the minor heap that survive are the least set that holds    *)
(* the targets of roots and of old blocks, is closed under fields, and holds *)
(* the data of an ephemeron when it holds all the young keys.                *)
YoungOf(vs) == {Base(v) : v \in vs} \intersect Young
Fields(b) == Range(mem[b].fld)
Roots == {root[s] : s \in Slots} \union {croot[r] : r \in {c \in CRoots : reg[c] # "no"}}
         \union {e.val : e \in Range(fin["first"].tab)}
         \union {e.fun : e \in Range(fin["first"].tab) \union Range(fin["last"].tab)}
         \union UNION {Fields(b) : b \in (Old \intersect InUse) \ At("ephe")}
Keeps(S) ==
    /\ YoungOf(Roots) \subseteq S
    /\ \A b \in S : YoungOf(Fields(b)) \subseteq S
    /\ \A e \in At("ephe") : YoungOf({mem[e].fld[2]}) \subseteq S => YoungOf({mem[e].fld[1]}) \subseteq S
Survivors == {b \in 1..used.young : \A S \in SUBSET (1..used.young) : Keeps(S) => b \in S}

\* What the program sees of a value: the block, which entry point of it, and the
\* number of times it has to be forced, where it could be forced once too often
\* or a float could be met where none is expected.
RECURSIVE Deref(_, _)
Deref(v, n) == IF v \in At("forward") THEN Deref(mem[v].fld[1], n + 1)
               ELSE <<IF Is_block(v) THEN mem[Base(v)].id ELSE v, v > Infix,
                      IF v \in At("lazy") \union At("double") THEN n ELSE 0>>
Name(v) == Deref(v, 0)
\* The heap, the roots and the tables as the program sees them if the young
\* blocks outside S are gone.
Picture(S) ==
    LET dead(v) == Base(v) \in Young \ S
        live == (S \union (Old \intersect InUse)) \ At("forward")
        kept(e) == IF dead(mem[e].fld[2]) \/ dead(mem[e].fld[1]) THEN None ELSE mem[e].fld[1]
        last == SelectSeq(fin["last"].tab, LAMBDA e : dead(e.val))
    IN [graph |-> {<<mem[b].id, mem[b].tag, [i \in DOMAIN mem[b].fld |-> Name(mem[b].fld[i])]>> :
                      b \in live \ At("ephe")},
        ephes |-> {<<mem[e].id, Name(kept(e)),
                     Name(IF dead(mem[e].fld[2]) THEN None ELSE mem[e].fld[2])>> : e \in At("ephe")},
        roots |-> [s \in Slots |-> Name(root[s])],
        croots |-> [r \in CRoots |-> IF reg[r] = "no" THEN Name(0) ELSE Name(croot[r])],
        first |-> [i \in DOMAIN fin["first"].tab |->
                     <<fin["first"].tab[i].id, Name(fin["first"].tab[i].val), Name(fin["first"].tab[i].fun)>>],
        last |-> LET l == SelectSeq(fin["last"].tab, LAMBDA e : ~dead(e.val))
                 IN [i \in DOMAIN l |-> <<l[i].id, Name(l[i].val), Name(l[i].fun)>>],
        ready |-> ready \o Chunk([i \in DOMAIN last |-> last[i].id]),
        held |-> held \ {mem[b].id : b \in {c \in At("custom") : dead(c)}}]

-----------------------------------------------------------------------------
\* The collection.  The stack, the roots of C, the finalisers of this minor
\* heap, then the remembered fields; the lists of generational roots change.
FinalRoots ==
    LET locs(q, f) == [i \in 1..Len(fin[q].tab) - fin[q].old |-> <<q, fin[q].old + i, f>>]
    IN locs("first", "fun") \o locs("first", "val") \o locs("last", "fun")
caml_scan_global_young_roots ==
    {r \in CRoots : reg[r] = "plain"} \union lists.young
caml_oldify_local_roots ==
    SetToSeq({<<"root", s, 0>> : s \in Slots})
    \o SetToSeq({<<"croot", r, 0>> : r \in caml_scan_global_young_roots})
    \o FinalRoots
caml_empty_minor_heap ==
    /\ pc = "run" /\ used.young > 0
    /\ pc' = "roots" /\ expect' = Picture(Survivors)
    /\ work' = caml_oldify_local_roots
               \o [i \in DOMAIN tables.ref |-> <<"fld", tables.ref[i][1], tables.ref[i][2]>>]
    /\ lists' = [young |-> {}, old |-> lists.old \union lists.young]
    /\ UNCHANGED <<prog, mem, used, root, croot, reg, tables, fin, ready, held, job, todo, k, redo>>

ValueAt(p) ==
    CASE p[1] = "root" -> root[p[2]]
      [] p[1] = "croot" -> croot[p[2]]
      [] p[1] = "fld" -> mem[p[2]].fld[p[3]]
      [] OTHER -> fin[p[1]].tab[p[2]][p[3]]
\* *p = v in the heap m.
Put(p, v, m) ==
    /\ mem' = IF p[1] = "fld" THEN [m EXCEPT ![p[2]].fld[p[3]] = v] ELSE m
    /\ root' = IF p[1] = "root" THEN [root EXCEPT ![p[2]] = v] ELSE root
    /\ croot' = IF p[1] = "croot" THEN [croot EXCEPT ![p[2]] = v] ELSE croot
    /\ fin' = IF p[1] \in {"first", "last"} THEN [fin EXCEPT ![p[1]].tab[p[2]][p[3]] = v] ELSE fin

Scan ==
    /\ job = NoJob /\ work # <<>>
    /\ job' = [v |-> ValueAt(work[1]), p |-> work[1], off |-> 0]
    /\ work' = Tail(work)
    /\ UNCHANGED <<prog, mem, used, root, croot, reg, lists, tables, fin, ready, held, pc, todo, k,
                   redo, expect>>

\* The copy of block v with these fields, and v pointing to it.
Copied(v, fld) ==
    LET new == NYoung + used.old + 1 IN
    [mem EXCEPT ![new] = Block(mem[v].tag, fld, mem[v].id),
                ![v].fwd = TRUE, ![v].fld[1] = new]
\* The pointer to the copy is stored, and the field of the copy is next.
Promote(v, fld, next) ==
    LET new == NYoung + used.old + 1 IN
    /\ Put(job.p, new + job.off, Copied(v, fld))
    /\ used' = [used EXCEPT !.old = @ + 1]
    /\ job' = IF next THEN [v |-> mem[v].fld[1], p |-> <<"fld", new, 1>>, off |-> 0] ELSE NoJob

ShortCircuit_always(f) == TRUE
\* A value that is forced is replaced by what it stands for, unless that could
\* be taken for a value still to be forced or for an unboxed float.
ShortCircuit(f) ==
    ~(Is_block(f) /\ f < Infix
      /\ mem[IF Fwd(f) THEN mem[f].fld[1] ELSE f].tag \in {"forward", "lazy", "double"})

caml_oldify_one ==
    /\ job # NoJob
    /\ LET v == job.v
           tag == mem[v].tag
       IN
       \/ /\ ~Is_young(v) /\ Put(job.p, v + job.off, mem)
          /\ job' = NoJob /\ UNCHANGED <<used, todo>>
       \/ /\ Is_young(v) /\ v > Infix
          /\ job' = [v |-> v - Infix, p |-> job.p, off |-> Infix]
          /\ UNCHANGED <<mem, root, croot, fin, used, todo>>
       \/ /\ Fwd(v) /\ Put(job.p, mem[v].fld[1] + job.off, mem)
          /\ job' = NoJob /\ UNCHANGED <<used, todo>>
       \/ /\ v \in Young /\ ~Fwd(v)
          /\ \/ tag \in {"one", "lazy"} /\ Promote(v, <<0>>, TRUE) /\ UNCHANGED todo
             \/ tag \in {"two", "closure"} /\ Promote(v, <<mem[v].fld[1], todo>>, FALSE) /\ todo' = v
             \/ tag \in {"double", "custom"} /\ Promote(v, mem[v].fld, FALSE) /\ UNCHANGED todo
             \/ /\ tag = "forward" /\ ~ShortCircuit(mem[v].fld[1])
                /\ Promote(v, <<0>>, TRUE) /\ UNCHANGED todo
             \/ /\ tag = "forward" /\ ShortCircuit(mem[v].fld[1])
                /\ job' = [job EXCEPT !.v = mem[v].fld[1]]
                /\ UNCHANGED <<mem, root, croot, fin, used, todo>>
    /\ UNCHANGED <<prog, reg, lists, tables, ready, held, pc, work, k, redo, expect>>

\* The blocks whose fields were left for later.
caml_oldify_mopup ==
    /\ pc \in {"roots", "ephe"} /\ job = NoJob /\ work = <<>>
    /\ pc = "ephe" => k > Len(tables.ephe) /\ redo
    /\ \/ /\ todo # 0
          /\ LET new == mem[todo].fld[1] IN
             /\ mem' = [mem EXCEPT ![new].fld[2] = mem[todo].fld[2]]
             /\ todo' = mem[new].fld[2]
             /\ work' = <<<<"fld", new, 1>>, <<"fld", new, 2>>>>
          /\ UNCHANGED <<pc, k, redo>>
       \/ /\ todo = 0 /\ pc' = "ephe" /\ k' = 1 /\ redo' = FALSE /\ UNCHANGED <<mem, todo, work>>
    /\ UNCHANGED <<prog, used, root, croot, reg, lists, tables, fin, ready, held, job, expect>>

ephe_check_alive_data(e) == Is_young(mem[e].fld[2]) => Fwd(mem[e].fld[2])
Entry == tables.ephe[k]
EpheData ==
    /\ pc = "ephe" /\ job = NoJob /\ k <= Len(tables.ephe)
    /\ LET e == Entry[1]
           d == mem[e].fld[1]
       IN
       \/ (Entry[2] # 1 \/ ~Is_young(d)) /\ UNCHANGED <<mem, job, redo>>
       \/ /\ Entry[2] = 1 /\ Fwd(d)
          /\ mem' = [mem EXCEPT ![e].fld[1] = mem[d].fld[1]] /\ UNCHANGED <<job, redo>>
       \/ /\ Entry[2] = 1 /\ Is_young(d) /\ ~Fwd(d)
          /\ IF ephe_check_alive_data(e)
             THEN job' = [v |-> d, p |-> <<"fld", e, 1>>, off |-> 0] /\ redo' = TRUE
             ELSE UNCHANGED <<job, redo>>
          /\ UNCHANGED mem
    /\ k' = k + 1
    /\ UNCHANGED <<prog, used, root, croot, reg, lists, tables, fin, ready, held, pc, work, todo, expect>>

\* Then the keys: one that was not copied is dead, and so are the data.
EpheKeys ==
    /\ pc = "ephe" /\ job = NoJob /\ work = <<>> /\ k > Len(tables.ephe) /\ ~redo
    /\ pc' = "keys" /\ k' = 1
    /\ UNCHANGED <<prog, mem, used, root, croot, reg, lists, tables, fin, ready, held, work, job, todo,
                   redo, expect>>
EpheKey ==
    /\ pc = "keys" /\ k <= Len(tables.ephe)
    /\ LET e == Entry[1]
           v == mem[e].fld[Entry[2]]
       IN mem' = IF ~Is_young(v) THEN mem
                 ELSE IF Fwd(v) THEN [mem EXCEPT ![e].fld[Entry[2]] = mem[v].fld[1]]
                 ELSE [mem EXCEPT ![e].fld = [@ EXCEPT ![Entry[2]] = None, ![1] = None]]
    /\ k' = k + 1
    /\ UNCHANGED <<prog, used, root, croot, reg, lists, tables, fin, ready, held, pc, work, job, todo,
                   redo, expect>>

\* The finalisers of values that died are ready; the others follow the value.
generic_final_minor_update ==
    LET f == fin["last"]
        young == SubSeq(f.tab, f.old + 1, Len(f.tab))
        dies(e) == e.val \in Young /\ ~Fwd(e.val)
        lives(e) == ~dies(e)
        moved(e) == IF Fwd(e.val) THEN [e EXCEPT !.val = mem[@].fld[1]] ELSE e
        kept == SelectSeq(young, lives)
    IN /\ ready' = ready \o LET d == SelectSeq(young, dies) IN Chunk([i \in DOMAIN d |-> d[i].id])
       /\ fin' = [q \in {"first", "last"} |->
                    LET tab == IF q = "first" THEN fin[q].tab
                               ELSE SubSeq(f.tab, 1, f.old) \o [i \in DOMAIN kept |-> moved(kept[i])]
                    IN [tab |-> tab, old |-> Len(tab)]]      \* caml_final_empty_young

Finish ==
    /\ pc = "keys" /\ k > Len(tables.ephe)
    /\ generic_final_minor_update
    /\ held' = held \ {mem[b].id : b \in {c \in Range(tables.custom) : ~Fwd(c)}}
    /\ tables' = [ref |-> <<>>, ephe |-> <<>>, custom |-> <<>>]
    /\ mem' = [b \in DOMAIN mem |-> IF b \in Young THEN Free ELSE mem[b]]
    /\ used' = [used EXCEPT !.young = 0]
    /\ pc' = "done"
    /\ UNCHANGED <<prog, root, croot, reg, lists, work, job, todo, k, redo, expect>>

Resume ==
    /\ pc = "done" /\ pc' = "run" /\ expect' = <<>> /\ k' = 1
    /\ UNCHANGED <<prog, mem, used, root, croot, reg, lists, tables, fin, ready, held, work, job, todo, redo>>

\* The major heap has no room for another block: the program ends.
Stop == pc = "run" /\ ~Room /\ UNCHANGED vars

Next ==
    \/ New \/ alloc_custom_gen \/ caml_alloc_shr \/ Drop \/ Load \/ caml_modify
    \/ caml_ephemeron_create \/ EpheSet \/ EpheGet \/ generic_final_register \/ caml_final_do_calls
    \/ GlobalRoot \/ Stop
    \/ caml_empty_minor_heap \/ Scan \/ caml_oldify_one \/ caml_oldify_mopup
    \/ EpheData \/ EpheKeys \/ EpheKey \/ Finish \/ Resume

Spec == Init /\ [][Next]_vars

-----------------------------------------------------------------------------
\* A minor collection keeps exactly what is reachable: the blocks, the graph they
\* form, the roots, the ephemerons with live keys and their data, and the
\* finalisers; and all the rest is gone, with the data of ephemerons whose key
\* died cleared, the finalisers of dead values ready, and the resources of dead
\* custom blocks given back.
MinorCollectionExact == pc = "done" => Picture({}) = expect

\* Between collections every pointer into the minor heap that a collection would
\* not find from the stack is in a table: fields of old blocks, ephemerons,
\* generational roots of C (with the two lists as the comment in globroots.c
\* states), finalisers and custom blocks.
YoungIsRemembered ==
    pc = "run" =>
      /\ \A b \in (Old \intersect InUse) \ At("ephe") : \A i \in DOMAIN mem[b].fld :
           Is_young(mem[b].fld[i]) => <<b, i>> \in Range(tables.ref)
      /\ \A e \in At("ephe"), i \in {1, 2} :
           Is_young(mem[e].fld[i]) => <<e, i>> \in Range(tables.ephe)
      /\ \A r \in CRoots :
           LET c == IF reg[r] = "gen" THEN classify_gc_root(croot[r]) ELSE "untracked" IN
           /\ c = "young" => r \in lists.young
           /\ c = "old" => r \in lists.young \union lists.old
           /\ c = "untracked" => r \notin lists.young \union lists.old
      /\ \A q \in {"first", "last"} : \A i \in 1..fin[q].old : ~Is_young(fin[q].tab[i].val)
      /\ At("custom") \intersect Young = Range(tables.custom)
=============================================================================
