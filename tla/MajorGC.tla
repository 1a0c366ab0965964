------------------------------ MODULE MajorGC ------------------------------
(***************************************************************************)
(* The incremental mark, clean and sweep collector of the major heap, and  *)
(* the mutator's side of it: the write barrier of caml_modify, the colour  *)
(* given to new blocks, ephemerons and finalisers.                         *)
(*                                                                         *)
(* A block is its address; 0 stands for everything that is not a block of  *)
(* the major heap (immediates, caml_ephe_none, young blocks).  Blocks have *)
(* one size, so that freeing one is turning it blue.  The heap is one      *)
(* chunk: the order of the chunks is the order of addresses.               *)
(*                                                                         *)
(* The collector works in slices between which the program runs.  A slice  *)
(* is a number of steps of the loops of mark_slice, clean_slice and        *)
(* sweep_slice; it can end only after a step that consumes work.  A forced *)
(* cycle (caml_finish_major_cycle) is one whose slices are not cut.        *)
(***************************************************************************)
EXTENDS Integers, Sequences, SequencesExt

CONSTANTS
    Programs,    \* what may run, see below
    KeysInMark   \* whether the program changes keys, or copies data, in the mark phase

ASSUME ProgramsAssumption ==
    \A p \in Programs :
        /\ p.tag \in Seq({"scan", "noscan", "fwd", "ephe"})
        /\ p.size \in [DOMAIN p.tag -> Nat \ {0}]
        /\ \A b \in DOMAIN p.tag : p.tag[b] = "fwd" => p.size[b] = 1
ASSUME GrayAssumption == \A p \in Programs : p.gray \in (Nat \ {0}) \X Nat

VARIABLES
    prog,        \* the heap and the program: [tag, size, slots, gray, ops] (below)
    mk,          \* [color, gray, size, pure, epure]: what marking changes (below)
    fld,         \* fields
    root,        \* the stack
    phase,       \* caml_gc_phase
    sub,         \* caml_gc_subphase
    hp,          \* markhp; 0 when it is NULL
    cv, ci,      \* current_value (or 0) and current_index
    ephes,       \* the list caml_ephe_list_head
    checked,     \* ephes_checked_if_pure: the link of this ephemeron, or of the head (0)
    tocheck,     \* ephes_to_check: likewise
    sweep,       \* caml_gc_sweep_hp
    inSlice,     \* a slice is under way
    first, last, \* finalisable_first and finalisable_last
    todo,        \* values of the finalising set
    dead         \* blocks whose finalise_last function was scheduled

marking == <<hp, cv, ci>>
lists == <<ephes, checked, tocheck>>
finals == <<first, last, todo, dead>>
vars == <<prog, mk, fld, root, phase, sub, marking, lists, sweep, inSlice, finals>>

(* tag and size of each block (of an ephemeron, its data and its keys), the  *)
(* slots of the stack, the initial size of gray_vals and the size from which *)
(* it no longer grows (stat_heap_wsz / 32), the operations the program uses. *)
Tag == prog.tag
Size == prog.size
Slots == prog.slots
GrayInit == prog.gray[1]
GrayMax == prog.gray[2]
Ops == prog.ops
N == Len(Tag)
Block == 1..N
Value == 0..N
Index(b) == 1..Size[b]
Keys(e) == 2..Size[e]

(* color: of each block; gray: gray_vals; size: gray_vals_size; pure:        *)
(* heap_is_pure; epure: ephe_list_pure.                                      *)
White(b) == b # 0 /\ mk.color[b] = "white"

(***************************************************************************)
(* Darkening                                                               *)
(***************************************************************************)
\* Mutant: half of the gray cache is dropped and the heap is still thought pure.
realloc_gray_vals_forget(m, ok) ==
    IF m.size < GrayMax /\ ok
    THEN [m EXCEPT !.size = 2 * @]
    ELSE [m EXCEPT !.gray = SubSeq(@, 1, m.size \div 2)]

\* The full cache grows; where it may not, or malloc fails, entries are dropped.
realloc_gray_vals(m, ok) ==
    IF m.size < GrayMax
    THEN IF ok THEN [m EXCEPT !.size = 2 * @]
               ELSE [m EXCEPT !.gray = <<>>, !.pure = FALSE]
    ELSE [m EXCEPT !.gray = SubSeq(@, 1, m.size \div 2), !.pure = FALSE]

Push(m, b, ok) ==
    LET n == [m EXCEPT !.color[b] = "gray", !.gray = Append(@, b), !.epure = FALSE]
    IN  IF Len(n.gray) >= n.size THEN realloc_gray_vals(n, ok) ELSE n

\* Mutant: darkening does not tell the scan of the ephemerons.
caml_darken_silent(m, b, ok) ==
    IF b = 0 \/ m.color[b] # "white" THEN m
    ELSE IF Tag[b] \in {"scan", "fwd"} THEN [Push(m, b, ok) EXCEPT !.epure = m.epure]
    ELSE [m EXCEPT !.color[b] = "black"]

\* Blocks without pointers (ephemerons too) turn black at once.
caml_darken(m, b, ok) ==
    IF b = 0 \/ m.color[b] # "white" THEN m
    ELSE IF Tag[b] \in {"scan", "fwd"} THEN Push(m, b, ok)
    ELSE [m EXCEPT !.color[b] = "black", !.epure = FALSE]

\* Darkening the blocks of s one after the other.
DarkenAll(m, s, ok) ==
    LET after[i \in 0..Len(s)] ==
            IF i = 0 THEN m ELSE caml_darken(after[i - 1], s[i], ok)
    IN  after[Len(s)]

\* What a pointer to c becomes: a forward block is bypassed unless what it
\* forwards to may itself be a lazy value.
ShortCircuit(c, inEphe) ==
    IF c # 0 /\ Tag[c] = "fwd"
    THEN LET f == fld[c][1]
         IN  IF (inEphe /\ f = 0) \/ (f # 0 /\ Tag[f] = "fwd") THEN c ELSE f
    ELSE c

\* The child is marked through the pointer as it was before bypassing.
mark_slice_darken(v, i, ok) ==
    IF White(fld[v][i]) THEN Push(mk, fld[v][i], ok) ELSE mk

(***************************************************************************)
(* The list of ephemerons, and cleaning one                                *)
(***************************************************************************)
\* The place in the list l of the ephemeron p; 0 for the head of the list.
Pos(l, p) == IF p = 0 THEN 0 ELSE CHOOSE j \in 1..Len(l) : l[j] = p

\* The ephemeron after the link of p; 0 at the end of the list.
At(p) == IF Pos(ephes, p) < Len(ephes) THEN ephes[Pos(ephes, p) + 1] ELSE 0

caml_ephe_clean(e) ==
    LET key(i) == ShortCircuit(fld[e][i], TRUE)
    IN  [i \in Index(e) |-> IF i = 1
                         THEN IF \E k \in Keys(e) : White(key(k)) THEN 0 ELSE fld[e][1]
                         ELSE IF White(key(i)) THEN 0 ELSE key(i)]

CleanedIfClean(e) == IF phase = "clean" THEN caml_ephe_clean(e) ELSE fld[e]

\* do_check_key_clean, is_ephe_key_none: a dead key takes the data with it.
do_check_key_clean(e, k) ==
    IF phase = "clean" /\ White(fld[e][k])
    THEN [fld[e] EXCEPT ![k] = 0, ![1] = 0]
    ELSE fld[e]

(***************************************************************************)
(* Marking: one iteration of mark_slice                                    *)
(***************************************************************************)
\* A step that consumes work may be the last of its slice.
WorkDone == inSlice' \in BOOLEAN
NoWorkDone == inSlice' = inSlice

InMark == phase = "mark" /\ inSlice

PopGray ==
    /\ InMark /\ cv = 0 /\ mk.gray # <<>>
    /\ cv' = Last(mk.gray)
    /\ mk' = [mk EXCEPT !.gray = Front(@)]
    /\ NoWorkDone
    /\ UNCHANGED <<fld, root, phase, sub, hp, ci, lists, sweep, finals>>

\* Fields are darkened from current_index on; the block turns black after the last.
MarkField ==
    /\ InMark /\ cv # 0 /\ Tag[cv] \in {"scan", "fwd"}
    /\ \E ok \in BOOLEAN :
          LET m == mark_slice_darken(cv, ci + 1, ok)
          IN  mk' = IF ci + 1 < Size[cv] THEN m ELSE [m EXCEPT !.color[cv] = "black"]
    /\ fld' = [fld EXCEPT ![cv][ci + 1] = ShortCircuit(@, FALSE)]
    /\ ci' = IF ci + 1 < Size[cv] THEN ci + 1 ELSE 0
    /\ cv' = IF ci + 1 < Size[cv] THEN cv ELSE 0
    /\ WorkDone
    /\ UNCHANGED <<root, phase, sub, hp, lists, sweep, finals>>

MarkNoScan ==
    /\ InMark /\ cv # 0 /\ Tag[cv] \in {"noscan", "ephe"}
    /\ mk' = [mk EXCEPT !.color[cv] = "black"]
    /\ cv' = 0
    /\ WorkDone
    /\ UNCHANGED <<fld, root, phase, sub, hp, ci, lists, sweep, finals>>

Idle == InMark /\ cv = 0 /\ mk.gray = <<>>

\* The rescan of the heap for gray blocks that fell out of the cache.
ScanHeap ==
    /\ Idle /\ hp # 0
    /\ cv' = IF hp <= N /\ mk.color[hp] = "gray" THEN hp ELSE 0
    /\ hp' = IF hp > N THEN 0 ELSE hp + 1
    /\ NoWorkDone
    /\ UNCHANGED <<mk, fld, root, phase, sub, ci, lists, sweep, finals>>

StartScan ==
    /\ Idle /\ hp = 0 /\ ~mk.pure
    /\ mk' = [mk EXCEPT !.pure = TRUE]
    /\ hp' = 1
    /\ NoWorkDone
    /\ UNCHANGED <<fld, root, phase, sub, cv, ci, lists, sweep, finals>>

Marked == Idle /\ hp = 0 /\ mk.pure

\* caml_darken_all_roots_slice has nothing left to do in bytecode.
MarkRoots ==
    /\ Marked /\ sub = "roots"
    /\ sub' = "main"
    /\ NoWorkDone
    /\ UNCHANGED <<mk, fld, root, phase, marking, lists, sweep, finals>>

\* The ephemeron moves to the end of the checked ones; those that ephes_to_check
\* has passed since, if any, are now behind it.
MoveToChecked(v) ==
    /\ checked' = v
    /\ tocheck' = IF checked = tocheck THEN v ELSE tocheck
    /\ ephes' = [j \in 1..Len(ephes) |->
                    IF j = Pos(ephes, checked) + 1 THEN v
                    ELSE IF j \in Pos(ephes, checked) + 2 .. Pos(ephes, tocheck) + 1 THEN ephes[j - 1]
                    ELSE ephes[j]]

\* Mutant: a live ephemeron keeps its data whatever becomes of its keys.
EpheAlive_weak(v) ==
    ~White(v)

EpheAlive(v) ==
    ~White(v) /\ \A k \in Keys(v) : ~White(ShortCircuit(fld[v][k], TRUE))

mark_ephe_aux ==
    /\ Marked /\ sub # "roots"
    /\ At(tocheck) # 0
    /\ LET v == At(tocheck)
           d == fld[v][1]
           bypass == [i \in Index(v) |->
                        IF i \in Keys(v) /\ ~White(v) /\ \A k \in 2..(i - 1) : ~White(ShortCircuit(fld[v][k], TRUE))
                        THEN ShortCircuit(fld[v][i], TRUE) ELSE fld[v][i]]
       IN  IF ~White(d)
           THEN MoveToChecked(v) /\ UNCHANGED <<fld, mk>>
           ELSE IF EpheAlive(v)
           THEN /\ \E ok \in BOOLEAN : mk' = mark_slice_darken(v, 1, ok)
                /\ fld' = [fld EXCEPT ![v] = [bypass EXCEPT ![1] = ShortCircuit(d, TRUE)]]
                /\ MoveToChecked(v)
           ELSE /\ tocheck' = v
                /\ fld' = [fld EXCEPT ![v] = bypass]
                /\ UNCHANGED <<mk, ephes, checked>>
    /\ WorkDone
    /\ UNCHANGED <<root, phase, sub, marking, sweep, finals>>

EphesDone == Marked /\ sub # "roots" /\ At(tocheck) = 0

EpheRescan ==
    /\ EphesDone /\ ~mk.epure
    /\ mk' = [mk EXCEPT !.epure = TRUE]
    /\ tocheck' = checked
    /\ NoWorkDone
    /\ UNCHANGED <<fld, root, phase, sub, marking, ephes, checked, sweep, finals>>

\* Unreachable finalisable values are scheduled, and live until their function ran.
caml_final_update_mark_phase ==
    LET d == {b \in first : White(b)}
    IN  /\ first' = first \ d
        /\ todo' = todo \cup d
        /\ \E ok \in BOOLEAN : mk' = DarkenAll(mk, SetToSeq(d), ok)

\* Mutant: the finalise_last functions are scheduled along with the others.
MarkMainDone_last ==
    /\ EphesDone /\ mk.epure /\ sub = "main"
    /\ LET d == {b \in last : White(b)}
       IN  last' = last \ d /\ dead' = dead \cup d
    /\ caml_final_update_mark_phase
    /\ tocheck' = checked
    /\ sub' = "final"
    /\ NoWorkDone
    /\ UNCHANGED <<fld, root, phase, marking, ephes, checked, sweep>>

\* End of Subphase_mark_main.
MarkMainDone ==
    /\ EphesDone /\ mk.epure /\ sub = "main"
    /\ caml_final_update_mark_phase
    /\ tocheck' = checked
    /\ sub' = "final"
    /\ NoWorkDone
    /\ UNCHANGED <<fld, root, phase, marking, ephes, checked, sweep, last, dead>>

\* End of Subphase_mark_final: caml_final_update_clean_phase, then clean or sweep.
MarkFinalDone ==
    /\ EphesDone /\ mk.epure /\ sub = "final"
    /\ LET d == {b \in last : White(b)}
       IN  last' = last \ d /\ dead' = dead \cup d
    /\ phase' = IF ephes # <<>> THEN "clean" ELSE "sweep"
    /\ tocheck' = 0
    /\ sweep' = 1
    /\ inSlice' = FALSE
    /\ UNCHANGED <<mk, fld, root, sub, marking, ephes, checked, first, todo>>

(***************************************************************************)
(* Cleaning and sweeping                                                   *)
(***************************************************************************)
clean_slice ==
    /\ phase = "clean" /\ inSlice
    /\ LET v == At(tocheck)
       IN  \/ /\ v # 0 /\ White(v)
              /\ ephes' = RemoveAt(ephes, Pos(ephes, tocheck) + 1)
              /\ WorkDone
              /\ UNCHANGED <<fld, tocheck, phase, sweep>>
           \/ /\ v # 0 /\ ~White(v)
              /\ fld' = [fld EXCEPT ![v] = caml_ephe_clean(v)]
              /\ tocheck' = v
              /\ WorkDone
              /\ UNCHANGED <<ephes, phase, sweep>>
           \/ /\ v = 0
              /\ phase' = "sweep" /\ sweep' = 1
              /\ inSlice' = FALSE
              /\ UNCHANGED <<fld, ephes, tocheck>>
    /\ UNCHANGED <<mk, root, sub, marking, checked, finals>>

\* Mutant: the sweep ends before the last block of the chunk.
sweep_slice_short ==
    /\ phase = "sweep" /\ inSlice
    /\ \/ /\ sweep < N
          /\ mk' = [mk EXCEPT !.color[sweep] = IF @ \in {"white", "blue"} THEN "blue" ELSE "white"]
          /\ fld' = IF White(sweep) THEN [fld EXCEPT ![sweep] = [i \in Index(sweep) |-> 0]] ELSE fld
          /\ sweep' = sweep + 1
          /\ WorkDone
          /\ UNCHANGED phase
       \/ /\ sweep >= N
          /\ phase' = "idle"
          /\ inSlice' = FALSE
          /\ UNCHANGED <<mk, fld, sweep>>
    /\ UNCHANGED <<root, sub, marking, lists, finals>>

\* A freed block goes to the free list, which takes over its fields.
sweep_slice ==
    /\ phase = "sweep" /\ inSlice
    /\ \/ /\ sweep <= N
          /\ mk' = [mk EXCEPT !.color[sweep] = IF @ \in {"white", "blue"} THEN "blue" ELSE "white"]
          /\ fld' = IF White(sweep) THEN [fld EXCEPT ![sweep] = [i \in Index(sweep) |-> 0]] ELSE fld
          /\ sweep' = sweep + 1
          /\ WorkDone
          /\ UNCHANGED phase
       \/ /\ sweep > N
          /\ phase' = "idle"
          /\ inSlice' = FALSE
          /\ UNCHANGED <<mk, fld, sweep>>
    /\ UNCHANGED <<root, sub, marking, lists, finals>>

\* The roots are the stack and the values of the finalising set.
start_cycle ==
    /\ phase = "idle"
    /\ \E ok \in BOOLEAN :
          mk' = [DarkenAll(mk, SetToSeq({root[r] : r \in Slots} \cup todo), ok) EXCEPT !.epure = TRUE]
    /\ phase' = "mark" /\ sub' = "roots" /\ hp' = 0
    /\ checked' = 0 /\ tocheck' = 0
    /\ UNCHANGED <<fld, root, cv, ci, ephes, sweep, inSlice, finals>>

\* caml_major_collection_slice: in the idle phase a slice only starts the cycle.
Slice ==
    /\ ~inSlice
    /\ \/ start_cycle
       \/ /\ phase # "idle"
          /\ inSlice' = TRUE
          /\ UNCHANGED <<mk, fld, root, phase, sub, marking, lists, sweep, finals>>

Collector ==
    \/ PopGray \/ MarkField \/ MarkNoScan \/ ScanHeap \/ StartScan
    \/ MarkRoots \/ mark_ephe_aux \/ EpheRescan \/ MarkMainDone \/ MarkFinalDone
    \/ clean_slice \/ sweep_slice

(***************************************************************************)
(* The program                                                             *)
(***************************************************************************)
gc == <<phase, sub, marking, checked, tocheck, sweep, inSlice>>

Mutator(op) == ~inSlice /\ op \in Ops

caml_allocation_color(b) ==
    IF phase \in {"mark", "clean"} \/ (phase = "sweep" /\ b >= sweep) THEN "black" ELSE "white"

\* caml_alloc_shr: a free block, its fields not yet set to blocks.  A forward
\* block is made around a value.
Alloc(r) ==
    /\ Mutator("alloc")
    /\ \E b \in Block :
          /\ mk.color[b] = "blue" /\ Tag[b] # "ephe"
          /\ mk' = [mk EXCEPT !.color[b] = caml_allocation_color(b)]
          /\ \E v \in IF Tag[b] = "fwd" THEN {root[s] : s \in Slots} ELSE {0} :
                fld' = [fld EXCEPT ![b] = [i \in Index(b) |-> IF i = 1 THEN v ELSE 0]]
          /\ root' = [root EXCEPT ![r] = b]
          /\ dead' = dead \ {b}
    /\ UNCHANGED <<gc, ephes, first, last, todo>>

Drop(r) ==
    /\ Mutator("drop") /\ root[r] # 0
    /\ root' = [root EXCEPT ![r] = 0]
    /\ UNCHANGED <<mk, fld, gc, ephes, finals>>

Load(r, s, i) ==
    /\ Mutator("load") /\ root[s] # 0
    /\ Tag[root[s]] \in {"scan", "fwd"} /\ i \in Index(root[s])
    /\ root' = [root EXCEPT ![r] = fld[root[s]][i]]
    /\ UNCHANGED <<mk, fld, gc, ephes, finals>>

\* Mutant: the barrier darkens the new value instead of the overwritten one.
caml_modify_new(s, i, r) ==
    /\ Mutator("modify") /\ root[s] # 0 /\ Tag[root[s]] = "scan" /\ i \in Index(root[s])
    /\ fld' = [fld EXCEPT ![root[s]][i] = root[r]]
    /\ \E ok \in BOOLEAN :
          mk' = IF phase = "mark" THEN caml_darken(mk, root[r], ok) ELSE mk
    /\ UNCHANGED <<root, gc, ephes, finals>>

\* The overwritten pointer is darkened while the collector marks.
caml_modify(s, i, r) ==
    /\ Mutator("modify") /\ root[s] # 0 /\ Tag[root[s]] = "scan" /\ i \in Index(root[s])
    /\ fld' = [fld EXCEPT ![root[s]][i] = root[r]]
    /\ \E ok \in BOOLEAN :
          mk' = IF phase = "mark" THEN caml_darken(mk, fld[root[s]][i], ok) ELSE mk
    /\ UNCHANGED <<root, gc, ephes, finals>>

\* generic_final_register for Gc.finalise and Gc.finalise_last.
caml_final_register(r) ==
    /\ Mutator("finalise") /\ root[r] # 0 /\ Tag[root[r]] # "fwd"
    /\ \/ first' = first \cup {root[r]} /\ UNCHANGED last
       \/ last' = last \cup {root[r]} /\ UNCHANGED first
    /\ UNCHANGED <<mk, fld, root, gc, ephes, todo, dead>>

\* The finaliser is called: its value is on the stack.
caml_final_do_calls(r) ==
    /\ Mutator("finalise")
    /\ \E b \in todo : todo' = todo \ {b} /\ root' = [root EXCEPT ![r] = b]
    /\ UNCHANGED <<mk, fld, gc, ephes, first, last, dead>>

(***************************************************************************)
(* Ephemerons                                                              *)
(***************************************************************************)
Ephe(s) == root[s] # 0 /\ Tag[root[s]] = "ephe"

caml_ephemeron_create(r) ==
    /\ Mutator("ephe")
    /\ \E b \in Block :
          /\ mk.color[b] = "blue" /\ Tag[b] = "ephe"
          /\ mk' = [mk EXCEPT !.color[b] = caml_allocation_color(b)]
          /\ fld' = [fld EXCEPT ![b] = [i \in Index(b) |-> 0]]
          /\ ephes' = <<b>> \o ephes
          /\ root' = [root EXCEPT ![r] = b]
          /\ dead' = dead \ {b}
    /\ UNCHANGED <<gc, first, last, todo>>

\* caml_ephemeron_set_key, and with v = 0 caml_ephemeron_unset_key.
caml_ephemeron_set_key(s, k) ==
    /\ Mutator("setkey") /\ Ephe(s) /\ k \in Keys(root[s]) /\ (KeysInMark \/ phase # "mark")
    /\ \E v \in {0} \cup {root[r] : r \in Slots} :
          fld' = [fld EXCEPT ![root[s]] = [do_check_key_clean(root[s], k) EXCEPT ![k] = v]]
    /\ UNCHANGED <<mk, root, gc, ephes, finals>>

\* caml_ephemeron_set_data; caml_ephemeron_unset_data does not clean.
caml_ephemeron_set_data(s) ==
    /\ Mutator("setdata") /\ Ephe(s)
    /\ \/ \E r \in Slots :
             fld' = [fld EXCEPT ![root[s]] = [CleanedIfClean(root[s]) EXCEPT ![1] = root[r]]]
       \/ fld' = [fld EXCEPT ![root[s]][1] = 0]
    /\ UNCHANGED <<mk, root, gc, ephes, finals>>

caml_ephemeron_get_key(r, s, k) ==
    /\ Mutator("getkey") /\ Ephe(s) /\ k \in Keys(root[s])
    /\ fld' = [fld EXCEPT ![root[s]] = do_check_key_clean(root[s], k)]
    /\ LET e == fld'[root[s]][k]
       IN  /\ root' = [root EXCEPT ![r] = e]
           /\ \E ok \in BOOLEAN : mk' = IF phase = "mark" THEN caml_darken(mk, e, ok) ELSE mk
    /\ UNCHANGED <<gc, ephes, finals>>

caml_ephemeron_get_data(r, s) ==
    /\ Mutator("getdata") /\ Ephe(s)
    /\ fld' = [fld EXCEPT ![root[s]] = CleanedIfClean(root[s])]
    /\ LET e == fld'[root[s]][1]
       IN  /\ root' = [root EXCEPT ![r] = e]
           /\ \E ok \in BOOLEAN : mk' = IF phase = "mark" THEN caml_darken(mk, e, ok) ELSE mk
    /\ UNCHANGED <<gc, ephes, finals>>

\* Both ephemerons are cleaned of the copied range of keys first.  The range is all the
\* keys, as it is for every blit between ephemerons of one key; the blits of a part of
\* the keys, after which keys outside the range wait for the collector, are left out.
caml_ephemeron_blit_key(s, t) ==
    /\ Mutator("blit") /\ Ephe(s) /\ Ephe(t) /\ Size[root[s]] = Size[root[t]] /\ (KeysInMark \/ phase # "mark")
    /\ LET a == CleanedIfClean(root[s])
           b == IF fld[root[t]][1] # 0 THEN CleanedIfClean(root[t]) ELSE fld[root[t]]
           f == [fld EXCEPT ![root[s]] = a, ![root[t]] = b]
       IN  fld' = [f EXCEPT ![root[t]] = [i \in Index(root[t]) |-> IF i = 1 THEN f[root[t]][1] ELSE f[root[s]][i]]]
    /\ UNCHANGED <<mk, root, gc, ephes, finals>>

caml_ephemeron_blit_data(s, t) ==
    /\ Mutator("blit") /\ Ephe(s) /\ Ephe(t) /\ (KeysInMark \/ phase # "mark")
    /\ LET f == [fld EXCEPT ![root[s]] = CleanedIfClean(root[s]), ![root[t]] = CleanedIfClean(root[t])]
       IN  fld' = [f EXCEPT ![root[t]][1] = f[root[s]][1]]
    /\ UNCHANGED <<mk, root, gc, ephes, finals>>

Fields == UNION {Index(b) : b \in Block}

Program ==
    \E r, s \in Slots :
       \/ Alloc(r) \/ Drop(r) \/ caml_final_register(r) \/ caml_final_do_calls(r)
       \/ \E i \in Fields : Load(r, s, i) \/ caml_modify(s, i, r)
       \/ caml_ephemeron_create(r)
       \/ \E k \in Fields : caml_ephemeron_set_key(s, k) \/ caml_ephemeron_get_key(r, s, k)
       \/ caml_ephemeron_set_data(s) \/ caml_ephemeron_get_data(r, s)
       \/ caml_ephemeron_blit_key(s, r) \/ caml_ephemeron_blit_data(s, r)

Init ==
    /\ prog \in Programs
    /\ mk = [color |-> [b \in Block |-> "blue"], gray |-> <<>>, size |-> GrayInit,
             pure |-> TRUE, epure |-> TRUE]
    /\ fld = [b \in Block |-> [i \in Index(b) |-> 0]]
    /\ root = [r \in Slots |-> 0]
    /\ phase = "idle" /\ sub = "roots"
    /\ hp = 0 /\ cv = 0 /\ ci = 0
    /\ ephes = <<>> /\ checked = 0 /\ tocheck = 0
    /\ sweep = 1
    /\ inSlice = FALSE
    /\ first = {} /\ last = {} /\ todo = {} /\ dead = {}

Next == (Slice \/ Collector \/ Program) /\ UNCHANGED prog

Spec == Init /\ [][Next]_vars

\* The program keeps allocating, or asks for it: slices keep coming, and a slice ends.
Fairness == WF_vars((Slice \/ Collector) /\ UNCHANGED prog)
FairSpec == Spec /\ Fairness

(***************************************************************************)
(* Properties                                                              *)
(***************************************************************************)
\* What the program can read of a block.
Visible(b) ==
    IF Tag[b] = "noscan" THEN {}
    ELSE IF Tag[b] = "ephe" /\ phase = "clean"
    THEN {caml_ephe_clean(b)[1]} \cup {do_check_key_clean(b, k)[k] : k \in Keys(b)}
    ELSE {fld[b][i] : i \in Index(b)}

\* What the program can reach from s, through weak pointers as well: the least set
\* that has s and what is visible of its blocks.
Accessible(s) ==
    LET closed == {c \in SUBSET Block :
                     (s \cup UNION {Visible(b) : b \in c}) \ {0} \subseteq c}
    IN  {b \in Block : \A c \in closed : b \in c}

\* What the roots keep alive: an ephemeron keeps its data if it is alive and so are its keys.
Live ==
    LET holds(b, l) ==
            CASE Tag[b] = "noscan" -> {}
              [] Tag[b] \in {"scan", "fwd"} -> {fld[b][i] : i \in Index(b)}
              [] OTHER -> IF \A k \in Keys(b) : ShortCircuit(fld[b][k], TRUE) \in l \cup {0} THEN {fld[b][1]} ELSE {}
        reach[n \in 0..N] ==
            IF n = 0 THEN ({root[r] : r \in Slots} \cup todo \cup first) \ {0}
            ELSE reach[n - 1] \cup (UNION {holds(b, reach[n - 1]) : b \in reach[n - 1]} \ {0})
    IN  reach[N]

Roots == {root[r] : r \in Slots} \cup todo

\* Whatever the program can still reach - through its stack, through fields, as
\* the key or the data of an ephemeron, or as the argument of a finaliser to come -
\* has not been freed by sweep_slice, however the collector's slices fall between
\* the program's loads, stores and allocations.
NoDangling ==
    \A b \in Accessible(Roots) \cup first \cup last : mk.color[b] # "blue"

\* A block that the mark phase owes a scan is in gray_vals, or half scanned, or
\* ahead of the rescan, or the rescan is still to be started (heap_is_pure).
GrayFound ==
    \A b \in Block : mk.color[b] = "gray" =>
        /\ phase = "mark"
        /\ \/ b \in ToSet(mk.gray) \cup {cv}
           \/ ~mk.pure
           \/ hp # 0 /\ b >= hp

\* Gc.finalise_last: the function is scheduled only once its value is out of
\* the program's reach, for good.
LastAfterDeath ==
    dead \cap Accessible(Roots) = {}

\* The assertion of caml_ephe_clean_partial: if all keys are alive, the mark phase
\* has marked the data.
CleanFindsDataMarked ==
    phase = "clean" =>
        \A i \in 1..Len(ephes) :
            ~White(ephes[i]) => ~White(caml_ephe_clean(ephes[i])[1])

AnyBlock == UNION {DOMAIN p.tag : p \in Programs}

\* Every block nothing refers to any more is freed by some later sweep.
GarbageFreed ==
    \A b \in AnyBlock :
        (b \in Block /\ mk.color[b] # "blue" /\ b \notin Accessible(Roots \cup first))
          ~> (b \in Block /\ mk.color[b] = "blue")

DeadKey(b) ==
    /\ b \in Block
    /\ LET holders == {e \in Block : Tag[e] = "ephe" /\ \E k \in Keys(e) : fld[e][k] = b}
       IN  holders # {} /\ b \notin Live /\ holders \cap Live # {}

\* A key only weak pointers lead to is eventually cleared from every ephemeron,
\* although the data of its own ephemeron may refer to it.
DeadKeyCleared ==
    \A b \in AnyBlock : DeadKey(b) ~> ~DeadKey(b)
=============================================================================
