--------------------------- MODULE MajorGCProofs ---------------------------
(***************************************************************************)
(* The program's operations preserve the invariant of MajorGCCollector, and *)
(* what follows for every behaviour of the collector and the program.      *)
(***************************************************************************)
EXTENDS MajorGCCollector

(***************************************************************************)
(* Steps of the program that allocate nothing                              *)
(***************************************************************************)
\* The program writes to blocks that are alive, and what it writes is alive.
Edits ==
    \A b \in Block :
       \/ fld'[b] = fld[b]
       \/ /\ b \notin Doomed /\ Tag[b] \in {"scan", "ephe"}
          /\ \A i \in 1..Size[b] : fld'[b][i] = fld[b][i] \/ fld'[b][i] \notin Doomed

CleanEdits == \A e \in Block : Tag[e] = "ephe" /\ mk.color[e] # "blue" => CleanEdit(e)

KeysKept == \A j \in 1..Len(ephes) : \A k \in 2..Size[ephes[j]] : fld'[ephes[j]][k] = fld[ephes[j]][k]

MarkEdits == Rewiring /\ Rooting /\ DataKept /\ KeysKept

\* A step of the program that writes so, and holds only what is alive, preserves the invariant.
LEMMA ProgramStep ==
    ASSUME IInv, prog' = prog,
           UNCHANGED <<phase, sub, hp, cv, ci, ephes, checked, tocheck, sweep, inSlice, dead>>,
           Darkens(mk, mk'), phase # "mark" => mk' = mk,
           FieldTypes', root' \in [Slots -> Value],
           first' \subseteq Block, last' \subseteq Block, todo' \subseteq Block,
           Held' \cap Doomed = {}, Edits,
           phase = "clean" => CleanEdits,
           phase = "mark" => MarkEdits
    PROVE  IInv'
<1>a. Types /\ Lists /\ Scanning /\ Colors /\ GrayFound /\ Safe /\ Snapshot /\ EpheSnapshot /\ Cleaned
  BY DEF IInv
<1>p. Block' = Block /\ Value' = Value /\ Tag' = Tag /\ Size' = Size /\ Slots' = Slots /\ N' = N
  BY ProgSame
<1>t. /\ 0 \notin Block /\ Value = Block \cup {0} /\ mk.color \in [Block -> Color]
      /\ \A b \in Block : \A i \in 1..Size[b] : fld[b][i] \in Value
      /\ \A b \in Block : \A i \in 1..Size[b] : fld'[b][i] \in Value
      /\ mk' \in MarkState
      /\ \A b \in Block : Tag[b] = "fwd" => Size[b] = 1
  <2>1. \A b \in Block : \A i \in 1..Size[b] : fld'[b][i] \in Value
    BY <1>p DEF FieldTypes, Index
  <2>2. mk' \in MarkState
    BY DEF Darkens
  <2> QED BY <2>1, <2>2, <1>a, TypeFacts
<1>1. Types'
  BY <1>a, <1>t, ProgSame DEF Types
<1>2. Lists' /\ Done' = Done /\ Seen' = Seen
  BY <1>a, ListsSame
<1>3. \A b \in Block : mk'.color[b] = "blue" <=> mk.color[b] = "blue"
  BY DEF Darkens
<1>4. Doomed' = Doomed
  <2>1. CASE phase = "mark"
    <3>1. Doomed = {b \in Block : mk.color[b] = "blue"} /\ Doomed' = {b \in Block : mk'.color[b] = "blue"}
      BY <2>1, <1>p DEF Doomed
    <3> QED BY <3>1, <1>3
  <2>2. CASE phase # "mark"
    BY <2>2, <1>p DEF Doomed
  <2> QED BY <2>1, <2>2
<1>5. Safe'
  <2>1. Held' \cap Doomed' = {} /\ dead' \subseteq Doomed'
    BY <1>4, <1>a DEF Safe
  <2>2. ASSUME NEW b \in Block \ Doomed, Tag[b] \in Scanned \/ (Tag[b] = "ephe" /\ phase # "clean"),
               NEW i \in 1..Size[b]
        PROVE  fld'[b][i] \notin Doomed
    <3>1. fld[b][i] \notin Doomed
      BY <2>2, <1>a DEF Safe, Index
    <3> QED BY <3>1 DEF Edits
  <2>3. ASSUME phase # "sweep", NEW b \in Block, Tag[b] # "noscan", mk.color[b] # "blue",
               NEW i \in 1..Size[b], fld'[b][i] # 0
        PROVE  mk.color[fld'[b][i]] # "blue" /\ fld'[b][i] \in Block
    <3>1. fld[b][i] # 0 => mk.color[fld[b][i]] # "blue"
      BY <2>3, <1>a DEF Safe, Index
    <3>2. fld'[b][i] = fld[b][i] \/ fld'[b][i] \notin Doomed
      BY DEF Edits
    <3> QED BY <3>1, <3>2, <2>3, <1>t DEF Doomed
  <2>4. phase # "sweep" => \A b \in Block : Tag[b] # "noscan" /\ mk'.color[b] # "blue" =>
          \A i \in 1..Size[b] : fld'[b][i] # 0 => mk'.color[fld'[b][i]] # "blue"
    BY <2>3, <1>3
  <2>5. phase = "clean" => \A j \in 1..Len(ephes) : mk'.color[ephes[j]] # "blue"
    <3>1. phase = "clean" => \A j \in 1..Len(ephes) : mk.color[ephes[j]] # "blue"
      BY <1>a DEF Safe
    <3>2. \A j \in 1..Len(ephes) : ephes[j] \in Block
      BY <1>a, ListsFacts
    <3> QED BY <3>1, <3>2, <1>3
  <2>6. /\ \A b \in Block \ Doomed : Tag[b] = "ephe" => Listed(ephes, b)
        /\ phase # "clean" => \A j \in 1..Len(ephes) : ephes[j] \notin Doomed
    BY <1>a DEF Safe
  <2> QED BY <2>1, <2>2, <2>4, <2>5, <2>6, <1>4, <1>p DEF Safe, Index
<1>6. CASE phase = "mark"
  <2>1. /\ Scanning' /\ GrayFound' /\ Darkening
        /\ mk'.epure => mk.epure /\ WhitesKept
    BY <1>6, <1>a, DarkensStep
  <2>2. Rewiring /\ Rooting /\ DataKept /\ KeysKept
    BY <1>6 DEF MarkEdits
  <2>3. Snapshot' /\ SealedBack
    BY <2>1, <2>2, <1>6, <1>a, SnapshotStep
  <2>4. ForwardsKept
    BY DEF ForwardsKept, Edits
  <2>5. EpheSnapshot'
    BY <2>1, <2>2, <2>3, <2>4, <1>6, <1>a, EpheStep DEF KeysKept
  <2>6. Colors' /\ Cleaned'
    BY <1>6 DEF Colors, Cleaned
  <2> QED BY <2>1, <2>3, <2>5, <2>6, <1>1, <1>2, <1>5 DEF IInv
<1>7. CASE phase # "mark"
  <2>0. mk' = mk
    BY <1>7
  <2>1. Rest'
    BY <2>0, <1>7, <1>a, <1>p, RestFacts DEF Rest
  <2>2. Scanning' /\ GrayFound' /\ Snapshot' /\ EpheSnapshot'
    BY <2>1, <1>7, <1>p, RestInv
  <2>3. Colors'
    BY <2>0, <1>a, <1>p DEF Colors
  <2>4. Cleaned'
    <3> SUFFICES ASSUME phase = "clean" PROVE Cleaned'
      BY DEF Cleaned
    <3>1. ColorsKept /\ ForwardsSame
      BY <2>0 DEF ColorsKept, ForwardsSame, Edits
    <3>2. \A j \in 1..Len(ephes') : Listed(ephes, ephes'[j])
      BY DEF Listed
    <3>3. \A j \in 1..Seen' : j \in 1..Len(ephes') /\ \E k \in 1..Seen : ephes'[j] = ephes[k]
      <4>1. Seen \in 0..Len(ephes) /\ Len(ephes) \in Nat
        BY <1>a, ListsFacts
      <4>2. \A j \in 1..Seen : j \in 1..Len(ephes)
        BY <4>1
      <4> QED BY <4>2, <1>2
    <3>4. ephes' \in Seq(Block) /\ phase' = "clean"
      BY <1>a DEF Lists
    <3> QED BY <3>1, <3>2, <3>3, <3>4, <1>a, <1>t, CleanStep DEF CleanEdits
  <2> QED BY <2>2, <2>3, <2>4, <1>1, <1>2, <1>5 DEF IInv
<1> QED BY <1>6, <1>7

\* The stack, the fields and what the finalisers hold, as a step of the program leaves them.
Steady == UNCHANGED <<phase, sub, hp, cv, ci, ephes, checked, tocheck, sweep, inSlice, dead>>

\* A step that writes no field and darkens nothing preserves the invariant if what
\* the program now holds is alive.
LEMMA HoldStep ==
    ASSUME IInv, prog' = prog, Steady, mk' = mk, fld' = fld, root' \in [Slots -> Value],
           first' \subseteq Block, last' \subseteq Block, todo' \subseteq Block,
           Held' \cap Doomed = {}, phase = "mark" => Rooting
    PROVE  IInv'
<1>1. Types
  BY DEF IInv
<1>2. Darkens(mk, mk')
  BY <1>1, DarkensRefl DEF Types
<1>3. FieldTypes'
  BY <1>1, FieldTypesSame DEF Types
<1>4. Edits /\ CleanEdits /\ Rewiring /\ DataKept /\ KeysKept
  BY DEF Edits, CleanEdits, CleanEdit, Rewiring, DataKept, KeysKept
<1>5. phase = "mark" => MarkEdits
  BY <1>4 DEF MarkEdits
<1> QED BY <1>2, <1>3, <1>4, <1>5, ProgramStep DEF Steady

\* What the program holds is alive.
LEMMA RootsAlive ==
    ASSUME IInv
    PROVE  /\ \A r \in Slots : root[r] \in Value \ Doomed
           /\ \A r \in Slots : root[r] # 0 => root[r] \in Block \ Doomed
           /\ Held \cap Doomed = {} /\ 0 \notin Doomed
<1>1. Types /\ Safe
  BY DEF IInv
<1>2. Held \cap Doomed = {} /\ \A r \in Slots : root[r] \in Held
  BY <1>1 DEF Safe, Held
<1>3. 0 \notin Block /\ Value = Block \cup {0} /\ \A r \in Slots : root[r] \in Value
  BY <1>1, TypeFacts
<1> QED BY <1>2, <1>3 DEF Doomed

\* Another value in the slot r of the stack.
LEMMA SlotFacts ==
    ASSUME IInv, prog' = prog, NEW r \in Slots, NEW v \in Value, v \notin Doomed, root' = [root EXCEPT ![r] = v],
           first' = first, last' = last, todo' \subseteq todo
    PROVE  /\ root' \in [Slots -> Value] /\ Held' \cap Doomed = {}
           /\ root'[r] = v /\ \A s \in Slots : s # r => root'[s] = root[s]
<1>1. root \in [Slots -> Value]
  BY DEF IInv, Types
<1>2. root' \in [Slots -> Value] /\ root'[r] = v /\ \A s \in Slots : s # r => root'[s] = root[s]
  BY <1>1
<1>3. Held' \subseteq Held \cup {v}
  BY <1>2, ProgSame DEF Held
<1> QED BY <1>2, <1>3, RootsAlive

\* The types of what the finalisers hold.
LEMMA SameFinals ==
    ASSUME IInv, first' = first, last' = last, todo' \subseteq todo
    PROVE  first' \subseteq Block /\ last' \subseteq Block /\ todo' \subseteq Block
  BY DEF IInv, Types

\* The program forgets a value,
LEMMA DropInv ==
    ASSUME IInv, NEW r \in Slots, Drop(r), prog' = prog
    PROVE  IInv'
<1>1. /\ Steady /\ mk' = mk /\ fld' = fld /\ root' = [root EXCEPT ![r] = 0]
      /\ first' = first /\ last' = last /\ todo' \subseteq todo /\ todo' = todo /\ sub' = sub
  BY DEF Drop, Steady, gc, marking, finals
<1>2. 0 \in Value /\ 0 \notin Doomed
  BY RootsAlive, TypeFacts DEF IInv
<1>3. /\ root' \in [Slots -> Value] /\ Held' \cap Doomed = {}
      /\ root'[r] = 0 /\ \A s \in Slots : s # r => root'[s] = root[s]
  BY <1>1, <1>2, SlotFacts
<1>4. first' \subseteq Block /\ last' \subseteq Block /\ todo' \subseteq Block
  BY <1>1, SameFinals
<1>5. Rooting
  BY <1>1, <1>3 DEF Rooting, Roots
<1> QED BY <1>1, <1>3, <1>4, <1>5, HoldStep

\* loads a field,
LEMMA LoadInv ==
    ASSUME IInv, NEW r \in Slots, NEW s \in Slots, NEW i, Load(r, s, i), prog' = prog
    PROVE  IInv'
<1>1. /\ Steady /\ mk' = mk /\ fld' = fld /\ root' = [root EXCEPT ![r] = fld[root[s]][i]]
      /\ first' = first /\ last' = last /\ todo' \subseteq todo /\ todo' = todo /\ sub' = sub
      /\ root[s] # 0 /\ Tag[root[s]] \in Scanned /\ i \in 1..Size[root[s]]
  BY DEF Load, Steady, gc, marking, finals, Scanned, Index
<1>2. PICK v : v = fld[root[s]][i]
  OBVIOUS
<1>3. v \in Value /\ v \notin Doomed /\ root[s] \in Block
  <2>1. root[s] \in Block \ Doomed
    BY <1>1, RootsAlive
  <2>2. Types /\ Safe
    BY DEF IInv
  <2>3. v \in Value
    BY <1>1, <1>2, <2>1, <2>2, TypeFacts
  <2>4. v \notin Doomed
    BY <1>1, <1>2, <2>1, <2>2 DEF Safe, Index
  <2> QED BY <2>1, <2>3, <2>4
<1>4. /\ root' \in [Slots -> Value] /\ Held' \cap Doomed = {}
      /\ root'[r] = v /\ \A q \in Slots : q # r => root'[q] = root[q]
  BY <1>1, <1>2, <1>3, SlotFacts
<1>5. first' \subseteq Block /\ last' \subseteq Block /\ todo' \subseteq Block
  BY <1>1, SameFinals
<1>6. Rooting
  BY <1>1, <1>2, <1>3, <1>4 DEF Rooting, Roots
<1> QED BY <1>1, <1>4, <1>5, <1>6, HoldStep

\* registers a finaliser (generic_final_register),
LEMMA RegisterInv ==
    ASSUME IInv, NEW r \in Slots, caml_final_register(r), prog' = prog
    PROVE  IInv'
<1>1. /\ Steady /\ mk' = mk /\ fld' = fld /\ root' = root /\ todo' = todo /\ sub' = sub
      /\ first' \subseteq first \cup {root[r]} /\ last' \subseteq last \cup {root[r]} /\ root[r] # 0
  BY DEF caml_final_register, Steady, gc, marking, finals
<1>2. /\ root \in [Slots -> Value] /\ first \subseteq Block /\ last \subseteq Block /\ todo \subseteq Block
  BY DEF IInv, Types
<1>3. root[r] \in Block \ Doomed /\ Held \cap Doomed = {}
  BY <1>1, RootsAlive
<1>4. Held' \cap Doomed = {}
  <2>1. Held' \subseteq Held \cup {root[r]}
    BY <1>1, ProgSame DEF Held
  <2> QED BY <2>1, <1>3
<1>5. first' \subseteq Block /\ last' \subseteq Block /\ todo' \subseteq Block /\ root' \in [Slots -> Value]
  BY <1>1, <1>2, <1>3
<1>6. Rooting
  BY <1>1 DEF Rooting, Roots
<1> QED BY <1>1, <1>4, <1>5, <1>6, HoldStep

\* runs one (caml_final_do_calls).
LEMMA DoCallsInv ==
    ASSUME IInv, NEW r \in Slots, caml_final_do_calls(r), prog' = prog
    PROVE  IInv'
<1>1. PICK b \in todo : todo' = todo \ {b} /\ root' = [root EXCEPT ![r] = b]
  BY DEF caml_final_do_calls
<1>2. /\ Steady /\ mk' = mk /\ fld' = fld /\ sub' = sub
      /\ first' = first /\ last' = last /\ todo' \subseteq todo
  BY <1>1 DEF caml_final_do_calls, Steady, gc, marking, finals
<1>3. b \in Value /\ b \notin Doomed
  <2>1. b \in Block /\ Value = Block \cup {0}
    BY TypeFacts DEF IInv, Types
  <2>2. b \in Held
    BY DEF Held
  <2> QED BY <2>1, <2>2, RootsAlive
<1>4. /\ root' \in [Slots -> Value] /\ Held' \cap Doomed = {}
      /\ root'[r] = b /\ \A q \in Slots : q # r => root'[q] = root[q]
  BY <1>1, <1>2, <1>3, SlotFacts
<1>5. first' \subseteq Block /\ last' \subseteq Block /\ todo' \subseteq Block
  BY <1>2, SameFinals
<1>6. Rooting
  BY <1>1, <1>2, <1>3, <1>4 DEF Rooting, Roots
<1> QED BY <1>2, <1>4, <1>5, <1>6, HoldStep

\* caml_modify: the overwritten value is darkened, the new one is a root.
LEMMA ModifyInv ==
    ASSUME IInv, NEW r \in Slots, NEW s \in Slots, NEW i, caml_modify(s, i, r), prog' = prog
    PROVE  IInv'
<1>a. Types /\ Safe
  BY DEF IInv
<1>t. /\ 0 \notin Block /\ Value = Block \cup {0} /\ mk.color \in [Block -> Color]
      /\ \A b \in Block : \A k \in 1..Size[b] : fld[b][k] \in Value
  BY <1>a, TypeFacts
<1>1. PICK o, y, c : o = root[s] /\ y = root[r] /\ c = fld[root[s]][i]
  OBVIOUS
<1>2. /\ Steady /\ root' = root /\ first' = first /\ last' = last /\ todo' = todo /\ sub' = sub
      /\ o # 0 /\ Tag[o] = "scan" /\ i \in 1..Size[o]
      /\ fld' = [fld EXCEPT ![o] = [@ EXCEPT ![i] = y]]
  BY <1>1 DEF caml_modify, Steady, gc, marking, finals, Index
<1>3. PICK ok \in BOOLEAN : mk' = IF phase = "mark" THEN caml_darken(mk, c, ok) ELSE mk
  BY <1>1 DEF caml_modify
<1>4. o \in Block \ Doomed /\ y \in Value /\ y \notin Doomed /\ c \in Value /\ c = fld[o][i]
  <2>1. o \in Block \ Doomed /\ y \in Value /\ y \notin Doomed
    BY <1>1, <1>2, RootsAlive
  <2> QED BY <2>1, <1>1, <1>2, <1>t
<1>5. /\ FieldTypes' /\ fld'[o][i] = y
      /\ \A b \in Block : \A k \in 1..Size[b] : b # o \/ k # i => fld'[b][k] = fld[b][k]
      /\ \A b \in Block : b # o => fld'[b] = fld[b]
  <2>1. PICK g : g = [fld[o] EXCEPT ![i] = y]
    OBVIOUS
  <2>2. fld[o] \in [1..Size[o] -> Value]
    BY <1>4, <1>a DEF Types, FieldTypes, Index
  <2>3. g \in [1..Size[o] -> Value] /\ g[i] = y /\ \A k \in 1..Size[o] : k # i => g[k] = fld[o][k]
    BY <2>1, <2>2, <1>2, <1>4
  <2>4. fld' = [fld EXCEPT ![o] = g]
    BY <2>1, <1>2, Zenon
  <2>5. FieldTypes' /\ fld'[o] = g /\ \A b \in Block : b # o => fld'[b] = fld[b]
    BY <2>3, <2>4, <1>4, <1>a, BlockUpdate
  <2> QED BY <2>3, <2>5
<1>6. /\ Darkens(mk, mk') /\ (phase # "mark" => mk' = mk)
      /\ phase = "mark" /\ c # 0 => mk'.color[c] # "white"
  <2>1. CASE phase = "mark"
    <3>1. /\ GrayMax \in Nat /\ Tag \in [Block -> {"scan", "noscan", "fwd", "ephe"}] /\ N \in Nat
          /\ mk \in MarkState
      BY <1>a, ProgFacts DEF Types
    <3>2. /\ Darkens(mk, caml_darken(mk, c, ok))
          /\ c # 0 => caml_darken(mk, c, ok).color[c] # "white"
      BY <3>1, <1>4, DarkenFacts
    <3> QED BY <3>2, <2>1, <1>3
  <2>2. CASE phase # "mark"
    BY <2>2, <1>3, <1>a, DarkensRefl DEF Types
  <2> QED BY <2>1, <2>2
<1>7. Edits
  BY <1>2, <1>4, <1>5 DEF Edits
<1>8. CleanEdits
  BY <1>2, <1>5 DEF CleanEdits, CleanEdit
<1>9. ASSUME phase = "mark" PROVE MarkEdits
  <2>1. \A b \in Block : mk'.color[b] = "blue" <=> mk.color[b] = "blue"
    BY <1>6 DEF Darkens
  <2>2. ASSUME NEW b \in Block, NEW k \in 1..Size[b]
        PROVE  \/ fld'[b][k] = fld[b][k] /\ (mk.color[b] # "blue" \/ mk'.color[b] = "blue")
               \/ /\ fld'[b][k] \in Roots \cup {0}
                  /\ fld[b][k] = 0 \/ mk'.color[fld[b][k]] # "white" \/ mk.color[b] = "blue"
    <3>1. CASE b = o /\ k = i
      <4>1. y \in Roots
        BY <1>1 DEF Roots
      <4> QED BY <3>1, <4>1, <1>4, <1>5, <1>6, <1>9
    <3>2. CASE b # o \/ k # i
      BY <3>2, <2>1, <1>5
    <3> QED BY <3>1, <3>2
  <2>3. Rewiring
    BY <2>2 DEF Rewiring
  <2>4. Rooting
    BY <1>2 DEF Rooting, Roots
  <2>5. \A j \in 1..Len(ephes) : ephes[j] \in Block /\ ephes[j] # o
    BY <1>2, ListsFacts DEF IInv
  <2>6. DataKept /\ KeysKept
    BY <2>5, <1>5 DEF DataKept, KeysKept
  <2> QED BY <2>3, <2>4, <2>6 DEF MarkEdits
<1>10. /\ root' \in [Slots -> Value] /\ Held' \cap Doomed = {}
       /\ first' \subseteq Block /\ last' \subseteq Block /\ todo' \subseteq Block
  <2>1. Held' = Held
    BY <1>2, ProgSame DEF Held
  <2> QED BY <2>1, <1>2, RootsAlive DEF IInv, Types
<1> QED BY <1>2, <1>5, <1>6, <1>7, <1>8, <1>9, <1>10, ProgramStep DEF Steady

(***************************************************************************)
(* Ephemerons                                                              *)
(***************************************************************************)
\* Cleaning leaves in a live ephemeron only what is alive.
LEMMA CleanAlive ==
    ASSUME IInv, phase = "clean", NEW e \in Block \ Doomed, Tag[e] = "ephe", NEW g, g = caml_ephe_clean(e)
    PROVE  /\ g \in [1..Size[e] -> Value]
           /\ \A i \in 1..Size[e] : g[i] = 0 \/ (g[i] \in Block /\ mk.color[g[i]] \notin {"white", "blue"})
<1>a. Types /\ Lists /\ Safe /\ Cleaned
  BY DEF IInv
<1>2. mk.color[e] \notin {"white", "blue"} /\ e \in Block /\ e # 0
  BY <1>a, TypeFacts DEF Doomed
<1>t. /\ 0 \notin Block /\ Value = Block \cup {0} /\ mk.color \in [Block -> Color] /\ 1 \in 1..Size[e]
      /\ \A b \in Block : \A i \in 1..Size[b] : fld[b][i] \in Value
      /\ \A i \in 1..Size[e] : i = 1 \/ i \in 2..Size[e]
  <2>1. Size[e] \in Nat \ {0}
    BY <1>2, <1>a, TypeFacts
  <2>2. 1 \in 1..Size[e] /\ \A i \in 1..Size[e] : i = 1 \/ i \in 2..Size[e]
    BY <2>1
  <2> QED BY <2>2, <1>a, TypeFacts
<1>3. /\ g \in [1..Size[e] -> Value]
      /\ g[1] = IF KeyDead(e) THEN 0 ELSE fld[e][1]
      /\ \A k \in 2..Size[e] : /\ ~White(g[k])
                               /\ g[k] = 0 \/ g[k] = ShortCircuit(fld[e][k], TRUE)
  BY <1>a, <1>2, CleanFacts, ZenonT(60)
<1>n. \A i \in 1..Size[e] : fld[e][i] # 0 => mk.color[fld[e][i]] # "blue"
  BY <1>a, <1>2 DEF Safe, Index
<1>4. PICK j \in 1..Len(ephes) : ephes[j] = e
  BY <1>a DEF Safe, Listed
<1>8. ASSUME NEW i \in 1..Size[e] PROVE g[i] = 0 \/ (g[i] \in Block /\ mk.color[g[i]] \notin {"white", "blue"})
  <2>0. g[i] \in Value
    BY <1>3
  <2>1. CASE i = 1
    <3>1. ~White(g[1])
      <4>1. ~White(ephes[j])
        BY <1>2, <1>4 DEF White
      <4>2. ~White(caml_ephe_clean(ephes[j])[1])
        BY <4>1, <1>a DEF Cleaned, CleanFindsDataMarked
      <4> QED BY <4>2, <1>4
    <3>2. g[1] = 0 \/ mk.color[g[1]] # "blue"
      BY <1>3, <1>n, <1>t
    <3> QED BY <2>0, <2>1, <3>1, <3>2, <1>t DEF White
  <2>2. CASE i \in 2..Size[e]
    <3>1. PICK c : c = fld[e][i]
      OBVIOUS
    <3>2. c \in Value /\ (c = 0 \/ mk.color[c] # "blue")
      BY <3>1, <1>2, <1>n, <1>t
    <3>3. ~White(g[i]) /\ (g[i] = 0 \/ g[i] = ShortCircuit(c, TRUE))
      BY <2>2, <3>1, <1>3
    <3>4. g[i] = 0 \/ mk.color[g[i]] # "blue"
      BY <3>2, <3>3, <1>a, BypassNotBlue
    <3> QED BY <2>0, <3>3, <3>4, <1>t DEF White
  <2> QED BY <2>1, <2>2, <1>t
<1> QED BY <1>3, <1>8

\* The operations that clean the whole ephemeron first leave only live values in it.
LEMMA CleanedAlive ==
    ASSUME IInv, NEW e \in Block \ Doomed, Tag[e] = "ephe", NEW g, g = CleanedIfClean(e)
    PROVE  /\ g \in [1..Size[e] -> Value]
           /\ \A i \in 1..Size[e] : g[i] \notin Doomed
           /\ phase = "clean" => \A i \in 1..Size[e] : g[i] = 0 \/ (g[i] \in Block /\ mk.color[g[i]] \notin {"white", "blue"})
           /\ phase # "clean" => g = fld[e]
<1>1. CASE phase = "clean"
  <2>1. g = caml_ephe_clean(e)
    BY <1>1 DEF CleanedIfClean
  <2>2. /\ g \in [1..Size[e] -> Value]
        /\ \A i \in 1..Size[e] : g[i] = 0 \/ (g[i] \in Block /\ mk.color[g[i]] \notin {"white", "blue"})
    BY <1>1, <2>1, CleanAlive, Zenon
  <2>3. 0 \notin Doomed
    BY RootsAlive
  <2> QED BY <1>1, <2>2, <2>3 DEF Doomed
<1>2. CASE phase # "clean"
  <2>1. g = fld[e]
    BY <1>2 DEF CleanedIfClean
  <2>2. g \in [1..Size[e] -> Value]
    BY <2>1 DEF IInv, Types, FieldTypes, Index
  <2>3. \A i \in 1..Size[e] : fld[e][i] \notin Doomed
    BY <1>2 DEF IInv, Safe, Index
  <2> QED BY <2>1, <2>2, <2>3, <1>2
<1> QED BY <1>1, <1>2

\* What a step may put into the live ephemeron e.
EpheWrite(e, g) ==
    /\ \A i \in 1..Size[e] : g[i] = fld[e][i] \/ g[i] \notin Doomed
    /\ phase = "clean" => CleanEdit(e)
    /\ phase = "mark" => /\ \A k \in 2..Size[e] : g[k] = fld[e][k]
                         /\ \/ g[1] = fld[e][1]
                            \/ g[1] \in Roots \cup {0}
                            \/ mk'.color[g[1]] # "white"

\* A step that writes one ephemeron.
LEMMA EpheWriteStep ==
    ASSUME IInv, prog' = prog, Steady, Darkens(mk, mk'), phase # "mark" => mk' = mk,
           NEW e \in Block \ Doomed, Tag[e] = "ephe", NEW g \in [1..Size[e] -> Value],
           fld' = [fld EXCEPT ![e] = g], EpheWrite(e, g),
           root' \in [Slots -> Value], Held' \cap Doomed = {}, phase = "mark" => Rooting,
           first' = first, last' = last, todo' = todo
    PROVE  IInv'
<1>a. Types /\ Lists /\ Safe
  BY DEF IInv
<1>1. FieldTypes' /\ fld'[e] = g /\ \A b \in Block : b # e => fld'[b] = fld[b]
  BY <1>a, BlockUpdate
<1>2. Edits
  BY <1>1 DEF Edits, EpheWrite
<1>3. phase = "clean" => CleanEdits
  <2>1. ASSUME NEW b \in Block, b # e PROVE CleanEdit(b)
    BY <2>1, <1>1 DEF CleanEdit
  <2> QED BY <2>1 DEF CleanEdits, EpheWrite
<1>4. ASSUME phase = "mark" PROVE MarkEdits
  <2>1. \A b \in Block : mk'.color[b] = "blue" <=> mk.color[b] = "blue"
    BY DEF Darkens
  <2>2. Rewiring
    BY <2>1, <1>1 DEF Rewiring, Scanned
  <2>3. \A j \in 1..Len(ephes) : ephes[j] \in Block
    BY <1>a, ListsFacts
  <2>4. DataKept
    BY <2>3, <1>1, <1>4 DEF DataKept, EpheWrite
  <2>5. KeysKept
    BY <2>3, <1>1, <1>4 DEF KeysKept, EpheWrite
  <2> QED BY <2>2, <2>4, <2>5, <1>4 DEF MarkEdits
<1>5. first' \subseteq Block /\ last' \subseteq Block /\ todo' \subseteq Block
  BY SameFinals
<1> QED BY <1>1, <1>2, <1>3, <1>4, <1>5, ProgramStep DEF Steady

\* The fields of a block: its data, and its keys.
LEMMA EpheShape ==
    ASSUME IInv, NEW e \in Block
    PROVE  /\ Size[e] \in Nat \ {0} /\ 1 \in 1..Size[e]
           /\ \A k \in 2..Size[e] : k \in 1..Size[e] /\ k # 1
           /\ \A i \in 1..Size[e] : i = 1 \/ i \in 2..Size[e]
           /\ fld[e] \in [1..Size[e] -> Value]
<1>1. Size[e] \in Nat \ {0}
  BY TypeFacts DEF IInv
<1>2. /\ 1 \in 1..Size[e]
      /\ \A k \in 2..Size[e] : k \in 1..Size[e] /\ k # 1
      /\ \A i \in 1..Size[e] : i = 1 \/ i \in 2..Size[e]
  BY <1>1
<1>3. fld[e] \in [1..Size[e] -> Value]
  BY DEF IInv, Types, FieldTypes, Index
<1> QED BY <1>1, <1>2, <1>3

\* The ephemeron in the slot s of the stack is alive.
LEMMA EpheFacts ==
    ASSUME IInv, NEW s \in Slots, Ephe(s)
    PROVE  /\ root[s] \in Block \ Doomed /\ Tag[root[s]] = "ephe"
           /\ Size[root[s]] \in Nat \ {0} /\ 1 \in 1..Size[root[s]]
           /\ \A k \in 2..Size[root[s]] : k \in 1..Size[root[s]] /\ k # 1
           /\ \A i \in 1..Size[root[s]] : i = 1 \/ i \in 2..Size[root[s]]
           /\ fld[root[s]] \in [1..Size[root[s]] -> Value]
<1>1. root[s] \in Block \ Doomed /\ Tag[root[s]] = "ephe"
  BY RootsAlive DEF Ephe
<1> QED BY <1>1, EpheShape

\* What do_check_key_clean leaves of an ephemeron.
KeyChecked(e, k, h) ==
    /\ \A i \in 1..Size[e] : h[i] = fld[e][i] \/ (h[i] = 0 /\ (i = k \/ i = 1))
    /\ phase = "clean" => h[1] = 0 \/ ~White(fld[e][k])
    /\ phase = "clean" => h[k] = 0 \/ ~White(h[k])
    /\ phase # "clean" => h = fld[e]

\* do_check_key_clean leaves such an ephemeron, and a key that is alive.
LEMMA KeyCheckedFacts ==
    ASSUME IInv, NEW e \in Block \ Doomed, Tag[e] = "ephe", NEW k \in 2..Size[e],
           NEW h, h = do_check_key_clean(e, k)
    PROVE  h \in [1..Size[e] -> Value] /\ KeyChecked(e, k, h) /\ h[k] \notin Doomed
<1>1. 1 \in 1..Size[e] /\ k \in 1..Size[e] /\ k # 1 /\ fld[e] \in [1..Size[e] -> Value]
  BY EpheShape
<1>2. 0 \in Value /\ 0 \notin Doomed /\ Value = Block \cup {0} /\ 0 \notin Block
  BY RootsAlive, TypeFacts DEF IInv
<1>3. h \in [1..Size[e] -> Value]
  BY <1>1, <1>2 DEF do_check_key_clean
<1>4. CASE phase = "clean" /\ White(fld[e][k])
  <2>1. h = [fld[e] EXCEPT ![k] = 0, ![1] = 0]
    BY <1>4 DEF do_check_key_clean
  <2>2. h[k] = 0 /\ h[1] = 0 /\ \A i \in 1..Size[e] : i = k \/ i = 1 \/ h[i] = fld[e][i]
    BY <2>1, <1>1
  <2>3. \A i \in 1..Size[e] : h[i] = fld[e][i] \/ (h[i] = 0 /\ (i = k \/ i = 1))
    BY <2>2
  <2> QED BY <2>2, <2>3, <1>2, <1>3, <1>4 DEF KeyChecked
<1>5. CASE ~(phase = "clean" /\ White(fld[e][k]))
  <2>1. h = fld[e]
    BY <1>5 DEF do_check_key_clean
  <2>2. KeyChecked(e, k, h)
    BY <2>1, <1>5 DEF KeyChecked
  <2>3. CASE phase # "clean"
    <3>1. fld[e][k] \notin Doomed
      BY <2>3, <1>1 DEF IInv, Safe, Index
    <3> QED BY <3>1, <2>1, <2>2, <1>3
  <2>4. CASE phase = "clean"
    <3>1. mk.color[e] # "blue" /\ ~White(h[k]) /\ h[k] \in Value
      BY <2>4, <2>1, <1>1, <1>3, <1>5 DEF Doomed
    <3>2. h[k] # 0 => mk.color[h[k]] # "blue"
      BY <3>1, <2>1, <2>4, <1>1 DEF IInv, Safe, Index
    <3>3. h[k] \notin Doomed
      BY <3>1, <3>2, <2>4, <1>2 DEF White, Doomed
    <3> QED BY <3>3, <2>2, <1>3
  <2> QED BY <2>2, <2>3, <2>4, <1>3
<1> QED BY <1>4, <1>5

\* caml_ephemeron_set_key: a dead key that is overwritten takes the data with it.
LEMMA SetKeyInv ==
    ASSUME IInv, ~KeysInMark, NEW s \in Slots, NEW k, caml_ephemeron_set_key(s, k), prog' = prog
    PROVE  IInv'
<1>1. PICK v \in {0} \cup {root[r] : r \in Slots} :
          fld' = [fld EXCEPT ![root[s]] = [do_check_key_clean(root[s], k) EXCEPT ![k] = v]]
  BY DEF caml_ephemeron_set_key
<1>2. PICK e, h, g : e = root[s] /\ h = do_check_key_clean(root[s], k) /\ g = [h EXCEPT ![k] = v]
  OBVIOUS
<1>3. /\ Ephe(s) /\ k \in 2..Size[e] /\ phase # "mark" /\ Steady /\ mk' = mk /\ root' = root
      /\ first' = first /\ last' = last /\ todo' = todo
  BY <1>2 DEF caml_ephemeron_set_key, Steady, gc, marking, finals, Keys
<1>4. /\ e \in Block \ Doomed /\ Tag[e] = "ephe" /\ 1 \in 1..Size[e] /\ k \in 1..Size[e] /\ k # 1
      /\ \A i \in 2..Size[e] : i \in 1..Size[e]
  BY <1>2, <1>3, EpheFacts
<1>5. v \in Value /\ v \notin Doomed /\ 0 \notin Block /\ Value = Block \cup {0}
  BY RootsAlive, TypeFacts DEF IInv
<1>6. h \in [1..Size[e] -> Value] /\ KeyChecked(e, k, h)
  BY <1>2, <1>3, <1>4, KeyCheckedFacts
<1>7. g \in [1..Size[e] -> Value] /\ g[k] = v /\ \A i \in 1..Size[e] : i # k => g[i] = h[i]
  BY <1>2, <1>4, <1>5, <1>6
<1>8. fld' = [fld EXCEPT ![e] = g]
  BY <1>1, <1>2
<1>9. fld'[e] = g
  BY <1>4, <1>7, <1>8, BlockUpdate DEF IInv
<1>10. \A i \in 1..Size[e] : g[i] = fld[e][i] \/ g[i] = 0 \/ (i = k /\ g[i] = v)
  BY <1>6, <1>7 DEF KeyChecked
<1>11. ASSUME phase = "clean" PROVE CleanEdit(e)
  <2>1. v = 0 \/ (v \in Block /\ mk.color[v] \notin {"white", "blue"})
    BY <1>5, <1>11 DEF Doomed
  <2>2. \A i \in 1..Size[e] :
          \/ fld'[e][i] = fld[e][i]
          \/ fld'[e][i] = 0
          \/ fld'[e][i] \in Block /\ mk.color[fld'[e][i]] \notin {"white", "blue"}
    BY <2>1, <1>9, <1>10
  <2>3. g[1] = h[1]
    BY <1>4, <1>7
  <2>4. CASE h[1] = 0
    BY <2>2, <2>3, <2>4, <1>9 DEF CleanEdit
  <2>5. CASE h[1] # 0
    <3>1. h[1] = fld[e][1] /\ ~White(fld[e][k])
      BY <2>5, <1>4, <1>6, <1>11 DEF KeyChecked
    <3>2. \A i \in 2..Size[e] : i # k => h[i] = fld[e][i]
      BY <1>4, <1>6 DEF KeyChecked
    <3>3. \A i \in 2..Size[e] : fld'[e][i] = fld[e][i] \/ ~White(fld[e][i])
      BY <3>1, <3>2, <1>4, <1>7, <1>9
    <3> QED BY <2>2, <2>3, <3>1, <3>3, <1>9 DEF CleanEdit
  <2> QED BY <2>4, <2>5
<1>12. EpheWrite(e, g)
  BY <1>3, <1>5, <1>10, <1>11, RootsAlive DEF EpheWrite
<1>13. root' \in [Slots -> Value] /\ Held' \cap Doomed = {} /\ Darkens(mk, mk')
  <2>1. Held' = Held
    BY <1>3, ProgSame DEF Held
  <2> QED BY <2>1, <1>3, RootsAlive, DarkensRefl DEF IInv, Types
<1> QED BY <1>3, <1>4, <1>7, <1>8, <1>12, <1>13, EpheWriteStep

\* caml_ephemeron_set_data and caml_ephemeron_unset_data.
LEMMA SetDataInv ==
    ASSUME IInv, NEW s \in Slots, caml_ephemeron_set_data(s), prog' = prog
    PROVE  IInv'
<1>1. PICK e, c : e = root[s] /\ c = CleanedIfClean(root[s])
  OBVIOUS
<1>2. /\ Ephe(s) /\ Steady /\ mk' = mk /\ root' = root /\ sub' = sub
      /\ first' = first /\ last' = last /\ todo' = todo
  BY DEF caml_ephemeron_set_data, Steady, gc, marking, finals
<1>3. /\ e \in Block \ Doomed /\ Tag[e] = "ephe" /\ 1 \in 1..Size[e]
      /\ \A k \in 2..Size[e] : k \in 1..Size[e] /\ k # 1
      /\ fld[e] \in [1..Size[e] -> Value]
  BY <1>1, <1>2, EpheFacts
<1>4. /\ c \in [1..Size[e] -> Value]
      /\ \A i \in 1..Size[e] : c[i] \notin Doomed
      /\ phase = "clean" => \A i \in 1..Size[e] : c[i] = 0 \/ (c[i] \in Block /\ mk.color[c[i]] \notin {"white", "blue"})
      /\ phase # "clean" => c = fld[e]
  BY <1>1, <1>3, CleanedAlive, Zenon
<1>5. root' \in [Slots -> Value] /\ Held' \cap Doomed = {} /\ Darkens(mk, mk') /\ Rooting
  <2>1. Held' = Held
    BY <1>2, ProgSame DEF Held
  <2>2. Rooting
    BY <1>2 DEF Rooting, Roots
  <2> QED BY <2>1, <2>2, <1>2, RootsAlive, DarkensRefl DEF IInv, Types
<1>6. ASSUME NEW g \in [1..Size[e] -> Value], fld' = [fld EXCEPT ![e] = g], EpheWrite(e, g) PROVE IInv'
  BY <1>6, <1>2, <1>3, <1>5, EpheWriteStep
<1>7. 0 \in Value /\ 0 \notin Doomed /\ 0 \notin Block /\ Value = Block \cup {0}
  BY RootsAlive, TypeFacts DEF IInv
<1>8. CASE \E r \in Slots : fld' = [fld EXCEPT ![root[s]] = [CleanedIfClean(root[s]) EXCEPT ![1] = root[r]]]
  <2>1. PICK r \in Slots : fld' = [fld EXCEPT ![root[s]] = [CleanedIfClean(root[s]) EXCEPT ![1] = root[r]]]
    BY <1>8
  <2>2. PICK g : g = [c EXCEPT ![1] = root[r]]
    OBVIOUS
  <2>3. root[r] \in Value /\ root[r] \notin Doomed /\ root[r] \in Roots
    BY RootsAlive DEF Roots
  <2>4. g \in [1..Size[e] -> Value] /\ g[1] = root[r] /\ \A k \in 2..Size[e] : g[k] = c[k]
    BY <2>2, <2>3, <1>3, <1>4
  <2>5. fld' = [fld EXCEPT ![e] = g]
    BY <2>1, <2>2, <1>1
  <2>6. fld'[e] = g
    BY <2>4, <2>5, <1>3, BlockUpdate DEF IInv
  <2>7. \A i \in 1..Size[e] : g[i] \notin Doomed
    BY <2>2, <2>3, <1>3, <1>4
  <2>8. phase = "clean" => CleanEdit(e)
    BY <2>4, <2>6, <2>7, <1>3, <1>7 DEF CleanEdit, Doomed
  <2>9. EpheWrite(e, g)
    BY <2>3, <2>4, <2>7, <2>8, <1>3, <1>4 DEF EpheWrite
  <2> QED BY <2>4, <2>5, <2>9, <1>6
<1>9. CASE fld' = [fld EXCEPT ![root[s]][1] = 0]
  <2>1. PICK g : g = [fld[e] EXCEPT ![1] = 0]
    OBVIOUS
  <2>2. g \in [1..Size[e] -> Value] /\ g[1] = 0 /\ \A k \in 2..Size[e] : g[k] = fld[e][k]
    BY <2>1, <1>3, <1>7
  <2>3. \A i \in 1..Size[e] : g[i] = fld[e][i] \/ g[i] = 0
    BY <2>1, <1>3
  <2>4. fld' = [fld EXCEPT ![e] = g]
    BY <2>1, <1>1, <1>9, Zenon
  <2>5. fld'[e] = g
    BY <2>2, <2>4, <1>3, BlockUpdate DEF IInv
  <2>6. CleanEdit(e)
    BY <2>2, <2>3, <2>5 DEF CleanEdit
  <2>7. EpheWrite(e, g)
    BY <2>2, <2>3, <2>6, <1>7 DEF EpheWrite
  <2> QED BY <2>2, <2>4, <2>7, <1>6
<1> QED BY <1>8, <1>9 DEF caml_ephemeron_set_data

\* Reading the field k of the live ephemeron e, which the read may clean, into a slot.
LEMMA GetStep ==
    ASSUME IInv, prog' = prog, Steady, NEW r \in Slots, NEW e \in Block \ Doomed, Tag[e] = "ephe",
           NEW g \in [1..Size[e] -> Value], NEW k \in 1..Size[e], g[k] \notin Doomed,
           fld' = [fld EXCEPT ![e] = g], phase # "clean" => g = fld[e],
           \A i \in 1..Size[e] : g[i] = fld[e][i] \/ g[i] \notin Doomed, phase = "clean" => CleanEdit(e),
           root' = [root EXCEPT ![r] = g[k]],
           NEW ok \in BOOLEAN, mk' = IF phase = "mark" THEN caml_darken(mk, g[k], ok) ELSE mk,
           first' = first, last' = last, todo' = todo
    PROVE  IInv'
<1>1. PICK c : c = g[k]
  OBVIOUS
<1>2. c \in Value /\ c \notin Doomed /\ Types
  BY <1>1 DEF IInv
<1>3. /\ root' \in [Slots -> Value] /\ Held' \cap Doomed = {}
      /\ root'[r] = c /\ \A q \in Slots : q # r => root'[q] = root[q]
  BY <1>1, <1>2, SlotFacts
<1>4. /\ Darkens(mk, mk') /\ (phase # "mark" => mk' = mk)
      /\ phase = "mark" /\ c # 0 => mk'.color[c] # "white"
  <2>1. CASE phase = "mark"
    <3>1. /\ GrayMax \in Nat /\ Tag \in [Block -> {"scan", "noscan", "fwd", "ephe"}] /\ N \in Nat
          /\ mk \in MarkState
      BY <1>2, ProgFacts DEF Types
    <3>2. /\ Darkens(mk, caml_darken(mk, c, ok))
          /\ c # 0 => caml_darken(mk, c, ok).color[c] # "white"
      BY <3>1, <1>2, DarkenFacts
    <3> QED BY <3>2, <2>1, <1>1
  <2>2. CASE phase # "mark"
    BY <2>2, <1>2, DarkensRefl DEF Types
  <2> QED BY <2>1, <2>2
<1>5. phase = "mark" => Rooting
  BY <1>3, <1>4 DEF Rooting, Roots, Steady
<1>6. EpheWrite(e, g)
  BY DEF EpheWrite
<1> QED BY <1>3, <1>4, <1>5, <1>6, EpheWriteStep

\* caml_ephemeron_get_key.
LEMMA GetKeyInv ==
    ASSUME IInv, NEW r \in Slots, NEW s \in Slots, NEW k, caml_ephemeron_get_key(r, s, k), prog' = prog
    PROVE  IInv'
<1>1. PICK e, h : e = root[s] /\ h = do_check_key_clean(root[s], k)
  OBVIOUS
<1>2. /\ Ephe(s) /\ k \in 2..Size[e] /\ Steady /\ first' = first /\ last' = last /\ todo' = todo
      /\ fld' = [fld EXCEPT ![e] = h]
  BY <1>1 DEF caml_ephemeron_get_key, Steady, gc, marking, finals, Keys
<1>3. /\ e \in Block \ Doomed /\ Tag[e] = "ephe" /\ 1 \in 1..Size[e] /\ k \in 1..Size[e] /\ k # 1
      /\ \A i \in 2..Size[e] : i \in 1..Size[e] /\ i # 1
  BY <1>1, <1>2, EpheFacts
<1>4. h \in [1..Size[e] -> Value] /\ KeyChecked(e, k, h) /\ h[k] \notin Doomed
  BY <1>1, <1>2, <1>3, KeyCheckedFacts
<1>5. fld'[e] = h
  BY <1>2, <1>3, <1>4, BlockUpdate DEF IInv
<1>6. /\ root' = [root EXCEPT ![r] = h[k]]
      /\ \E ok \in BOOLEAN : mk' = IF phase = "mark" THEN caml_darken(mk, h[k], ok) ELSE mk
  BY <1>1, <1>5 DEF caml_ephemeron_get_key
<1>7. PICK ok \in BOOLEAN : mk' = IF phase = "mark" THEN caml_darken(mk, h[k], ok) ELSE mk
  BY <1>6
<1>8. \A i \in 1..Size[e] : h[i] = fld[e][i] \/ h[i] = 0
  BY <1>4 DEF KeyChecked
<1>9. ASSUME phase = "clean" PROVE CleanEdit(e)
  <2>1. CASE h[1] = 0
    BY <2>1, <1>5, <1>8 DEF CleanEdit
  <2>2. CASE h[1] # 0
    <3>1. h[1] = fld[e][1] /\ ~White(fld[e][k])
      BY <2>2, <1>3, <1>4, <1>9 DEF KeyChecked
    <3>2. \A i \in 2..Size[e] : i # k => h[i] = fld[e][i]
      BY <1>3, <1>4 DEF KeyChecked
    <3>3. \A i \in 2..Size[e] : fld'[e][i] = fld[e][i] \/ ~White(fld[e][i])
      BY <3>1, <3>2, <1>5
    <3> QED BY <3>1, <3>3, <1>5, <1>8 DEF CleanEdit
  <2> QED BY <2>1, <2>2
<1>10. \A i \in 1..Size[e] : h[i] = fld[e][i] \/ h[i] \notin Doomed
  BY <1>8, RootsAlive
<1>11. phase # "clean" => h = fld[e]
  BY <1>4 DEF KeyChecked
<1> QED BY <1>2, <1>3, <1>4, <1>6, <1>7, <1>9, <1>10, <1>11, GetStep

\* caml_ephemeron_get_data.
LEMMA GetDataInv ==
    ASSUME IInv, NEW r \in Slots, NEW s \in Slots, caml_ephemeron_get_data(r, s), prog' = prog
    PROVE  IInv'
<1>1. PICK e, c : e = root[s] /\ c = CleanedIfClean(root[s])
  OBVIOUS
<1>2. /\ Ephe(s) /\ Steady /\ first' = first /\ last' = last /\ todo' = todo
      /\ fld' = [fld EXCEPT ![e] = c]
  BY <1>1 DEF caml_ephemeron_get_data, Steady, gc, marking, finals
<1>3. /\ e \in Block \ Doomed /\ Tag[e] = "ephe" /\ 1 \in 1..Size[e]
  BY <1>1, <1>2, EpheFacts
<1>4. /\ c \in [1..Size[e] -> Value]
      /\ \A i \in 1..Size[e] : c[i] \notin Doomed
      /\ phase = "clean" => \A i \in 1..Size[e] : c[i] = 0 \/ (c[i] \in Block /\ mk.color[c[i]] \notin {"white", "blue"})
      /\ phase # "clean" => c = fld[e]
  BY <1>1, <1>3, CleanedAlive, Zenon
<1>5. fld'[e] = c
  BY <1>2, <1>3, <1>4, BlockUpdate DEF IInv
<1>6. /\ root' = [root EXCEPT ![r] = c[1]]
      /\ \E ok \in BOOLEAN : mk' = IF phase = "mark" THEN caml_darken(mk, c[1], ok) ELSE mk
  BY <1>1, <1>5 DEF caml_ephemeron_get_data
<1>7. PICK ok \in BOOLEAN : mk' = IF phase = "mark" THEN caml_darken(mk, c[1], ok) ELSE mk
  BY <1>6
<1>8. phase = "clean" => CleanEdit(e)
  BY <1>3, <1>4, <1>5 DEF CleanEdit
<1> QED BY <1>2, <1>3, <1>4, <1>6, <1>7, <1>8, GetStep

\* A step outside of the mark phase that writes fields of live ephemerons only.
LEMMA QuietWriteStep ==
    ASSUME IInv, prog' = prog, Steady, phase # "mark", mk' = mk, root' = root,
           first' = first, last' = last, todo' = todo, FieldTypes',
           \A b \in Block :
              \/ fld'[b] = fld[b]
              \/ /\ b \notin Doomed /\ Tag[b] = "ephe"
                 /\ \A i \in 1..Size[b] : fld'[b][i] = fld[b][i] \/ fld'[b][i] \notin Doomed
                 /\ phase = "clean" => CleanEdit(b)
    PROVE  IInv'
<1>1. Edits
  BY DEF Edits
<1>2. phase = "clean" => CleanEdits
  BY DEF CleanEdits, CleanEdit
<1>3. Held' = Held
  BY ProgSame DEF Held
<1>4. /\ root' \in [Slots -> Value] /\ Held' \cap Doomed = {} /\ Darkens(mk, mk')
      /\ first' \subseteq Block /\ last' \subseteq Block /\ todo' \subseteq Block
  BY <1>3, RootsAlive, DarkensRefl DEF IInv, Types
<1> QED BY <1>1, <1>2, <1>4, ProgramStep DEF Steady

\* The fields f are those of the state but for the blocks p and q; p has the fields a.
Based(f, p, q, a) ==
    /\ DOMAIN f = Block /\ (p # q => f[p] = a)
    /\ \A o \in Block : o # p /\ o # q => f[o] = fld[o]

\* Both blocks are written, and then the second once more.
LEMMA TwoUpdates ==
    ASSUME Types, prog' = prog, NEW p \in Block, NEW q \in Block, NEW f, NEW a, NEW w,
           a \in [1..Size[p] -> Value], w \in [1..Size[q] -> Value],
           Based(f, p, q, a), fld' = [f EXCEPT ![q] = w]
    PROVE  FieldTypes' /\ fld'[q] = w /\ Based(fld', p, q, a)
<1>0. DOMAIN f = Block /\ (p # q => f[p] = a) /\ \A o \in Block : o # p /\ o # q => f[o] = fld[o]
  BY DEF Based
<1>1. \A o \in Block : fld[o] \in [1..Size[o] -> Value]
  BY DEF Types, FieldTypes, Index
<1>3. /\ DOMAIN fld' = Block /\ fld'[q] = w /\ (p # q => fld'[p] = a)
      /\ \A o \in Block : o # p /\ o # q => fld'[o] = fld[o]
  BY <1>0
<1>4. fld' = [o \in Block |-> fld'[o]]
  BY <1>0
<1>5. \A o \in Block : fld'[o] \in [1..Size[o] -> Value]
  <2> SUFFICES ASSUME NEW o \in Block PROVE fld'[o] \in [1..Size[o] -> Value]
    OBVIOUS
  <2>1. CASE o = q
    BY <2>1, <1>3
  <2>2. CASE o = p /\ p # q
    BY <2>2, <1>3
  <2>3. CASE o # p /\ o # q
    BY <2>3, <1>1, <1>3
  <2> QED BY <2>1, <2>2, <2>3
<1>6. FieldTypes'
  BY <1>3, <1>4, <1>5, ProgSame DEF FieldTypes, Index
<1> QED BY <1>3, <1>6 DEF Based

\* caml_ephemeron_blit_data.
LEMMA BlitDataInv ==
    ASSUME IInv, ~KeysInMark, NEW s \in Slots, NEW t \in Slots, caml_ephemeron_blit_data(s, t), prog' = prog
    PROVE  IInv'
<1>1. PICK p, q, a, b : p = root[s] /\ q = root[t] /\ a = CleanedIfClean(root[s]) /\ b = CleanedIfClean(root[t])
  OBVIOUS
<1>2. PICK f : f = [fld EXCEPT ![p] = a, ![q] = b]
  OBVIOUS
<1>3. PICK w : w = [f[q] EXCEPT ![1] = f[p][1]]
  OBVIOUS
<1>4. /\ Ephe(s) /\ Ephe(t) /\ phase # "mark" /\ Steady /\ mk' = mk /\ root' = root
      /\ first' = first /\ last' = last /\ todo' = todo
  BY DEF caml_ephemeron_blit_data, Steady, gc, marking, finals
<1>5. fld' = [f EXCEPT ![q] = w]
  <2>1. fld' = [f EXCEPT ![q][1] = f[p][1]]
    BY <1>1, <1>2 DEF caml_ephemeron_blit_data
  <2> QED BY <2>1, <1>3, Zenon
<1>6. /\ p \in Block \ Doomed /\ Tag[p] = "ephe" /\ 1 \in 1..Size[p]
      /\ q \in Block \ Doomed /\ Tag[q] = "ephe" /\ 1 \in 1..Size[q]
  BY <1>1, <1>4, EpheFacts
<1>7. /\ a \in [1..Size[p] -> Value]
      /\ \A i \in 1..Size[p] : a[i] \notin Doomed
      /\ phase = "clean" => \A i \in 1..Size[p] : a[i] = 0 \/ (a[i] \in Block /\ mk.color[a[i]] \notin {"white", "blue"})
  BY <1>1, <1>6, CleanedAlive, Zenon
<1>8. /\ b \in [1..Size[q] -> Value]
      /\ \A i \in 1..Size[q] : b[i] \notin Doomed
      /\ phase = "clean" => \A i \in 1..Size[q] : b[i] = 0 \/ (b[i] \in Block /\ mk.color[b[i]] \notin {"white", "blue"})
  BY <1>1, <1>6, CleanedAlive, Zenon
<1>9. /\ f[q] = b /\ (p # q => f[p] = a) /\ DOMAIN f = Block
      /\ \A o \in Block : o # p /\ o # q => f[o] = fld[o]
  <2>1. DOMAIN fld = Block
    BY DEF IInv, Types, FieldTypes
  <2> QED BY <2>1, <1>2, <1>6
<1>10. /\ w \in [1..Size[q] -> Value]
       /\ \A i \in 1..Size[q] : w[i] = b[i] \/ (p # q /\ w[i] = a[1])
  <2>1. CASE p = q
    BY <2>1, <1>3, <1>6, <1>8, <1>9
  <2>2. CASE p # q
    <3>1. w = [b EXCEPT ![1] = a[1]] /\ a[1] \in Value
      BY <2>2, <1>3, <1>6, <1>7, <1>9
    <3> QED BY <3>1, <2>2, <1>6, <1>8
  <2> QED BY <2>1, <2>2
<1>11. /\ FieldTypes' /\ fld'[q] = w /\ (p # q => fld'[p] = a)
       /\ \A o \in Block : o # p /\ o # q => fld'[o] = fld[o]
  <2>1. Types /\ p \in Block /\ q \in Block /\ a \in [1..Size[p] -> Value] /\ w \in [1..Size[q] -> Value]
    BY <1>6, <1>7, <1>10 DEF IInv
  <2>2. Based(f, p, q, a)
    BY <1>9 DEF Based
  <2>3. FieldTypes' /\ fld'[q] = w /\ Based(fld', p, q, a)
    BY <2>1, <2>2, <1>5, TwoUpdates
  <2> QED BY <2>3 DEF Based
<1>12. ASSUME NEW o \in Block
       PROVE  \/ fld'[o] = fld[o]
              \/ /\ o \notin Doomed /\ Tag[o] = "ephe"
                 /\ \A i \in 1..Size[o] : fld'[o][i] = fld[o][i] \/ fld'[o][i] \notin Doomed
                 /\ phase = "clean" => CleanEdit(o)
  <2>1. CASE o = q
    <3>1. \A i \in 1..Size[q] : fld'[q][i] \notin Doomed
      BY <1>6, <1>7, <1>8, <1>10, <1>11
    <3>2. phase = "clean" => \A i \in 1..Size[q] : fld'[q][i] = 0 \/ (fld'[q][i] \in Block /\ mk.color[fld'[q][i]] \notin {"white", "blue"})
      BY <1>6, <1>7, <1>8, <1>10, <1>11
    <3>3. phase = "clean" => CleanEdit(q)
      BY <3>2, <1>6 DEF CleanEdit
    <3> QED BY <2>1, <3>1, <3>3, <1>6
  <2>2. CASE o = p /\ p # q
    <3>1. phase = "clean" => CleanEdit(p)
      BY <2>2, <1>6, <1>7, <1>11 DEF CleanEdit
    <3> QED BY <2>2, <3>1, <1>6, <1>7, <1>11
  <2>3. CASE o # p /\ o # q
    BY <2>3, <1>11
  <2> QED BY <2>1, <2>2, <2>3
<1> QED BY <1>4, <1>11, <1>12, QuietWriteStep

\* caml_ephemeron_blit_key: an ephemeron without data need not be cleaned to receive keys.
LEMMA BlitKeyInv ==
    ASSUME IInv, ~KeysInMark, NEW s \in Slots, NEW t \in Slots, caml_ephemeron_blit_key(s, t), prog' = prog
    PROVE  IInv'
<1>1. PICK p, q, a, b : /\ p = root[s] /\ q = root[t] /\ a = CleanedIfClean(root[s])
                        /\ b = IF fld[root[t]][1] # 0 THEN CleanedIfClean(root[t]) ELSE fld[root[t]]
  OBVIOUS
<1>2. PICK f : f = [fld EXCEPT ![p] = a, ![q] = b]
  OBVIOUS
<1>3. PICK w : w = [i \in 1..Size[q] |-> IF i = 1 THEN f[q][1] ELSE f[p][i]]
  OBVIOUS
<1>4. /\ Ephe(s) /\ Ephe(t) /\ phase # "mark" /\ Steady /\ mk' = mk /\ root' = root
      /\ first' = first /\ last' = last /\ todo' = todo /\ Size[p] = Size[q]
  BY <1>1 DEF caml_ephemeron_blit_key, Steady, gc, marking, finals
<1>5. fld' = [f EXCEPT ![q] = w]
  BY <1>1, <1>2, <1>3 DEF caml_ephemeron_blit_key, Index
<1>6. /\ p \in Block \ Doomed /\ Tag[p] = "ephe" /\ 1 \in 1..Size[p]
      /\ q \in Block \ Doomed /\ Tag[q] = "ephe" /\ 1 \in 1..Size[q]
      /\ fld[q] \in [1..Size[q] -> Value]
  BY <1>1, <1>4, EpheFacts
<1>7. /\ a \in [1..Size[p] -> Value]
      /\ \A i \in 1..Size[p] : a[i] \notin Doomed
      /\ phase = "clean" => \A i \in 1..Size[p] : a[i] = 0 \/ (a[i] \in Block /\ mk.color[a[i]] \notin {"white", "blue"})
  BY <1>1, <1>6, CleanedAlive, Zenon
<1>8. /\ b \in [1..Size[q] -> Value]
      /\ \A i \in 1..Size[q] : b[i] = fld[q][i] \/ b[i] \notin Doomed
      /\ phase = "clean" => \A i \in 1..Size[q] : b[i] = fld[q][i] \/ b[i] = 0 \/ (b[i] \in Block /\ mk.color[b[i]] \notin {"white", "blue"})
      /\ phase = "clean" => b[1] = 0 \/ (b[1] \in Block /\ mk.color[b[1]] \notin {"white", "blue"})
  <2>1. PICK c : c = CleanedIfClean(q)
    OBVIOUS
  <2>2. /\ c \in [1..Size[q] -> Value]
        /\ \A i \in 1..Size[q] : c[i] \notin Doomed
        /\ phase = "clean" => \A i \in 1..Size[q] : c[i] = 0 \/ (c[i] \in Block /\ mk.color[c[i]] \notin {"white", "blue"})
    BY <2>1, <1>6, CleanedAlive, Zenon
  <2>3. b = c \/ (b = fld[q] /\ b[1] = 0)
    BY <2>1, <1>1
  <2>4. CASE b = c
    BY <2>2, <2>4, <1>6
  <2>5. CASE b = fld[q] /\ b[1] = 0
    BY <2>5, <1>6
  <2> QED BY <2>3, <2>4, <2>5
<1>9. /\ f[q] = b /\ (p # q => f[p] = a) /\ DOMAIN f = Block
      /\ \A o \in Block : o # p /\ o # q => f[o] = fld[o]
  <2>1. DOMAIN fld = Block
    BY DEF IInv, Types, FieldTypes
  <2> QED BY <2>1, <1>2, <1>6
<1>10. /\ w \in [1..Size[q] -> Value] /\ w[1] = b[1]
       /\ \A i \in 1..Size[q] : w[i] = b[i] \/ w[i] = a[i]
  <2>1. \A i \in 1..Size[q] : w[i] = b[i] \/ (p # q /\ w[i] = a[i])
    BY <1>3, <1>9
  <2>2. \A i \in 1..Size[q] : w[i] \in Value
    BY <2>1, <1>4, <1>7, <1>8
  <2>3. w[1] = b[1]
    BY <1>3, <1>6, <1>9
  <2>4. w = [i \in 1..Size[q] |-> w[i]]
    BY <1>3
  <2> QED BY <2>1, <2>2, <2>3, <2>4
<1>11. /\ FieldTypes' /\ fld'[q] = w /\ (p # q => fld'[p] = a)
       /\ \A o \in Block : o # p /\ o # q => fld'[o] = fld[o]
  <2>1. Types /\ p \in Block /\ q \in Block /\ a \in [1..Size[p] -> Value] /\ w \in [1..Size[q] -> Value]
    BY <1>6, <1>7, <1>10 DEF IInv
  <2>2. Based(f, p, q, a)
    BY <1>9 DEF Based
  <2>3. FieldTypes' /\ fld'[q] = w /\ Based(fld', p, q, a)
    BY <2>1, <2>2, <1>5, TwoUpdates
  <2> QED BY <2>3 DEF Based
<1>12. ASSUME NEW o \in Block
       PROVE  \/ fld'[o] = fld[o]
              \/ /\ o \notin Doomed /\ Tag[o] = "ephe"
                 /\ \A i \in 1..Size[o] : fld'[o][i] = fld[o][i] \/ fld'[o][i] \notin Doomed
                 /\ phase = "clean" => CleanEdit(o)
  <2>1. CASE o = q
    <3>1. \A i \in 1..Size[q] : fld'[q][i] = fld[q][i] \/ fld'[q][i] \notin Doomed
      BY <1>4, <1>7, <1>8, <1>10, <1>11
    <3>2. phase = "clean" => \A i \in 1..Size[q] :
             fld'[q][i] = fld[q][i] \/ fld'[q][i] = 0 \/ (fld'[q][i] \in Block /\ mk.color[fld'[q][i]] \notin {"white", "blue"})
      BY <1>4, <1>7, <1>8, <1>10, <1>11
    <3>3. phase = "clean" => fld'[q][1] = 0 \/ (fld'[q][1] \in Block /\ mk.color[fld'[q][1]] \notin {"white", "blue"})
      BY <1>8, <1>10, <1>11
    <3>4. phase = "clean" => CleanEdit(q)
      BY <3>2, <3>3 DEF CleanEdit
    <3> QED BY <2>1, <3>1, <3>4, <1>6
  <2>2. CASE o = p /\ p # q
    <3>1. phase = "clean" => CleanEdit(p)
      BY <2>2, <1>6, <1>7, <1>11 DEF CleanEdit
    <3> QED BY <2>2, <3>1, <1>6, <1>7, <1>11
  <2>3. CASE o # p /\ o # q
    BY <2>3, <1>11
  <2> QED BY <2>1, <2>2, <2>3
<1> QED BY <1>4, <1>11, <1>12, QuietWriteStep

(***************************************************************************)
(* Allocation                                                              *)
(***************************************************************************)
\* A list of ephemerons with b in front.
Consed(l, b, m) ==
    /\ Len(m) = Len(l) + 1 /\ m[1] = b
    /\ \A j \in 1..Len(l) : m[j + 1] = l[j]
    /\ \A j \in 1..Len(m) : j = 1 \/ (j - 1 \in 1..Len(l) /\ m[j] = l[j - 1])

\* The list of ephemerons with a new one in front,
LEMMA ConsFacts ==
    ASSUME NEW S, NEW l \in Seq(S), NEW b \in S, NEW m, m = <<b>> \o l
    PROVE  m \in Seq(S) /\ Consed(l, b, m)
<1>1. <<b>> \in Seq(S) /\ Len(<<b>>) = 1 /\ <<b>>[1] = b /\ Len(l) \in Nat
  OBVIOUS
<1>2. PICK a : a = <<b>>
  OBVIOUS
<1>3. a \in Seq(S) /\ Len(a) = 1 /\ a[1] = b
  BY <1>1, <1>2
<1>4. m \in Seq(S) /\ Joined(m, a, l)
  BY <1>2, <1>3, ConcatFacts
<1>5. Len(m) = Len(l) + 1 /\ \A j \in 1..(1 + Len(l)) : m[j] = IF j <= 1 THEN a[j] ELSE l[j - 1]
  BY <1>1, <1>3, <1>4 DEF Joined
<1> QED BY <1>1, <1>3, <1>4, <1>5 DEF Consed

\* in which the others are one place further.
LEMMA ConsPos ==
    ASSUME NEW S, NEW l \in Seq(S), NEW b \in S, NEW m \in Seq(S), Consed(l, b, m), NoDup(l), ~Listed(l, b)
    PROVE  /\ NoDup(m) /\ Listed(m, b)
           /\ \A p : Listed(l, p) => Listed(m, p)
           /\ \A p : Listed(m, p) => p = b \/ Listed(l, p)
           /\ \A p : p # 0 /\ Listed(l, p) => Pos(m, p) = Pos(l, p) + 1
<1>1. Len(l) \in Nat /\ Len(m) = Len(l) + 1 /\ 1 \in 1..Len(m) /\ \A j \in 1..Len(l) : j + 1 \in 1..Len(m)
  BY DEF Consed
<1>2. NoDup(m)
  <2> SUFFICES ASSUME NEW j \in 1..Len(m), NEW k \in 1..Len(m), m[j] = m[k] PROVE j = k
    BY DEF NoDup
  <2>1. CASE j = 1 /\ k # 1
    BY <2>1 DEF Consed, Listed
  <2>2. CASE j # 1 /\ k = 1
    BY <2>2 DEF Consed, Listed
  <2>3. CASE j # 1 /\ k # 1
    <3>1. j - 1 \in 1..Len(l) /\ k - 1 \in 1..Len(l) /\ l[j - 1] = l[k - 1]
      BY <2>3 DEF Consed
    <3>2. j - 1 = k - 1
      BY <3>1 DEF NoDup
    <3> QED BY <3>2
  <2> QED BY <2>1, <2>2, <2>3
<1>3. Listed(m, b) /\ \A p : Listed(l, p) => Listed(m, p)
  BY <1>1 DEF Consed, Listed
<1>4. ASSUME NEW p, Listed(m, p) PROVE p = b \/ Listed(l, p)
  <2>1. PICK j \in 1..Len(m) : m[j] = p
    BY <1>4 DEF Listed
  <2>2. j = 1 \/ (j - 1 \in 1..Len(l) /\ m[j] = l[j - 1])
    BY DEF Consed
  <2> QED BY <2>1, <2>2 DEF Consed, Listed
<1>5. ASSUME NEW p, p # 0, Listed(l, p) PROVE Pos(m, p) = Pos(l, p) + 1
  <2>1. Pos(l, p) \in 0..Len(l) /\ Pos(l, p) # 0 /\ l[Pos(l, p)] = p
    BY <1>5, PosFacts
  <2>2. PICK j : j = Pos(l, p)
    OBVIOUS
  <2>3. j \in 1..Len(l) /\ l[j] = p
    BY <2>1, <2>2, <1>1
  <2>4. j + 1 \in 1..Len(m) /\ m[j + 1] = p
    BY <2>3, <1>1 DEF Consed
  <2>5. Pos(m, p) = j + 1
    BY <2>4, <1>2, <1>5, PosUnique
  <2> QED BY <2>2, <2>5
<1> QED BY <1>2, <1>3, <1>4, <1>5

\* What becomes of the list of ephemerons when b is allocated.
NewList(b) ==
    /\ ephes' \in Seq(Block)
    /\ \A p : Listed(ephes, p) => Listed(ephes', p)
    /\ \A p : Listed(ephes', p) => (p = b /\ Tag[b] = "ephe") \/ Listed(ephes, p)
    /\ Tag[b] = "ephe" => Listed(ephes', b)
    /\ phase = "mark" => \A j \in 1..Done' :
          (ephes'[j] = b /\ Tag[b] = "ephe") \/ \E k \in 1..Done : ephes'[j] = ephes[k]
    /\ phase \in {"mark", "clean"} => \A j \in 1..Seen' : j \in 1..Len(ephes') /\
          ((ephes'[j] = b /\ Tag[b] = "ephe") \/ \E k \in 1..Seen : ephes'[j] = ephes[k])

\* The place of the link p when b is put in front of the list.
LEMMA ConsLink ==
    ASSUME NEW l \in Seq(Block), NEW b \in Block, NEW m \in Seq(Block), Consed(l, b, m), NoDup(l), ~Listed(l, b),
           NEW p, p # 0 => Listed(l, p)
    PROVE  /\ Pos(m, p) \in 0..Len(m)
           /\ p = 0 => Pos(m, p) = 0 /\ Pos(l, p) = 0
           /\ p # 0 => Pos(m, p) = Pos(l, p) + 1
           /\ \A j \in 1..Pos(m, p) : j \in 1..Len(m) /\ (m[j] = b \/ \E k \in 1..Pos(l, p) : m[j] = l[k])
<1>1. Len(l) \in Nat /\ Len(m) = Len(l) + 1 /\ Pos(l, p) \in 0..Len(l)
  BY PosFacts DEF Consed
<1>2. CASE p = 0
  <2>1. Pos(m, p) = 0 /\ Pos(l, p) = 0
    BY <1>2 DEF Pos
  <2> QED BY <2>1, <1>1, <1>2
<1>3. CASE p # 0
  <2>1. PICK i : i = Pos(l, p)
    OBVIOUS
  <2>2. Pos(m, p) = i + 1 /\ i \in 0..Len(l)
    BY <2>1, <1>1, <1>3, ConsPos
  <2>3. ASSUME NEW j \in 1..(i + 1) PROVE j \in 1..Len(m) /\ (m[j] = b \/ \E k \in 1..i : m[j] = l[k])
    <3>1. j \in 1..Len(m)
      BY <2>2, <1>1
    <3>2. CASE j = 1
      BY <3>1, <3>2 DEF Consed
    <3>3. CASE j # 1
      <4>1. m[j] = l[j - 1] /\ j - 1 \in 1..i
        BY <3>1, <3>3, <2>2 DEF Consed
      <4> QED BY <3>1, <4>1
    <3> QED BY <3>2, <3>3
  <2> QED BY <2>1, <2>2, <2>3, <1>1, <1>3
<1> QED BY <1>2, <1>3

\* caml_ephemeron_create puts the ephemeron where the collector has already been.
LEMMA NewLists ==
    ASSUME IInv, prog' = prog, NEW b \in Block, ~Listed(ephes, b),
           UNCHANGED <<phase, checked, tocheck>>,
           ephes' = IF Tag[b] = "ephe" THEN <<b>> \o ephes ELSE ephes
    PROVE  Lists' /\ NewList(b)
<1>a. Lists /\ ephes \in Seq(Block) /\ NoDup(ephes)
  BY DEF IInv, Lists
<1>p. Block' = Block /\ Tag' = Tag
  BY ProgSame
<1>1. CASE Tag[b] # "ephe"
  <2>1. ephes' = ephes
    BY <1>1
  <2>2. Lists' /\ Done' = Done /\ Seen' = Seen
    BY <2>1, <1>a, ListsSame
  <2>3. phase \in {"mark", "clean"} => Seen \in 0..Len(ephes) /\ Len(ephes) \in Nat
    BY <1>a, ListsFacts
  <2>4. phase \in {"mark", "clean"} => \A j \in 1..Seen : j \in 1..Len(ephes)
    BY <2>3
  <2> QED BY <2>1, <2>2, <2>4, <1>1, <1>a DEF NewList
<1>2. CASE Tag[b] = "ephe"
  <2>0. PICK m : m = ephes'
    OBVIOUS
  <2>1. m \in Seq(Block) /\ Consed(ephes, b, m)
    BY <2>0, <1>2, <1>a, ConsFacts
  <2>2. /\ NoDup(m) /\ Listed(m, b)
        /\ \A p : Listed(ephes, p) => Listed(m, p)
        /\ \A p : Listed(m, p) => p = b \/ Listed(ephes, p)
    BY <2>1, <1>a, ConsPos
  <2>3. Done' = Pos(m, checked) /\ Seen' = Pos(m, tocheck) /\ Done = Pos(ephes, checked) /\ Seen = Pos(ephes, tocheck)
    BY <2>0 DEF Done, Seen
  <2>4. ASSUME phase = "mark"
        PROVE  /\ checked # 0 => Listed(m, checked)
               /\ Done' <= Seen'
               /\ \A j \in 1..Done' : ephes'[j] = b \/ \E k \in 1..Done : ephes'[j] = ephes[k]
    <3>1. (checked # 0 => Listed(ephes, checked)) /\ (tocheck # 0 => Listed(ephes, tocheck)) /\ Done <= Seen
      BY <2>4, <1>a DEF Lists
    <3>2. /\ checked = 0 => Done' = 0 /\ Done = 0
          /\ checked # 0 => Done' = Done + 1
          /\ \A j \in 1..Done' : m[j] = b \/ \E k \in 1..Done : m[j] = ephes[k]
      BY <2>1, <2>3, <3>1, <1>a, ConsLink
    <3>3. /\ tocheck = 0 => Seen' = 0 /\ Seen = 0
          /\ tocheck # 0 => Seen' = Seen + 1
          /\ Seen' \in 0..Len(m)
      BY <2>1, <2>3, <3>1, <1>a, ConsLink
    <3>4. (checked = 0 <=> Done = 0) /\ (tocheck = 0 <=> Seen = 0) /\ Done \in Nat /\ Seen \in Nat /\ Len(m) \in Nat
      BY <2>1, <2>3, <3>1, <1>a, PosFacts
    <3>5. Done' <= Seen'
      BY <3>1, <3>2, <3>3, <3>4
    <3> QED BY <2>0, <2>2, <3>1, <3>2, <3>5
  <2>5. ASSUME phase \in {"mark", "clean"}
        PROVE  /\ tocheck # 0 => Listed(m, tocheck)
               /\ \A j \in 1..Seen' : j \in 1..Len(ephes') /\ (ephes'[j] = b \/ \E k \in 1..Seen : ephes'[j] = ephes[k])
    <3>1. tocheck # 0 => Listed(ephes, tocheck)
      BY <2>5, <1>a DEF Lists
    <3>2. \A j \in 1..Seen' : j \in 1..Len(m) /\ (m[j] = b \/ \E k \in 1..Seen : m[j] = ephes[k])
      BY <2>1, <2>3, <3>1, <1>a, ConsLink
    <3> QED BY <2>0, <2>2, <3>1, <3>2
  <2>6. \A j \in 1..Len(m) : Tag[m[j]] = "ephe"
    <3>1. \A j \in 1..Len(m) : Listed(m, m[j])
      BY DEF Listed
    <3>2. \A p : Listed(ephes, p) => Tag[p] = "ephe"
      BY <1>a DEF Lists, Listed
    <3> QED BY <3>1, <3>2, <2>2, <1>2
  <2>7. Lists'
    BY <2>0, <2>1, <2>2, <2>4, <2>5, <2>6, <1>p DEF Lists
  <2> QED BY <2>0, <2>1, <2>2, <2>4, <2>5, <2>7, <1>2 DEF NewList
<1> QED BY <1>1, <1>2

\* A free block b is taken: its colour and its fields.
NewBlock(r, b, g) ==
    /\ mk.color[b] = "blue" /\ mk' = [mk EXCEPT !.color[b] = caml_allocation_color(b)]
    /\ fld' = [fld EXCEPT ![b] = g]
    /\ \A i \in 1..Size[b] : g[i] = 0 \/ (Tag[b] = "fwd" /\ \E s \in Slots : g[i] = root[s])
    /\ root' = [root EXCEPT ![r] = b]
    /\ dead' = dead \ {b}
    /\ ephes' = IF Tag[b] = "ephe" THEN <<b>> \o ephes ELSE ephes
    /\ UNCHANGED <<phase, sub, hp, cv, ci, checked, tocheck, sweep, inSlice, first, last, todo>>

\* What the step changes: the block b, white or black, is no longer free; nothing else.
Taken(b) ==
    /\ b \in Doomed /\ mk.color[b] = "blue"
    /\ Doomed' = Doomed \ {b}
    /\ mk' \in MarkState /\ mk'.gray = mk.gray /\ mk'.pure = mk.pure /\ mk'.epure = mk.epure
    /\ \A o \in Block : o # b => mk'.color[o] = mk.color[o]
    /\ mk'.color[b] \in {"white", "black"}
    /\ phase \in {"mark", "clean"} => mk'.color[b] = "black"
    /\ phase = "idle" \/ (phase = "sweep" /\ b < sweep) => mk'.color[b] = "white"

\* caml_allocation_color: the new block will survive the cycle under way.
LEMMA TakenFacts ==
    ASSUME IInv, prog' = prog, NEW b \in Block, mk.color[b] = "blue", UNCHANGED <<phase, sweep>>,
           mk' = [mk EXCEPT !.color[b] = caml_allocation_color(b)]
    PROVE  Taken(b)
<1>1. PICK c : c = caml_allocation_color(b)
  OBVIOUS
<1>2. Block \subseteq Nat /\ sweep \in Nat /\ phase \in {"idle", "mark", "clean", "sweep"} /\ mk \in MarkState
  BY ProgFacts DEF IInv, Types
<1>3. /\ c \in {"white", "black"}
      /\ phase \in {"mark", "clean"} => c = "black"
      /\ phase = "idle" => c = "white"
      /\ phase = "sweep" => c = IF b < sweep THEN "white" ELSE "black"
  <2>1. b \in Nat /\ (b >= sweep <=> ~(b < sweep))
    BY <1>2
  <2> QED BY <2>1, <1>1, <1>2 DEF caml_allocation_color
<1>4. mk.color \in [Block -> Color]
  BY <1>2 DEF MarkState
<1>5. /\ mk' \in MarkState /\ mk'.gray = mk.gray /\ mk'.pure = mk.pure /\ mk'.epure = mk.epure
      /\ mk'.color = [mk.color EXCEPT ![b] = c]
  BY <1>1, <1>2, <1>3, <1>4 DEF MarkState, Color
<1>6. mk'.color[b] = c /\ \A o \in Block : o # b => mk'.color[o] = mk.color[o]
  BY <1>4, <1>5
<1>7. b \in Doomed
  BY DEF Doomed
<1>8. b \notin Doomed'
  <2>1. CASE phase = "sweep"
    <3>1. b \in Nat
      BY <1>2
    <3>2. mk'.color[b] = "white" => ~(sweep <= b)
      BY <2>1, <3>1, <1>2, <1>3, <1>6
    <3> QED BY <2>1, <3>2, <1>3, <1>6 DEF Doomed
  <2>2. CASE phase # "sweep"
    BY <2>2, <1>2, <1>3, <1>6 DEF Doomed
  <2> QED BY <2>1, <2>2
<1>9. \A o \in Block : o # b => (o \in Doomed' <=> o \in Doomed)
  BY <1>6, ProgSame DEF Doomed
<1>10. Doomed' = Doomed \ {b}
  BY <1>8, <1>9, ProgSame DEF Doomed
<1> QED BY <1>3, <1>5, <1>6, <1>7, <1>10 DEF Taken

\* Nothing that is alive refers to a free block, so taking one is safe.
LEMMA NewBlockSafe ==
    ASSUME IInv, prog' = prog, NEW r \in Slots, NEW b \in Block, NEW g \in [1..Size[b] -> Value],
           NewBlock(r, b, g), Taken(b), NewList(b), Lists',
           fld'[b] = g, \A o \in Block : o # b => fld'[o] = fld[o]
    PROVE  Safe'
<1>a. Types /\ Safe
  BY DEF IInv
<1>p. Block' = Block /\ Value' = Value /\ Tag' = Tag /\ Size' = Size /\ Slots' = Slots /\ N' = N
  BY ProgSame
<1>t. /\ 0 \notin Block /\ Value = Block \cup {0} /\ mk.color \in [Block -> Color]
      /\ \A o \in Block : \A i \in 1..Size[o] : fld[o][i] \in Value
  BY <1>a, TypeFacts
<1>1. phase' = phase /\ sweep' = sweep /\ dead' = dead \ {b} /\ Doomed' = Doomed \ {b}
  BY DEF NewBlock, Taken
<1>2. \A i \in 1..Size[b] : g[i] \in Value /\ g[i] \notin Doomed
  BY RootsAlive DEF NewBlock
<1>3. Held' \cap Doomed' = {} /\ dead' \subseteq Doomed'
  <2>1. Held' \subseteq Held \cup {b}
    <3>1. root \in [Slots -> Value]
      BY <1>a DEF Types
    <3>2. \A s \in Slots : root'[s] = b \/ root'[s] = root[s]
      BY <3>1 DEF NewBlock
    <3>3. first' = first /\ last' = last /\ todo' = todo
      BY DEF NewBlock
    <3> QED BY <3>2, <3>3, <1>p DEF Held
  <2> QED BY <2>1, <1>1, <1>a DEF Safe
<1>4. ASSUME NEW o \in Block \ Doomed', Tag[o] \in Scanned \/ (Tag[o] = "ephe" /\ phase # "clean"),
             NEW i \in 1..Size[o]
      PROVE  fld'[o][i] \notin Doomed'
  <2>1. CASE o = b
    BY <2>1, <1>1, <1>2
  <2>2. CASE o # b
    <3>1. fld[o][i] \notin Doomed
      BY <2>2, <1>1, <1>4, <1>a DEF Safe, Index
    <3> QED BY <3>1, <2>2, <1>1
  <2> QED BY <2>1, <2>2
<1>5. ASSUME phase # "sweep", NEW o \in Block, Tag[o] # "noscan", mk'.color[o] # "blue",
             NEW i \in 1..Size[o], fld'[o][i] # 0
      PROVE  mk'.color[fld'[o][i]] # "blue"
  <2>1. CASE o = b
    <3>1. g[i] \in Block /\ mk.color[g[i]] # "blue"
      BY <2>1, <1>2, <1>5, <1>t DEF Doomed
    <3> QED BY <2>1, <3>1 DEF Taken
  <2>2. CASE o # b
    <3>1. mk.color[o] # "blue" /\ fld'[o][i] = fld[o][i]
      BY <2>2, <1>5 DEF Taken
    <3>2. mk.color[fld[o][i]] # "blue"
      BY <3>1, <1>5, <1>a DEF Safe, Index
    <3>3. fld[o][i] \in Block
      BY <3>1, <1>5, <1>t
    <3> QED BY <3>1, <3>2, <3>3 DEF Taken
  <2> QED BY <2>1, <2>2
<1>6. \A o \in Block \ Doomed' : Tag[o] = "ephe" => Listed(ephes', o)
  BY <1>1, <1>a DEF Safe, NewList
<1>7. \A j \in 1..Len(ephes') : ephes'[j] \in Block /\ (ephes'[j] = b \/ Listed(ephes, ephes'[j]))
  <2>1. \A j \in 1..Len(ephes') : Listed(ephes', ephes'[j]) /\ ephes'[j] \in Block
    BY DEF Listed, NewList
  <2> QED BY <2>1 DEF NewList
<1>8. phase # "clean" => \A j \in 1..Len(ephes') : ephes'[j] \notin Doomed'
  BY <1>1, <1>7, <1>a DEF Safe, Listed
<1>9. phase = "clean" => \A j \in 1..Len(ephes') : mk'.color[ephes'[j]] # "blue"
  <2> SUFFICES ASSUME phase = "clean", NEW j \in 1..Len(ephes') PROVE mk'.color[ephes'[j]] # "blue"
    OBVIOUS
  <2>1. CASE ephes'[j] = b
    BY <2>1 DEF Taken
  <2>2. CASE ephes'[j] # b
    <3>1. mk.color[ephes'[j]] # "blue"
      BY <2>2, <1>7, <1>a DEF Safe, Listed
    <3> QED BY <3>1, <2>2, <1>7 DEF Taken
  <2> QED BY <2>1, <2>2
<1> QED BY <1>1, <1>3, <1>4, <1>5, <1>6, <1>8, <1>9, <1>p DEF Safe, Index

\* In the mark phase the new block is black, and refers to roots only.
LEMMA NewBlockMark ==
    ASSUME IInv, prog' = prog, NEW r \in Slots, NEW b \in Block, NEW g \in [1..Size[b] -> Value],
           NewBlock(r, b, g), Taken(b), NewList(b), phase = "mark",
           fld'[b] = g, \A o \in Block : o # b => fld'[o] = fld[o]
    PROVE  Snapshot' /\ EpheSnapshot'
<1>a. Types /\ Lists /\ Scanning /\ Safe /\ Snapshot /\ EpheSnapshot
  BY DEF IInv
<1>p. Block' = Block /\ Value' = Value /\ Tag' = Tag /\ Size' = Size /\ Slots' = Slots /\ N' = N
  BY ProgSame
<1>t. 0 \notin Block /\ 1 \in 1..Size[b] /\ mk.color \in [Block -> Color]
  <2>1. Size[b] \in Nat \ {0} /\ 0 \notin Block /\ mk.color \in [Block -> Color]
    BY <1>a, TypeFacts
  <2> QED BY <2>1
<1>1. Darkening
  BY DEF Darkening, Taken
<1>2. Rewiring
  <2>1. mk.color[b] = "blue" /\ \A o \in Block : o # b => mk'.color[o] = mk.color[o]
    BY DEF Taken
  <2>2. \A i \in 1..Size[b] : fld'[b][i] \in Roots \cup {0}
    BY ZenonT(60) DEF NewBlock, Roots
  <2>3. \A o \in Block : o # b => \A i \in 1..Size[o] :
           fld'[o][i] = fld[o][i] /\ (mk.color[o] # "blue" \/ mk'.color[o] = "blue")
    BY <2>1
  <2> QED BY <2>1, <2>2, <2>3 DEF Rewiring
<1>3. Rooting
  <2>1. root \in [Slots -> Value]
    BY <1>a DEF Types
  <2>2. \A s \in Slots : root'[s] = b \/ root'[s] = root[s]
    BY <2>1 DEF NewBlock
  <2>3. first' = first /\ todo' = todo /\ sub' = sub /\ mk'.color[b] # "white"
    BY DEF NewBlock, Taken
  <2> QED BY <2>2, <2>3 DEF Rooting, Roots
<1>4. cv' = cv /\ ci' = ci /\ phase' = phase
  BY DEF NewBlock
<1>5. Snapshot' /\ SealedBack
  BY <1>1, <1>2, <1>3, <1>4, <1>a, SnapshotStep
<1>6. WhitesKept /\ ForwardsKept
  BY DEF WhitesKept, ForwardsKept, Taken
<1>7. ASSUME NEW U \in SUBSET Block, Sealed(U)'
      PROVE  /\ \A j \in 1..Done' : fld'[ephes'[j]][1] \notin U
             /\ mk'.epure => \A j \in 1..Seen' :
                   White(ephes[j])' \/ KeyDead(ephes[j])' \/ fld'[ephes'[j]][1] \notin U
  <2>1. /\ \A j \in 1..Done : fld[ephes[j]][1] \notin U
        /\ mk.epure => \A j \in 1..Seen :
              White(ephes[j]) \/ KeyDead(ephes[j]) \/ fld[ephes[j]][1] \notin U
    BY <1>5, <1>7, <1>a DEF SealedBack, EpheSnapshot
  <2>2. Tag[b] = "ephe" => fld'[b][1] = 0 /\ 0 \notin U
    BY <1>t DEF NewBlock
  <2>3. /\ Done \in 0..Len(ephes) /\ Seen \in 0..Len(ephes) /\ Len(ephes) \in Nat
        /\ \A j \in 1..Len(ephes) : ephes[j] \in Block /\ Tag[ephes[j]] = "ephe" /\ ephes[j] \notin Doomed
    BY <1>a, ListsFacts DEF Safe
  <2>4. /\ \A j \in 1..Done : j \in 1..Len(ephes)
        /\ \A j \in 1..Seen : j \in 1..Len(ephes)
    BY <2>3
  <2>5. \A j \in 1..Len(ephes) : ephes[j] # b /\ mk.color[ephes[j]] # "blue"
    BY <2>3 DEF Taken, Doomed
  <2>6. \A j \in 1..Done' : fld'[ephes'[j]][1] \notin U
    <3> SUFFICES ASSUME NEW j \in 1..Done' PROVE fld'[ephes'[j]][1] \notin U
      OBVIOUS
    <3>1. CASE ephes'[j] = b /\ Tag[b] = "ephe"
      BY <3>1, <2>2
    <3>2. CASE \E k \in 1..Done : ephes'[j] = ephes[k]
      <4>1. PICK k \in 1..Done : ephes'[j] = ephes[k]
        BY <3>2
      <4>2. ephes[k] \in Block /\ ephes[k] # b /\ fld[ephes[k]][1] \notin U
        BY <2>1, <2>3, <2>4, <2>5
      <4> QED BY <4>1, <4>2
    <3> QED BY <3>1, <3>2 DEF NewList
  <2>7. ASSUME mk'.epure, NEW j \in 1..Seen'
        PROVE  White(ephes[j])' \/ KeyDead(ephes[j])' \/ fld'[ephes'[j]][1] \notin U
    <3>1. CASE ephes'[j] = b /\ Tag[b] = "ephe"
      BY <3>1, <2>2
    <3>2. CASE \E k \in 1..Seen : ephes'[j] = ephes[k]
      <4>1. PICK k \in 1..Seen : ephes'[j] = ephes[k]
        BY <3>2
      <4>2. PICK e : e = ephes[k]
        OBVIOUS
      <4>3. e \in Block /\ e # b /\ Tag[e] = "ephe" /\ mk.color[e] # "blue" /\ fld'[e] = fld[e]
        BY <4>2, <2>3, <2>4, <2>5
      <4>4. White(e) \/ KeyDead(e) \/ fld[e][1] \notin U
        BY <4>2, <2>1, <2>7 DEF Taken
      <4>5. CASE White(e)
        <5>1. e # 0 /\ mk'.color[e] = "white"
          BY <4>5, <4>3 DEF White, Taken
        <5> QED BY <5>1, <4>1, <4>2 DEF White
      <4>6. CASE KeyDead(e)
        <5>1. KeyDead(e)'
          BY <4>6, <4>3, <1>6, <1>a, KeyDeadKept
        <5> QED BY <5>1, <4>1, <4>2 DEF KeyDead, Keys
      <4>7. CASE fld[e][1] \notin U
        BY <4>7, <4>1, <4>2, <4>3
      <4> QED BY <4>4, <4>5, <4>6, <4>7
    <3> QED BY <3>1, <3>2 DEF NewList
  <2> QED BY <2>6, <2>7
<1>8. EpheSnapshot'
  BY <1>4, <1>7, <1>p DEF EpheSnapshot
<1> QED BY <1>5, <1>8

\* Taking a free block preserves the invariant.
LEMMA NewBlockInv ==
    ASSUME IInv, prog' = prog, NEW r \in Slots, NEW b \in Block, NEW g \in [1..Size[b] -> Value],
           NewBlock(r, b, g)
    PROVE  IInv'
<1>a. Types /\ Lists /\ Scanning /\ Colors /\ GrayFound /\ Safe /\ Cleaned
  BY DEF IInv
<1>p. Block' = Block /\ Value' = Value /\ Tag' = Tag /\ Size' = Size /\ Slots' = Slots /\ N' = N
  BY ProgSame
<1>t. /\ 0 \notin Block /\ Value = Block \cup {0} /\ mk.color \in [Block -> Color]
      /\ mk.gray \in Seq(Block) /\ cv \in Value
  BY <1>a, TypeFacts DEF Types, MarkState
<1>u. UNCHANGED <<phase, sub, hp, cv, ci, checked, tocheck, sweep, inSlice, first, last, todo>>
  BY DEF NewBlock
<1>1. Taken(b)
  BY <1>u, TakenFacts DEF NewBlock
<1>2. ~Listed(ephes, b)
  BY <1>1, <1>a DEF Taken, Safe, Listed, Doomed
<1>3. Lists' /\ NewList(b)
  BY <1>2, <1>u, NewLists DEF NewBlock
<1>4. FieldTypes' /\ fld'[b] = g /\ \A o \in Block : o # b => fld'[o] = fld[o]
  BY <1>a, BlockUpdate DEF NewBlock
<1>5. Types'
  <2>1. mk' \in MarkState /\ dead' \subseteq dead
    BY <1>1 DEF Taken, NewBlock
  <2>2. root' \in [Slots -> Value]
    <3>1. root \in [Slots -> Value] /\ b \in Value /\ root' = [root EXCEPT ![r] = b]
      BY <1>a, <1>t DEF Types, NewBlock
    <3> QED BY <3>1
  <2> QED BY <2>1, <2>2, <1>4, <1>u, <1>a, ProgSame DEF Types
<1>6. Safe'
  BY <1>1, <1>3, <1>4, NewBlockSafe
<1>7. Scanning'
  <2>1. mk'.gray = mk.gray /\ \A o \in Block : mk.color[o] # "blue" => mk'.color[o] = mk.color[o]
    BY <1>1 DEF Taken
  <2>2. \A j \in 1..Len(mk.gray) : mk.gray[j] \in Block /\ mk.color[mk.gray[j]] \in {"gray", "black"}
    BY <1>a, <1>t DEF Scanning
  <2>3. \A j \in 1..Len(mk.gray) : mk'.color[mk.gray[j]] \in {"gray", "black"}
    BY <2>1, <2>2
  <2>4. cv # 0 => ci < Size[cv] /\ mk'.color[cv] \in {"gray", "black"}
    BY <2>1, <1>a, <1>t DEF Scanning
  <2> QED BY <2>1, <2>3, <2>4, <1>u, <1>p, <1>a DEF Scanning
<1>8. GrayFound'
  <2>1. \A o \in Block : mk'.color[o] = "gray" => mk.color[o] = "gray"
    BY <1>1 DEF Taken
  <2>2. mk'.gray = mk.gray /\ mk'.pure = mk.pure
    BY <1>1 DEF Taken
  <2> QED BY <2>1, <2>2, <1>u, <1>p, <1>a DEF GrayFound
<1>9. Colors'
  <2>1. /\ phase = "idle" => \A o \in Block : mk'.color[o] \in {"white", "blue"}
        /\ phase = "sweep" => \A o \in Block : o < sweep => mk'.color[o] \in {"white", "blue"}
    BY <1>1, <1>a DEF Taken, Colors
  <2> QED BY <2>1, <1>u, <1>p DEF Colors
<1>10. Snapshot' /\ EpheSnapshot'
  <2>1. CASE phase = "mark"
    BY <2>1, <1>1, <1>3, <1>4, NewBlockMark
  <2>2. CASE phase # "mark"
    BY <2>2, <1>u DEF Snapshot, EpheSnapshot
  <2> QED BY <2>1, <2>2
<1>11. Cleaned'
  <2> SUFFICES ASSUME phase = "clean" PROVE Cleaned'
    BY <1>u DEF Cleaned
  <2>1. ColorsKept /\ ForwardsSame
    BY <1>1, <1>4 DEF ColorsKept, ForwardsSame, Taken
  <2>2. \A e \in Block : Tag[e] = "ephe" /\ mk.color[e] # "blue" => CleanEdit(e)
    BY <1>1, <1>4 DEF CleanEdit, Taken
  <2>3. Tag[b] = "ephe" => CleanNow(b)
    BY <1>1, <1>4 DEF CleanNow, NewBlock, Taken
  <2>4. \A j \in 1..Len(ephes') : CleanNow(ephes'[j]) \/ Listed(ephes, ephes'[j])
    <3>1. \A j \in 1..Len(ephes') : Listed(ephes', ephes'[j])
      BY DEF Listed
    <3> QED BY <3>1, <2>3, <1>3 DEF NewList
  <2>5. \A j \in 1..Seen' : j \in 1..Len(ephes') /\ (CleanNow(ephes'[j]) \/ \E k \in 1..Seen : ephes'[j] = ephes[k])
    BY <2>3, <1>3 DEF NewList
  <2>6. ephes' \in Seq(Block) /\ phase' = "clean"
    BY <1>3, <1>u DEF NewList
  <2> QED BY <2>1, <2>2, <2>4, <2>5, <2>6, <1>a, <1>t, CleanStep
<1> QED BY <1>3, <1>5, <1>6, <1>7, <1>8, <1>9, <1>10, <1>11 DEF IInv

\* caml_alloc_shr.
LEMMA AllocInv ==
    ASSUME IInv, NEW r \in Slots, Alloc(r), prog' = prog
    PROVE  IInv'
<1>1. PICK b \in Block :
          /\ mk.color[b] = "blue" /\ Tag[b] # "ephe"
          /\ mk' = [mk EXCEPT !.color[b] = caml_allocation_color(b)]
          /\ \E v \in IF Tag[b] = "fwd" THEN {root[s] : s \in Slots} ELSE {0} :
                fld' = [fld EXCEPT ![b] = [i \in Index(b) |-> IF i = 1 THEN v ELSE 0]]
          /\ root' = [root EXCEPT ![r] = b]
          /\ dead' = dead \ {b}
  BY DEF Alloc
<1>2. PICK v \in IF Tag[b] = "fwd" THEN {root[s] : s \in Slots} ELSE {0} :
          fld' = [fld EXCEPT ![b] = [i \in Index(b) |-> IF i = 1 THEN v ELSE 0]]
  BY <1>1
<1>3. PICK g : g = [i \in 1..Size[b] |-> IF i = 1 THEN v ELSE 0]
  OBVIOUS
<1>4. v \in Value /\ 0 \in Value /\ (v = 0 \/ (Tag[b] = "fwd" /\ \E s \in Slots : v = root[s]))
  BY <1>2, RootsAlive, TypeFacts DEF IInv
<1>5. g \in [1..Size[b] -> Value]
  BY <1>3, <1>4
<1>6. \A i \in 1..Size[b] : g[i] = 0 \/ (Tag[b] = "fwd" /\ \E s \in Slots : g[i] = root[s])
  <2>1. \A i \in 1..Size[b] : g[i] = 0 \/ g[i] = v
    BY <1>3
  <2> QED BY <2>1, <1>4
<1>7. fld' = [fld EXCEPT ![b] = g]
  BY <1>2, <1>3 DEF Index
<1>8. UNCHANGED <<phase, sub, hp, cv, ci, checked, tocheck, sweep, inSlice, ephes, first, last, todo>>
  BY DEF Alloc, gc, marking
<1>9. NewBlock(r, b, g)
  BY <1>1, <1>6, <1>7, <1>8 DEF NewBlock
<1> QED BY <1>5, <1>9, NewBlockInv

\* caml_ephemeron_create.
LEMMA CreateInv ==
    ASSUME IInv, NEW r \in Slots, caml_ephemeron_create(r), prog' = prog
    PROVE  IInv'
<1>1. PICK b \in Block :
          /\ mk.color[b] = "blue" /\ Tag[b] = "ephe"
          /\ mk' = [mk EXCEPT !.color[b] = caml_allocation_color(b)]
          /\ fld' = [fld EXCEPT ![b] = [i \in Index(b) |-> 0]]
          /\ ephes' = <<b>> \o ephes
          /\ root' = [root EXCEPT ![r] = b]
          /\ dead' = dead \ {b}
  BY DEF caml_ephemeron_create
<1>2. PICK g : g = [i \in 1..Size[b] |-> 0]
  OBVIOUS
<1>3. 0 \in Value
  BY TypeFacts DEF IInv
<1>4. g \in [1..Size[b] -> Value] /\ \A i \in 1..Size[b] : g[i] = 0
  BY <1>2, <1>3
<1>5. fld' = [fld EXCEPT ![b] = g]
  BY <1>1, <1>2 DEF Index
<1>6. UNCHANGED <<phase, sub, hp, cv, ci, checked, tocheck, sweep, inSlice, first, last, todo>>
  BY DEF caml_ephemeron_create, gc, marking
<1>7. NewBlock(r, b, g)
  BY <1>1, <1>4, <1>5, <1>6 DEF NewBlock
<1> QED BY <1>4, <1>7, NewBlockInv

(***************************************************************************)
(* The invariant holds in every behaviour                                  *)
(***************************************************************************)
\* Every operation of the program preserves the invariant.
LEMMA ProgramInv ==
    ASSUME IInv, ~KeysInMark, Program, prog' = prog
    PROVE  IInv'
<1>1. PICK r \in Slots, s \in Slots :
         \/ Alloc(r) \/ Drop(r) \/ caml_final_register(r) \/ caml_final_do_calls(r)
         \/ \E i \in Fields : Load(r, s, i) \/ caml_modify(s, i, r)
         \/ caml_ephemeron_create(r)
         \/ \E k \in Fields : caml_ephemeron_set_key(s, k) \/ caml_ephemeron_get_key(r, s, k)
         \/ caml_ephemeron_set_data(s) \/ caml_ephemeron_get_data(r, s)
         \/ caml_ephemeron_blit_key(s, r) \/ caml_ephemeron_blit_data(s, r)
  BY DEF Program
<1> QED BY <1>1, AllocInv, DropInv, RegisterInv, DoCallsInv, LoadInv, ModifyInv, CreateInv, SetKeyInv,
           GetKeyInv, SetDataInv, GetDataInv, BlitKeyInv, BlitDataInv

\* Before the first cycle every block is free.
LEMMA InitInv ==
    ASSUME Init
    PROVE  IInv
<1>1. /\ prog \in Programs /\ phase = "idle" /\ sub = "roots" /\ hp = 0 /\ cv = 0 /\ ci = 0
      /\ ephes = << >> /\ checked = 0 /\ tocheck = 0 /\ sweep = 1 /\ inSlice = FALSE
      /\ first = {} /\ last = {} /\ todo = {} /\ dead = {}
  BY DEF Init
<1>2. /\ N \in Nat /\ Block = 1..N /\ Value = 0..N /\ GrayInit \in Nat \ {0}
      /\ Size \in [Block -> Nat \ {0}] /\ 0 \in Value /\ 0 \notin Block
  BY <1>1, ProgFacts
<1>3. mk \in MarkState /\ mk.gray = << >> /\ \A b \in Block : mk.color[b] = "blue"
  BY <1>2 DEF Init, MarkState, Color
<1>4. /\ fld = [b \in Block |-> [i \in Index(b) |-> 0]]
      /\ root = [r \in Slots |-> 0]
  BY DEF Init
<1>5. FieldTypes
  <2>1. DOMAIN fld = Block /\ fld = [b \in Block |-> fld[b]]
    BY <1>4
  <2>2. \A b \in Block : fld[b] \in [Index(b) -> Value]
    BY <1>2, <1>4
  <2> QED BY <2>1, <2>2 DEF FieldTypes
<1>6. Types
  <2>1. inSlice \in BOOLEAN
    BY <1>1, Zenon
  <2>2. root \in [Slots -> Value]
    BY <1>2, <1>4
  <2>3. hp \in 0..(N + 1) /\ cv \in Value /\ ci \in Nat /\ checked \in Value /\ tocheck \in Value /\ sweep \in 1..(N + 1)
    BY <1>1, <1>2
  <2> QED BY <2>1, <2>2, <2>3, <1>1, <1>3, <1>5 DEF Types
<1>7. Lists
  BY <1>1 DEF Lists, NoDup
<1>8. Scanning /\ Colors /\ GrayFound
  BY <1>1, <1>3 DEF Scanning, Colors, GrayFound
<1>9. Safe
  <2>1. Held \subseteq {0}
    BY <1>1, <1>4 DEF Held
  <2>2. Doomed = Block
    BY <1>3 DEF Doomed
  <2> QED BY <2>1, <2>2, <1>1, <1>2, <1>3 DEF Safe
<1>10. Snapshot /\ EpheSnapshot /\ Cleaned
  BY <1>1 DEF Snapshot, EpheSnapshot, Cleaned
<1> QED BY <1>6, <1>7, <1>8, <1>9, <1>10 DEF IInv

\* Every step preserves the invariant.
LEMMA NextInv ==
    ASSUME IInv, ~KeysInMark, [Next]_vars
    PROVE  IInv'
<1>1. CASE Next
  BY <1>1, SliceInv, CollectorInv, ProgramInv DEF Next
<1>2. CASE UNCHANGED vars
  <2>1. /\ UNCHANGED <<mk, fld, root, phase, sub, hp, cv, ci, ephes, checked, tocheck, sweep, first, last, todo, dead>>
        /\ prog' = prog /\ inSlice' = inSlice
    BY <1>2 DEF vars, marking, lists, finals
  <2>2. inSlice \in BOOLEAN
    BY DEF IInv, Types
  <2> QED BY <2>1, <2>2, SameInv
<1> QED BY <1>1, <1>2

\* What the program can read of a live block is alive.
LEMMA VisibleAlive ==
    ASSUME IInv, NEW b \in Block \ Doomed, NEW v \in Visible(b)
    PROVE  v = 0 \/ v \in Block \ Doomed
<1>1. 0 \notin Block /\ Value = Block \cup {0} /\ Tag[b] \in {"scan", "noscan", "fwd", "ephe"}
  BY TypeFacts DEF IInv
<1>2. /\ 1 \in 1..Size[b] /\ fld[b] \in [1..Size[b] -> Value]
      /\ \A k \in 2..Size[b] : k \in 1..Size[b]
  BY EpheShape
<1>3. Tag[b] # "noscan"
  BY DEF Visible
<1>4. CASE Tag[b] = "ephe" /\ phase = "clean"
  <2>1. v = caml_ephe_clean(b)[1] \/ \E k \in 2..Size[b] : v = do_check_key_clean(b, k)[k]
    BY <1>4 DEF Visible, Keys
  <2>2. CASE v = caml_ephe_clean(b)[1]
    <3>1. PICK g : g = caml_ephe_clean(b)
      OBVIOUS
    <3>2. \A i \in 1..Size[b] : g[i] = 0 \/ (g[i] \in Block /\ mk.color[g[i]] \notin {"white", "blue"})
      BY <3>1, <1>4, CleanAlive, Zenon
    <3> QED BY <3>1, <3>2, <2>2, <1>2 DEF Doomed
  <2>3. CASE \E k \in 2..Size[b] : v = do_check_key_clean(b, k)[k]
    <3>1. PICK k \in 2..Size[b] : v = do_check_key_clean(b, k)[k]
      BY <2>3
    <3>2. PICK h : h = do_check_key_clean(b, k)
      OBVIOUS
    <3>3. h \in [1..Size[b] -> Value] /\ h[k] \notin Doomed
      BY <3>2, <1>4, KeyCheckedFacts
    <3> QED BY <3>1, <3>2, <3>3, <1>1, <1>2
  <2> QED BY <2>1, <2>2, <2>3
<1>5. CASE ~(Tag[b] = "ephe" /\ phase = "clean")
  <2>1. PICK i \in 1..Size[b] : v = fld[b][i]
    BY <1>3, <1>5 DEF Visible, Index
  <2>2. fld[b][i] \notin Doomed
    BY <1>1, <1>3, <1>5 DEF IInv, Safe, Index, Scanned
  <2> QED BY <2>1, <2>2, <1>1, <1>2
<1> QED BY <1>4, <1>5

\* Everything within the program's reach is alive.
LEMMA AccessibleAlive ==
    ASSUME IInv
    PROVE  Accessible(Roots) \subseteq Block \ Doomed
<1>1. PICK c : c = Block \ Doomed
  OBVIOUS
<1>2. Roots \ {0} \subseteq c
  <2>1. todo \subseteq Held /\ todo \subseteq Block
    BY DEF Held, IInv, Types
  <2> QED BY <2>1, <1>1, RootsAlive DEF Roots
<1>3. \A b \in c : \A v \in Visible(b) : v = 0 \/ v \in c
  BY <1>1, VisibleAlive
<1>4. c \in SUBSET Block /\ (Roots \cup UNION {Visible(b) : b \in c}) \ {0} \subseteq c
  <2>1. PICK V : V = UNION {Visible(b) : b \in c}
    OBVIOUS
  <2>2. \A v \in V : \E b \in c : v \in Visible(b)
    BY <2>1, Zenon
  <2>3. (Roots \cup V) \ {0} \subseteq c
    BY <2>2, <1>2, <1>3
  <2> QED BY <2>1, <2>3, <1>1
<1>5. \A b \in Accessible(Roots) : b \in c
  BY <1>4, Zenon DEF Accessible
<1> QED BY <1>1, <1>5

\* The inductive invariant, for every heap and every program that changes no
\* keys while the collector marks.
THEOREM InvariantHolds ==
    ASSUME ~KeysInMark
    PROVE  Spec => []IInv
<1>1. Init => IInv
  BY InitInv
<1>2. IInv /\ [Next]_vars => IInv'
  BY NextInv
<1> QED BY <1>1, <1>2, PTL DEF Spec

\* sweep_slice frees nothing the program can still reach, however the slices
\* of the collector fall between the program's operations.
THEOREM NothingReachableFreed ==
    ASSUME ~KeysInMark
    PROVE  Spec => []NoDangling
<1>1. ASSUME IInv PROVE NoDangling
  <2>1. Accessible(Roots) \subseteq Block \ Doomed
    BY <1>1, AccessibleAlive
  <2>2. first \cup last \subseteq Held /\ first \cup last \subseteq Block
    BY <1>1 DEF Held, IInv, Types
  <2>3. Held \cap Doomed = {}
    BY <1>1 DEF IInv, Safe
  <2> QED BY <2>1, <2>2, <2>3 DEF NoDangling, Doomed
<1>2. IInv => NoDangling
  BY <1>1
<1> QED BY <1>2, InvariantHolds, PTL

\* A block whose Gc.finalise_last function is scheduled never comes back within
\* the program's reach.
THEOREM LastIsLast ==
    ASSUME ~KeysInMark
    PROVE  Spec => []LastAfterDeath
<1>1. IInv => LastAfterDeath
  <2>1. ASSUME IInv PROVE LastAfterDeath
    BY <2>1, AccessibleAlive DEF LastAfterDeath, IInv, Safe
  <2> QED BY <2>1
<1> QED BY <1>1, InvariantHolds, PTL

\* The assertion of caml_ephe_clean_partial on the data of an ephemeron.
THEOREM CleanDataMarked ==
    ASSUME ~KeysInMark
    PROVE  Spec => []CleanFindsDataMarked
<1>1. IInv => CleanFindsDataMarked
  BY DEF IInv, Cleaned, CleanFindsDataMarked
<1> QED BY <1>1, InvariantHolds, PTL

\* No gray block is forgotten when gray_vals overflows.
THEOREM GrayNotForgotten ==
    ASSUME ~KeysInMark
    PROVE  Spec => []GrayFound
<1>1. IInv => GrayFound
  BY DEF IInv
<1> QED BY <1>1, InvariantHolds, PTL
=============================================================================
