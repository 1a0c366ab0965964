----------------------------- MODULE MCRuntime ------------------------------
(* Four parts of the C code, each on its own: the minor collection under     *)
(* small programs that each use a few operations; each of the C primitives,  *)
(* between whose steps collections happen; ocamlyacc with the parser engine, *)
(* on a few grammars; and the memory profiler, in two threads.               *)
EXTENDS Memprof, Grammars

P(ops, young, old, ephes, table) ==
    [ops |-> ops, young |-> young, old |-> old, ephes |-> ephes, table |-> table]
MCPrograms == {
    P({"two", "load"}, 2, 3, 0, 0),
    P({"one", "shr", "modify"}, 2, 3, 0, 2),
    P({"forward", "double", "lazy"}, 3, 3, 0, 0),
    P({"closure", "load"}, 2, 3, 0, 0),
    P({"closure", "modify"}, 2, 2, 0, 2),
    P({"ephe", "get", "reset", "one"}, 2, 3, 1, 2),
    P({"ephe", "get", "double", "drop"}, 2, 3, 1, 2),
    P({"ephe", "get", "closure", "load"}, 1, 2, 1, 2),
    P({"ephe", "double"}, 2, 4, 2, 3),      \* the data of one is the key of the other
    P({"final", "closure"}, 1, 2, 0, 1),
    P({"final", "custom", "drop"}, 2, 2, 0, 2),
    P({"custom", "load", "one"}, 2, 3, 0, 0),
    P({"croot", "one", "load"}, 2, 3, 0, 0)}

CONSTANTS StackSize, MaxRead

U == INSTANCE UnixStubs
W == INSTANCE Win32Stubs
S == INSTANCE RuntimeSystem
D == INSTANCE RuntimeData
B == INSTANCE Interp
AllPrimitives ==
    U!UnixPrimitives \union W!WindowsPrimitives \union S!ValuePrimitives \union S!SystemPrimitives
    \union D!DataPrimitives \union B!Instructions

VARIABLES part,        \* whose behaviour this is: "minor", "stub", "yacc", "memprof"
          breaks, code, vals, stale, immediate, young, raw, old, roots, lock, resources, errno, last,
          outcome,
          source, stage, g, states, shift_table, reduction_table, LA, parser, pack, ytables,
          ypc, env, outer, read, recovered,
          prog, mem, blocks, root, croot, reg, lists, tables, fin, ready, held, pc, work, job, todo, k, redo,
          expect
Minor == INSTANCE MinorGC WITH NYoung <- 3, NOld <- 4, Slots <- {1, 2}, CRoots <- {1},
                               Programs <- MCPrograms, used <- blocks
minorvars == <<prog, mem, blocks, root, croot, reg, lists, tables, fin, ready, held, pc, work, job, todo, k,
               redo, expect>>
Stub == INSTANCE Stubs WITH Primitives <- AllPrimitives, held <- resources
Idle == INSTANCE Stubs WITH Primitives <- {[args |-> {}, code |-> <<>>, breaks |-> {}]},
                            held <- resources
stubvars == <<breaks, code, vals, stale, immediate, young, raw, old, roots, lock, resources, errno,
              last, outcome>>
Y == INSTANCE YaccParser WITH Sources <- AllSources, tables <- ytables, pc <- ypc
yaccvars == <<source, stage, g, states, shift_table, reduction_table, LA, parser, pack, ytables,
              ypc, env, outer, read, recovered>>
ProfilerBounds == {[samples |-> 2, starts |-> 1], [samples |-> 1, starts |-> 2]}
mcvars == <<vars, part, stubvars, yaccvars, minorvars>>

MCInit ==
    /\ part \in {"minor", "stub", "yacc", "memprof"}
    /\ Minor!Init /\ (part # "minor" => prog = (CHOOSE p \in MCPrograms : TRUE))
    /\ IF part = "stub" THEN Stub!Init ELSE Idle!Init
    /\ Y!Init /\ (part # "yacc" => source = 1)
    /\ Init /\ (part # "memprof" => bound.samples = 1 /\ cur = 1)
MCNext ==
    \/ part = "minor" /\ Minor!Next /\ UNCHANGED <<vars, part, stubvars, yaccvars>>
    \/ part = "stub" /\ Stub!Next /\ UNCHANGED <<vars, part, breaks, yaccvars, minorvars>>
    \/ part = "yacc" /\ Y!Next /\ UNCHANGED <<vars, part, stubvars, minorvars>>
    \/ part = "memprof" /\ Next /\ UNCHANGED <<part, stubvars, yaccvars, minorvars>>
MCSpec == MCInit /\ [][MCNext]_mcvars

\* A minor collection keeps exactly what is reachable: the blocks, the graph they
\* form, the roots, the ephemerons with live keys and their data, and the
\* finalisers; and all the rest is gone, with the data of ephemerons whose key
\* died cleared, the finalisers of dead values ready, and the resources of dead
\* custom blocks given back.
MinorCollectionExact == Minor!MinorCollectionExact

\* Between collections every pointer into the minor heap that a collection would
\* not find from the stack is in a table: fields of old blocks, ephemerons,
\* generational roots of C (with the two lists as the comment in globroots.c
\* states), finalisers and custom blocks.
YoungIsRemembered == Minor!YoungIsRemembered

\* No C primitive, but for those whose breaks says "heap" (the README lists
\* them), touches an OCaml value through a pointer that a collection has
\* made invalid or without the master lock, leaves a registered variable or a
\* field of a block unset where a collection may happen, or assigns a field of a
\* block that may be old without caml_modify.
HeapDiscipline == Stub!HeapDiscipline

\* A C primitive that returns, or raises on its own account, holds the master
\* lock and has given back the local roots and the resources of C; of those, the
\* primitives whose breaks says "left" may keep some (the README lists them), and
\* an exception of a signal handler or a callback that passes through one is not
\* on its own account.
NothingLeftBehind == part = "stub" => Stub!NothingLeftBehind

\* The error that a C primitive reports is the one of the call that failed, but
\* for the primitives whose breaks says "error" (the README lists them).
OwnErrorReported == Stub!OwnErrorReported

\* The lookaheads that ocamlyacc computes from the relations between gotos are
\* those of the LR(1) items that reach the state.
LookaheadsAreLALR == Y!LookaheadsAreLALR

\* The generated parser, run by the engine of the runtime, accepts the sentences
\* of the grammar with the tree that the precedences choose, reports an error
\* at the first token that no sentence goes on with, and gives up before the end
\* of its input only where the grammar lets no error begin, whatever the parsers
\* that its actions call have left.
ParsesTheLanguage == Y!ParsesTheLanguage
=============================================================================
