# A TLA+ verification of the OCaml bytecode JIT and the runtime under it

The repository puts a just-in-time compiler under OCaml's bytecode runtime.
`caml_interprete` is replaced by generated x86-64 code: a *baseline* compiler
(`emit_code.rs`) translates every instruction of a loaded bytecode buffer, and
an *optimising* compiler (`cranelift_compiler/`) translates single functions
that have become hot.  Both kinds of code share the OCaml stack, the native
stack, the closures and the runtime's exception, signal and GC machinery with
C.  The first half of the modules is about that sharing; the second half is
about the C code of the OCaml tree that the repository builds and links: the
collectors, the free lists, threads and signals, the C primitives of the
runtime and of the Unix library, the profiler, and ocamlyacc with its engine.

## 1. Inventory

| Component | State | Operations | Interacts with |
|---|---|---|---|
| Baseline code (`emit_code.rs`) | registers `r_accu`, `r_env`, `r_extra_args`, `r_sp`; OCaml stack; `extern_sp`, `trapsp`, `external_raise` | one code template per instruction; shared `->apply`, `->raise`, `->process_events`, `->longjmp_handler` | optimised code by `optcall`; C by C_CALL, callbacks |
| Optimised code (`cranelift_compiler/mod.rs`) | native registers and frames; `extern_sp` | `emit_apply`, `translate_exit`, `c_call`, `check_signals`, `alloc_small` | baseline code by `apply_1..apply_5`, `apply_n`; C |
| Tiering (`check_opt`, `rust_primitives.rs`, `optimised_compiler.rs`) | one metadata entry per closure: status, compiled location, section, offset | count, compile, mark | section store, Cranelift module |
| Section store (`saved_data.rs`, `compiler/mod.rs`, `lib.rs`) | vector of optional sections, each owning an executable buffer; the shared apply code | push, look up, release | runtime hooks (`meta.c`, `fix_code.c`), toplevel |
| Allocation and signals (`alloc_small`, `jit_support.c`, `minor_gc.c`, `signals.c`) | `young_ptr`, `young_limit`, `young_trigger`, `caml_something_to_do`, requests | bump, dispatch, collect, run handlers, record a signal | both tiers; asynchronous signals |
| GC roots (`roots_byt.c`, stack maps) | stack maps by return address | scan the OCaml stack from `extern_sp`, look maps up | every call into C |
| Basic blocks, parser, closure scanner (`ocaml-jit-shared`) | stack of the searches, block starts, stack size per block | parse, scan, convert | optimising compiler |
| Minor GC (`minor_gc.c`, `globroots.c`, `finalise.c`, `custom.c`) | minor heap, tables of remembered fields, ephemerons, custom blocks, global roots | allocate, modify, collect | stack, C variables, finalisers |
| Major GC (`major_gc.c`, `weak.c`, `finalise.c`, `memory.c`) | colours, gray cache, phases, list of ephemerons | slices of mark, clean, sweep; write barrier | mutator between slices |
| Free lists (`freelist.c`, `memory.c`) | one of three policies: lists, table, splay tree | allocate, split, merge, add chunks | sweep, allocation |
| Threads and signals (`st_stubs.c`, `st_posix.h`, `signals.c`, `io.c`) | master lock, ring of infos, `Caml_state`, masks, channel locks | create, yield, block, join, tick, fork, handlers | everything that runs OCaml code |
| C primitives (`runtime/`, `otherlibs/unix`, `otherlibs/win32unix`) | local roots, C memory, descriptors, `errno` | one function each | collector, threads |
| Profiler (`memprof.c`) | table of sampled blocks | sample, callbacks, start, stop | collectors, threads |
| ocamlyacc and engine (`yacc/`, `parsing.c`, `parsing.ml`) | grammar, LR(0) states, lookaheads, tables; parser environment | generate; parse, recover | lexer, actions |
| Lock, configuration, traces, tools | options | | |

What is hard: exceptions that unwind OCaml frames, Cranelift frames and C
frames lying in any order; state that lives in a register for baseline code
and in memory for everyone else; signals at any instruction; functions that
change tier between two calls; section numbers and addresses that are used
again; compilations that fail half way; a collector that runs in slices between
which the program changes the graph; blocks that move under C code; threads
that hand the runtime over in the middle of C functions; callbacks that raise,
stop what called them, or run in two threads.  `PROJECT.json` lists the hazards, each at
its line.

## 2. Modules

| Module | Models | Instance |
|---|---|---|
| `JitApply`, `ApplySemantics`, `JitApplyRefinement` | the calling convention of the two tiers; what application means (the contract of `interp.c`); the refinement mapping | `MCJitApply` |
| `JitApplyProofs` | the inductive invariant of `JitApply`; one lemma per action and the theorems | |
| `CodeSections`, `CodeSectionsProofs` | the life of compiled code; theorems | `MCCodeSections` |
| `AllocSmall`, `AllocSmallProofs` | minor-heap allocation and pending signals; theorems | `MCAllocSmall` |
| `BasicBlocks`, `BasicBlocksProofs` | cutting a closure into basic blocks and the order of translation; inductive invariant and theorems | `MCBasicBlocks` |
| `MajorGC` | the incremental collector and the program between its slices | `MCMajorGC` |
| `MajorGCCollector`, `MajorGCProofs` | the inductive invariant of `MajorGC` and the collector's steps; the program's steps and the theorems | |
| `FreeMem`, `NextFit`, `FirstFit`, `BestFit`, `FreeList`, `BestFitTree`, `BlockStore` | memory; the three policies; allocation against the sweep; the splay tree alone; the abstract block store | `MCFreeList` |
| `Threads`, `ThreadsProofs` | system threads and signals; inductive invariant and theorems | `MCThreads` |
| `MinorGC` | the minor collection | `MCRuntime` |
| `StubSteps`, `Stubs` | the alphabet of the C primitives and the machine that runs them | `MCRuntime` |
| `UnixSupport`, `UnixStubs`, `Win32Stubs`, `RuntimeValues`, `RuntimeSystem`, `RuntimeData`, `Interp` | the primitives and the interpreter's instructions | `MCRuntime` |
| `YaccReader`, `Yacc`, `YaccParser`, `Grammars` | ocamlyacc, the parser engine, and grammars to try them on | `MCRuntime` |
| `Memprof`, `MemprofProofs` | the memory profiler; inductive invariant and theorems | `MCRuntime` |

### JitApply

The variables are the machine's registers (`accu`, `env`, `extra`, `rdx`), the
OCaml stack as a sequence of words from `r_sp`, the runtime's `extern_sp`,
`trapsp` and `external_raise`, the native stack as a sequence of frames, the
status of each closure metadata entry, and `caml_something_to_do`.  `pc` is the
label native code is at; each action is the straight code between two labels.
A pointer into the OCaml stack is a *height*, its distance to `stack_high`;
`caml_realloc_stack` preserves heights, so it is invisible.  Values are closures,
partial applications, results, exceptions and *tokens*: each argument of each
call is a different token, so that an argument lost, doubled or swapped shows.

A function body is an oracle.  It may call any closure with any number of
arguments, tail-call, return, raise, push and pop handlers, call C (which may
call back or raise).  In the optimising tier it has no handlers: the compiler
refuses functions with them.

`Init` is the C program before its first callback, with closure statuses that
earlier execution can have left.

`ApplySemantics` knows nothing of stacks and tiers: its state is a list of
activations with their own arguments and the arguments that wait for their
result.  `JitApplyRefinement` reads that list off the two stacks by walking them
as returns would.

### CodeSections

One action per hook: load the main program or a phrase, end a phrase (with
`release_section` and `caml_stat_free` when the toplevel says so), the first and
later callbacks, and what running code does: make a closure, apply partially,
call, return, compile a hot closure.  A partial application has the `->restart_closure` of the
code whose `->apply` made it: that of the caller, or, when what is applied is itself a
partial application, that of its own section, whose `->restart_code` is run first.
`get_section_for_code` also compares lengths; a lookup always names a whole block of bytecode, and the
model compares the base addresses.  Each hook is atomic because it holds the
global lock from start to end and runs no OCaml code under it.  Buffers have an
identity (`loads`), different from the bytecode address, which is given out
again; two things with the same identity are the same memory.

### AllocSmall

Every load and store another actor can observe is a step of its own, and
`SignalArrives` may come between any two: the bump, the comparison with
`young_limit`, the two halves of `caml_update_young_limit`.  Words are offsets
into the arena.  `caml_gc_dispatch` may call `caml_update_young_limit` twice;
only the last store can be seen by the code that follows, and the model has
that one.  Memprof is off.  Signal handlers allocate at most one block, on the
fast path; a slow path inside a handler is an allocation of its own.

### BasicBlocks

The two recursive searches of `conversion.rs` run over an explicit stack of
activations (`frames`), one step per instruction, per visited label and per
return, followed by the assembly of the blocks and by `translate_block` for
each of them.  The bytecode is part of the initial state, so that a run covers
every program over a small instruction set.  Instructions are reduced to their
stack effect and their labels; the tables of `visit` (`Need`, `Growth`), of the
translator (`Picks`, `PushesFirst`, `Pops`, `PushesAfter`) and of `interp.c`
(`InterpPushes`, `InterpPops`) are separate, because that they agree is the
point.  The reference is `Reached`: the positions and stack depths an execution
by the interpreter can have.  An instruction takes one position; parsing, and
looking up the code of inner closures, are left out.

### MajorGC

A block is its address, 0 everything that is not a block of the major heap.
One step is one turn of a loop of `mark_slice`, `clean_slice` or `sweep_slice`,
and a slice may end after any step that consumes work; between slices the
program loads, stores (with the barrier of `caml_modify`), allocates, registers
finalisers, and reads, writes and copies ephemerons.  The gray cache has a
size, grows, and overflows into `heap_is_pure` and the walk by address.  Chunks,
the pacing of slices, young blocks and copies out of ephemerons
(`caml_ephe_get_key_copy`) are left out.  A blit of keys copies all of them, which for ephemerons of
one key, and those of the run have one, is the only blit there is; blits of a part of the keys, with
the partial cleaning of `weak.c:533-540`, are left out.  The initial state says which
operations a program uses, so that a run is a union of small programs.  The constant
`KeysInMark` says whether programs may change keys or copy data of ephemerons while marking.

### The free lists

The C functions of the three policies are operators from memory to memory
(record `m` of `FreeMem`): headers, links, the first-fit table with `flp_beyond`,
the best-fit lists with their merge pointers and bitmap, the splay tree.
`FreeList` puts allocations of the program between the steps of a sweep and
lets the heap grow; the sweep's colours are those `caml_allocation_color`
gives.  `BestFitTree` has the tree alone, with enough blocks for all rotations.
`BlockStore` is the promise: blocks of the size asked for, disjoint from all
in use; `StoreSpec` is the refinement.  Reset and change of policy (the
compactor), `caml_shrink_heap` and the page table are left out.

### Threads

Each thread has a stack of frames, the C functions it is in; a step goes from
one point where another thread may run to the next.  The master lock has its
mutex, its condition and its waiters; a release signals one sleeper, and any
other thread may take the lock first.  The tick thread, masks, signals that
arrive in any thread that does not mask them, handlers that yield or raise,
channel locks and their release on exceptions, conditions, threads of C that
register (also twice, or unregister without having registered, which both do nothing) and call
back, and `fork` are actions.  `caml_c_thread_register` and `caml_c_thread_unregister` wait for the
master lock like everyone else, counted in `waiters`.  A program calls back from a thread of C only while that is registered.  Restrictions: waits have no spurious
wake-ups; handlers do no I/O on channels.  A handler that raises before `caml_thread_start` has
called its closure ends the program: there is no OCaml code to go on with.

Taking the mutex of a channel, storing it in `last_channel_locked_key` and leaving the blocking section are
three steps, between any of which a signal may arrive.  The comment at `st_stubs.c:292-296` says that a
handler that raises between the first two leaves the mutex locked.  That is out of date:
`caml_thread_try_leave_blocking_section` (256-263) always fails, so that `handle_signal` only records the signal,
and the handler runs in `caml_leave_blocking_section` at the earliest, when the key is set.
`ChannelsReleased` covers this window and holds.  `caml_thread_yield` does not reset
`signals_are_pending`, so that a signal recorded in a thread that masks it waits for the next tick
at the latest.

### The C primitives

A primitive is written down as what it does, in the order of its statements,
with its branches and loops, in the alphabet of `StubSteps`: reads, stores and
allocations of values, local roots, blocking sections, C resources, error codes.
`Stubs` runs it with the worst environment: at every allocation, poll, callback
or blocking section all blocks move, and only registered variables follow.
Integers, strings, and what a system call does, are left out; each call may
succeed or fail.  `Interp` writes the instructions of the interpreter in the same way, with the OCaml
stack as a root.  A primitive that the code itself makes break a rule is marked
`Breaking(p, rules)` and excused from those rules only (section 4).

Not modelled in them: exhaustion of `caml_stat_alloc`; that `free` or `CloseHandle` could change
the error code; resources lost when a signal handler raises in a blocking
section (outcome `interrupted`); the `#else` versions that only say "not
implemented"; the worker threads behind `select` on Windows; fatal errors.  `getaddrinfo` has internet
addresses only; `dup` and `dup2` on Windows return -1 where they fail; the inlined
barrier of `caml_array_fill` is `caml_modify`; the command loop of the debugger is
a wait for input.  The configuration is bytecode with flat float arrays.

### MinorGC

The program allocates small blocks, closures with infix pointers, forward and
custom blocks, ephemerons, finalisers and roots of C; a collection is a
sequence of steps: each root or remembered field, each promoted block, each
turn of the loops over ephemerons, finalisers and custom blocks.  `expect` is
a history variable, the graph reachable from the roots when the collection
began, which `MinorCollectionExact` compares with what is left.  Sizes and growth of the tables, and a
major heap that runs out, are left out.  `EpheSet` stores no infix
pointers as keys, and no program has forward blocks as keys: the collector handles both wrongly (section 4).

### ocamlyacc

`YaccReader` goes from the names of a grammar file (the characters are left
out) to the packed grammar: symbol table, declarations, rules, goal, numbers.
`Yacc` makes the LR(0) states one per step, the lookaheads by DeRemer and
Pennello's digraph, the actions with their conflicts, and packs the vectors one
per step into `table` and `check`.  `YaccParser` runs the engine of `parsing.c` and
`parsing.ml` on the tables: growing stacks, error recovery, actions that raise
or call the parser again.  The references are canonical LR(1) items for the
lookaheads, and the trees of the grammar with the precedences for the parser.  `ParsesTheLanguage` also says
where errors are found: at the first token that no sentence goes on with, all the tokens before it being
the beginning of one, and that a parser whose start symbol can begin with `error` gives up at the end of
the input only; both also after an action has called the parser again and that has raised.
Left out: actions in the middle of rules, explicit token numbers, positions,
the verbose report and the text of the output.  Actions that raise or parse
belong to rules that are not empty.

### Memprof

Any allocation may be sampled.  An entry has the flags of `struct tracked`; `idx`
has the variables `t_idx` that `idx_ptr` points to.  Two threads take samples, run
callbacks (which return a value, drop the block, raise, stop or start the profiler,
collect, or are interrupted by the other thread), and the collectors promote
and kill blocks.  `place` and `calls` are the truth and the history that
`TrackingExact` compares.  Bytecode makes one allocation at a time, so that
`nallocs` is 1.  `callback_running` only guards against `Thread.exit` in a callback
(`caml_memprof_stop_th_ctx`) and is not modelled.  Left out: the random numbers, call stacks, compaction, memory exhaustion.

## 3. Runs

| Run | Bounds | Distinct states | Shows |
|---|---|---|---|
| `apply` | functions of 2 and 3 arguments with 2 argument registers (the wide one cannot be optimised), calls of 1 to 3, 3 operations, threshold 1, 1 signal; fair | 74 k | `HandlersSound`, `RootsScanned`, `ImplementsApplySemantics`, `ReturnsToC` |
| `apply_callback_args` | functions of 1 and 5 arguments, calls and callbacks of 5, baseline code only | violation | `OnlyEscapingReachC` |
| `sections` | 3 addresses, 5 loads, depth 3, 2 closures; addresses symmetric | 175 k | `FunctionCodeLive`, `RunningCodeMapped`, `OptimisedFromOwnCode`, `StackMapsOfOwnFunction`, `NeverPanics` |
| `sections_toplevel` | the same | violation | `ClosureCodeMapped` |
| `alloc` | arena of 8 words, blocks of 2 and 3, 6 allocations, 2 signals; fair | 88 k | `BlocksApart`, `SignalForcesSlowPath`, `BaselineAllocRunsHandlers`, `AllocTerminates` |
| `alloc_origin` | 4 allocations, 1 signal | violation | `AllocRunsHandlers` |
| `blocks` | all programs of 4 instructions with branches, loops and pushes, with handlers and switches, and straight ones with every kind of instruction | 340 k | `DepthsAreInterpreters`, `EachInstructionOnceInOrder`, `SealedAfterLastJump`, `RejectsOnlyIrregular`, `TranslatorKeepsCount` |
| `major_gc` | 7 programs over 2 or 3 blocks, a gray cache of 1 or 2; fair | 115 k | `NoDangling`, `GrayFound`, `LastAfterDeath`, `CleanFindsDataMarked`, `GarbageFreed`, `DeadKeyCleared` |
| `major_gc_keys_in_mark` | 1 program, keys change while marking | violation | `CleanFindsDataMarked` |
| `free_list` | chunks of 8 and 4 words, largest block 5, blocks of 1, 2, 4, 4 held, 1 sweep, each policy; tree of 7 blocks of 5 sizes | 449 k | `HeapConsistent`, `NoFitOnlyWhenNone`, `Coalesced`, `StoreSpec`, `TreeSound` |
| `threads` | 6 programs of up to 3 threads or a thread of C, 1 signal, 1 tick; fair | 144 k | `RuntimeStateOwned`, `ChannelsReleased`, `ThreadsFinish` |
| `runtime` | 13 programs of the minor collector with up to 3 young and 4 old blocks; every primitive; 8 grammars, inputs of up to 5 tokens; the profiler with 2 threads and 2 samples, or with 1 sample and a restart | 2.01 M | `MinorCollectionExact`, `YoungIsRemembered`, `HeapDiscipline`, `NothingLeftBehind`, `OwnErrorReported`, `LookaheadsAreLALR`, `ParsesTheLanguage`, `TrackingExact` |

In `free_list` and `runtime` several specifications share one run; a behaviour is
that of one of them, and the others stay in their first state.

Why the bounds suffice.

* `apply`: three operations allow baseline code to call optimised code that calls
  back through `apply_n` or C into code with a handler, which is the deepest
  crossing of the two stacks that differs from its parts; calls of up to three
  arguments under- and over-apply each function.  The threshold lets a function
  change tier inside the run; the initial statuses give every other mix.
* `sections`: five loads with three addresses make both addresses and numbers be
  used again, with a gap in the vector and a callback section in the middle.
* `alloc`: an arena of eight words fills, and its halves are wide enough for every
  block.
* `blocks`: four instructions make loops into the middle of a run, loops that
  share a header, branches that meet with different depths, jumps to the entry
  point, code that is never reached and a fall off the end.
* `major_gc`: two blocks with two slots make every race of a load and a store with the
  marker; a third block makes chains through ephemerons and forward blocks.  A
  gray cache of one entry overflows on the second.  The programs are small because the four
  invariants are proved for every program; the run is there for the two liveness properties,
  and to try the invariants on changes of the model before their proofs are.
* `free_list`: the chunks hold three or four blocks, so that a block is merged on
  both sides, cut in place and cut to a fragment; a chunk is longer than the largest block;
  two small sizes give the lists of best-fit a neighbour.  Seven blocks of five sizes take
  the splay tree through every rotation, with lists of two at two nodes.
* `threads`: each program is about one mechanism (contention for a channel with
  handlers that raise, conditions, yields, fork, a thread of C, masks).
* `runtime`: a primitive has no state but its own; its loops go round any number of times, because
  the state of the second turn repeats.  The grammars are chosen for what can
  go wrong: an empty rule, nested parses with and without recovery, LALR but not SLR, nullable variables with two
  entry points, precedences, error recovery, gotos that include each other
  with a conflict of two reductions, the dangling else.  Five tokens reach every state of
  each of them; the stacks of two words have to grow.  A nested parse reads two tokens fewer,
  and does not nest again.  Two samples and two threads are enough for an entry to
  be moved while another thread runs its callback, and for the profiler to be
  stopped, and started again, under a callback.

Fairness.  In `JitApply`, `AllocSmall` and `BasicBlocks` it is weak fairness of the machine's
own steps: the processor executes the next instruction.  Nothing is assumed of
signals or of which choice a program makes; programs end because the number of
operations is bounded, so `ReturnsToC` speaks of the generated code between
operations (such as the loop at `check_opt`), not of user loops.  In `MajorGC`
it is weak fairness of the collector's steps, including the start of the next slice: allocation
and `caml_major_collection_slice` drive it in the code; the program may go on for ever and
`GarbageFreed` and `DeadKeyCleared` still hold.  In `Threads` it is weak fairness of the
tick thread and of every thread: the system's scheduler runs each thread that
can run; who gets a lock that is released stays open.

## 4. Findings

The four violations:

* `ClosureCodeMapped`: a phrase that defines no function but makes a partial
  application (`let g = List.map succ;;`) is released as soon as it ends, while
  the closure's code pointer is `->restart_closure` of the released buffer.
* `AllocRunsHandlers`: `alloc_small` passes `0x11`, commented
  `CAML_DO_TRACK | CAML_FROM_CAML`, which are 1 and 2.  The slow path of optimised
  code therefore takes the branch for C code, and a pending signal stays pending
  until the next poll.  It is late, not lost: `SignalForcesSlowPath` holds for
  both tiers.
* `OnlyEscapingReachC`: `caml_callbackN_exn` pushes the arguments before the entry point
  takes its initial `sp`, and `->raise` (like the interpreter) returns to C when `trapsp` is not
  below that `sp`.  A callee of five arguments that tail-calls a function of one has given back
  four words; the handler that function pushes is then *at* the initial `sp`, and an
  exception it should catch is returned to C as one that escaped, with `trapsp` left
  inside the frame that is gone.  With at most four arguments this cannot happen
  (theorem `ExceptionsEscape`): `caml_callback`, `caml_callback2` and `caml_callback3`
  are safe, `caml_callbackN` is not.
* `CleanFindsDataMarked` with keys changed in the mark phase: marking has passed over an
  ephemeron because its key was white; the program replaces that key by a live
  one; if nothing is darkened afterwards, marking ends with the data white,
  against the assertion of `caml_ephe_clean_partial`, and the sweep frees data that the ephemeron
  still shows.  The passing runs do not change keys in that phase.

The marks `Breaking` of the primitives, each where the code does not keep the rule:

| Rule | Primitive | Why |
|---|---|---|
| heap | `unix_link` | reads `Field(follow, 0)` in the blocking section, which `manual/manual/cmds/intf-c.etex` forbids |
| heap | `unix_write`, `unix_accept`, `unix_stat` and its variants, `unix_select` (Windows) | look into an unregistered value after a blocking section; `unix_select` raises while a block has fields that are not set |
| heap | `command_loop` | an address of a value comes from the debugger, and the rest of the request is read, with blocking, after it |
| heap | `EVENT`, `BREAK`, `RAISE` (interpreter) | the debugger may wait for a request, and `accu` and `env` are used afterwards although only their copies on the stack follow the blocks; `Restore_after_debugger` asserts that they agree |
| left | `unix_execve` | `argv` is lost when a string of the environment cannot be converted |
| left | `caml_unix_map_file`, `unix_select` (Windows) | a mapping that cannot be mapped, and data of the request when a kind of handle is refused, are not given back |
| left | `caml_array_concat` | the C arrays for more than 16 arguments are lost on `Invalid_argument` |
| left | `caml_output_value`, `caml_input_value` and their variants | the buffers are lost when the channel fails, or the header is bad |
| left | the four functions that print or convert backtraces | `read_main_debug_info` leaves the file open |
| left | `caml_reify_bytecode`, `caml_static_release_bytecode`, `caml_main` | code and fragments change owner or are lost when the debugger cannot be told; the section table is never freed |
| error | `unix_truncate`, `unix_ftruncate`, `unix_getsockname`, `unix_getsockopt`, `unix_setsockopt`, `win_filedescr_of_channel` (Windows) | report `errno`, which the call that failed does not set |
| error | `unix_utimes`, `unix_symlink`, `unix_readlink` (Windows) | ask for the last error after the blocking section, in which other code of the process has run |

Observations made while modelling, without a run of their own:

* `minor_gc.c:286-288,383-389`: a young key of an ephemeron counts as dead unless the header in front of it
  is 0.  The second function of a `let rec ... and ...` is an infix pointer, and copying a closure clears the
  header of the closure only; so a weak pointer to that function, and the data with it, is erased although
  the function is in use.  The same happens to a forward block that is short-circuited, which is not copied.
  `stdlib/weak.mli:22-25` promises the contrary.  With such keys `MinorCollectionExact` is violated; `EpheSet`
  leaves them out.
* `caml_gc_set` does not untag the `custom_*` fields of its record.
* `caml_ba_update_proxy` may raise `Out_of_memory` after the new big array exists.
* `%nonassoc`: a state whose only actions left are reductions by one rule reduces by default,
  because the shift that was suppressed is not counted (`sole_reduction`), so
  that `a < b < c` is accepted as `(a < b) < c`; `manual/manual/cmds/lexyacc.etex`
  says that the parser will declare a syntax error.
* `Parse_error` raised by the action of an empty rule makes the recovery read a slot of the stack of
  states that has not been written yet; a parser called by an action clobbers the positions
  of the symbols; the tokens `$end` and `EOF` have the same value.
* `memprof.c`: when the second of two combined allocations of native code raises in its
  callback, the entry of the first keeps an `idx_ptr` into the frame that is
  left; bytecode cannot reach this.  An exception of a callback that has stopped
  the profiler is lost.  `caml_memprof_renew_minor_sample` lacks an `else`: its
  first assignment is always overwritten.
* `win32unix/select.c`: the index of a descriptor counts only those that are not
  duplicates while the result is looked up in the original list; a socket in two lists keeps the index
  of the first; `socket_poll_add` returns the new record rather than the head of the list; with 63 queries
  there is no room for the stop event; a refused kind of handle leaks the query.

## 5. Proofs

TLAPS proves the following for every value of the constants: any functions, arities,
addresses, offsets, arena and block sizes, any number of loads, calls, allocations and signals,
any heap, any bytecode and any set of programs.

**`CodeSectionsProofs`**: `NumbersAreIndexes`, `LookupIsUnique`,
`FunctionsOutliveNoSection`, `RunningCodeStays`, `OptimisedCodeIsOwn`, `StackMapsAreOwn`,
`NamesAreFree` and `LookupsSucceed`.  They rest on one inductive invariant `IInv`:
`Store` (numbers are indexes, one section per address, every section's address is
allocated or the callback's, the callback flag agrees with the vector), `Users`
(each activation's buffers are those of a live section or the shared code, loaded
activations have different bytecode, function pointers point into live sections
*that have functions*) and `Compiled` (names, optimised code and stack maps
belong to such sections).  The heart of it is that only sections without
functions are ever released: so a number that is used again never appears in
a closure, a name or a stack map.  The only assumption is that the static
callback code is not a heap address.

**`AllocSmallProofs`**: `TypeCorrect`, `BlocksStayApart`, `SignalsKept` and
`BaselineRunsHandlers`, from an invariant that says at each label how
`young_ptr`, `young_limit` and the flags are related; the assumption is that a
block fits in half of the arena (`Max_young_wosize` is far below half of
`Minor_heap_min`).

**`JitApplyProofs`**: `InvariantHolds`, `HandlersAreSound`, `RootsAreScanned` and
`ExceptionsEscape`.  None of the properties is inductive: whether a trap frame is still linked
after a return depends on what the return address under it stands for, and whether an exception finds
its entry frame depends on every native frame between.  The invariant
therefore describes both stacks whole.  The OCaml stack is read
from its bottom, by heights, so that a push leaves everything said about the
older part untouched.  The invariant asserts that there is a function `ht` giving each native frame the height of the
OCaml stack at which it waits, such that these heights rise; that every frame finds
at its height what it will go on with (an entry frame its argument count, an optimised
frame called from baseline code its return frame, a C frame the words
`setup_for_c_call`, `process_events` or `make_restart_closure` saved); that each code address on the OCaml stack is
followed by the words its resumption reads, down to the height of the machine that
pushed it (`Points`); and that the current label finds its registers and
its arguments (`ControlOK`).  `TrapsLinked` and `Chain` are the two handler
chains in the form that steps preserve.  Steps that push use the lemmas on growth, steps that
return or raise the lemmas on cuts; there is one lemma per action.  The hypothesis
`MaxCallbackArgs <= 4` is not for convenience: `apply_callback_args` shows that with five
arguments `ExceptionsEscape` is false, and the trap chain is broken next.

**`MajorGCProofs`**: `InvariantHolds`, `NothingReachableFreed` (`NoDangling`), `LastIsLast`
(`LastAfterDeath`), `CleanDataMarked` (`CleanFindsDataMarked`) and
`GrayNotForgotten` (`GrayFound`).  The parts of `IInv` are `Types`; `Lists` (the list
of ephemerons has no repetition, and the collector's pointers are into it); `Scanning` (the block
being scanned and the gray cache); `Colors` (what idle and sweeping leave behind the
sweep's position); `GrayFound`; `Safe` (nothing the program holds, and no field of a block that stays,
leads to a block that is free or that the sweep to come will free); `Snapshot`, `EpheSnapshot` and `Cleaned`.
The snapshot argument is stated without paths, because
the provers cannot do induction over them: a set of white blocks is `Sealed` when no white or gray
block outside it, but for the fields of the current block that are already scanned, has a field into it, and
while marking neither the program, nor a finaliser to come, nor a marked block ever leads into a
sealed set.  So when marking ends, all white blocks together are sealed, and are garbage.  What reachability
(`Accessible`) and `DarkenAll`, two recursive functions, need is proved by the least
counterexample (`LeastNat`, from `WFMin`), which takes no operator parameter.  The hypothesis is `~KeysInMark`: with it false, run
`major_gc_keys_in_mark` refutes `CleanFindsDataMarked`.

**`ThreadsProofs`**: `InvariantHolds`, `RuntimeIsOwned` (`RuntimeStateOwned`) and
`ChannelsAreReleased` (`ChannelsReleased`), for any threads, programs, locks, and any
number of signals and ticks. What a thread may touch depends on whether it has the
master lock, and no variable says who has it: it follows from where the thread is. So
each frame, a C function, has a mode in which it starts and one in which it returns
(`Before`, `After`), and `Shapes` says that the frames of every stack fit: a function
returns in the mode its caller goes on in, OCaml code is at the bottom, the frame that
unlocks a channel is right above it, and the frame that waits for the channel's lock is
above that. The code that the actions push is composed of `Piece`s that lead from one
mode to the other (`TwoPieces`), and one lemma (`SpliceShape`) shows that replacing the
top frame by a piece of the same modes keeps the shape. With that, `Owned` is inductive:
the thread inside, if there is one, is `curr_thread` and has its own registers in
`Caml_state`, and every other linked thread has saved its own. `Ring` says of the infos
of the linked threads that `next` and `prev` are inverse and that no part of them is
closed under `next`; insertion, removal and fork keep this (`RingInsert`, `RingRemove`,
`RingSingle`), and the walk of the collector then meets every one (`WalkAll`) without an
induction along the ring. `Locking` relates three records of the same lock: its holder,
the thread's `last_channel_locked_key`, and the frames, in which the channel is locked
once the frame that waits for it is gone, and the key set once the one after it is; that is why the key has to be set in the
blocking section, before its end can run a handler that raises. `Lives` says that
threads which are not linked have nothing to do inside, and `Exclusive` that no one is
inside while a thread of C has the master lock to change the ring. The assumptions on the constants
are that the main thread is not one of C, that no mutex is a channel and `NoOne` is no
name, and that threads of OCaml and of C run their own kind of operations, on existing
threads and locks.

**`BasicBlocksProofs`**: `BlocksInvariant`, `BlockDepths` (`DepthsAreInterpreters`),
`BlocksPartition` (`EachInstructionOnceInOrder`), `BlocksSealed` (`SealedAfterLastJump`),
`RejectionsJustified` (`RejectsOnlyIrregular`) and `TranslatorCounts`
(`TranslatorKeepsCount`), for closures of any length. Of the bytecode they assume only
what the parser's types say (`ProgramsAssumption`): a branch has one label, a switch a
table of them, other instructions none; labels may lead anywhere, also outside the
closure. While `find_block_starts_dfs` runs, `Closing` says which activation still has to
look at the labels of each instruction; at its end every jump from a block leads to a
block start (`Closed`). For `convert_dfs` an activation on its stack and a finished block are
both a *run*. `SearchInv` says that runs have different entries, go straight on from a
block start and stop before the next (`RunShape`), that the activations form a path of the search
(`StackShape`), and that each finished block is an exit of a block finished later or still
open (`PostOrder`), from which the order of translation and of sealing follows. `Depths(D)`
says that one function `D` gives the stack size before every instruction gone through:
inside a run it follows `visit`'s table (`RunDepth`), at its end every exit has been visited
with that size or is still in `todo` (`RunExits`), every check of `visit` has been
passed (`Checked`), and everything in `D`, in `seen` and in `todo` is a position and depth the
interpreter really reaches (`Found`). When the search ends, nothing is left in `todo`, so that the
graph of `D` is closed under the interpreter's steps and is all it reaches (`ReachedIs`). When `visit`
gives up, the same `Found` shows the interpreter breaking the rule. The interpreter's walk, the
translator's count and the maximum of the predecessors are recursive functions or choices;
what they compute is proved by the least counterexample (`LeastNat`).

**`MemprofProofs`**: `ProfilerInvariant` and `CallbacksExact` (`TrackingExact`), for any
number of threads, samples and starts. The assumptions are that 0, the null `idx_ptr`, is
no thread, and that the bounds are numbers. `TrackingExact` says what the program has been
told, which is not inductive: whether the next call is right depends on the flags of the
entry, on where its pointers point, and on which thread believes to have it in hand. `Table`
says of every entry that it agrees with where its block really is (`Agrees`), that its flags
are set in order and for a reason (`CalledOK`), that the argument it keeps is what the last
callback returned (`DataOK`), and that `calls` is the history those flags stand for; the
thread that has chosen a callback and not yet made it (`Hand`) is the one exception. `Threads`
and `Owners` say that a thread's `t_idx` and the `idx_ptr` of the entry it is in the callback of
point to each other, so that a flush or a stop in another thread reaches it; `Remembered`, that
every pointer into the minor heap is from `young` on; `NoneLost`, that a callback is still due
only from `callback` on or for an entry in hand. Nearly every step changes the one entry that
the running thread has in hand: `EntryUpdate` says once what such a change must keep. The
remaining shapes have a lemma each: `FlushKeeps` (what is squeezed keeps its order, and positions and
indexes follow, by `MovedOnto` and `MovedMonotone`), `AddTracks`, `DiscardTracks`, and
`CollectionTracks` for the two collections, which also shows that a minor collection leaves no
pointer behind (`MinorEntry`).

Every invariant here was checked by TLC on a small instance before its proof was begun.
`SectionNumberIsIndex`, `OneSectionPerCode`, `NameIsFree` and the type invariant of
`AllocSmall` are proved and have no run of their own: TLC finds nothing that the
proof does not.

Only model-checked:

* liveness (`ReturnsToC`, `AllocTerminates`, `GarbageFreed`, `DeadKeyCleared`,
  `ThreadsFinish`), out of the prover's reach;
* the refinement of `ApplySemantics`, whose mapping walks the two stacks recursively;
* `FreeList` with its policies and `StoreSpec`, `MinorGC`, `Yacc`, `YaccParser`: they
  are written with `RECURSIVE` operators, with which the prover cannot work;
* the machine of the C primitives (`Stubs`): its properties are about the code of each
  primitive, which is a constant of the machine.

## 6. Not modelled

* The JIT: what instructions that only move data compute, the memory layout of
  blocks, unwinding the native stack with libunwind, the lock as a variable,
  a bounded OCaml stack, traces, options (the default configuration is fixed:
  JIT on, no traces, Cranelift errors not fatal), the command-line tools.
* The runtime: compaction, the pacing of the collectors, growth of the tables, random sampling,
  numbers and strings that primitives compute (`floats.c`, `ints.c`, `str.c`), the
  bytes of marshalled data, native code (`*_nat.c`, `spacetime_nat.c`), Windows
  threads, instrumented builds.
* The rest of the OCaml distribution (the compiler, libraries in OCaml, tools),
  vendored crates, benchmarks and the dissertation.

## 7. Plan

1. Tagged arithmetic: both compilers' instruction templates against `interp.c`,
   with the word width as a parameter.
2. Parser and closure scanner over small code arrays.
3. A bounded OCaml stack with `check_stacks`; the global lock with traces.
4. The worker threads of `select` on Windows; compaction.
