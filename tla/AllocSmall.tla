----------------------------- MODULE AllocSmall -----------------------------
(***************************************************************************)
(* Allocation in the minor heap, and how pending signals get their turn    *)
(* through it.  Both tiers inline the same bump allocation: baseline code  *)
(* through the Alloc_small macro in jit_support.c, optimised code as the   *)
(* instructions alloc_small emits.  The slow path of both is               *)
(* caml_alloc_small_dispatch, told by its flags argument on whose behalf   *)
(* it runs.                                                                *)
(*                                                                         *)
(* A Unix signal may arrive between any two steps.  It sets                *)
(* caml_something_to_do and raises young_limit to young_alloc_end, so that *)
(* the next allocation takes the slow path.                                *)
(*                                                                         *)
(* Addresses are word offsets from young_alloc_start; the arena is         *)
(* 0..HeapSize and is filled downwards.  Statistical memory profiling is   *)
(* off, so that caml_memprof_young_trigger is young_alloc_start.           *)
(***************************************************************************)
EXTENDS Integers

CONSTANTS
    HeapSize,    \* words in the arena: young_alloc_end
    Sizes,       \* Whsize of the blocks the program allocates
    MaxAllocs,   \* bound: allocations and requested collections
    MaxSignals   \* bound: signals

AllocMid == HeapSize \div 2      \* young_alloc_mid

\* Max_young_wosize is far below half of Minor_heap_min.
ASSUME HeapAssumption ==
    /\ HeapSize \in Nat \ {0}
    /\ Sizes \subseteq Nat \ {0} /\ Sizes # {}
    /\ \A n \in Sizes : n <= HeapSize - AllocMid
ASSUME AllocBoundAssumption == MaxAllocs \in Nat /\ MaxSignals \in Nat

VARIABLES
    pc,          \* where the program or the runtime is
    tier,        \* the kind of code that allocates
    size,        \* whsize of the allocation under way; 0 for a poll of signals
    ret,         \* where caml_update_young_limit returns to
    youngPtr,    \* Caml_state->young_ptr
    trigger,     \* Caml_state->young_trigger
    youngLimit,  \* Caml_state->young_limit
    todo,        \* caml_something_to_do
    pending,     \* signals_are_pending
    reqMinor,    \* Caml_state->requested_minor_gc
    reqMajor,    \* Caml_state->requested_major_slice
    blocks,      \* the blocks in the minor heap, as <<first, last>> words
    owed,        \* a signal was pending when this slow path was entered
    allocs,      \* allocations and requests made
    arrivals     \* signals that have arrived

arena == <<youngPtr, trigger, youngLimit, blocks>>
requests == <<todo, pending, reqMinor, reqMajor>>
call == <<tier, size>>
vars == <<pc, call, ret, arena, requests, owed, allocs, arrivals>>

PcLabels == {"code", "compare", "init", "dispatch", "loop", "store_limit", "check_todo",
             "handlers", "force", "room"}

\* Mutant: allocations are all made on behalf of C.
FlagsFromC(t) == IF t = "opt" THEN 17 ELSE 1

\* track | origin.  Bit 0 is CAML_DO_TRACK, bit 1 CAML_FROM_CAML; alloc_small passes 0x11.
Flags(t) == IF t = "opt" THEN 17 ELSE 3
\* flags & CAML_FROM_CAML
FromCaml(t) == (Flags(t) \div 2) % 2 = 1

Block(p, n) == <<p, p + n - 1>>

-----------------------------------------------------------------------------
(* The inlined part *)

\* young_ptr -= Whsize
Bump(t, n) ==
    /\ pc = "code" /\ allocs < MaxAllocs
    /\ tier' = t /\ size' = n
    /\ youngPtr' = youngPtr - n
    /\ allocs' = allocs + 1 /\ pc' = "compare"
    /\ UNCHANGED <<ret, trigger, youngLimit, blocks, requests, owed, arrivals>>

\* young_ptr < young_limit
Compare ==
    /\ pc = "compare"
    /\ IF youngPtr < youngLimit
       THEN pc' = "dispatch" /\ owed' = pending
       ELSE pc' = "init" /\ UNCHANGED owed
    /\ UNCHANGED <<call, ret, arena, requests, allocs, arrivals>>

\* Write the header at young_ptr.
InitBlock ==
    /\ pc = "init"
    /\ blocks' = blocks \union {Block(youngPtr, size)}
    /\ pc' = "code"
    /\ UNCHANGED <<call, ret, youngPtr, trigger, youngLimit, requests, owed, allocs, arrivals>>

\* CHECK_SIGNALS, emit_check_signals: caml_process_pending_actions.
Poll(t) ==
    /\ pc = "code" /\ todo
    /\ tier' = t /\ size' = 0 /\ pc' = "loop"
    /\ UNCHANGED <<ret, arena, requests, owed, allocs, arrivals>>

-----------------------------------------------------------------------------
(* caml_gc_dispatch *)

\* Mutant: a full minor heap alone does not start a minor collection.
MinorWhenRequested == reqMinor
\* The arena is used up to its start, or a minor collection was asked for.
DoMinor == trigger = 0 \/ reqMinor
\* The first half of the arena is used up, or a slice was asked for.
DoSlice == trigger # 0 \/ reqMajor

\* A minor collection empties the arena; then caml_update_young_limit, back to r.
GcDispatch(r) ==
    /\ IF DoMinor THEN youngPtr' = HeapSize /\ blocks' = {} ELSE UNCHANGED <<youngPtr, blocks>>
    /\ reqMinor' = (reqMinor /\ ~DoMinor) /\ reqMajor' = (reqMajor /\ ~DoSlice)
    /\ trigger' = IF DoSlice THEN 0 ELSE AllocMid
    /\ pc' = "store_limit" /\ ret' = r

(* caml_update_young_limit stores the limit and then looks at something_to_do *)

\* Mutant: something_to_do is not looked at after the store.
StoreLimitLast ==
    /\ pc = "store_limit"
    /\ youngLimit' = trigger /\ pc' = ret
    /\ UNCHANGED <<call, ret, youngPtr, trigger, blocks, requests, owed, allocs, arrivals>>

StoreLimit ==
    /\ pc = "store_limit"
    /\ youngLimit' = trigger /\ pc' = "check_todo"
    /\ UNCHANGED <<call, ret, youngPtr, trigger, blocks, requests, owed, allocs, arrivals>>

CheckTodo ==
    /\ pc = "check_todo"
    /\ youngLimit' = IF todo THEN HeapSize ELSE youngLimit
    /\ pc' = ret
    /\ UNCHANGED <<call, ret, youngPtr, trigger, blocks, requests, owed, allocs, arrivals>>

-----------------------------------------------------------------------------
(* caml_alloc_small_dispatch *)

\* First, undo the allocation.
Undo ==
    /\ pc = "dispatch"
    /\ youngPtr' = youngPtr + size /\ pc' = "loop"
    /\ UNCHANGED <<call, ret, trigger, youngLimit, blocks, requests, owed, allocs, arrivals>>

\* caml_do_pending_actions_exn, up to its call of the handlers.
DoPendingActions ==
    /\ pc = "loop" /\ (size = 0 \/ FromCaml(tier))
    /\ todo' = FALSE
    /\ IF reqMinor \/ reqMajor THEN GcDispatch("handlers")
       ELSE /\ pc' = "store_limit" /\ ret' = "handlers"
            /\ UNCHANGED <<youngPtr, trigger, blocks, reqMinor, reqMajor>>
    /\ UNCHANGED <<call, youngLimit, pending, owed, allocs, arrivals>>

\* On behalf of C: caml_check_urgent_gc and no handlers.
CheckUrgentGc ==
    /\ pc = "loop" /\ size # 0 /\ ~FromCaml(tier)
    /\ IF reqMinor \/ reqMajor THEN GcDispatch("force")
       ELSE /\ pc' = "force"
            /\ UNCHANGED <<ret, youngPtr, trigger, blocks, reqMinor, reqMajor>>
    /\ UNCHANGED <<call, youngLimit, todo, pending, owed, allocs, arrivals>>

\* caml_something_to_do = 1
ForceQuery ==
    /\ pc = "force"
    /\ todo' = TRUE /\ pc' = "room"
    /\ UNCHANGED <<call, ret, arena, pending, reqMinor, reqMajor, owed, allocs, arrivals>>

AfterHandlers == IF size = 0 THEN "code" ELSE "room"

\* The handlers run, allocate n words, and return.
HandlersReturn(n) ==
    /\ pc = "handlers"
    /\ IF n = 0 THEN UNCHANGED <<youngPtr, blocks>>
       ELSE /\ pending /\ youngPtr - n >= youngLimit
            /\ youngPtr' = youngPtr - n
            /\ blocks' = blocks \union {Block(youngPtr', n)}
    /\ pending' = FALSE /\ owed' = FALSE /\ pc' = AfterHandlers
    /\ UNCHANGED <<call, ret, trigger, youngLimit, todo, reqMinor, reqMajor, allocs, arrivals>>

\* A handler raises: caml_set_action_pending, and the exception leaves the allocation.
HandlersRaise ==
    /\ pc = "handlers" /\ pending
    /\ pending' = FALSE /\ owed' = FALSE
    /\ todo' = TRUE /\ youngLimit' = HeapSize
    /\ pc' = "code"
    /\ UNCHANGED <<call, ret, youngPtr, trigger, blocks, reqMinor, reqMajor, allocs, arrivals>>

\* Mutant: the allocation that was undone is not made again.
RoomNotTaken ==
    /\ pc = "room"
    /\ IF youngPtr - size >= trigger
       THEN pc' = "init" /\ UNCHANGED <<ret, youngPtr, trigger, blocks, reqMinor, reqMajor>>
       ELSE GcDispatch("loop")
    /\ UNCHANGED <<call, youngLimit, todo, pending, owed, allocs, arrivals>>

\* There may be enough room now; if not, collect and look at everything again.
Room ==
    /\ pc = "room"
    /\ IF youngPtr - size >= trigger
       THEN /\ youngPtr' = youngPtr - size /\ pc' = "init"
            /\ UNCHANGED <<ret, trigger, blocks, reqMinor, reqMajor>>
       ELSE GcDispatch("loop")
    /\ UNCHANGED <<call, youngLimit, todo, pending, owed, allocs, arrivals>>

-----------------------------------------------------------------------------
(* Requests from elsewhere *)

\* caml_record_signal, in a signal handler: caml_set_action_pending.
SignalArrives ==
    /\ arrivals < MaxSignals /\ arrivals' = arrivals + 1
    /\ pending' = TRUE /\ todo' = TRUE /\ youngLimit' = HeapSize
    /\ UNCHANGED <<pc, call, ret, youngPtr, trigger, blocks, reqMinor, reqMajor, owed, allocs>>

\* caml_request_minor_gc and caml_request_major_slice, from a primitive or caml_alloc_shr.
RequestGc(minor) ==
    /\ pc = "code" /\ allocs < MaxAllocs /\ allocs' = allocs + 1
    /\ reqMinor' = (reqMinor \/ minor) /\ reqMajor' = (reqMajor \/ ~minor)
    /\ todo' = TRUE /\ youngLimit' = HeapSize
    /\ UNCHANGED <<pc, call, ret, youngPtr, trigger, blocks, pending, owed, arrivals>>

-----------------------------------------------------------------------------
\* caml_set_minor_heap_size
Init ==
    /\ pc = "code" /\ tier = "base" /\ size = 0 /\ ret = "code"
    /\ youngPtr = HeapSize /\ trigger = 0 /\ youngLimit = 0 /\ blocks = {}
    /\ todo = FALSE /\ pending = FALSE /\ reqMinor = FALSE /\ reqMajor = FALSE
    /\ owed = FALSE /\ allocs = 0 /\ arrivals = 0

Runtime ==
    \/ Compare \/ InitBlock \/ Undo \/ DoPendingActions \/ CheckUrgentGc \/ ForceQuery
    \/ StoreLimit \/ CheckTodo \/ Room
    \/ HandlersRaise \/ \E n \in Sizes \union {0} : HandlersReturn(n)
Program ==
    \/ \E t \in {"base", "opt"} : Poll(t) \/ \E n \in Sizes : Bump(t, n)
    \/ \E minor \in BOOLEAN : RequestGc(minor)

\* The program ends between two operations.
Finished == pc = "code" /\ UNCHANGED vars

Next == Runtime \/ Program \/ SignalArrives \/ Finished

Spec == Init /\ [][Next]_vars
\* The processor executes the runtime's code.
FairSpec == Spec /\ WF_vars(Runtime)

-----------------------------------------------------------------------------
(* Properties *)

FlagTypes ==
    /\ todo \in BOOLEAN /\ pending \in BOOLEAN /\ owed \in BOOLEAN
    /\ reqMinor \in BOOLEAN /\ reqMajor \in BOOLEAN

\* The pointers stay inside the arena, except between the bump and its check.
TypeOK ==
    /\ pc \in PcLabels /\ ret \in PcLabels /\ tier \in {"base", "opt"}
    /\ size \in Sizes \union {0}
    /\ youngPtr \in Int /\ (pc \notin {"compare", "dispatch"} => youngPtr \in 0..HeapSize)
    /\ trigger \in {0, AllocMid} /\ youngLimit \in {0, AllocMid, HeapSize}
    /\ allocs \in 0..MaxAllocs /\ arrivals \in 0..MaxSignals
    /\ FlagTypes

\* Blocks lie in the part of the arena already used and never overlap, whatever way round
\* the fast path, the collector, the handlers' own allocations and signals take turns.
BlocksApart ==
    /\ pc \notin {"compare", "dispatch", "init"} =>
         \A b \in blocks : youngPtr <= b[1] /\ b[2] < HeapSize
    /\ pc \in {"compare", "dispatch", "init"} =>
         \A b \in blocks : youngPtr + size <= b[1] /\ b[2] < HeapSize
    /\ \A b, c \in blocks : b = c \/ b[2] < c[1] \/ c[2] < b[1]

\* A signal is never lost: from its arrival until the handlers have run, OCaml code sees
\* something_to_do, and its next allocation takes the slow path, however the arrival fell
\* in the middle of caml_update_young_limit or caml_do_pending_actions_exn.
SignalForcesSlowPath ==
    pending /\ pc \in {"code", "compare"} => todo /\ youngLimit = HeapSize

\* Baseline code runs asynchronous callbacks in its slow path: a signal that was pending
\* when it got there is not pending for it any more when the allocation is over.
BaselineAllocRunsHandlers == pc = "code" /\ tier = "base" => ~owed

\* "In the case of allocations performed from OCaml, execute asynchronous callbacks": the
\* same for both tiers, which are both OCaml code.
AllocRunsHandlers == pc = "code" => ~owed

\* The loop of caml_alloc_small_dispatch comes to an end: every allocation gets its block,
\* or is left by an exception.
AllocTerminates == pc # "code" ~> pc = "code"
=============================================================================
