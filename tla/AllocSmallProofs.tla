-------------------------- MODULE AllocSmallProofs --------------------------
(***************************************************************************)
(* The invariants of AllocSmall for every size of the arena, every set of  *)
(* block sizes and every number of allocations and signals.  None of them  *)
(* is inductive alone; IInv adds what holds in the middle of the slow path *)
(* and of caml_update_young_limit.                                         *)
(***************************************************************************)
EXTENDS AllocSmall, TLAPS

\* While an allocation is under way its size is known and fits above young_ptr.
InFlight ==
    /\ pc \in {"compare", "dispatch", "init", "force", "room"} => size \in Sizes
    /\ pc \in {"compare", "dispatch", "init"} => youngPtr + size \in 0..HeapSize
    /\ pc \in {"store_limit", "check_todo"} =>
         /\ ret \in {"handlers", "force", "loop"}
         /\ ret \in {"force", "loop"} => size \in Sizes

\* The blocks are pairs of addresses.
BlockPairs == blocks \subseteq Int \X Int

\* A pending signal shows in something_to_do and in the limit, except on the way to the
\* handlers; in caml_update_young_limit something_to_do alone carries it.
SignalCarried ==
    pending =>
      /\ pc \notin {"store_limit", "check_todo", "handlers"} => todo /\ youngLimit = HeapSize
      /\ pc \in {"store_limit", "check_todo"} /\ ret # "handlers" => todo

\* Only a signal that is still pending is owed, and baseline code gets to the end of its
\* slow path through the handlers only.
OwedIsPending ==
    /\ owed => pending
    /\ pc = "force" \/ (pc \in {"store_limit", "check_todo"} /\ ret = "force") => tier = "opt"
    /\ tier = "base" /\ pc \in {"code", "init", "room"} => ~owed

ArenaInv == TypeOK /\ InFlight /\ BlockPairs /\ BlocksApart
IInv == ArenaInv /\ SignalCarried /\ OwedIsPending

-----------------------------------------------------------------------------
\* The mid-point is a word of the arena below its end.
LEMMA MidInside == AllocMid \in Nat /\ AllocMid <= HeapSize
  BY HeapAssumption DEF AllocMid

\* Baseline code allocates on behalf of OCaml.
LEMMA BaselineFromCaml == FromCaml("base")
  BY DEF FromCaml, Flags

\* The initial state, as caml_set_minor_heap_wsz leaves it, satisfies the invariant.
LEMMA InitIInv == Init => IInv
<1> SUFFICES ASSUME Init PROVE IInv
  OBVIOUS
<1>0. FlagTypes
  BY DEF Init, FlagTypes
<1>1. TypeOK
  BY <1>0, HeapAssumption, AllocBoundAssumption, MidInside DEF Init, TypeOK, PcLabels
<1>2. InFlight /\ BlockPairs /\ BlocksApart
  BY DEF Init, InFlight, BlockPairs, BlocksApart
<1>3. SignalCarried /\ OwedIsPending
  BY DEF Init, SignalCarried, OwedIsPending
<1> QED BY <1>1, <1>2, <1>3 DEF IInv, ArenaInv

-----------------------------------------------------------------------------
(* Flags keep their types *)
LEMMA NextFlags == FlagTypes /\ [Next]_vars => FlagTypes'
<1> SUFFICES ASSUME FlagTypes, [Next]_vars PROVE FlagTypes'
  OBVIOUS
<1> USE DEF FlagTypes
<1>1. ASSUME NEW t \in {"base", "opt"}, NEW n \in Sizes, Bump(t, n) PROVE FlagTypes'
  BY <1>1 DEF Bump, requests
<1>2. CASE Compare
  BY <1>2 DEF Compare, requests
<1>3. CASE InitBlock
  BY <1>3 DEF InitBlock, requests
<1>4. ASSUME NEW t \in {"base", "opt"}, Poll(t) PROVE FlagTypes'
  BY <1>4 DEF Poll, requests
<1>5. CASE StoreLimit
  BY <1>5 DEF StoreLimit, requests
<1>6. CASE CheckTodo
  BY <1>6 DEF CheckTodo, requests
<1>7. CASE Undo
  BY <1>7 DEF Undo, requests
<1>8. CASE DoPendingActions
  BY <1>8 DEF DoPendingActions, GcDispatch
<1>9. CASE CheckUrgentGc
  BY <1>9 DEF CheckUrgentGc, GcDispatch
<1>10. CASE ForceQuery
  BY <1>10 DEF ForceQuery
<1>11. ASSUME NEW n \in Sizes \union {0}, HandlersReturn(n) PROVE FlagTypes'
  BY <1>11 DEF HandlersReturn
<1>12. CASE HandlersRaise
  BY <1>12 DEF HandlersRaise
<1>13. CASE Room
  BY <1>13 DEF Room, GcDispatch
<1>14. CASE SignalArrives
  BY <1>14 DEF SignalArrives
<1>15. ASSUME NEW minor \in BOOLEAN, RequestGc(minor) PROVE FlagTypes'
  BY <1>15 DEF RequestGc
<1>16. CASE UNCHANGED vars
  BY <1>16 DEF vars, requests
<1> QED
  BY <1>1, <1>2, <1>3, <1>4, <1>5, <1>6, <1>7, <1>8, <1>9, <1>10, <1>11, <1>12, <1>13,
     <1>14, <1>15, <1>16 DEF Next, Runtime, Program, Finished

-----------------------------------------------------------------------------
(* The arena: one step per action *)
LEMMA NextArena == ArenaInv /\ [Next]_vars => ArenaInv'
<1> SUFFICES ASSUME ArenaInv, [Next]_vars PROVE ArenaInv'
  OBVIOUS
<1>0. FlagTypes /\ FlagTypes'
  BY NextFlags DEF ArenaInv, TypeOK
<1> USE <1>0, HeapAssumption, AllocBoundAssumption, MidInside
    DEF ArenaInv, TypeOK, InFlight, BlockPairs, BlocksApart, PcLabels,
        arena, call, requests
<1>1. ASSUME NEW t \in {"base", "opt"}, NEW n \in Sizes, Bump(t, n) PROVE ArenaInv'
  BY <1>1 DEF Bump
<1>2. CASE Compare
  BY <1>2 DEF Compare
<1>3. CASE InitBlock
  BY <1>3 DEF InitBlock, Block
<1>4. ASSUME NEW t \in {"base", "opt"}, Poll(t) PROVE ArenaInv'
  BY <1>4 DEF Poll
<1>5. CASE StoreLimit
  BY <1>5 DEF StoreLimit
<1>6. CASE CheckTodo
  BY <1>6 DEF CheckTodo
<1>7. CASE Undo
  BY <1>7 DEF Undo
<1>8. CASE DoPendingActions
  BY <1>8 DEF DoPendingActions, GcDispatch, DoMinor, DoSlice
<1>9. CASE CheckUrgentGc
  BY <1>9 DEF CheckUrgentGc, GcDispatch, DoMinor, DoSlice
<1>10. CASE ForceQuery
  BY <1>10 DEF ForceQuery
<1>11. ASSUME NEW n \in Sizes \union {0}, HandlersReturn(n) PROVE ArenaInv'
  BY <1>11 DEF HandlersReturn, AfterHandlers, Block
<1>12. CASE HandlersRaise
  BY <1>12 DEF HandlersRaise
<1>13. CASE Room
  BY <1>13 DEF Room, GcDispatch, DoMinor, DoSlice
<1>14. CASE SignalArrives
  BY <1>14 DEF SignalArrives
<1>15. ASSUME NEW minor \in BOOLEAN, RequestGc(minor) PROVE ArenaInv'
  BY <1>15 DEF RequestGc
<1>16. CASE UNCHANGED vars
  BY <1>16 DEF vars
<1> QED
  BY <1>1, <1>2, <1>3, <1>4, <1>5, <1>6, <1>7, <1>8, <1>9, <1>10, <1>11, <1>12, <1>13,
     <1>14, <1>15, <1>16 DEF Next, Runtime, Program, Finished

-----------------------------------------------------------------------------
(* Signals: one step per action.  In Compare, a pending signal has raised the *)
(* limit to the end of the arena, so that the bumped pointer is below it.     *)
LEMMA NextSignals ==
    ArenaInv /\ SignalCarried /\ OwedIsPending /\ [Next]_vars => (SignalCarried /\ OwedIsPending)'
<1> DEFINE G == SignalCarried /\ OwedIsPending
<1> SUFFICES ASSUME ArenaInv, G, [Next]_vars PROVE G'
  OBVIOUS
<1>0. FlagTypes /\ FlagTypes'
  BY NextFlags DEF ArenaInv, TypeOK
<1> USE <1>0 DEF SignalCarried, OwedIsPending, FlagTypes, arena, call, requests
<1>1. ASSUME NEW t \in {"base", "opt"}, NEW n \in Sizes, Bump(t, n) PROVE G'
  BY <1>1 DEF Bump
<1>2. CASE Compare
  <2>1. pending => youngPtr < youngLimit
    BY <1>2, HeapAssumption DEF Compare, ArenaInv, TypeOK, InFlight
  <2> QED BY <1>2, <2>1 DEF Compare
<1>3. CASE InitBlock
  BY <1>3 DEF InitBlock
<1>4. ASSUME NEW t \in {"base", "opt"}, Poll(t) PROVE G'
  BY <1>4 DEF Poll
<1>5. CASE StoreLimit
  BY <1>5 DEF StoreLimit
<1>6. CASE CheckTodo
  BY <1>6 DEF CheckTodo, ArenaInv, InFlight
<1>7. CASE Undo
  BY <1>7 DEF Undo
<1>8. CASE DoPendingActions
  BY <1>8 DEF DoPendingActions, GcDispatch
<1>9. CASE CheckUrgentGc
  BY <1>9, BaselineFromCaml DEF CheckUrgentGc, GcDispatch, ArenaInv, TypeOK
<1>10. CASE ForceQuery
  BY <1>10 DEF ForceQuery
<1>11. ASSUME NEW n \in Sizes \union {0}, HandlersReturn(n) PROVE G'
  BY <1>11 DEF HandlersReturn, AfterHandlers
<1>12. CASE HandlersRaise
  BY <1>12 DEF HandlersRaise
<1>13. CASE Room
  BY <1>13 DEF Room, GcDispatch
<1>14. CASE SignalArrives
  BY <1>14 DEF SignalArrives
<1>15. ASSUME NEW minor \in BOOLEAN, RequestGc(minor) PROVE G'
  BY <1>15 DEF RequestGc
<1>16. CASE UNCHANGED vars
  BY <1>16 DEF vars
<1> QED
  BY <1>1, <1>2, <1>3, <1>4, <1>5, <1>6, <1>7, <1>8, <1>9, <1>10, <1>11, <1>12, <1>13,
     <1>14, <1>15, <1>16 DEF Next, Runtime, Program, Finished

-----------------------------------------------------------------------------
\* The inductive invariant holds throughout.
THEOREM Invariance == Spec => []IInv
<1>1. IInv /\ [Next]_vars => IInv'
  BY NextArena, NextSignals DEF IInv
<1> QED BY InitIInv, <1>1, PTL DEF Spec

\* young_ptr, young_trigger and young_limit stay in the arena, for every arena.
THEOREM TypeCorrect == Spec => []TypeOK
<1>1. IInv => TypeOK
  BY DEF IInv, ArenaInv
<1> QED BY Invariance, <1>1, PTL

\* Bump allocation, inlined in two tiers, never hands out overlapping blocks.
THEOREM BlocksStayApart == Spec => []BlocksApart
<1>1. IInv => BlocksApart
  BY DEF IInv, ArenaInv
<1> QED BY Invariance, <1>1, PTL

\* No interleaving of a signal with caml_update_young_limit loses the signal.
THEOREM SignalsKept == Spec => []SignalForcesSlowPath
<1>1. IInv => SignalForcesSlowPath
  BY DEF IInv, SignalCarried, SignalForcesSlowPath
<1> QED BY Invariance, <1>1, PTL

\* The slow path of baseline code runs the handlers of the signals it found pending.
THEOREM BaselineRunsHandlers == Spec => []BaselineAllocRunsHandlers
<1>1. IInv => BaselineAllocRunsHandlers
  BY DEF IInv, OwedIsPending, BaselineAllocRunsHandlers
<1> QED BY Invariance, <1>1, PTL
=============================================================================
