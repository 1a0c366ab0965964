------------------------------ MODULE Memprof -------------------------------
(* The statistical memory profiler: sampled blocks and the callbacks that    *)
(* tell the program of their allocation, promotion and death, while the      *)
(* callbacks raise, drop blocks, stop the profiler, collect, or are          *)
(* interrupted by other threads that run callbacks of their own.             *)
(*                                                                           *)
(* The geometric sampling is a choice: any allocation may be sampled.        *)
(* Indexes count from 1, and 0 is Invalid_index.  A pointer is the part of   *)
(* the heap it points into; "stale" when a minor collection did not see it.  *)
(* Bytecode makes one allocation at a time (nallocs = 1).                    *)
EXTENDS Integers, SequencesExt

CONSTANTS Workers,     \* threads
          Bounds       \* [samples, starts]: bounds on the samples taken and on the number of
                       \* times that the profiler is started
ASSUME WorkersAssumption == 0 \notin Workers
ASSUME BoundsAssumption == Bounds \subseteq [samples : Nat, starts : Nat]

VARIABLES
    trackst,     \* [entries, young, callback, delete, idx], idx: the t_idx of the threads
    bound,       \* one of Bounds
    started,     \* lambda > 0
    starts,
    cur,         \* the thread that runs
    suspended,   \* caml_memprof_suspended
    ctx,         \* what it is for the others
    frame,       \* [fn, pc, cb, id]: what a thread does in memprof.c
    pending,     \* caml_something_to_do
    used,        \* number of samples so far
    place,       \* sample -> [at, minor, promoted]: where the block really is
    calls        \* sample -> callbacks made: <<callback, argument>> (history)
vars == <<bound, trackst, started, starts, cur, suspended, ctx, frame, pending, used, place, calls>>

Samples == bound.samples
Invalid == 0
Unit == [of |-> 0, from |-> "unit", at |-> "unit"]
UserData(id, from, at) == [of |-> id, from |-> from, at |-> at]
None == [fn |-> "none", pc |-> "run", cb |-> "none", id |-> 0]
Clear(w) == [frame EXCEPT ![w] = None]

Nowhere == [at |-> "none", minor |-> FALSE, promoted |-> FALSE]
\* A block that a callback or the stop of the profiler discards is forgotten.
Discard(ids) ==
    /\ place' = [id \in 1..Samples |-> IF id \in ids THEN [Nowhere EXCEPT !.at = "dropped"] ELSE place[id]]
    /\ calls' = [id \in 1..Samples |-> IF id \in ids THEN <<>> ELSE calls[id]]

Empty(idx) == [entries |-> <<>>, young |-> 1, callback |-> 1, delete |-> 1, idx |-> idx]

Init ==
    /\ bound \in Bounds
    /\ trackst = Empty([w \in Workers |-> Invalid])
    /\ started = TRUE /\ starts = 1
    /\ cur \in Workers /\ suspended = FALSE /\ ctx = [w \in Workers |-> FALSE]
    /\ frame = [w \in Workers |-> None]
    /\ pending = FALSE /\ used = 0
    /\ place = [id \in 1..Samples |-> Nowhere]
    /\ calls = [id \in 1..Samples |-> <<>>]

-----------------------------------------------------------------------------
(* The table of tracked blocks.                                              *)

Entry(id, minor, block, data) ==
    [id |-> id, block |-> block, user_data |-> data, alloc_young |-> minor, promoted |-> FALSE,
     deallocated |-> FALSE, called |-> {}, deleted |-> FALSE, running |-> FALSE, idx_ptr |-> 0]

new_tracked(s, e) == [s EXCEPT !.entries = Append(@, e)]

mark_deleted(s, i) ==
    [s EXCEPT !.entries[i] = [@ EXCEPT !.deleted = TRUE, !.user_data = Unit, !.block = "unit"],
              !.delete = IF i < @ THEN i ELSE @]

\* Deleted entries are squeezed out, from the position delete on; the positions and the
\* t_idx follow.
Kept(s, i) == i < s.delete \/ ~s.entries[i].deleted
Moved(s, p) == Cardinality({i \in 1..p - 1 : Kept(s, i)}) + 1
Squeezed(s) ==
    [j \in 1..Moved(s, Len(s.entries) + 1) - 1 |->
       s.entries[CHOOSE i \in DOMAIN s.entries : Kept(s, i) /\ Moved(s, i) = j]]

\* Mutant: the variables of the frames are not told that their entry has moved.
flush_deleted_keeps_idx(s) ==
    [s EXCEPT !.entries = Squeezed(s), !.delete = Len(Squeezed(s)) + 1,
              !.young = Moved(s, @), !.callback = Moved(s, @)]

\* The entries moved that know the t_idx of w.
Pointing(s, w) == {i \in s.delete..Len(s.entries) : Kept(s, i) /\ s.entries[i].idx_ptr = w}
flush_deleted(s) ==
    [s EXCEPT !.entries = Squeezed(s), !.delete = Len(Squeezed(s)) + 1,
              !.young = Moved(s, @), !.callback = Moved(s, @),
              !.idx = [w \in Workers |-> IF Pointing(s, w) = {} THEN @[w]
                                         ELSE Moved(s, CHOOSE i \in Pointing(s, w) : TRUE)]]

check_action_pending(s, susp) == pending \/ (~susp /\ s.callback <= Len(s.entries))

\* The next callback that an entry calls for; they come in this order.
Due(e) ==
    IF "alloc" \notin e.called THEN "alloc"
    ELSE IF e.promoted /\ "promote" \notin e.called THEN "promote"
    ELSE IF e.deallocated /\ "dealloc" \notin e.called THEN "dealloc"
    ELSE "none"

-----------------------------------------------------------------------------
(* The collectors.                                                           *)

caml_memprof_oldify_young_roots(s) ==
    [s EXCEPT !.entries = [i \in DOMAIN @ |->
        IF i >= s.young /\ @[i].user_data.at = "young" THEN [@[i] EXCEPT !.user_data.at = "old"] ELSE @[i]]]

caml_memprof_minor_update(s, alive) ==
    LET updated(e) == IF e.id \in alive THEN [e EXCEPT !.block = "old", !.promoted = TRUE]
                      ELSE [e EXCEPT !.block = "unit", !.deallocated = TRUE]
    IN  [s EXCEPT !.entries = [i \in DOMAIN @ |->
             IF i >= s.young /\ @[i].block = "young" THEN updated(@[i]) ELSE @[i]],
                  !.callback = IF @ > s.young THEN s.young ELSE @,
                  !.young = Len(s.entries) + 1]

\* What still points into the minor heap points to nothing.
LeftBehind(e) == [e EXCEPT !.block = IF @ = "young" THEN "stale" ELSE @,
                           !.user_data.at = IF @ = "young" THEN "stale" ELSE @]
Emptied(s) == [s EXCEPT !.entries = [i \in DOMAIN @ |-> LeftBehind(@[i])]]

At(where) == {id \in 1..Samples : place[id].at = where}

\* Where a collection may happen: in OCaml code, when the callback's argument is
\* allocated, and when the block that was sampled is.
AtProgram(w) == frame[w].fn = "none" \/ frame[w].pc = "callback"
MayCollect == \/ AtProgram(cur)
              \/ frame[cur].pc = "call" /\ frame[cur].cb = "alloc"
              \/ frame[cur].pc = "place"

caml_empty_minor_heap ==
    /\ MayCollect
    /\ \E alive \in SUBSET At("young") :
        /\ trackst' = Emptied(caml_memprof_minor_update(caml_memprof_oldify_young_roots(trackst), alive))
        /\ pending' = IF trackst.callback > trackst.young
                      THEN check_action_pending(trackst', suspended) ELSE pending
        /\ place' = [id \in 1..Samples |->
                       IF id \in alive THEN [place[id] EXCEPT !.at = "old", !.promoted = TRUE]
                       ELSE IF id \in At("young") THEN [place[id] EXCEPT !.at = "dead"] ELSE place[id]]
    /\ UNCHANGED <<started, starts, cur, suspended, ctx, frame, used, calls>>

\* The start of the clean phase, white being the blocks that are not marked.
caml_memprof_update_clean_phase ==
    /\ MayCollect
    /\ \E white \in SUBSET At("old") :
        /\ trackst' = [trackst EXCEPT !.callback = 1, !.entries = [i \in DOMAIN @ |->
                         IF @[i].block = "old" /\ @[i].id \in white
                         THEN [@[i] EXCEPT !.block = "unit", !.deallocated = TRUE] ELSE @[i]]]
        /\ place' = [id \in 1..Samples |-> IF id \in white THEN [place[id] EXCEPT !.at = "dead"] ELSE place[id]]
    /\ pending' = check_action_pending(trackst', suspended)
    /\ UNCHANGED <<started, starts, cur, suspended, ctx, frame, used, calls>>

-----------------------------------------------------------------------------
(* Sampling.                                                                 *)

Sampling == AtProgram(cur) /\ started /\ ~suspended

\* Allocations whose callback is postponed: n blocks in the minor heap (from C, or
\* a value read by intern.c) or in the major heap.
Postponed(n, minor) ==
    LET ids == used + 1..used + n
        where == IF minor THEN "young" ELSE "old"
    IN  /\ Sampling /\ used + n <= Samples
        /\ used' = used + n
        /\ place' = [id \in 1..Samples |->
                       IF id \in ids THEN [at |-> where, minor |-> minor, promoted |-> FALSE] ELSE place[id]]
        /\ trackst' = [trackst EXCEPT !.entries =
                         @ \o [k \in 1..n |-> Entry(used + k, minor, where, UserData(used + k, "stack", "old"))]]
        /\ pending' = check_action_pending(trackst', suspended)
        /\ UNCHANGED <<started, starts, cur, suspended, ctx, frame, calls>>

caml_memprof_track_alloc_shr == Postponed(1, FALSE)
track_young_from_c == Postponed(1, TRUE)
caml_memprof_track_interned == \E n \in 1..2, minor \in BOOLEAN : Postponed(n, minor)

\* An allocation of OCaml code: the callback comes first, the block later.
caml_memprof_track_young ==
    LET id == used + 1
    IN  /\ Sampling /\ used < Samples
        /\ used' = id /\ suspended' = TRUE
        /\ place' = [place EXCEPT ![id].minor = TRUE]
        /\ trackst' = [new_tracked(trackst, Entry(id, TRUE, "placeholder", UserData(id, "stack", "young")))
                         EXCEPT !.idx[cur] = Len(trackst.entries) + 1]
        /\ frame' = [frame EXCEPT ![cur] = [fn |-> "young", pc |-> "entry", cb |-> "none", id |-> id]]
        /\ UNCHANGED <<started, starts, cur, ctx, pending, calls>>

-----------------------------------------------------------------------------
(* Callbacks.                                                                *)

Step(w, pc) == cur = w /\ frame[w].fn # "none" /\ frame[w].pc = pc
Goto(w, pc) == frame' = [frame EXCEPT ![w].pc = pc]

\* caml_do_pending_actions_exn, as far as memprof goes.
caml_memprof_handle_postponed_exn ==
    /\ AtProgram(cur) /\ pending
    /\ pending' = FALSE
    /\ suspended' = TRUE
    /\ frame' = IF suspended THEN frame ELSE [frame EXCEPT ![cur] = [None EXCEPT !.fn = "postponed", !.pc = "loop"]]
    /\ UNCHANGED <<trackst, started, starts, cur, ctx, used, place, calls>>

\* Its loop: the next entry that may have something to say.
NextEntry(w) ==
    LET i == trackst.callback
    IN  /\ Step(w, "loop") /\ i <= Len(trackst.entries)
        /\ trackst' = [trackst EXCEPT !.idx[w] = i]
        /\ frame' = [frame EXCEPT ![w].pc = "entry", ![w].id = trackst.entries[i].id]
        /\ UNCHANGED <<started, starts, cur, suspended, ctx, pending, used, place, calls>>

\* Discard the tracked blocks; the threads in a callback learn of it by their t_idx.
caml_memprof_discard(s) ==
    LET owners == {s.entries[i].idx_ptr : i \in DOMAIN s.entries}
    IN  /\ trackst' = Empty([w \in Workers |-> IF w \in owners THEN Invalid ELSE s.idx[w]])
        /\ started' = FALSE
        /\ Discard(1..used)

\* Its end, also after an exception of a callback, which leaves the rest for later.
Handled(w, exn) ==
    LET s == flush_deleted(trackst)
    IN  /\ suspended' = FALSE
        /\ IF frame[w].fn = "stop" /\ ~exn
           THEN caml_memprof_discard(s)
           ELSE trackst' = s /\ UNCHANGED <<started, place, calls>>
        /\ pending' = (check_action_pending(trackst, FALSE) \/ (exn /\ frame[w].fn = "postponed"))
        /\ frame' = Clear(w)
        /\ UNCHANGED <<starts, cur, ctx, used>>

NoMoreEntries(w) == Step(w, "loop") /\ trackst.callback > Len(trackst.entries) /\ Handled(w, FALSE)

\* handle_entry_callbacks_exn, from its start and after each callback.
Return(w) ==
    frame' = [frame EXCEPT ![w] = IF @.fn = "young" THEN [@ EXCEPT !.pc = "sampled", !.cb = "none"]
                                  ELSE [None EXCEPT !.fn = frame[w].fn, !.pc = "loop"]]
Left(s, w) == IF frame[w].fn = "young" THEN s ELSE [s EXCEPT !.idx[w] = Invalid]

handle_entry(w) ==
    LET i == trackst.idx[w]
        e == trackst.entries[i]
        due == Due(e)
        s == [trackst EXCEPT !.callback = IF frame[w].cb = "none" /\ i = @ THEN i + 1 ELSE @]
    IN  /\ Step(w, "entry")
        /\ IF e.deleted \/ e.running \/ due = "none"
           THEN trackst' = Left(s, w) /\ Return(w)
           ELSE /\ trackst' = [s EXCEPT !.entries[i].called = @ \union {due}]
                /\ frame' = [frame EXCEPT ![w].pc = "call", ![w].cb = due]
        /\ UNCHANGED <<started, starts, cur, suspended, ctx, pending, used, place, calls>>

\* Which function of the tracker is called.
Callback(e, cb) ==
    CASE cb = "alloc" -> IF e.alloc_young THEN "alloc_minor" ELSE "alloc_major"
      [] cb = "promote" -> "promote"
      [] cb = "dealloc" -> IF e.promoted \/ ~e.alloc_young THEN "dealloc_major" ELSE "dealloc_minor"

run_callback(w) ==
    LET i == trackst.idx[w]
        e == trackst.entries[i]
    IN  /\ Step(w, "call")
        /\ trackst' = [trackst EXCEPT !.entries[i] =
                         [@ EXCEPT !.user_data = Unit, !.running = TRUE, !.idx_ptr = w]]
        /\ calls' = [calls EXCEPT ![frame[w].id] =
                       Append(@, <<Callback(e, frame[w].cb), e.user_data.of, e.user_data.from>>)]
        /\ Goto(w, "callback")
        /\ UNCHANGED <<started, starts, cur, suspended, ctx, pending, used, place>>

\* The callback comes back, with Some of a value, with None or unit, or with an
\* exception, which is lost when the profiler was stopped in the meantime.
CallbackReturns(w, res) ==
    LET i == trackst.idx[w]
        s == [trackst EXCEPT !.entries[i] = [@ EXCEPT !.running = FALSE, !.idx_ptr = 0]]
        cb == frame[w].cb
    IN  /\ Step(w, "callback") /\ (cb = "dealloc" => res # "some")
        /\ IF i = Invalid THEN UNCHANGED trackst /\ Return(w)
           ELSE IF res = "some"
           THEN /\ \E at \in {"young", "old"} :
                     trackst' = [s EXCEPT !.entries[i].user_data = UserData(frame[w].id, cb, at),
                                          !.young = IF at = "young" /\ i < @ THEN i ELSE @]
                /\ Goto(w, "entry")
           ELSE /\ trackst' = [mark_deleted(s, i) EXCEPT !.idx[w] = Invalid]
                /\ IF res = "raise" THEN Goto(w, "raised") ELSE Return(w)
        /\ Discard(IF res = "some" THEN {} ELSE {frame[w].id})
        /\ UNCHANGED <<started, starts, cur, suspended, ctx, pending, used>>

PostponedRaises(w) == Step(w, "raised") /\ frame[w].fn # "young" /\ Handled(w, TRUE)

\* The rest of caml_memprof_track_young: the block is not allocated when the
\* callback has raised.
Sampled(w) ==
    LET i == trackst.idx[w]
        raised == frame[w].pc = "raised"
    IN  /\ cur = w /\ frame[w].fn = "young" /\ frame[w].pc \in {"sampled", "raised"}
        /\ suspended' = FALSE
        /\ pending' = check_action_pending(trackst, FALSE)
        /\ trackst' = IF i = Invalid THEN flush_deleted(trackst)
                      ELSE [trackst EXCEPT !.entries[i].idx_ptr = w]
        /\ frame' = IF raised THEN Clear(w) ELSE [frame EXCEPT ![w].pc = "place"]
        /\ UNCHANGED <<started, starts, cur, ctx, used, place, calls>>

Allocated(w) ==
    LET i == trackst.idx[w]
    IN  /\ Step(w, "place")
        /\ place' = IF i = Invalid THEN place ELSE [place EXCEPT ![frame[w].id].at = "young"]
        /\ trackst' = IF i = Invalid THEN trackst
                      ELSE [trackst EXCEPT !.entries[i].block = "young", !.entries[i].idx_ptr = 0,
                                           !.young = IF i < @ THEN i ELSE @, !.idx[w] = Invalid]
        /\ frame' = Clear(w)
        /\ UNCHANGED <<started, starts, cur, suspended, ctx, pending, used, calls>>

-----------------------------------------------------------------------------
(* Starting, stopping, and the other threads.                                *)

caml_memprof_start ==
    /\ AtProgram(cur) /\ ~started /\ starts < bound.starts
    /\ started' = TRUE /\ starts' = starts + 1
    /\ UNCHANGED <<trackst, cur, suspended, ctx, frame, pending, used, place, calls>>

\* The postponed callbacks are called first, unless this is a callback.
caml_memprof_stop ==
    /\ AtProgram(cur) /\ started
    /\ IF suspended
       THEN caml_memprof_discard(trackst) /\ UNCHANGED <<suspended, frame, pending>>
       ELSE /\ frame' = [frame EXCEPT ![cur] = [None EXCEPT !.fn = "stop", !.pc = "loop"]]
            /\ suspended' = TRUE
            /\ UNCHANGED <<trackst, started, pending, place, calls>>
    /\ UNCHANGED <<starts, cur, ctx, used>>

\* caml_thread_leave_blocking_section of another thread, after this one's enter.
Switch(w) ==
    /\ AtProgram(cur) /\ w # cur
    /\ cur' = w
    /\ ctx' = [ctx EXCEPT ![cur] = suspended]
    /\ suspended' = ctx[w]
    /\ pending' = check_action_pending(trackst, ctx[w])
    /\ UNCHANGED <<trackst, started, starts, frame, used, place, calls>>

Profile ==
    \/ caml_memprof_track_young \/ caml_memprof_track_alloc_shr \/ track_young_from_c
    \/ caml_memprof_track_interned
    \/ caml_empty_minor_heap \/ caml_memprof_update_clean_phase
    \/ caml_memprof_handle_postponed_exn \/ caml_memprof_start \/ caml_memprof_stop
    \/ \E w \in Workers :
        \/ NextEntry(w) \/ NoMoreEntries(w) \/ handle_entry(w) \/ run_callback(w)
        \/ \E res \in {"some", "none", "raise"} : CallbackReturns(w, res)
        \/ PostponedRaises(w) \/ Sampled(w) \/ Allocated(w) \/ Switch(w)

Next == Profile /\ UNCHANGED bound

Spec == Init /\ [][Next]_vars

-----------------------------------------------------------------------------
\* What the program is to be told of a block, and with which argument: the stack
\* of the allocation at first, then what the callback before it returned.
Expected(id) ==
    LET p == place[id]
    IN  <<<<IF p.minor THEN "alloc_minor" ELSE "alloc_major", id, "stack">>>>
        \o (IF p.promoted THEN <<<<"promote", id, "alloc">>>> ELSE <<>>)
        \o (IF p.at # "dead" THEN <<>>
            ELSE <<<<IF p.minor /\ ~p.promoted THEN "dealloc_minor" ELSE "dealloc_major", id,
                     IF p.promoted THEN "promote" ELSE "alloc">>>>)

InHand(id) == \E w \in Workers : frame[w].fn # "none" /\ frame[w].id = id
                                    /\ frame[w].pc \in {"entry", "call", "callback"}

\* Each sampled block has its callbacks, in order, of the right kind and with the
\* value of the one before, none twice and, unless one of them or the stop of the
\* profiler discarded the block, none lost: those still to come are of entries from
\* the position callback on, or of one in the hands of a thread, and a thread that
\* may run them has been told.  No pointer of the table is left behind by a minor
\* collection, and no thread's index by entries that move.
TrackingExact ==
    /\ \A id \in 1..used :
        IF place[id].at = "dropped" THEN calls[id] = <<>>
        ELSE /\ IsPrefix(calls[id], Expected(id))
             /\ \E i \in DOMAIN trackst.entries :
                /\ trackst.entries[i].id = id /\ ~trackst.entries[i].deleted
                /\ i >= trackst.callback \/ InHand(id) \/ calls[id] = Expected(id)
    /\ AtProgram(cur) /\ ~suspended /\ trackst.callback <= Len(trackst.entries) => pending
    /\ \A i \in DOMAIN trackst.entries :
        /\ trackst.entries[i].block # "stale" /\ trackst.entries[i].user_data.at # "stale"
        /\ trackst.entries[i].block \in {"young", "old"} =>
               trackst.entries[i].block = place[trackst.entries[i].id].at
    /\ \A w \in Workers : frame[w].pc \in {"call", "callback", "place"} /\ trackst.idx[w] # Invalid =>
           trackst.idx[w] \in DOMAIN trackst.entries /\ trackst.entries[trackst.idx[w]].id = frame[w].id
=============================================================================
