------------------------------ MODULE Threads -------------------------------
(* System threads and signals of the bytecode runtime                        *)
(* (otherlibs/systhreads/st_stubs.c, st_posix.h, runtime/signals.c): the     *)
(* master lock, the registers that Caml_state holds for the thread inside,   *)
(* the ring of thread infos that the collector walks, mutexes, conditions,   *)
(* channel locks, the tick thread, threads of C and fork.                    *)
(*                                                                           *)
(* Every thread has a stack of frames, the C functions it is in.  A thread   *)
(* runs OCaml code when its top frame is "ocaml" or "handler".  What the     *)
(* program does is prog, one sequence of operations for each thread.         *)
EXTENDS Integers, Sequences, FiniteSets, SequencesExt, FiniteSetsExt

CONSTANTS Programs,     \* [ops : thread -> sequence of operations; raises, fails : BOOLEAN;
                        \*  signals, ticks : how many come from outside and from the tick thread]
          Names,        \* the threads
          Main,         \* the thread of the program's start
          OfC,          \* threads created by C code
          Mutexes, Conditions, Channels

VARIABLES
    prog, pos,
    stack,                      \* frames of each thread, the current one first
    life,                       \* "none", "alive" (linked), "outside" (of C, not linked), "dead"
    busy, waiters,              \* caml_master_lock
    asleep, woken,              \* waiting on is_free; signalled and not yet awake
    curr,                       \* curr_thread
    cs, saved, mine,            \* Caml_state; the copies in the infos; what each thread left
    nxt, prv, all_threads,
    pending, signals_are_pending, something_to_do, mask, signals,
    holder,                     \* of each lock
    lastLocked,                 \* last_channel_locked_key
    ended,                      \* status of the termination event
    tick, ticks, tick_stop,     \* the tick thread: "none", "select", "record"
    over                        \* "no", "exit", "fatal"
lockvars == <<busy, waiters, asleep, woken>>
ring == <<nxt, prv, all_threads>>
state == <<curr, cs, saved, mine>>
sigs == <<pending, signals_are_pending, something_to_do, mask, signals>>
ticker == <<tick, ticks, tick_stop>>
locks == <<holder, lastLocked, ended>>
vars == <<prog, pos, stack, life, lockvars, state, ring, sigs, locks, ticker, over>>

NoOne == "-"
Other == "SIGINT"        \* a signal with a handler of the program
Preempt == "SIGVTALRM"   \* its handler yields
Signals == {Other, Preempt}

\* What OCaml code does, and what C code in a thread of its own does.
Operation ==
    [do : {"yield", "block", "cleanup", "fork", "exit"}]
      \union [do : {"lock", "unlock"}, on : Mutexes]
      \union [do : {"wait"}, on : Conditions, with : Mutexes]
      \union [do : {"signal", "broadcast"}, on : Conditions]
      \union [do : {"channel"}, on : Channels]
      \union [do : {"create", "join"}, on : Names \ OfC]
      \union [do : {"sigmask"}, on : SUBSET Signals]
ForeignOperation == [do : {"register", "callback", "unregister"}]

ASSUME NamesAssumption ==
    /\ IsFiniteSet(Names) /\ OfC \subseteq Names /\ Main \in Names \ OfC
    /\ NoOne \notin Names \union Mutexes \union Channels /\ Mutexes \intersect Channels = {}
ASSUME ProgramsAssumption ==
    \A p \in Programs : \A t \in Names :
      p.ops[t] \in IF t \in OfC THEN Seq(ForeignOperation) ELSE Seq(Operation)

Frame(pc, x, set) == [pc |-> pc, x |-> x, set |-> set]
F(pc) == Frame(pc, NoOne, {})
On(pc, x) == Frame(pc, x, {})
At(t, pc) == over = "no" /\ stack[t] # <<>> /\ stack[t][1].pc = pc
Top(t) == stack[t][1]
\* The current function goes on as fs: none to return, several to call.
Continue(t, fs) == stack' = [stack EXCEPT ![t] = fs \o Tail(@)]

Enter == <<F("psig"), F("release")>>       \* caml_enter_blocking_section
Leave == <<F("acquire"), F("unblocked")>>  \* caml_leave_blocking_section
Blocking(pc, x) == Enter \o <<On(pc, x)>> \o Leave

(***************************************************************************)
(* The master lock.                                                        *)
(***************************************************************************)
caml_thread_restore_runtime_state(t) == curr' = t /\ cs' = saved[t] /\ UNCHANGED <<saved, mine>>
caml_thread_save_runtime_state == saved' = [saved EXCEPT ![curr] = cs] /\ UNCHANGED <<curr, cs, mine>>

\* With the lock, a thread that leaves a blocking section loads its registers; one that
\* registers or unregisters itself goes on with the ring.
Taken(t) ==
    \/ Top(t).pc \in {"acquire", "sleep"} /\ Continue(t, <<>>) /\ caml_thread_restore_runtime_state(t)
    \/ Top(t).pc \in {"take", "doze"} /\ Continue(t, <<F(Top(t).x)>>) /\ UNCHANGED state

st_masterlock_acquire(t) ==
    /\ At(t, "acquire") \/ At(t, "take")
    /\ IF busy
       THEN /\ waiters' = waiters + 1 /\ asleep' = asleep \union {t}
            /\ Continue(t, <<On(IF Top(t).pc = "acquire" THEN "sleep" ELSE "doze", Top(t).x)>>)
            /\ UNCHANGED <<busy, woken, state>>
       ELSE busy' = TRUE /\ Taken(t) /\ UNCHANGED <<waiters, asleep, woken>>
    /\ UNCHANGED <<prog, pos, life, ring, sigs, locks, ticker, over>>

\* pthread_cond_wait returns, in st_masterlock_acquire or in st_thread_yield.
Awake(t) ==
    /\ (At(t, "sleep") \/ At(t, "doze")) /\ t \in woken
    /\ woken' = woken \ {t}
    /\ IF busy
       THEN asleep' = asleep \union {t} /\ UNCHANGED <<busy, waiters, stack, state>>
       ELSE busy' = TRUE /\ waiters' = waiters - 1 /\ Taken(t) /\ UNCHANGED asleep
    /\ UNCHANGED <<prog, pos, life, ring, sigs, locks, ticker, over>>

caml_thread_enter_blocking_section(t) ==
    /\ At(t, "release")
    /\ caml_thread_save_runtime_state
    /\ busy' = FALSE
    /\ Continue(t, <<F("wake"), F("recheck")>>)
    /\ UNCHANGED <<prog, pos, life, waiters, asleep, woken, ring, sigs, locks, ticker, over>>

\* pthread_cond_signal(is_free) moves some sleeping thread, if there is one.
SignalFree ==
    \/ asleep = {} /\ UNCHANGED <<asleep, woken>>
    \/ \E w \in asleep : asleep' = asleep \ {w} /\ woken' = woken \union {w}

st_masterlock_release(t) ==
    /\ At(t, "wake")
    /\ SignalFree
    /\ Continue(t, <<>>)
    /\ UNCHANGED <<prog, pos, life, busy, waiters, state, ring, sigs, locks, ticker, over>>

\* The end of the loop of caml_enter_blocking_section.
caml_enter_blocking_section(t) ==
    /\ At(t, "recheck")
    /\ Continue(t, IF signals_are_pending THEN <<F("acquire")>> \o Enter ELSE <<>>)
    /\ UNCHANGED <<prog, pos, life, lockvars, state, ring, sigs, locks, ticker, over>>

caml_leave_blocking_section(t) ==
    /\ At(t, "unblocked")
    /\ signals_are_pending' = TRUE
    /\ Continue(t, <<F("psig")>>)
    /\ UNCHANGED <<prog, pos, life, lockvars, state, ring, pending, something_to_do, mask, signals,
                   locks, ticker, over>>

caml_thread_yield(t) ==
    /\ At(t, "yield")
    /\ Continue(t, IF waiters = 0 THEN <<>> ELSE <<F("psig"), F("handover"), F("psig")>>)
    /\ UNCHANGED <<prog, pos, life, lockvars, state, ring, sigs, locks, ticker, over>>

\* A mutation: the waiters are not counted again under the lock.
st_thread_yield_unchecked(t) ==
    /\ At(t, "handover")
    /\ caml_thread_save_runtime_state
    /\ busy' = FALSE /\ waiters' = waiters + 1
    /\ \/ asleep = {} /\ asleep' = {t} /\ UNCHANGED woken
       \/ \E w \in asleep : asleep' = (asleep \ {w}) \union {t} /\ woken' = woken \union {w}
    /\ Continue(t, <<F("sleep")>>)
    /\ UNCHANGED <<prog, pos, life, ring, sigs, locks, ticker, over>>

st_thread_yield(t) ==
    /\ At(t, "handover")
    /\ caml_thread_save_runtime_state
    /\ IF waiters = 0
       THEN Continue(t, <<>>) /\ UNCHANGED lockvars
       ELSE /\ busy' = FALSE /\ waiters' = waiters + 1
            /\ \/ asleep = {} /\ asleep' = {t} /\ UNCHANGED woken
               \/ \E w \in asleep : asleep' = (asleep \ {w}) \union {t} /\ woken' = woken \union {w}
            /\ Continue(t, <<F("sleep")>>)
    /\ UNCHANGED <<prog, pos, life, ring, sigs, locks, ticker, over>>

(***************************************************************************)
(* Signals.                                                                *)
(***************************************************************************)
\* caml_raise unlocks the channel and goes to the OCaml code of the thread; a
\* signal handler on the way returns the exception, its mask is restored, and
\* its caller raises it again; caml_do_pending_actions_exn first sets caml_something_to_do
\* again.  Without OCaml code below the program ends.
caml_raise(t) ==
    LET code == {k \in DOMAIN stack[t] : stack[t][k].pc = "ocaml"}
        handlers == {k \in DOMAIN stack[t] : stack[t][k].pc \in {"handler", "handled"}
                                             /\ \A c \in code : k < c}
    IN  /\ IF code = {}
           THEN over' = "fatal" /\ UNCHANGED stack
           ELSE stack' = [stack EXCEPT ![t] = SubSeq(@, Min(code), Len(@))] /\ UNCHANGED over
        /\ mask' = IF handlers = {} THEN mask
                   ELSE [mask EXCEPT ![t] = stack[t][Max(handlers)].set]
        /\ something_to_do' = (something_to_do \/ \E k \in DOMAIN stack[t] :
                                   stack[t][k].pc = "scan" /\ stack[t][k].x = "actions")
        /\ lastLocked' = [lastLocked EXCEPT ![t] = NoOne]
        /\ holder' = IF lastLocked[t] = NoOne THEN holder
                     ELSE [holder EXCEPT ![lastLocked[t]] = NoOne]

caml_process_pending_signals_exn(t) ==
    /\ At(t, "psig")
    /\ signals_are_pending' = FALSE
    /\ Continue(t, IF signals_are_pending THEN <<Frame("scan", Top(t).x, Signals)>> ELSE <<>>)
    /\ UNCHANGED <<prog, pos, life, lockvars, state, ring, pending, something_to_do, mask, signals,
                   locks, ticker, over>>

\* The loop over the signals, up to the next handler, which runs with its own
\* signal blocked.
caml_execute_signal_exn(t) ==
    LET due == {s \in Top(t).set : s \in pending /\ s \notin mask[t]}
        s == IF Other \in due THEN Other ELSE Preempt    \* in the order of their numbers
    IN  /\ At(t, "scan")
        /\ IF due = {}
           THEN Continue(t, <<>>) /\ UNCHANGED <<pending, mask>>
           ELSE /\ pending' = pending \ {s}
                /\ mask' = [mask EXCEPT ![t] = @ \union {s}]
                /\ Continue(t, <<Frame("handler", s, mask[t]),
                                 Frame("scan", Top(t).x, IF s = Other THEN Top(t).set \ {Other} ELSE {})>>)
        /\ UNCHANGED <<prog, pos, life, lockvars, state, ring, signals_are_pending, something_to_do,
                       signals, locks, ticker, over>>

\* The handler of Preempt is Thread.yield; the other one returns or raises.
Handler(t) ==
    /\ At(t, "handler")
    /\ \/ /\ Continue(t, (IF Top(t).x = Preempt THEN <<F("yield")>> ELSE <<>>)
                           \o <<Frame("handled", Top(t).x, Top(t).set)>>)
          /\ UNCHANGED <<mask, something_to_do, holder, lastLocked, over>>
       \/ Top(t).x = Other /\ prog.raises /\ caml_raise(t)
    /\ UNCHANGED <<prog, pos, life, lockvars, state, ring, pending, signals_are_pending, signals,
                   ended, ticker>>

HandlerReturns(t) ==
    /\ At(t, "handled")
    /\ mask' = [mask EXCEPT ![t] = Top(t).set]
    /\ Continue(t, <<>>)
    /\ UNCHANGED <<prog, pos, life, lockvars, state, ring, pending, signals_are_pending,
                   something_to_do, signals, locks, ticker, over>>

\* OCaml code finds caml_something_to_do set: caml_process_pending_actions.
caml_do_pending_actions_exn(t) ==
    /\ At(t, "ocaml") /\ something_to_do
    /\ something_to_do' = FALSE
    /\ Continue(t, <<On("psig", "actions"), F("ocaml")>>)
    /\ UNCHANGED <<prog, pos, life, lockvars, state, ring, pending, signals_are_pending, mask,
                   signals, locks, ticker, over>>

\* A signal reaches a thread that does not block it: with threads, handle_signal
\* always records it.
caml_record_signal(t) ==
    /\ over = "no" /\ life[t] = "alive" /\ signals < prog.signals /\ Other \notin mask[t]
    /\ signals' = signals + 1
    /\ pending' = pending \union {Other}
    /\ signals_are_pending' = TRUE /\ something_to_do' = TRUE
    /\ UNCHANGED <<prog, pos, stack, life, lockvars, state, ring, mask, locks, ticker, over>>

\* The tick thread is not stopped by the master lock, so its stores are separate steps.
caml_thread_tick ==
    /\ over = "no"
    /\ \/ /\ tick = "select" /\ (ticks < prog.ticks \/ tick_stop)
          /\ tick' = "record" /\ ticks' = IF ticks < prog.ticks THEN ticks + 1 ELSE ticks
          /\ pending' = pending \union {Preempt}
          /\ UNCHANGED <<signals_are_pending, something_to_do>>
       \/ /\ tick = "record"
          /\ tick' = IF tick_stop THEN "none" ELSE "select"
          /\ signals_are_pending' = TRUE /\ something_to_do' = TRUE
          /\ UNCHANGED <<pending, ticks>>
    /\ UNCHANGED <<prog, pos, stack, life, lockvars, state, ring, mask, signals, locks, tick_stop, over>>

(***************************************************************************)
(* The ring of infos and the life of a thread.                             *)
(***************************************************************************)
\* The info of a new thread has an empty stack.
caml_thread_new_info(u) == saved' = [saved EXCEPT ![u] = <<u, 0>>]

\* u goes into the ring after a.
Link(u, a) ==
    /\ nxt' = [nxt EXCEPT ![u] = nxt[a], ![a] = u]
    /\ prv' = IF nxt[a] = a THEN [prv EXCEPT ![u] = a, ![a] = u]
              ELSE [prv EXCEPT ![u] = a, ![nxt[a]] = u]

\* A mutation: all_threads may keep the info that is freed.
caml_thread_remove_info_keep(t) ==
    /\ all_threads' = IF nxt[t] = t THEN NoOne ELSE all_threads
    /\ LET p == [prv EXCEPT ![nxt[t]] = prv[t]]
           n == [nxt EXCEPT ![prv[t]] = nxt[t]]
       IN  prv' = [p EXCEPT ![t] = NoOne] /\ nxt' = [n EXCEPT ![t] = NoOne]

caml_thread_remove_info(t) ==
    /\ all_threads' = IF nxt[t] = t THEN NoOne ELSE IF all_threads = t THEN nxt[t] ELSE all_threads
    /\ LET p == [prv EXCEPT ![nxt[t]] = prv[t]]
           n == [nxt EXCEPT ![prv[t]] = nxt[t]]
       IN  prv' = [p EXCEPT ![t] = NoOne] /\ nxt' = [n EXCEPT ![t] = NoOne]

StartTick == tick' = (IF tick = "none" THEN "select" ELSE tick) /\ UNCHANGED <<ticks, tick_stop>>

\* caml_thread_stop: the state is saved and the termination event is set ...
caml_threadstatus_terminate(t) ==
    /\ At(t, "stop")
    /\ caml_thread_save_runtime_state
    /\ ended' = ended \union {t}
    /\ Continue(t, <<F("stopping")>>)
    /\ UNCHANGED <<prog, pos, life, lockvars, ring, sigs, holder, lastLocked, ticker, over>>

\* ... the threads that wait for it are woken, the info is freed and the lock is free.
caml_thread_stop(t) ==
    /\ At(t, "stopping")
    /\ caml_thread_remove_info(t)
    /\ life' = [life EXCEPT ![t] = "dead"]
    /\ busy' = FALSE
    /\ stack' = [u \in Names |->
                   IF u = t THEN <<F("wake")>>
                   ELSE IF stack[u] # <<>> /\ stack[u][1] = On("joining", t)
                        THEN <<On("join", t)>> \o Tail(stack[u]) ELSE stack[u]]
    /\ UNCHANGED <<prog, pos, waiters, asleep, woken, state, sigs, locks, ticker, over>>

st_event_wait(t) ==
    /\ At(t, "join")
    /\ Continue(t, IF Top(t).x \in ended THEN <<>> ELSE <<On("joining", Top(t).x)>>)
    /\ UNCHANGED <<prog, pos, life, lockvars, state, ring, sigs, locks, ticker, over>>

\* A thread of C that is not registered takes the master lock ...
caml_c_thread_register(t) ==
    /\ At(t, "register")
    /\ Continue(t, IF life[t] = "alive" THEN <<>> ELSE <<On("take", "link")>>)
    /\ UNCHANGED <<prog, pos, life, lockvars, state, ring, sigs, locks, ticker, over>>

\* ... links its info and frees the lock, and enters the runtime for its descriptor.
RegisterInfo(t) ==
    /\ At(t, "link")
    /\ IF all_threads = NoOne
       THEN nxt' = [nxt EXCEPT ![t] = t] /\ prv' = [prv EXCEPT ![t] = t] /\ all_threads' = t
       ELSE Link(t, all_threads) /\ UNCHANGED all_threads
    /\ life' = [life EXCEPT ![t] = "alive"]
    /\ caml_thread_new_info(t) /\ mine' = [mine EXCEPT ![t] = 0]
    /\ busy' = FALSE
    /\ Continue(t, <<F("wake")>> \o Leave \o <<F("descriptor")>> \o Enter)
    /\ UNCHANGED <<prog, pos, waiters, asleep, woken, curr, cs, sigs, locks, ticker, over>>

caml_thread_new_descriptor(t) ==
    /\ At(t, "descriptor")
    /\ StartTick
    /\ Continue(t, <<>>)
    /\ UNCHANGED <<prog, pos, life, lockvars, state, ring, sigs, locks, over>>

caml_c_thread_unregister(t) ==
    /\ At(t, "unregister")
    /\ Continue(t, IF life[t] = "alive" THEN <<On("take", "unlink")>> ELSE <<>>)
    /\ UNCHANGED <<prog, pos, life, lockvars, state, ring, sigs, locks, ticker, over>>

UnregisterInfo(t) ==
    /\ At(t, "unlink")
    /\ caml_thread_remove_info(t)
    /\ life' = [life EXCEPT ![t] = "outside"]
    /\ busy' = FALSE
    /\ Continue(t, <<F("wake")>>)
    /\ UNCHANGED <<prog, pos, waiters, asleep, woken, state, sigs, locks, ticker, over>>

\* The tick thread is joined with the master lock held.
caml_thread_cleanup(t) ==
    /\ At(t, "cleanup") /\ tick = "none"
    /\ tick_stop' = FALSE
    /\ Continue(t, <<>>)
    /\ UNCHANGED <<prog, pos, life, lockvars, state, ring, sigs, locks, tick, ticks, over>>

(***************************************************************************)
(* What blocks outside the master lock.                                    *)
(***************************************************************************)
st_mutex_lock(t) ==
    /\ At(t, "lock") /\ holder[Top(t).x] = NoOne
    /\ holder' = [holder EXCEPT ![Top(t).x] = t]
    /\ Continue(t, <<>>)
    /\ UNCHANGED <<prog, pos, life, lockvars, state, ring, sigs, lastLocked, ended, ticker, over>>

\* A mutation: the key is not set in the blocking section.
caml_io_mutex_lock_late(t) ==
    /\ At(t, "lockchan") /\ holder[Top(t).x] = NoOne
    /\ holder' = [holder EXCEPT ![Top(t).x] = t]
    /\ Continue(t, <<>>)
    /\ UNCHANGED <<prog, pos, life, lockvars, state, ring, sigs, lastLocked, ended, ticker, over>>

\* caml_io_mutex_lock after its trylock failed: the mutex, then the key.
caml_io_mutex_lock(t) ==
    /\ At(t, "lockchan") /\ holder[Top(t).x] = NoOne
    /\ holder' = [holder EXCEPT ![Top(t).x] = t]
    /\ Continue(t, <<On("setkey", Top(t).x)>>)
    /\ UNCHANGED <<prog, pos, life, lockvars, state, ring, sigs, lastLocked, ended, ticker, over>>

st_tls_set(t) ==
    /\ At(t, "setkey")
    /\ lastLocked' = [lastLocked EXCEPT ![t] = Top(t).x]
    /\ Continue(t, <<>>)
    /\ UNCHANGED <<prog, pos, life, lockvars, state, ring, sigs, holder, ended, ticker, over>>

\* pthread_cond_wait: the mutex is released; it is taken again when signalled.
st_condvar_wait(t) ==
    /\ At(t, "wait")
    /\ holder' = [holder EXCEPT ![stack[t][2].x] = NoOne]
    /\ Continue(t, <<On("waiting", Top(t).x)>>)
    /\ UNCHANGED <<prog, pos, life, lockvars, state, ring, sigs, lastLocked, ended, ticker, over>>

caml_thread_sigmask(t) ==
    /\ At(t, "sigmask")
    /\ mask' = [mask EXCEPT ![t] = Top(t).set]
    /\ Continue(t, <<>>)
    /\ UNCHANGED <<prog, pos, life, lockvars, state, ring, pending, signals_are_pending,
                   something_to_do, signals, locks, ticker, over>>

\* A system call in a blocking section.
SystemCall(t) ==
    /\ At(t, "syscall")
    /\ Continue(t, <<>>)
    /\ UNCHANGED <<prog, pos, life, lockvars, state, ring, sigs, locks, ticker, over>>

\* The channel operation ends, or its system call had failed and it raises.
caml_io_mutex_unlock(t) ==
    /\ At(t, "unlockchan")
    /\ \/ /\ holder' = [holder EXCEPT ![Top(t).x] = NoOne]
          /\ lastLocked' = [lastLocked EXCEPT ![t] = NoOne]
          /\ Continue(t, <<>>) /\ UNCHANGED <<mask, something_to_do, over>>
       \/ prog.fails /\ caml_raise(t)
    /\ UNCHANGED <<prog, pos, life, lockvars, state, ring, pending, signals_are_pending, signals,
                   ended, ticker>>

(***************************************************************************)
(* Operations of the program.                                              *)
(***************************************************************************)
\* OCaml code changes its stack before each operation, here to one of two contents.
Runs(t) == cs' = <<cs[1], 1 - cs[2]>> /\ mine' = [mine EXCEPT ![t] = 1 - @]
Op(t) == prog.ops[t][pos[t]]
Step(t, name) ==
    /\ At(t, "ocaml") /\ pos[t] <= Len(prog.ops[t]) /\ Op(t).do = name
    /\ pos' = [pos EXCEPT ![t] = @ + 1]
    /\ Runs(t) /\ UNCHANGED <<prog, curr>>
Calls(t, fs) == Continue(t, fs \o <<F("ocaml")>>)

DoYield(t) ==
    /\ Step(t, "yield") /\ Calls(t, <<F("yield")>>)
    /\ UNCHANGED <<life, lockvars, saved, ring, sigs, locks, ticker, over>>

DoBlock(t) ==
    /\ Step(t, "block") /\ Calls(t, Blocking("syscall", NoOne))
    /\ UNCHANGED <<life, lockvars, saved, ring, sigs, locks, ticker, over>>

DoSigmask(t) ==
    /\ Step(t, "sigmask") /\ Calls(t, Enter \o <<Frame("sigmask", NoOne, Op(t).on)>> \o Leave)
    /\ UNCHANGED <<life, lockvars, saved, ring, sigs, locks, ticker, over>>

caml_mutex_lock(t) ==
    /\ Step(t, "lock")
    /\ IF holder[Op(t).on] = NoOne
       THEN holder' = [holder EXCEPT ![Op(t).on] = t] /\ UNCHANGED stack
       ELSE Calls(t, Blocking("lock", Op(t).on)) /\ UNCHANGED holder
    /\ UNCHANGED <<life, lockvars, saved, ring, sigs, lastLocked, ended, ticker, over>>

caml_mutex_unlock(t) ==
    /\ Step(t, "unlock")
    /\ holder' = [holder EXCEPT ![Op(t).on] = NoOne]
    /\ UNCHANGED <<stack, life, lockvars, saved, ring, sigs, lastLocked, ended, ticker, over>>

\* caml_condition_wait; the mutex is the lock of the operation before.
caml_condition_wait(t) ==
    /\ Step(t, "wait")
    /\ Calls(t, Enter \o <<On("wait", Op(t).on), On("lock", Op(t).with)>> \o Leave)
    /\ UNCHANGED <<life, lockvars, saved, ring, sigs, locks, ticker, over>>

Waits(u, c) == stack[u] # <<>> /\ stack[u][1] = On("waiting", c)
caml_condition_signal(t) ==
    /\ Step(t, "signal")
    /\ \/ (\A u \in Names : ~Waits(u, Op(t).on)) /\ UNCHANGED stack
       \/ \E u \in Names : Waits(u, Op(t).on) /\ stack' = [stack EXCEPT ![u] = Tail(@)]
    /\ UNCHANGED <<life, lockvars, saved, ring, sigs, locks, ticker, over>>

caml_condition_broadcast(t) ==
    /\ Step(t, "broadcast")
    /\ stack' = [u \in Names |-> IF Waits(u, Op(t).on) THEN Tail(stack[u]) ELSE stack[u]]
    /\ UNCHANGED <<life, lockvars, saved, ring, sigs, locks, ticker, over>>

\* An operation on a channel: Lock, a system call, Unlock.
ChannelOp(t) ==
    LET c == Op(t).on
        call == Blocking("syscall", NoOne) \o <<On("unlockchan", c)>>
    IN  /\ Step(t, "channel")
        /\ IF holder[c] = NoOne
           THEN /\ holder' = [holder EXCEPT ![c] = t] /\ lastLocked' = [lastLocked EXCEPT ![t] = c]
                /\ Calls(t, call)
           ELSE /\ Calls(t, Blocking("lockchan", c) \o call)
                /\ UNCHANGED <<holder, lastLocked>>
        /\ UNCHANGED <<life, lockvars, saved, ring, sigs, ended, ticker, over>>

\* caml_thread_new; when the system gives no thread, the info is removed again.
caml_thread_new(t) ==
    LET u == Op(t).on
    IN  /\ Step(t, "create") /\ life[u] = "none"
        /\ \/ /\ Link(u, curr)
              /\ life' = [life EXCEPT ![u] = "alive"]
              /\ caml_thread_new_info(u)
              /\ mask' = [mask EXCEPT ![u] = mask[t]]
              /\ stack' = [stack EXCEPT ![u] = Leave \o <<F("start")>>]
              /\ StartTick
           \/ prog.fails /\ UNCHANGED <<stack, life, saved, nxt, prv, mask, ticker>>
        /\ UNCHANGED <<lockvars, all_threads, pending, signals_are_pending, something_to_do, signals,
                       locks, over>>

\* The new thread is inside and calls its closure: only from here on is there OCaml code
\* that an exception can reach.
caml_thread_start(t) ==
    /\ At(t, "start")
    /\ Continue(t, <<F("ocaml")>>)
    /\ UNCHANGED <<prog, pos, life, lockvars, state, ring, sigs, locks, ticker, over>>

caml_thread_join(t) ==
    /\ Step(t, "join")
    /\ IF life[Op(t).on] = "none" THEN UNCHANGED stack ELSE Calls(t, Blocking("join", Op(t).on))
    /\ UNCHANGED <<life, lockvars, saved, ring, sigs, locks, ticker, over>>

DoCleanup(t) ==
    /\ Step(t, "cleanup")
    /\ IF tick = "none" THEN UNCHANGED <<stack, tick_stop>>
       ELSE tick_stop' = TRUE /\ Calls(t, <<F("cleanup")>>)
    /\ UNCHANGED <<life, lockvars, saved, ring, sigs, locks, tick, ticks, over>>

\* fork, seen from the child: the current thread alone is left.
caml_thread_reinitialize(t) ==
    /\ Step(t, "fork")
    /\ life' = [u \in Names |-> IF u = t \/ life[u] = "none" THEN life[u] ELSE "dead"]
    /\ stack' = [u \in Names |-> IF u = t THEN stack[t] ELSE <<>>]
    /\ nxt' = [u \in Names |-> IF u = t THEN t ELSE NoOne]
    /\ prv' = [u \in Names |-> IF u = t THEN t ELSE NoOne]
    /\ all_threads' = t
    /\ busy' = TRUE /\ waiters' = 0 /\ asleep' = {} /\ woken' = {}
    /\ tick' = "none" /\ UNCHANGED <<ticks, tick_stop>>
    /\ holder' = [l \in Mutexes \union Channels |-> IF l \in Channels THEN NoOne ELSE holder[l]]
    /\ UNCHANGED <<saved, sigs, lastLocked, ended, over>>

\* The end of a thread, by itself or by Thread.exit ...
caml_thread_exit(t) ==
    /\ \/ At(t, "ocaml") /\ t # Main /\ pos[t] > Len(prog.ops[t])
       \/ At(t, "ocaml") /\ pos[t] <= Len(prog.ops[t]) /\ Op(t).do = "exit"
    /\ Continue(t, <<F("stop")>>)
    /\ UNCHANGED <<prog, pos, life, lockvars, state, ring, sigs, locks, ticker, over>>

\* ... and the end of the main program, which is the end of the process.
ProcessEnds ==
    /\ At(Main, "ocaml") /\ pos[Main] > Len(prog.ops[Main])
    /\ over' = "exit"
    /\ UNCHANGED <<prog, pos, stack, life, lockvars, state, ring, sigs, locks, ticker>>

\* C code of its own thread registers, runs a callback once it is registered, or unregisters.
FromC(t) ==
    /\ over = "no" /\ t \in OfC /\ life[t] # "dead" /\ stack[t] = <<>> /\ pos[t] <= Len(prog.ops[t])
    /\ Op(t).do = "callback" => life[t] = "alive"
    /\ pos' = [pos EXCEPT ![t] = @ + 1]
    /\ stack' = [stack EXCEPT ![t] =
          CASE Op(t).do = "register" -> <<F("register")>>
            [] Op(t).do = "callback" -> Leave \o <<F("callback")>> \o Enter
            [] Op(t).do = "unregister" -> <<F("unregister")>>]
    /\ UNCHANGED <<prog, life, lockvars, state, ring, sigs, locks, ticker, over>>

caml_callback(t) ==
    /\ At(t, "callback")
    /\ Runs(t) /\ Continue(t, <<>>)
    /\ UNCHANGED <<prog, pos, life, lockvars, curr, saved, ring, sigs, locks, ticker, over>>
-----------------------------------------------------------------------------
\* caml_thread_initialize
Init ==
    /\ prog \in Programs
    /\ pos = [t \in Names |-> 1]
    /\ stack = [t \in Names |-> IF t = Main THEN <<F("ocaml")>> ELSE <<>>]
    /\ life = [t \in Names |-> IF t = Main THEN "alive" ELSE IF t \in OfC THEN "outside" ELSE "none"]
    /\ busy = TRUE /\ waiters = 0 /\ asleep = {} /\ woken = {}
    /\ curr = Main /\ cs = <<Main, 0>>
    /\ saved = [t \in Names |-> <<t, 0>>] /\ mine = [t \in Names |-> 0]
    /\ nxt = [t \in Names |-> IF t = Main THEN Main ELSE NoOne]
    /\ prv = nxt /\ all_threads = Main
    /\ pending = {} /\ signals_are_pending = FALSE /\ something_to_do = FALSE
    /\ mask = [t \in Names |-> {}] /\ signals = 0
    /\ holder = [l \in Mutexes \union Channels |-> NoOne] /\ lastLocked = [t \in Names |-> NoOne] /\ ended = {}
    /\ tick = "none" /\ ticks = 0 /\ tick_stop = FALSE
    /\ over = "no"

Runtime(t) ==
    \/ st_masterlock_acquire(t) \/ Awake(t) \/ caml_thread_enter_blocking_section(t)
    \/ st_masterlock_release(t) \/ caml_enter_blocking_section(t) \/ caml_leave_blocking_section(t)
    \/ caml_thread_yield(t) \/ st_thread_yield(t)
    \/ caml_process_pending_signals_exn(t) \/ caml_execute_signal_exn(t)
    \/ Handler(t) \/ HandlerReturns(t) \/ caml_do_pending_actions_exn(t)
    \/ caml_threadstatus_terminate(t) \/ caml_thread_stop(t) \/ st_event_wait(t)
    \/ caml_c_thread_register(t) \/ RegisterInfo(t) \/ caml_thread_new_descriptor(t)
    \/ caml_c_thread_unregister(t) \/ UnregisterInfo(t) \/ caml_thread_start(t)
    \/ caml_thread_cleanup(t) \/ caml_callback(t)
    \/ st_mutex_lock(t) \/ caml_io_mutex_lock(t) \/ st_tls_set(t) \/ st_condvar_wait(t) \/ caml_thread_sigmask(t)
    \/ SystemCall(t) \/ caml_io_mutex_unlock(t)
Program(t) ==
    \/ DoYield(t) \/ DoBlock(t) \/ DoSigmask(t) \/ caml_mutex_lock(t) \/ caml_mutex_unlock(t)
    \/ caml_condition_wait(t) \/ caml_condition_signal(t) \/ caml_condition_broadcast(t)
    \/ ChannelOp(t) \/ caml_thread_new(t) \/ caml_thread_join(t) \/ DoCleanup(t)
    \/ caml_thread_reinitialize(t) \/ caml_thread_exit(t) \/ FromC(t)

\* The process has ended, or its main thread has and no other is left to run.
Finished ==
    \/ over # "no"
    \/ \A t \in Names : life[t] # "alive" /\ stack[t] = <<>> /\ (t \in OfC => pos[t] > Len(prog.ops[t]))

Next ==
    \/ caml_thread_tick \/ ProcessEnds
    \/ \E t \in Names : Runtime(t) \/ Program(t) \/ caml_record_signal(t)

\* The system runs every thread that can run.
Fairness == WF_vars(caml_thread_tick \/ ProcessEnds) /\ \A t \in Names : WF_vars(Runtime(t) \/ Program(t))

Spec == Init /\ [][Next]_vars
FairSpec == Spec /\ Fairness
-----------------------------------------------------------------------------
\* The infos from t on, as caml_thread_scan_roots walks them: the least set with t and
\* what follows its infos.
Walk(t) ==
    LET closed == {c \in SUBSET (Names \union {NoOne}) : t \in c /\ \A u \in c \ {NoOne} : nxt[u] \in c}
    IN  {u \in Names \union {NoOne} : \A c \in closed : u \in c}

\* Whenever OCaml code runs and may start a collection, the runtime is its own: no other
\* thread is inside, curr_thread and Caml_state are its own, the ring has exactly the
\* threads that are linked, in both directions, and the info of every other one has the
\* registers with which it left.
RuntimeStateOwned ==
    \A t \in Names :
      (over = "no" /\ stack[t] # <<>> /\ stack[t][1].pc \in {"ocaml", "handler", "callback", "descriptor"}) =>
        /\ busy /\ curr = t /\ cs = <<t, mine[t]>>
        /\ \A u \in Names \ {t} : stack[u] # <<>> =>
             stack[u][1].pc \notin {"ocaml", "handler", "callback", "descriptor", "release", "handover",
                                      "start", "link", "unlink"}
        /\ LET linked == {u \in Names : life[u] = "alive"}
           IN  /\ Walk(t) = linked /\ (all_threads \in linked)
               /\ \A u \in linked : prv[nxt[u]] = u
               /\ \A u \in linked \ {t} : saved[u] = <<u, mine[u]>>

\* A channel is locked only while its thread is in an operation on it, however the operation
\* ended: also when a signal handler raises where the thread waits for the lock or the call.
\* And last_channel_locked_key names a channel only while its thread holds it, so that the
\* exception never unlocks a channel for someone else.  A signal between st_mutex_lock and
\* st_tls_set is no exception to this, whatever the comment between them says:
\* caml_thread_try_leave_blocking_section makes handle_signal record it, and its handler runs
\* in caml_leave_blocking_section at the earliest.
ChannelsReleased ==
    over = "fatal" \/
      /\ \A c \in Channels : (holder[c] # NoOne /\ life[holder[c]] = "alive") =>
           \E k \in DOMAIN stack[holder[c]] : stack[holder[c]][k] = On("unlockchan", c)
      /\ \A t \in Names : (life[t] = "alive" /\ lastLocked[t] # NoOne) => holder[lastLocked[t]] = t

\* No wake-up is lost: a program whose threads could all finish one after the other does,
\* through yields, joins, conditions, ticks, signals and fork.
ThreadsFinish == <>Finished
=============================================================================
