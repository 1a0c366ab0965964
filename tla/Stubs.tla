------------------------------- MODULE Stubs --------------------------------
(* A C primitive called from OCaml code, with the collector and the other    *)
(* threads around it.  Whenever the primitive allocates, polls or gives the  *)
(* master lock away, every block may move: only variables that are           *)
(* registered as local roots are updated.                                    *)
EXTENDS StubSteps, Integers

CONSTANT Primitives      \* [args : set of variables, code : sequence of steps, breaks]

VARIABLES
    breaks,      \* the rules that this primitive is known to break
    code,        \* what is still to be done
    vals, stale, \* variables with a value; those whose block has moved since
    immediate,   \* variables that do not hold a pointer
    young, raw,  \* blocks of the last allocation; those with fields not yet set
    old,         \* blocks that are known to be in the major heap
    roots,       \* Caml_state->local_roots, a stack of frames
    lock,        \* this thread holds the master lock
    held,        \* resources of C
    errno, last, \* errno and GetLastError() are those of the call that failed
    outcome      \* "runs", "returned", "raised", "interrupted"
vars == <<breaks, code, vals, stale, immediate, young, raw, old, roots, lock, held, errno, last, outcome>>

values == <<vals, stale, immediate, young, raw, old>>
errors == <<errno, last>>

Init ==
    /\ \E p \in Primitives : code = p.code /\ vals = p.args /\ breaks = p.breaks
    /\ stale = {} /\ immediate = {} /\ young = {} /\ raw = {} /\ old = {} /\ roots = <<>> /\ lock = TRUE /\ held = {}
    /\ errno = FALSE /\ last = FALSE /\ outcome = "runs"

Rooted == UNION {roots[i] : i \in DOMAIN roots}
At(op) == outcome = "runs" /\ code # <<>> /\ code[1].op = op
Arg == code[1].v
Others == code[1].s
Next1 == code' = Tail(code) /\ UNCHANGED outcome

\* After a collection the variables that are not roots still have the old address.
Moved == stale \union (vals \ (Rooted \union immediate))
Collected == stale' = Moved \ {Arg} /\ young' = {} /\ UNCHANGED <<vals, immediate, raw, old>>
\* The collector and OCaml code make library calls of their own.
ErrorsLost == errno' = FALSE /\ last' = FALSE
\* v is a pointer to a block where it is now.
Assigned(v, moved) ==
    /\ vals' = vals \union {v}
    /\ stale' = moved \ {v}
    /\ immediate' = immediate \ {v}
    /\ old' = old \ {v}

Assign ==
    /\ \/ /\ At("unit") /\ vals' = vals \union Others /\ stale' = stale \ Others
          /\ immediate' = immediate \union Others /\ UNCHANGED old
       \/ /\ At("let") /\ vals' = vals \union {Arg}
          /\ stale' = IF Others \cap stale = {} THEN stale \ {Arg} ELSE stale \union {Arg}
          /\ immediate' = IF Others \subseteq immediate THEN immediate \union {Arg}
                          ELSE immediate \ {Arg}
          /\ old' = IF Others \subseteq old THEN old \union {Arg} ELSE old \ {Arg}
       \/ At("load") /\ Assigned(Arg, stale)
    /\ Next1 /\ UNCHANGED <<young, raw, roots, lock, held, errors>>

Access ==
    /\ At("read") \/ At("store")
    /\ Next1 /\ UNCHANGED <<values, roots, lock, held, errors>>

caml_alloc ==
    /\ At("alloc") \/ At("any") \/ At("small")
    /\ Assigned(Arg, Moved)
    /\ young' = IF At("any") THEN {} ELSE {Arg}
    /\ raw' = IF At("small") THEN raw \union {Arg} ELSE raw
    /\ ErrorsLost
    /\ Next1 /\ UNCHANGED <<roots, lock, held>>

\* The major heap grows instead of being collected.
caml_alloc_shr ==
    /\ At("shr") \/ At("shrdata")
    /\ Assigned(Arg, stale)
    /\ raw' = IF At("shr") THEN raw \union {Arg} ELSE raw
    /\ Next1 /\ UNCHANGED <<young, roots, lock, held, errors>>

SetFields ==
    /\ At("fill") \/ At("init")
    /\ raw' = raw \ {Arg}
    /\ Next1 /\ UNCHANGED <<vals, stale, immediate, young, old, roots, lock, held, errors>>

caml_check_urgent_gc ==
    /\ \/ At("gc") \/ At("poll")
    /\ Collected /\ ErrorsLost /\ Next1 /\ UNCHANGED <<roots, lock, held>>

\* What was young and reachable from a root has been promoted.
caml_minor_collection ==
    /\ At("minor")
    /\ stale' = Moved /\ young' = {} /\ old' = old \union (vals \cap Rooted)
    /\ ErrorsLost /\ Next1 /\ UNCHANGED <<vals, immediate, raw, roots, lock, held>>

Where ==
    /\ \/ At("isyoung") /\ young' = young \union {Arg} /\ UNCHANGED old
       \/ At("isold") /\ old' = old \union Others /\ UNCHANGED young
    /\ Next1 /\ UNCHANGED <<vals, stale, immediate, raw, roots, lock, held, errors>>

LocalRoots ==
    /\ \/ At("roots") /\ roots' = <<Others>> \o roots
       \/ At("local") /\ roots' = [roots EXCEPT ![1] = @ \union Others]
       \/ At("unroot") /\ roots' = Tail(roots)
    /\ Next1 /\ UNCHANGED <<values, lock, held, errors>>

\* Signal handlers run before the lock is given away and after it is taken
\* back, and the other threads run in between.
caml_enter_blocking_section ==
    /\ At("enter") /\ lock' = FALSE
    /\ Collected /\ ErrorsLost /\ Next1 /\ UNCHANGED <<roots, held>>

caml_leave_blocking_section ==
    /\ At("leave") /\ lock' = TRUE
    /\ last' = FALSE        \* errno is saved and restored
    /\ Collected /\ Next1 /\ UNCHANGED <<roots, held, errno>>

\* A handler raises: the exception leaves the primitive.
Interrupted ==
    /\ At("enter") \/ At("leave") \/ At("poll")
    /\ outcome' = "interrupted" /\ lock' = TRUE
    /\ UNCHANGED <<code, values, roots, held, errors>>

Resource ==
    /\ \/ At("acquire") /\ held' = held \union {Arg}
       \/ At("release") /\ held' = held \ {Arg}
       \/ At("kept") /\ held' = held \ {Arg}
    /\ Next1 /\ UNCHANGED <<values, roots, lock, errors>>

ErrorCode ==
    /\ \/ At("sys") /\ errno' = TRUE /\ last' = FALSE
       \/ At("winsys") /\ errno' = FALSE /\ last' = TRUE
       \/ At("library") /\ ErrorsLost
       \/ At("seterrno") /\ errno' = TRUE /\ UNCHANGED last
       \/ (At("lasterror") \/ At("errno")) /\ UNCHANGED errors
    /\ Next1 /\ UNCHANGED <<values, roots, lock, held>>

Branch ==
    /\ \/ At("either") /\ \E c \in {1, 2} :
              code' = (IF c = 1 THEN code[1].a ELSE code[1].b) \o Tail(code)
       \/ At("loop") /\ code' = code[1].a \o code
       \/ At("loop") /\ code' = Tail(code)
    /\ UNCHANGED <<outcome, values, roots, lock, held, errors>>

caml_callback ==
    /\ At("callback")
    /\ \/ Assigned(Arg, Moved) /\ Next1
       \/ outcome' = "interrupted" /\ UNCHANGED <<code, vals, stale, immediate, old>>
    /\ young' = {} /\ ErrorsLost /\ UNCHANGED <<raw, roots, lock, held>>

Exit ==
    /\ \/ At("raise") /\ outcome' = "raised" /\ held' = held \ {"channel"}
       \/ At("return") /\ outcome' = "returned" /\ UNCHANGED held
    /\ UNCHANGED <<code, values, roots, lock, errors>>

Terminated == outcome # "runs" /\ UNCHANGED vars

Next ==
    \/ Assign \/ Access \/ caml_alloc \/ caml_alloc_shr \/ SetFields \/ LocalRoots
    \/ caml_check_urgent_gc \/ caml_minor_collection \/ Where
    \/ caml_enter_blocking_section \/ caml_leave_blocking_section \/ Interrupted
    \/ Resource \/ ErrorCode \/ Branch \/ caml_callback \/ Exit
    \/ Terminated

Spec == Init /\ [][Next /\ UNCHANGED breaks]_vars

-----------------------------------------------------------------------------
Uses == {"read", "load", "fill", "store", "init", "callback", "raise", "return"}
Collects == {"alloc", "any", "small", "gc", "poll", "minor", "enter", "leave", "callback", "raise"}
OfRuntime == (Uses \union Collects \union {"shr", "shrdata", "roots", "local", "unroot"}) \ {"leave"}

\* No primitive touches an OCaml value through a pointer that a collection has
\* made invalid, or while it has given the master lock away; at every point
\* where a collection may happen all registered variables hold values and no
\* block has unset fields; and a field of a block is assigned without
\* caml_modify only as long as the block is certain to be young.  The primitives
\* whose breaks says "heap" are known not to.
HeapDiscipline ==
    "heap" \notin breaks /\ outcome = "runs" /\ code # <<>> =>
        LET s == code[1] IN
        /\ s.op \in Uses => s.s \subseteq vals \ stale
        /\ s.op \in {"fill", "store", "init"} => s.v \in vals \ stale
        /\ s.op \in {"gc", "poll"} /\ s.v # "" => s.v \in vals \ stale
        /\ s.op = "fill" /\ ~ s.s \subseteq old \union immediate => s.v \in young
        /\ s.op \in OfRuntime => lock
        /\ s.op \in Collects => raw = {} /\ Rooted \subseteq vals \ stale

\* When a primitive returns or raises on its own account it holds the master
\* lock, has given back every resource of C that its result does not own, and
\* a return leaves no frame of local roots behind.  The exceptions of handlers
\* and callbacks that pass through it are left out, and the resources of those
\* whose breaks says "left", which are known to keep one.
NothingLeftBehind ==
    /\ outcome = "runs" => code # <<>>
    /\ outcome # "runs" => lock
    /\ "left" \notin breaks /\ outcome \in {"returned", "raised"} => held = {}
    /\ outcome = "returned" => roots = <<>>

\* The error that a primitive reports is the one of the call that failed: no
\* other call has replaced errno or the last error of Windows in between.  Those
\* whose breaks says "error" are known to report another.
OwnErrorReported ==
    "error" \notin breaks => (At("errno") => errno) /\ (At("lasterror") => last)
=============================================================================
