----------------------------- MODULE StubSteps ------------------------------
(* The alphabet in which the C primitives of the runtime and of the Unix     *)
(* library are written down: a primitive is the sequence of what it does     *)
(* with OCaml values, local roots, the master lock, C resources and error    *)
(* codes, in the order of its statements, with its branches and loops.       *)
(* Variables of type value are named by strings; integers and C data are     *)
(* left out.                                                                 *)
EXTENDS Sequences

Step(op, v, s, a, b) == [op |-> op, v |-> v, s |-> s, a |-> a, b |-> b]
Do(op, v, s) == <<Step(op, v, s, <<>>, <<>>)>>

\* Values: an immediate is assigned; a block is read or written; one variable
\* or a field of a block is assigned to another.
Unit(s) == Do("unit", "", s)
Read(s) == Do("read", "", s)
Let(v, w) == Do("let", v, {w})
Load(v, w) == Do("load", v, {w})
LoadOf(v, s) == Do("load", v, s)

\* Allocation: a small block whose fields the collector may look at at once, one
\* of any size, which may be in the major heap, and a block of the minor heap
\* whose fields are still to be set.
Alloc(v) == Do("alloc", v, {})
AllocAny(v) == Do("any", v, {})
AllocSmall(v) == Do("small", v, {})
\* Field(v, i) = x for the x of s and for immediates; caml_modify.
Fill(v, s) == Do("fill", v, s)
Store(v, s) == Do("store", v, s)
Block(v, s) == AllocSmall(v) \o Fill(v, s)

\* A block of the major heap, allocated without a collection, and the first
\* assignment of its fields.
AllocShr(v) == Do("shr", v, {})
AllocShrData(v) == Do("shrdata", v, {})     \* without fields to scan
Initialize(v, s) == Do("init", v, s)

\* A slice of the collector, for which v is a root too, and one that also runs
\* signal handlers, finalisers and memprof callbacks; a minor collection; the
\* outcome of a test of where blocks are.
Collect(v) == Do("gc", v, {})
Poll(v) == Do("poll", v, {})
MinorCollection == Do("minor", "", {})
IsYoung(v) == Do("isyoung", v, {})
IsOld(s) == Do("isold", "", s)

\* Local roots.
Begin_roots(s) == Do("roots", "", s)
End_roots == Do("unroot", "", {})
CAMLparam(s) == Begin_roots(s)
CAMLlocal(s) == Unit(s) \o Do("local", "", s)

\* The master lock.
Enter == Do("enter", "", {})
Leave == Do("leave", "", {})

\* Resources of C: memory, descriptors, handles.  Kept: owned by the result.
Acquire(r) == Do("acquire", r, {})
Release(r) == Do("release", r, {})
Kept(r) == Do("kept", r, {})

\* The mutex of a channel, which an exception unlocks.
Lock == Acquire("channel")
Unlock == Release("channel")

\* A call of the C library sets errno when it fails, a call of Windows sets the
\* last error of the thread; another library call may change both; an error
\* code may be kept in a local variable.
Sys == Do("sys", "", {})
WinSys == Do("winsys", "", {})
Library == Do("library", "", {})
SetErrno == Do("seterrno", "", {})
GetLastError == Do("lasterror", "", {})
Errno == Do("errno", "", {})

Either(a, b) == <<Step("either", "", {}, a, b)>>
When(a) == Either(a, <<>>)
Loop(a) == <<Step("loop", "", {}, a, <<>>)>>
DoWhile(a) == a \o Loop(a)

\* OCaml code is called: it may allocate, and raise.
Callback(v, s) == Do("callback", v, s)
\* An exception comes back as a result.
Callback_exn(v, s) == Read(s) \o AllocAny(v)
Raise(s) == Do("raise", "", s)
Return(s) == Do("return", "", s)
CAMLreturn(s) == End_roots \o Return(s)

Nothing == "Nothing"
Prim(args, code) == [args |-> args, code |-> code, breaks |-> {}]
\* A primitive that is known to break rules: "heap", "left", "error".
Breaking(p, rules) == [p EXCEPT !.breaks = rules]

\* A system call in a blocking section; the copy of a string that outlives it.
Blocking == Enter \o Sys \o Leave
caml_stat_strdup(p, v) == Read({v}) \o Acquire(p)

=============================================================================
