----------------------------- MODULE UnixSupport ----------------------------
(* What the primitives of the Unix library share on both systems: the        *)
(* exception Unix_error, checks of arguments, socket addresses.              *)
EXTENDS StubSteps

\* unixsupport.c, cstringv.c
unix_error_of_code(err) == Either(Block(err, {}), Unit({err}))

unix_error(cmdarg) ==
    LET locals == {"e.name", "e.err", "e.arg"} IN
    Unit(locals) \o Begin_roots(locals)
    \o (IF cmdarg = Nothing THEN Alloc("e.arg") ELSE Let("e.arg", cmdarg))
    \o Alloc("e.name") \o unix_error_of_code("e.err")
    \o When(Raise({}))
    \o Block("e.res", locals) \o End_roots \o Raise({"e.res"})

uerror(cmdarg) == Errno \o unix_error(cmdarg)
caml_unix_check_path(path) == Read({path}) \o When(unix_error(path))
unix_cloexec_p == Read({"cloexec"})
unix_set_cloexec == Sys \o When(uerror(Nothing)) \o Sys \o When(uerror(Nothing))
unix_clear_cloexec == unix_set_cloexec

cstringvect(p, arg) ==
    Read({arg}) \o When(Load("arg.i", arg) \o unix_error("arg.i"))
    \o Acquire(p) \o Read({arg})

-----------------------------------------------------------------------------
\* socketaddr.c
alloc_inet_addr(v) == Alloc(v)
alloc_unix_sockaddr(v, path) ==
    CAMLparam({path}) \o CAMLlocal({"a.res"}) \o Block("a.res", {path})
    \o Let(v, "a.res") \o End_roots
InetSockaddr(v) ==
    alloc_inet_addr("a.a") \o Begin_roots({"a.a"}) \o Block(v, {"a.a"}) \o End_roots
alloc_sockaddr(v, close_on_error) ==
    Either(Alloc("a.path") \o alloc_unix_sockaddr(v, "a.path"),
    Either(InetSockaddr(v),
           (IF close_on_error = Nothing THEN <<>> ELSE Release(close_on_error))
           \o unix_error(Nothing)))
get_sockaddr(mladr) ==
    Either(Load("m.path", mladr) \o Read({"m.path"}) \o When(unix_error("m.path")),
           Load("m.addr", mladr) \o Read({"m.addr", mladr}))

=============================================================================
