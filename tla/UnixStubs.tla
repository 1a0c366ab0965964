------------------------------ MODULE UnixStubs -----------------------------
(* The primitives of the Unix library (otherlibs/unix), as configured on     *)
(* Linux.                                                                    *)
EXTENDS UnixSupport

-----------------------------------------------------------------------------
\* The shapes that most primitives share: a system call that does not block,
\* one that may, and one on a path.
Calls(result) == Sys \o When(uerror(Nothing)) \o result
Blocks(result) == Blocking \o When(uerror(Nothing)) \o result
OnPath(done) ==
    CAMLparam({"path"}) \o caml_unix_check_path("path")
    \o caml_stat_strdup("p", "path") \o Blocking \o Release("p")
    \o When(uerror("path")) \o done
OnTwoPaths(reported) ==
    CAMLparam({"path1", "path2"})
    \o caml_unix_check_path("path1") \o caml_unix_check_path("path2")
    \o caml_stat_strdup("p1", "path1") \o caml_stat_strdup("p2", "path2")
    \o Blocking \o Release("p1") \o Release("p2")
    \o When(uerror(reported)) \o CAMLreturn({})
Done == Return({})
Made(v) == Alloc(v) \o Return({v})

unix_error_message == Prim({"err"}, Read({"err"}) \o Alloc("res") \o Return({"res"}))
unix_access == Prim({"path", "perms"},
    CAMLparam({"path", "perms"}) \o caml_unix_check_path("path") \o Read({"perms"})
    \o caml_stat_strdup("p", "path") \o Blocking \o Release("p")
    \o When(uerror("path")) \o CAMLreturn({}))
unix_alarm == Prim({}, Sys \o Done)
unix_chdir == Prim({"path"}, OnPath(CAMLreturn({})))
unix_chmod == Prim({"path"}, OnPath(CAMLreturn({})))
unix_chown == Prim({"path"}, OnPath(CAMLreturn({})))
unix_chroot == Prim({"path"}, OnPath(CAMLreturn({})))
unix_mkdir == Prim({"path"}, OnPath(CAMLreturn({})))
unix_mkfifo == Prim({"path"}, OnPath(CAMLreturn({})))
unix_rmdir == Prim({"path"}, OnPath(CAMLreturn({})))
unix_unlink == Prim({"path"}, OnPath(CAMLreturn({})))
unix_truncate == Prim({"path"}, OnPath(CAMLreturn({})))
unix_truncate_64 == Prim({"path", "vlen"}, Read({"vlen"}) \o OnPath(CAMLreturn({})))
unix_rename == Prim({"path1", "path2"}, OnTwoPaths("path1"))
unix_symlink == Prim({"path1", "path2"}, OnTwoPaths("path2"))
unix_utimes == Prim({"path", "atime", "mtime"},
    CAMLparam({"path", "atime", "mtime"}) \o caml_unix_check_path("path")
    \o Read({"atime", "mtime"})
    \o caml_stat_strdup("p", "path") \o Blocking \o Release("p")
    \o When(uerror("path")) \o CAMLreturn({}))
unix_readlink == Prim({"path"}, OnPath(Alloc("res") \o CAMLreturn({"res"})))
unix_close == Prim({}, Blocks(Done))
unix_fchmod == Prim({}, Blocks(Done))
unix_fchown == Prim({}, Blocks(Done))
unix_fsync == Prim({}, Blocks(Done))
unix_ftruncate == Prim({}, Blocks(Done))
unix_ftruncate_64 == Prim({"len"}, Read({"len"}) \o Blocks(Done))
unix_lseek == Prim({}, Blocks(When(unix_error(Nothing)) \o Done))
unix_lseek_64 == Prim({"ofs"}, Read({"ofs"}) \o Blocks(Made("res")))

\* link.c looks into follow when it has given the master lock away.
unix_link == Breaking(Prim({"follow", "path1", "path2"},
    CAMLparam({"follow", "path1", "path2"})
    \o caml_unix_check_path("path1") \o caml_unix_check_path("path2")
    \o caml_stat_strdup("p1", "path1") \o caml_stat_strdup("p2", "path2")
    \o Enter \o When(Read({"follow"})) \o Sys \o Leave
    \o Release("p1") \o Release("p2") \o When(uerror("path2")) \o CAMLreturn({})), {"heap"})

-----------------------------------------------------------------------------
\* Descriptors and directories
\* Also unix_clear_nonblock, which takes the same steps.
unix_set_nonblock == Prim({}, Calls(Calls(Done)))
unix_set_close_on_exec == Prim({}, unix_set_cloexec \o Done)
unix_clear_close_on_exec == Prim({}, unix_clear_cloexec \o Done)
unix_dup == Prim({"cloexec"}, unix_cloexec_p \o Calls(Done))
unix_dup2 == Prim({"cloexec"},
    Either(When(Read({"cloexec"}) \o Either(unix_set_cloexec, unix_clear_cloexec)), unix_cloexec_p \o Calls(<<>>))
    \o Done)
unix_isatty == Prim({}, Sys \o Done)
unix_open == Prim({"path", "flags"},
    CAMLparam({"path", "flags"}) \o caml_unix_check_path("path") \o Read({"flags"})
    \o caml_stat_strdup("p", "path") \o Blocking \o Release("p")
    \o When(uerror("path")) \o CAMLreturn({}))
unix_pipe == Prim({"cloexec"},
    unix_cloexec_p
    \o Calls(Acquire("fds") \o Block("res", {}) \o Kept("fds") \o Return({"res"})))
unix_opendir == Prim({"path"},
    OnPath(Acquire("d") \o Block("res", {}) \o Kept("d") \o CAMLreturn({"res"})))
unix_closedir == Prim({"vd"},
    CAMLparam({"vd"}) \o Read({"vd"}) \o When(unix_error(Nothing)) \o Blocking
    \o Fill("vd", {}) \o CAMLreturn({}))
unix_readdir == Prim({"vd"},
    Read({"vd"}) \o When(unix_error(Nothing)) \o Blocking \o When(Raise({})) \o Made("res"))
unix_rewinddir == Prim({"vd"}, Read({"vd"}) \o When(unix_error(Nothing)) \o Sys \o Done)
unix_lockf == Prim({}, Either(Blocking, Either(Sys \o When(SetErrno), SetErrno))
    \o When(uerror(Nothing)) \o Done)

\* Mutant: the buffer is not a root.
unix_read_unrooted == Prim({"buf"}, Blocks(Fill("buf", {})) \o Done)
unix_read == Prim({"buf"},
    Begin_roots({"buf"}) \o Blocks(Fill("buf", {})) \o End_roots \o Done)
unix_write == Prim({"buf"},
    Begin_roots({"buf"})
    \o Loop(Read({"buf"}) \o Blocking \o When(uerror(Nothing)))
    \o End_roots \o Done)
unix_single_write == Prim({"buf"},
    Begin_roots({"buf"}) \o When(Read({"buf"}) \o Blocks(<<>>)) \o End_roots \o Done)

unix_check_stream_semantics == Sys \o When(Errno) \o When(Sys \o When(Errno))
\* Also unix_outchannel_of_filedescr, which takes the same steps.
unix_inchannel_of_filedescr == Prim({},
    Enter \o unix_check_stream_semantics \o Leave \o When(unix_error(Nothing))
    \o Acquire("chan") \o Alloc("res") \o Fill("res", {}) \o Kept("chan") \o Return({"res"}))


stat_timestamp(v) == Alloc(v)
stat_aux(v, use_64) ==
    LET times == {"s.atime", "s.mtime", "s.ctime"}  locals == times \union {"s.offset", "s.v"} IN
    CAMLparam({}) \o CAMLlocal(locals)
    \o stat_timestamp("s.atime") \o stat_timestamp("s.mtime") \o stat_timestamp("s.ctime")
    \o (IF use_64 THEN Alloc("s.offset") ELSE Unit({"s.offset"}))
    \o Block("s.v", times \union {"s.offset"}) \o Let(v, "s.v") \o End_roots
\* Also unix_lstat, which takes the same steps.
unix_stat == Prim({"path"},
    OnPath(When(unix_error("path")) \o stat_aux("res", FALSE) \o CAMLreturn({"res"})))
unix_fstat == Prim({},
    Blocks(When(unix_error(Nothing)) \o stat_aux("res", FALSE) \o Return({"res"})))
\* Also unix_lstat_64, which takes the same steps.
unix_stat_64 == Prim({"path"}, OnPath(stat_aux("res", TRUE) \o CAMLreturn({"res"})))
unix_fstat_64 == Prim({}, Blocks(stat_aux("res", TRUE) \o Return({"res"})))

caml_grow_file == Sys \o When(Sys)
caml_unix_mapped_alloc(v) == Alloc(v) \o Fill(v, {})
caml_unix_map_file == Prim({"vdim", "vstart"},
    Read({"vdim", "vstart"}) \o When(Raise({}))
    \o Enter \o Sys \o When(Leave \o uerror(Nothing))
    \o Either(When(Leave \o Raise({})),
              When(caml_grow_file \o When(Leave \o uerror(Nothing))))
    \o Sys \o Either(Leave \o uerror(Nothing), Acquire("map"))
    \o Leave
    \o caml_unix_mapped_alloc("res") \o Kept("map") \o Return({"res"}))

unix_has_symlink == Prim({}, CAMLparam({}) \o CAMLreturn({}))

-----------------------------------------------------------------------------
\* Processes, users, time
unix_fork == Prim({}, Library \o Sys \o When(uerror(Nothing)) \o When(Library) \o Done)
unix_execv == Prim({"path", "args"},
    caml_unix_check_path("path") \o cstringvect("argv", "args")
    \o caml_stat_strdup("wpath", "path") \o Sys
    \o Release("wpath") \o Release("argv") \o uerror("path"))
unix_execvp == unix_execv
\* execve.c, execvpe.c: argv is lost when a string of env cannot be converted.
unix_execve == Breaking(Prim({"path", "args", "env"},
    caml_unix_check_path("path") \o cstringvect("argv", "args") \o cstringvect("envp", "env")
    \o caml_stat_strdup("wpath", "path") \o Sys
    \o Release("wpath") \o Release("argv") \o Release("envp") \o uerror("path")), {"left"})
unix_execvpe == unix_execve
alloc_process_status(v) ==
    Block("st", {}) \o Begin_roots({"st"}) \o Block(v, {"st"}) \o End_roots
unix_wait == Prim({}, Blocks(alloc_process_status("res") \o Return({"res"})))
unix_waitpid == Prim({"flags"},
    Read({"flags"}) \o Blocks(alloc_process_status("res") \o Return({"res"})))
unix_getpid == Prim({}, Sys \o Done)
unix_getppid == unix_getpid
unix_getuid == unix_getpid
unix_geteuid == unix_getpid
unix_getgid == unix_getpid
unix_getegid == unix_getpid
unix_setsid == unix_getpid
unix_umask == unix_getpid
unix_kill == Prim({}, Calls(Done))
unix_nice == Prim({}, Calls(Done))
unix_environment_unsafe == Prim({}, Either(AllocAny("res"), Unit({"res"})) \o Return({"res"}))
unix_environment == Prim({}, Library \o unix_environment_unsafe.code)
unix_putenv == Prim({"name", "val"},
    Read({"name", "val"}) \o When(unix_error("name"))
    \o Acquire("s") \o Acquire("p") \o Release("s") \o Sys
    \o Either(Release("p") \o uerror("name"), Kept("p")) \o Done)
unix_getcwd == Prim({}, Calls(Made("res")))
unix_setuid == Prim({}, Calls(Done))
unix_setgid == unix_setuid
unix_getgroups == Prim({}, Calls(AllocAny("res") \o Fill("res", {}) \o Return({"res"})))
unix_setgroups == Prim({"groups"},
    Acquire("gidset") \o Read({"groups"}) \o Sys \o Release("gidset")
    \o When(uerror(Nothing)) \o Done)
unix_initgroups == Prim({"user"},
    Read({"user"}) \o When(unix_error("user")) \o Read({"user"}) \o Calls(Done))
unix_getlogin == Prim({}, Sys \o When(unix_error(Nothing)) \o Made("res"))

alloc_passwd_entry(v) ==
    LET locals == {"p.name", "p.passwd", "p.gecos", "p.dir", "p.shell"} IN
    Unit(locals) \o Begin_roots(locals)
    \o Alloc("p.name") \o Alloc("p.passwd") \o Alloc("p.gecos") \o Alloc("p.dir")
    \o Alloc("p.shell") \o Block(v, locals) \o End_roots
alloc_group_entry(v) ==
    LET locals == {"g.name", "g.pass", "g.mem"} IN
    Unit(locals) \o Begin_roots(locals)
    \o Alloc("g.name") \o Alloc("g.pass") \o AllocAny("g.mem")
    \o Block(v, locals) \o End_roots
\* getpwnam and the like: no entry is Not_found, or an error.
Lookup(entry) ==
    Sys \o When(Either(uerror(Nothing), Raise({}))) \o entry \o Return({"res"})
unix_getpwnam == Prim({"name"}, Read({"name"}) \o When(Raise({})) \o Lookup(alloc_passwd_entry("res")))
unix_getpwuid == Prim({}, Lookup(alloc_passwd_entry("res")))
unix_getgrnam == Prim({"name"}, Read({"name"}) \o When(Raise({})) \o Lookup(alloc_group_entry("res")))
unix_getgrgid == Prim({}, Lookup(alloc_group_entry("res")))

unix_time == Prim({}, Sys \o Made("res"))
unix_gettimeofday == Prim({}, Calls(Made("res")))
alloc_tm(v) == Block(v, {})
\* Also unix_localtime, which takes the same steps.
unix_gmtime == Prim({"t"},
    Read({"t"}) \o Sys \o When(unix_error(Nothing)) \o alloc_tm("res") \o Return({"res"}))
unix_mktime == Prim({"t"},
    LET locals == {"tmval", "clkval"} IN
    Unit(locals) \o Begin_roots(locals) \o Read({"t"}) \o Sys \o When(unix_error(Nothing))
    \o alloc_tm("tmval") \o Alloc("clkval") \o Block("res", locals) \o End_roots
    \o Return({"res"}))
unix_times == Prim({}, AllocSmall("res") \o Sys \o Fill("res", {}) \o Return({"res"}))
unix_convert_itimer(v) == Block(v, {})
unix_setitimer == Prim({"newval"},
    Read({"newval"}) \o Calls(unix_convert_itimer("res") \o Return({"res"})))
unix_getitimer == Prim({}, Calls(unix_convert_itimer("res") \o Return({"res"})))
unix_sleep == Prim({"duration"},
    Read({"duration"}) \o When(Done) \o DoWhile(Blocking) \o When(uerror(Nothing)) \o Done)

-----------------------------------------------------------------------------
\* Signals, terminals, select
decode_sigset(vset) == Loop(Load(vset, vset))
encode_sigset(v) ==
    Unit({v}) \o Begin_roots({v})
    \o Loop(When(Block("newcons", {v}) \o Let(v, "newcons"))) \o End_roots
unix_sigprocmask == Prim({"vset"},
    decode_sigset("vset") \o Blocking \o When(unix_error(Nothing))
    \o encode_sigset("res") \o Return({"res"}))
unix_sigpending == Prim({}, Calls(encode_sigset("res") \o Return({"res"})))
unix_sigsuspend == Prim({"vset"}, decode_sigset("vset") \o Blocks(Done))

encode_terminal_status(dst) == Loop(Fill(dst, {}))
decode_terminal_status(src) ==
    Loop(Read({src}) \o When(Either(unix_error(Nothing), Sys \o When(uerror(Nothing)))))
unix_tcgetattr == Prim({}, Calls(Alloc("res") \o encode_terminal_status("res") \o Return({"res"})))
unix_tcsetattr == Prim({"arg"}, Calls(decode_terminal_status("arg") \o Calls(Done)))
unix_tcflow == Prim({}, Calls(Done))
unix_tcsendbreak == unix_tcflow
unix_tcdrain == unix_tcflow
unix_tcflush == unix_tcflow

fdlist_to_fdset(fdlist) == Let("fd.l", fdlist) \o Loop(Load("fd.l", "fd.l"))
fdset_to_fdlist(fdlist) ==
    Unit({"fd.res"}) \o Begin_roots({"fd.l", "fd.res"}) \o Let("fd.l", fdlist)
    \o Loop(Read({"fd.l"})
            \o When(Block("newres", {"fd.res"}) \o Let("fd.res", "newres"))
            \o Load("fd.l", "fd.l"))
    \o End_roots \o Let(fdlist, "fd.res")
unix_select == Prim({"readfds", "writefds", "exceptfds", "timeout"},
    LET fds == {"readfds", "writefds", "exceptfds"} IN
    Begin_roots(fds)
    \o fdlist_to_fdset("readfds") \o fdlist_to_fdset("writefds") \o fdlist_to_fdset("exceptfds")
    \o When(unix_error(Nothing)) \o Read({"timeout"})
    \o Blocks(fdset_to_fdlist("readfds") \o fdset_to_fdlist("writefds")
              \o fdset_to_fdlist("exceptfds")
              \o Block("res", fds) \o End_roots \o Return({"res"})))

-----------------------------------------------------------------------------
\* Sockets
unix_socket == Prim({"cloexec"}, unix_cloexec_p \o Calls(Done))
unix_socketpair == Prim({"cloexec"},
    unix_cloexec_p
    \o Calls(Acquire("sv") \o Block("res", {}) \o Kept("sv") \o Return({"res"})))
unix_accept == Prim({"cloexec"},
    unix_cloexec_p \o Blocking \o Either(uerror(Nothing), Acquire("fd"))
    \o alloc_sockaddr("a", "fd")
    \o Begin_roots({"a"}) \o Block("res", {"a"}) \o Kept("fd") \o End_roots \o Return({"res"}))
unix_bind == Prim({"address"}, get_sockaddr("address") \o Calls(Done))
unix_connect == Prim({"address"}, get_sockaddr("address") \o Blocks(Done))
unix_listen == Prim({}, Calls(Done))
unix_shutdown == Prim({}, Calls(Done))
unix_getpeername == Prim({}, Calls(alloc_sockaddr("res", Nothing) \o Return({"res"})))
unix_getsockname == unix_getpeername

unix_recv == Prim({"buff", "flags"},
    Read({"flags"}) \o Begin_roots({"buff"}) \o Blocks(Fill("buff", {})) \o End_roots \o Done)
unix_recvfrom == Prim({"buff", "flags"},
    Unit({"adr"}) \o Read({"flags"}) \o Begin_roots({"buff", "adr"})
    \o Blocks(Fill("buff", {})) \o alloc_sockaddr("adr", Nothing)
    \o Block("res", {"adr"}) \o End_roots \o Return({"res"}))
unix_send == Prim({"buff", "flags"}, Read({"flags"}) \o Read({"buff"}) \o Blocks(Done))
unix_sendto_native == Prim({"buff", "flags", "dest"},
    Read({"flags"}) \o get_sockaddr("dest") \o Read({"buff"}) \o Blocks(Done))

unix_getsockopt_aux ==
    When(unix_error(Nothing)) \o Sys \o When(uerror(Nothing))
    \o Either(Return({}),
       Either(Block("res", {}) \o Return({"res"}),
       Either(Made("res"),
              unix_error_of_code("err") \o Begin_roots({"err"}) \o Block("res", {"err"})
              \o End_roots \o Return({"res"}))))
unix_setsockopt_aux(val) ==
    Either(Read({val}), unix_error(Nothing)) \o Sys \o When(uerror(Nothing)) \o Return({})
unix_getsockopt == Prim({}, unix_getsockopt_aux)
unix_setsockopt == Prim({"val"}, unix_setsockopt_aux("val"))

unix_inet_addr_of_string == Prim({"s"},
    Read({"s"}) \o When(Raise({}))
    \o Read({"s"}) \o Either(alloc_inet_addr("res") \o Return({"res"}), Raise({})))
unix_string_of_inet_addr == Prim({"a"}, Read({"a"}) \o Calls(Made("res")))

alloc_host_entry(v) ==
    LET locals == {"h.name", "h.aliases", "h.addr_list"} IN
    Unit(locals) \o Begin_roots(locals)
    \o Alloc("h.name") \o Either(AllocAny("h.aliases"), Unit({"h.aliases"}))
    \o AllocAny("h.addr_list") \o Block(v, locals) \o End_roots
unix_gethostbyaddr == Prim({"a"},
    Read({"a"}) \o Blocking \o When(Raise({})) \o alloc_host_entry("res") \o Return({"res"}))
\* Mutant: the copy of the name is freed only when the host is found.
unix_gethostbyname_late == Prim({"name"},
    Read({"name"}) \o When(Raise({})) \o caml_stat_strdup("hostname", "name") \o Blocking
    \o When(Raise({})) \o Release("hostname") \o alloc_host_entry("res") \o Return({"res"}))
unix_gethostbyname == Prim({"name"},
    Read({"name"}) \o When(Raise({})) \o caml_stat_strdup("hostname", "name") \o Blocking
    \o Release("hostname") \o When(Raise({})) \o alloc_host_entry("res") \o Return({"res"}))
unix_gethostname == Prim({}, Sys \o Made("res"))
alloc_service_entry(v) ==
    LET locals == {"s.name", "s.aliases", "s.proto"} IN
    Unit(locals) \o Begin_roots(locals)
    \o Alloc("s.name") \o AllocAny("s.aliases") \o Alloc("s.proto")
    \o Block(v, locals) \o End_roots
unix_getservbyname == Prim({"name", "proto"},
    Read({"name", "proto"}) \o When(Raise({})) \o Read({"name", "proto"}) \o Sys
    \o When(Raise({})) \o alloc_service_entry("res") \o Return({"res"}))
unix_getservbyport == Prim({"proto"},
    Read({"proto"}) \o When(Raise({})) \o Read({"proto"}) \o Sys
    \o When(Raise({})) \o alloc_service_entry("res") \o Return({"res"}))
alloc_proto_entry(v) ==
    LET locals == {"p.name", "p.aliases"} IN
    Unit(locals) \o Begin_roots(locals)
    \o Alloc("p.name") \o AllocAny("p.aliases") \o Block(v, locals) \o End_roots
unix_getprotobyname == Prim({"name"},
    Read({"name"}) \o When(Raise({})) \o Read({"name"}) \o Sys
    \o When(Raise({})) \o alloc_proto_entry("res") \o Return({"res"}))
unix_getprotobynumber == Prim({},
    Sys \o When(Raise({})) \o alloc_proto_entry("res") \o Return({"res"}))

unix_getnameinfo == Prim({"vaddr", "vopts"},
    LET locals == {"vhost", "vserv", "vres"} IN
    CAMLparam({}) \o CAMLlocal(locals) \o get_sockaddr("vaddr") \o Read({"vopts"})
    \o Blocking \o When(Raise({})) \o Alloc("vhost") \o Alloc("vserv")
    \o Block("vres", {"vhost", "vserv"}) \o CAMLreturn({"vres"}))
\* The addresses that getaddrinfo gives are internet addresses.
convert_addrinfo(v) ==
    LET locals == {"c.vres", "c.vaddr", "c.vcanonname"} IN
    CAMLparam({}) \o CAMLlocal(locals) \o InetSockaddr("c.vaddr") \o Alloc("c.vcanonname")
    \o Block("c.vres", {"c.vaddr", "c.vcanonname"}) \o Let(v, "c.vres") \o End_roots
unix_getaddrinfo == Prim({"vnode", "vserv", "vopts"},
    CAMLparam({"vnode", "vserv", "vopts"}) \o CAMLlocal({"vres", "v", "e"})
    \o Read({"vnode", "vserv"}) \o When(CAMLreturn({}))
    \o When(caml_stat_strdup("node", "vnode")) \o When(caml_stat_strdup("serv", "vserv"))
    \o Loop(Load("v", "vopts") \o Read({"v"}) \o Load("vopts", "vopts"))
    \o Blocking \o Release("node") \o Release("serv") \o Unit({"vres"})
    \o When(Acquire("ai")
            \o Loop(convert_addrinfo("e") \o Block("v", {"e", "vres"}) \o Let("vres", "v"))
            \o Release("ai"))
    \o CAMLreturn({"vres"}))

-----------------------------------------------------------------------------
UnixPrimitives == {
    unix_error_message, unix_access, unix_alarm, unix_chdir, unix_chmod, unix_chown,
    unix_chroot, unix_mkdir, unix_mkfifo, unix_rmdir, unix_unlink, unix_truncate,
    unix_truncate_64, unix_rename, unix_symlink, unix_utimes, unix_readlink, unix_close,
    unix_fchmod, unix_fchown, unix_fsync, unix_ftruncate, unix_ftruncate_64, unix_lseek,
    unix_lseek_64, unix_set_nonblock, unix_set_close_on_exec,
    unix_clear_close_on_exec, unix_dup, unix_dup2,
    unix_isatty, unix_open, unix_pipe, unix_opendir, unix_closedir, unix_readdir,
    unix_rewinddir, unix_lockf, unix_read, unix_write, unix_single_write,
    unix_inchannel_of_filedescr, unix_stat, unix_fstat, unix_stat_64,
    unix_fstat_64, caml_unix_map_file, unix_has_symlink, unix_fork,
    unix_execv, unix_execvp, unix_wait, unix_waitpid, unix_getpid, unix_kill, unix_nice,
    unix_getppid, unix_getuid,
    unix_geteuid, unix_getgid, unix_getegid, unix_setsid, unix_umask, unix_setgid,
    unix_tcsendbreak, unix_tcdrain, unix_tcflush, unix_environment_unsafe,
    unix_environment, unix_putenv, unix_getcwd, unix_setuid, unix_getgroups,
    unix_setgroups, unix_initgroups, unix_getlogin, unix_getpwnam, unix_getpwuid,
    unix_getgrnam, unix_getgrgid, unix_time, unix_gettimeofday, unix_gmtime, unix_mktime,
    unix_times, unix_setitimer, unix_getitimer, unix_sleep, unix_sigprocmask,
    unix_sigpending, unix_sigsuspend, unix_tcgetattr, unix_tcsetattr, unix_tcflow,
    unix_select, unix_socket, unix_socketpair, unix_accept, unix_bind, unix_connect,
    unix_listen, unix_shutdown, unix_getpeername, unix_getsockname, unix_recv,
    unix_recvfrom, unix_send, unix_sendto_native, unix_getsockopt, unix_setsockopt,
    unix_inet_addr_of_string, unix_string_of_inet_addr, unix_gethostbyaddr,
    unix_gethostbyname, unix_gethostname, unix_getservbyname, unix_getservbyport,
    unix_getprotobyname, unix_getprotobynumber, unix_getnameinfo, unix_getaddrinfo,
    unix_link, unix_execve, unix_execvpe}
=============================================================================
