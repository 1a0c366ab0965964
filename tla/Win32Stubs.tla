------------------------------ MODULE Win32Stubs ----------------------------
(* The primitives of the Unix library on Windows (otherlibs/win32unix).      *)
EXTENDS UnixSupport

-----------------------------------------------------------------------------
\* unixsupport.c: descriptors are blocks; error codes are translated to errno.
win_alloc_handle(v) == Alloc(v) \o Fill(v, {})
win_alloc_socket(v) == Alloc(v) \o Fill(v, {})
win32_maperr == SetErrno

\* The last error of Windows is taken at once, or kept while the master lock
\* is taken back.
Failed(arg) == GetLastError \o win32_maperr \o uerror(arg)
Calls(result) == WinSys \o When(Failed(Nothing)) \o result
\* Mutant: the last error is asked for when the lock has been taken back.
WinBlockingLate == Enter \o WinSys \o Leave \o When(GetLastError)
WinBlocking == Enter \o WinSys \o When(GetLastError) \o Leave
Blocks(result) == WinBlocking \o When(win32_maperr \o uerror(Nothing)) \o result
Done == Return({})
Fd(rest) == Read({"fd"}) \o rest

unix_error_message == Prim({"err"},
    Read({"err"}) \o Library \o Alloc("res") \o Return({"res"}))

-----------------------------------------------------------------------------
\* Files
unix_open == Prim({"path", "flags"},
    caml_unix_check_path("path") \o Read({"flags"}) \o caml_stat_strdup("wpath", "path")
    \o WinSys \o Release("wpath") \o Either(Failed("path"), Acquire("h"))
    \o win_alloc_handle("res") \o Kept("h") \o Return({"res"}))
unix_close == Prim({"fd"},
    Fd(Either(Calls(<<>>), Sys \o When(uerror(Nothing))) \o Done))
unix_mkdir == Prim({"path"},
    caml_unix_check_path("path") \o caml_stat_strdup("wpath", "path") \o Sys
    \o Release("wpath") \o When(uerror("path")) \o Done)
OnTwoPaths(reported) ==
    caml_unix_check_path("path1") \o caml_unix_check_path("path2")
    \o caml_stat_strdup("wpath1", "path1") \o caml_stat_strdup("wpath2", "path2")
    \o WinSys \o Release("wpath1") \o Release("wpath2") \o When(Failed(reported)) \o Done
unix_rename == Prim({"path1", "path2"}, OnTwoPaths("path1"))
unix_link == Prim({"follow", "path1", "path2"},
    Read({"follow"}) \o When(SetErrno \o uerror("path2"))
    \o Library \o When(Raise({})) \o OnTwoPaths("path2"))
unix_isatty == Prim({"fd"},
    Fd(When(Sys \o When(uerror(Nothing)) \o Fill("fd", {})) \o Done))

\* lseek.c, lockf.c
caml_set_file_pointer == WinSys \o When(GetLastError \o When(win32_maperr \o uerror(Nothing)))
unix_lseek == Prim({"fd"},
    Fd(caml_set_file_pointer \o When(win32_maperr \o uerror(Nothing)) \o Done))
unix_lseek_64 == Prim({"fd", "ofs"},
    Read({"fd", "ofs"}) \o caml_set_file_pointer \o Alloc("res") \o Return({"res"}))
set_file_pointer == caml_set_file_pointer
unix_lockf == Prim({"fd", "cmd", "span"},
    CAMLparam({"fd", "cmd", "span"}) \o Library \o When(Raise({})) \o Fd(set_file_pointer)
    \o When(SetErrno \o uerror(Nothing))
    \o Either(WinSys \o When(GetLastError), Either(WinBlocking, SetErrno \o uerror(Nothing)))
    \o When(win32_maperr \o uerror(Nothing)) \o CAMLreturn({}))

\* truncate.c: errno is reported, which no call of Windows sets.
win_truncate_handle == WinSys \o When(WinSys)
win_ftruncate == WinSys \o When(Acquire("dup") \o win_truncate_handle \o Release("dup"))
win_truncate == WinSys \o When(Acquire("fh") \o win_truncate_handle \o Release("fh"))
\* Also unix_truncate_64, which takes the same steps.
unix_truncate == Breaking(Prim({"path", "len"},
    CAMLparam({"path", "len"}) \o Read({"len"}) \o caml_unix_check_path("path")
    \o caml_stat_strdup("p", "path") \o Enter \o win_truncate \o Leave \o Release("p")
    \o When(uerror("path")) \o CAMLreturn({})), {"error"})
\* Also unix_ftruncate_64, which takes the same steps.
unix_ftruncate == Breaking(Prim({"fd", "len"},
    Read({"fd", "len"}) \o Enter \o win_ftruncate \o Leave \o When(uerror(Nothing)) \o Done),
    {"error"})

\* utimes.c, symlink.c, readlink.c ask for the last error when they have
\* already taken the master lock back.
unix_utimes == Breaking(Prim({"path", "atime", "mtime"},
    CAMLparam({"path", "atime", "mtime"}) \o caml_unix_check_path("path")
    \o Read({"atime", "mtime"}) \o caml_stat_strdup("wpath", "path")
    \o Enter \o WinSys \o Leave \o Release("wpath") \o Either(Failed("path"), Acquire("hFile"))
    \o When(Library) \o Enter \o WinSys \o Leave
    \o When(GetLastError \o win32_maperr \o Release("hFile") \o uerror("path"))
    \o Release("hFile") \o CAMLreturn({})), {"error"})
unix_symlink == Breaking(Prim({"osource", "odest"},
    CAMLparam({"osource", "odest"})
    \o caml_unix_check_path("osource") \o caml_unix_check_path("odest")
    \o When(Library) \o When(Raise({}))
    \o caml_stat_strdup("source", "osource") \o caml_stat_strdup("dest", "odest")
    \o Enter \o WinSys \o Leave \o Release("source") \o Release("dest")
    \o When(Failed("odest")) \o CAMLreturn({})), {"error"})
unix_readlink == Breaking(Prim({"opath"},
    LET invalid == SetErrno \o uerror("opath") IN
    CAMLparam({"opath"}) \o CAMLlocal({"result"}) \o caml_unix_check_path("opath")
    \o caml_stat_strdup("path", "opath") \o Enter \o WinSys \o Leave
    \o When(Release("path") \o Failed("opath"))
    \o When(Release("path") \o invalid)
    \o Enter \o WinSys
    \o Either(Leave \o Release("path") \o invalid,
              Acquire("h") \o Release("path") \o WinSys \o Leave)
    \o Either(Either(Alloc("result") \o Fill("result", {}) \o Release("h"),
                     SetErrno \o Release("h") \o uerror("opath")),
              GetLastError \o win32_maperr \o Release("h") \o uerror("opath"))
    \o CAMLreturn({"result"})), {"error"})
unix_has_symlink == Prim({},
    CAMLparam({}) \o WinSys
    \o When(Acquire("token") \o WinSys
            \o When(WinSys \o When(GetLastError
                    \o When(Acquire("privileges") \o WinSys \o Release("privileges"))))
            \o Release("token"))
    \o CAMLreturn({}))

\* stat.c: path is not a root, but it is used after blocking sections.
stat_aux(v, use_64) ==
    CAMLparam({}) \o CAMLlocal({"s.v"}) \o AllocAny("s.v") \o Store("s.v", {})
    \o (IF use_64 THEN Alloc("s.t") \o Store("s.v", {"s.t"}) ELSE <<>>)
    \o Alloc("s.t") \o Store("s.v", {"s.t"}) \o Alloc("s.t") \o Store("s.v", {"s.t"})
    \o Alloc("s.t") \o Store("s.v", {"s.t"}) \o Let(v, "s.v") \o End_roots
\* success, failure: what the caller does with the result; h is the handle of
\* path, or fstat's.
safe_do_stat(path, success, failure) ==
    LET opened(r) == IF path THEN r ELSE <<>>
        query == Enter \o WinSys
                 \o Either(GetLastError \o win32_maperr \o Leave \o opened(Release("h"))
                           \o failure, Leave)
        followed == Enter \o WinSys \o Leave
                 \o When(Release("h") \o Enter \o WinSys
                         \o Either(SetErrno \o Leave \o failure,
                            Acquire("h") \o WinSys
                            \o Either(GetLastError \o win32_maperr \o Leave \o Release("h")
                                      \o failure, Leave))) IN
    opened(Enter \o WinSys \o Leave \o Either(SetErrno \o failure, Acquire("h")))
    \o query \o opened(When(followed)) \o opened(Release("h"))
    \o Either(win32_maperr \o failure, success)
StatPath(use_64) == Breaking(Prim({"path"},
    caml_unix_check_path("path") \o caml_stat_strdup("wpath", "path")
    \o safe_do_stat(TRUE, Release("wpath") \o stat_aux("res", use_64) \o Return({"res"}),
                          Release("wpath") \o uerror("path"))), {"heap"})
unix_stat == StatPath(FALSE)
unix_lstat == StatPath(FALSE)
unix_stat_64 == StatPath(TRUE)
unix_lstat_64 == StatPath(TRUE)
do_fstat(use_64) == Prim({"fd"},
    LET result == stat_aux("res", use_64) \o Return({"res"}) IN
    Fd(WinSys
       \o Either(safe_do_stat(FALSE, result, uerror(Nothing)),
          Either(When(WinSys) \o result,
          Either(unix_error(Nothing), Failed(Nothing))))))
unix_fstat == do_fstat(FALSE)
unix_fstat_64 == do_fstat(TRUE)

\* mmap.c: the mapping is lost when it cannot be mapped into memory.
caml_unix_map_file == Breaking(Prim({"vfd", "vdim", "vstart"},
    Read({"vfd", "vdim", "vstart"}) \o When(Raise({}))
    \o WinSys \o When(Failed(Nothing)) \o WinSys \o When(Failed(Nothing))
    \o When(Raise({})) \o WinSys
    \o WinSys \o Either(Failed(Nothing), Acquire("fmap"))
    \o WinSys \o Either(Failed(Nothing), Acquire("map"))
    \o Release("fmap") \o Alloc("res") \o Fill("res", {}) \o Kept("map") \o Return({"res"})),
    {"left"})

\* windir.c
win_findfirst == Prim({"name"},
    LET locals == {"valname", "valh"} IN
    caml_unix_check_path("name") \o Unit(locals) \o Begin_roots(locals)
    \o caml_stat_strdup("wname", "name") \o WinSys \o Release("wname")
    \o Either(GetLastError \o Either(Raise({}), win32_maperr \o uerror(Nothing)), Acquire("h"))
    \o Alloc("valname") \o win_alloc_handle("valh") \o Block("v", locals) \o Kept("h")
    \o End_roots \o Return({"v"}))
win_findnext == Prim({"fd"},
    Fd(WinSys \o When(GetLastError \o Either(Raise({}), win32_maperr \o uerror(Nothing)))
       \o Alloc("res") \o Return({"res"})))
win_findclose == Prim({"fd"}, Fd(Calls(Done)))

-----------------------------------------------------------------------------
\* Descriptors, channels, input and output
win_set_inherit == WinSys \o When(Failed(Nothing))
\* Also win_clear_close_on_exec, which takes the same steps.
win_set_close_on_exec == Prim({"fd"},
    Fd(win_set_inherit \o Done))
\* dup and dup2 return -1 where they should raise.
unix_dup == Prim({"cloexec", "fd"},
    Fd(unix_cloexec_p) \o WinSys
    \o Either(GetLastError \o win32_maperr \o Return({}), Acquire("newh"))
    \o win_alloc_handle("newfd") \o Fill("newfd", {}) \o Kept("newh") \o Return({"newfd"}))
win_CRT_fd_of_filedescr(handle) ==
    Read({handle}) \o When(Sys \o When(uerror(Nothing)) \o Fill(handle, {}))
unix_dup2 == Prim({"cloexec", "fd1", "fd2"},
    Read({"fd1", "fd2"}) \o unix_cloexec_p \o WinSys
    \o Either(GetLastError \o win32_maperr \o Return({}), Acquire("newh"))
    \o Fill("fd2", {}) \o Kept("newh") \o WinSys \o Read({"fd1"}) \o Fill("fd2", {})
    \o When(win_CRT_fd_of_filedescr("fd2") \o win_CRT_fd_of_filedescr("fd1") \o Sys)
    \o Done)
unix_pipe == Prim({"cloexec"},
    LET locals == {"readfd", "writefd"} IN
    Unit(locals) \o unix_cloexec_p \o WinSys \o Either(Failed(Nothing), Acquire("handles"))
    \o Begin_roots(locals) \o win_alloc_handle("readfd") \o win_alloc_handle("writefd")
    \o Block("res", locals) \o Kept("handles") \o End_roots \o Return({"res"}))
unix_read == Prim({"fd", "buf"},
    Begin_roots({"buf"}) \o Fd(Blocks(Fill("buf", {}))) \o End_roots \o Done)
\* The kind of fd is looked at again after each blocking section.
unix_write == Breaking(Prim({"fd", "buf"},
    Begin_roots({"buf"}) \o Loop(Read({"buf"}) \o Fd(Blocks(<<>>))) \o End_roots \o Done),
    {"heap"})
unix_single_write == Prim({"fd", "buf"},
    Begin_roots({"buf"}) \o When(Read({"buf"}) \o Fd(Blocks(<<>>))) \o End_roots \o Done)

win_check_stream_semantics == Fd(WinSys \o When(GetLastError))
\* Also win_outchannel_of_filedescr, which takes the same steps.
win_inchannel_of_filedescr == Prim({"fd"},
    CAMLparam({"fd"}) \o CAMLlocal({"vchan"}) \o win_check_stream_semantics
    \o When(win32_maperr \o uerror(Nothing))
    \o win_CRT_fd_of_filedescr("fd") \o Acquire("chan") \o Read({"fd"})
    \o Alloc("vchan") \o Fill("vchan", {}) \o Kept("chan") \o CAMLreturn({"vchan"}))
\* No call has failed when a closed channel is reported.
win_filedescr_of_channel == Breaking(Prim({"vchan"},
    CAMLparam({"vchan"}) \o CAMLlocal({"fd"}) \o Read({"vchan"}) \o When(uerror(Nothing))
    \o Library \o Either(win_alloc_socket("fd"), win_alloc_handle("fd")) \o Fill("fd", {})
    \o CAMLreturn({"fd"})), {"error"})
win_handle_fd == Prim({}, Library \o win_alloc_handle("res") \o Fill("res", {}) \o Return({"res"}))

-----------------------------------------------------------------------------
\* Processes and time
win_has_console == WinSys \o When(Acquire("h") \o Release("h"))
\* fails: with an error that has been kept in err.
do_create_process_native(fails) ==
    LET undo(rs) == GetLastError \o rs \o fails IN
    WinSys \o Either(undo(<<>>), Acquire("in"))
    \o WinSys \o Either(undo(Release("in")), Acquire("out"))
    \o WinSys \o Either(undo(Release("out") \o Release("in")), Acquire("err"))
    \o win_has_console \o WinSys
    \o Either(undo(Release("err") \o Release("out") \o Release("in")),
              Acquire("hProcess") \o Acquire("hThread") \o Release("hThread"))
    \o Release("err") \o Release("out") \o Release("in")
win_create_process_native == Prim({"cmd", "cmdline", "env", "fd"},
    LET freed == Release("wenv") \o Release("wcmdline") \o Release("exefile") IN
    caml_unix_check_path("cmd") \o Read({"cmdline"}) \o When(unix_error("cmdline"))
    \o caml_stat_strdup("wcmd", "cmd") \o Acquire("exefile") \o Release("wcmd")
    \o caml_stat_strdup("wcmdline", "cmdline")
    \o When(Load("env", "env") \o caml_stat_strdup("wenv", "env"))
    \o Fd(do_create_process_native(freed \o win32_maperr \o uerror("cmd")))
    \o freed \o Kept("hProcess") \o Done)
win_terminate_process == Prim({}, WinSys \o Done)
win_system == Prim({"cmd"},
    caml_unix_check_path("cmd") \o caml_stat_strdup("buf", "cmd") \o Blocking \o Release("buf")
    \o When(uerror(Nothing)) \o Block("st", {}) \o Return({"st"}))
alloc_process_status ==
    Alloc("st") \o Fill("st", {}) \o Begin_roots({"st"}) \o Block("res", {"st"}) \o End_roots
    \o Return({"res"})
win_waitpid == Prim({"vflags"},
    Read({"vflags"})
    \o Either(WinBlocking, WinSys \o When(alloc_process_status) \o When(GetLastError))
    \o When(win32_maperr \o uerror(Nothing))
    \o Calls(Either(alloc_process_status, Library \o alloc_process_status)))
unix_environment == Prim({},
    CAMLparam({}) \o CAMLlocal({"v", "result"}) \o Acquire("envp") \o AllocAny("result")
    \o Loop(Alloc("v") \o Store("result", {"v"})) \o Release("envp") \o CAMLreturn({"result"}))
unix_getpid == Prim({}, Done)
unix_gettimeofday == Prim({}, WinSys \o Alloc("res") \o Return({"res"}))
unix_times == Prim({}, Calls(Block("res", {}) \o Return({"res"})))
unix_sleep == Prim({"t"}, Read({"t"}) \o Enter \o WinSys \o Leave \o Done)
win_startup == Prim({}, WinSys \o WinSys \o Done)

-----------------------------------------------------------------------------
\* Sockets
unix_socket == Prim({"cloexec"},
    When(win32_maperr \o uerror(Nothing)) \o WinSys \o Either(Failed(Nothing), Acquire("s"))
    \o unix_cloexec_p \o Library \o win_alloc_socket("res") \o Kept("s") \o Return({"res"}))
\* cloexec is looked at after the blocking section.
unix_accept == Breaking(Prim({"cloexec", "fd"},
    LET locals == {"fd'", "adr"} IN
    Fd(Unit(locals)) \o WinBlocking
    \o Either(win32_maperr \o uerror(Nothing), Acquire("snew"))
    \o unix_cloexec_p \o Library \o Begin_roots(locals)
    \o win_alloc_socket("fd'") \o alloc_sockaddr("adr", "snew") \o Block("res", locals)
    \o Kept("snew") \o End_roots \o Return({"res"})), {"heap"})
unix_bind == Prim({"fd", "address"}, get_sockaddr("address") \o Fd(Calls(Done)))
unix_listen == Prim({"fd"}, Fd(Calls(Done)))
unix_shutdown == Prim({"fd"}, Fd(Calls(Done)))
\* Also unix_clear_nonblock, which takes the same steps.
unix_set_nonblock == Prim({"fd"}, Fd(Calls(Fill("fd", {}) \o Done)))
unix_connect == Prim({"fd", "address"}, Fd(get_sockaddr("address") \o Blocks(Done)))
unix_getpeername == Prim({"fd"},
    Fd(Calls(alloc_sockaddr("res", Nothing) \o Return({"res"}))))
unix_recv == Prim({"fd", "buff", "flags"},
    Read({"fd", "flags"}) \o Begin_roots({"buff"}) \o Blocks(Fill("buff", {})) \o End_roots
    \o Done)
unix_recvfrom == Prim({"fd", "buff", "flags"},
    Read({"fd", "flags"}) \o Unit({"adr"}) \o Begin_roots({"buff", "adr"})
    \o Blocks(Fill("buff", {})) \o alloc_sockaddr("adr", Nothing) \o Block("res", {"adr"})
    \o End_roots \o Return({"res"}))
unix_send == Prim({"fd", "buff", "flags"},
    Read({"fd", "flags"}) \o Read({"buff"}) \o Blocks(Done))
unix_sendto_native == Prim({"fd", "buff", "flags", "dest"},
    Read({"fd", "flags"}) \o get_sockaddr("dest") \o Read({"buff"}) \o Blocks(Done))

\* getsockname.c, sockopt.c: errno is reported, which no call of Windows sets.
unix_getsockname == Breaking(Prim({"fd"},
    Fd(WinSys \o When(uerror(Nothing)) \o alloc_sockaddr("res", Nothing) \o Return({"res"}))),
    {"error"})
unix_getsockopt_aux ==
    When(unix_error(Nothing)) \o Fd(WinSys) \o When(uerror(Nothing))
    \o Either(Return({}),
       Either(Block("res", {}) \o Return({"res"}),
       Either(Alloc("res") \o Return({"res"}),
              unix_error_of_code("err") \o Begin_roots({"err"}) \o Block("res", {"err"})
              \o End_roots \o Return({"res"}))))
unix_setsockopt_aux ==
    Either(Read({"val"}), unix_error(Nothing)) \o Fd(WinSys) \o When(uerror(Nothing)) \o Done
unix_getsockopt == Breaking(Prim({"fd"}, unix_getsockopt_aux), {"error"})
unix_setsockopt == Breaking(Prim({"fd", "val"}, unix_setsockopt_aux), {"error"})

-----------------------------------------------------------------------------
\* select.c: what unix_select does with OCaml values; the workers it starts
\* are those of WinSelect.
fdlist_to_fdset(fdlist) ==
    Let("l'", fdlist) \o Loop(Load("c", "l'") \o Read({"c"}) \o Load("l'", "l'"))
fdset_to_fdlist(v, fdlist) ==
    Let("f.fdlist", fdlist) \o CAMLparam({"f.fdlist"}) \o CAMLlocal({"f.res", "f.s"})
    \o Loop(Load("f.s", "f.fdlist") \o Read({"f.s"})
            \o When(Block("newres", {"f.s", "f.res"}) \o Let("f.res", "newres"))
            \o Load("f.fdlist", "f.fdlist"))
    \o Let(v, "f.res") \o End_roots
\* Memory of the lists of jobs and descriptors is lost for a handle of an
\* unknown type.
select_data_dispatch ==
    CAMLparam({"fd"}) \o Read({"fd"}) \o WinSys
    \o Either(win32_maperr \o uerror(Nothing), When(Acquire("data"))) \o End_roots
select_list(fds) ==
    Let("l", fds)
    \o Loop(Load("fd", "l") \o Read({"fd"}) \o When(select_data_dispatch) \o Load("l", "l"))
\* A descriptor that is not found is reported when the fields of l are not set.
find_handle(v) ==
    LET fds == {"readfds", "writefds", "exceptfds"} IN
    CAMLparam(fds) \o CAMLlocal({"h.result", "h.list"}) \o Let("h.list", "readfds")
    \o Loop(Load("h.list", "h.list")) \o When(Raise({})) \o Load("h.result", "h.list")
    \o Let(v, "h.result") \o End_roots
unix_select == Breaking(Prim({"readfds", "writefds", "exceptfds", "timeout"},
    LET fds == {"readfds", "writefds", "exceptfds"}
        lists == {"read_list", "write_list", "except_list"}
        sleeps == When(Enter \o WinSys \o Leave) \o Unit(lists)
        sockets == fdlist_to_fdset("readfds") \o fdlist_to_fdset("writefds")
            \o fdlist_to_fdset("exceptfds")
            \o Blocks(fdset_to_fdlist("read_list", "readfds")
                      \o fdset_to_fdlist("write_list", "writefds")
                      \o fdset_to_fdlist("except_list", "exceptfds"))
        result(list) == AllocSmall("l") \o find_handle("found")
            \o Fill("l", {"found", list}) \o Let(list, "l")
        workers == Acquire("hdsData") \o select_list("readfds") \o select_list("writefds")
            \o select_list("exceptfds") \o Acquire("lpEventsDone")
            \o Loop(Enter \o WinSys \o Leave)
            \o Enter \o WinSys \o When(GetLastError) \o Leave
            \o When(Unit(lists)
                    \o Loop(Either(result("read_list"),
                            Either(result("write_list"), result("except_list")))))
            \o Loop(Enter \o WinSys \o Leave)
            \o Release("data") \o Release("lpEventsDone") \o Release("hdsData")
            \o When(win32_maperr \o uerror(Nothing)) IN
    CAMLparam(fds \union {"timeout"}) \o CAMLlocal(lists \union {"res", "l", "fd"})
    \o Read({"timeout"}) \o Either(sleeps, Either(sockets, workers))
    \o Block("res", lists) \o CAMLreturn({"res"})), {"heap", "left"})

-----------------------------------------------------------------------------
WindowsPrimitives == {
    unix_error_message, unix_open, unix_close, unix_mkdir, unix_rename, unix_link,
    unix_isatty, unix_lseek, unix_lseek_64, unix_lockf, unix_truncate,
    unix_ftruncate, unix_utimes, unix_symlink, unix_readlink,
    unix_has_symlink, unix_stat, unix_lstat, unix_stat_64, unix_lstat_64, unix_fstat,
    unix_fstat_64, caml_unix_map_file, win_findfirst, win_findnext, win_findclose,
    win_set_close_on_exec, unix_dup, unix_dup2, unix_pipe,
    unix_read, unix_write, unix_single_write, win_inchannel_of_filedescr,
    win_filedescr_of_channel, win_handle_fd,
    win_create_process_native, win_terminate_process, win_system, win_waitpid,
    unix_environment, unix_getpid, unix_gettimeofday, unix_times, unix_sleep, win_startup,
    unix_socket, unix_accept, unix_bind, unix_listen, unix_shutdown, unix_set_nonblock,
    unix_connect, unix_getpeername, unix_recv, unix_recvfrom,
    unix_send, unix_sendto_native, unix_getsockname, unix_getsockopt, unix_setsockopt,
    unix_select}
=============================================================================
