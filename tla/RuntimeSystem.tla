--------------------------- MODULE RuntimeSystem ----------------------------
(* The primitives of the runtime that talk to the operating system: files    *)
(* and the environment, channels, shared libraries, loading of bytecode and  *)
(* its debugging information.                                                *)
EXTENDS RuntimeValues

\* sys.c
caml_sys_error(arg) ==
    Errno
    \o (IF arg = Nothing THEN Alloc("s.str")
        ELSE CAMLparam({arg}) \o CAMLlocal({"s.str"})
             \o Read({arg}) \o Alloc("s.str") \o Read({arg, "s.str"}))
    \o Raise({"s.str"})
caml_sys_io_error(arg) == Errno \o Either(Raise({}), caml_sys_error(arg))
caml_sys_check_path(name) == Read({name}) \o When(SetErrno \o caml_sys_error(name))

\* A path is checked and copied, the call made without the master lock, and the
\* path named in the exception.
OnPath(name, step) ==
    CAMLparam({name}) \o caml_sys_check_path(name) \o caml_stat_strdup("p", name)
    \o step \o Blocking \o Release("p") \o When(caml_sys_error(name)) \o CAMLreturn({})
caml_sys_open ==
    Prim({"path", "vflags"},
         Begin_roots({"vflags"})
         \o CAMLparam({"path"}) \o caml_sys_check_path("path") \o caml_stat_strdup("p", "path")
         \o caml_convert_flag_list("vflags") \o Blocking \o Release("p")
         \o When(caml_sys_error("path")) \o End_roots \o CAMLreturn({}))
caml_sys_close == Prim({}, Blocking \o Return({}))
caml_sys_file_exists ==
    Prim({"name"}, Read({"name"}) \o When(Return({})) \o caml_stat_strdup("p", "name")
                   \o Blocking \o Release("p") \o Return({}))
\* Also caml_sys_remove, which takes the same steps.
caml_sys_is_directory == Prim({"name"}, OnPath("name", <<>>))
caml_sys_chdir == caml_sys_is_directory
caml_sys_system_command == caml_sys_is_directory
caml_sys_rename ==
    Prim({"oldname", "newname"},
         caml_sys_check_path("oldname") \o caml_sys_check_path("newname")
         \o caml_stat_strdup("p_old", "oldname") \o caml_stat_strdup("p_new", "newname")
         \o Blocking \o Release("p_new") \o Release("p_old")
         \o When(caml_sys_error(Nothing)) \o Return({}))
caml_sys_getcwd ==
    Prim({}, Sys \o When(caml_sys_error(Nothing)) \o Alloc("s") \o Return({"s"}))
\* Also caml_sys_getenv, which takes the same steps.
caml_sys_unsafe_getenv ==
    Prim({"var"}, Read({"var"}) \o When(Raise({})) \o caml_stat_strdup("p", "var")
                  \o Release("p") \o When(Raise({})) \o Alloc("val") \o Return({"val"}))
caml_sys_get_argv ==
    Prim({}, CAMLparam({}) \o CAMLlocal({"exe_name", "res"}) \o Alloc("exe_name")
             \o AllocSmall("res") \o Load("main_argv", "exe_name")
             \o Fill("res", {"exe_name", "main_argv"}) \o CAMLreturn({"res"}))
caml_sys_modify_argv == Scalar({"new_argv"})
caml_sys_init == Prim({}, caml_copy_string_array("main_argv") \o Return({"main_argv"}))
caml_sys_time == Boxed({})
caml_sys_random_seed ==
    Prim({}, When(Acquire("fd") \o Release("fd")) \o Block("res", {}) \o Return({"res"}))
caml_sys_get_config ==
    Prim({}, CAMLparam({}) \o CAMLlocal({"result", "ostype"}) \o Alloc("ostype")
             \o Block("result", {"ostype"}) \o CAMLreturn({"result"}))
caml_read_directory == Sys \o When(Acquire("d") \o Release("d"))
caml_sys_read_directory ==
    Prim({"path"},
         CAMLparam({"path"}) \o CAMLlocal({"result"}) \o caml_sys_check_path("path")
         \o Acquire("tbl") \o caml_stat_strdup("p", "path")
         \o Enter \o caml_read_directory \o Leave \o Release("p")
         \o When(Release("tbl") \o caml_sys_error("path"))
         \o caml_copy_string_array("result") \o Release("tbl") \o CAMLreturn({"result"}))
caml_sys_isatty == Scalar({"chan"})

-----------------------------------------------------------------------------
\* unix.c, io.c: a channel is used through its OCaml value, which keeps it from
\* being finalised; what is called with a channel that has no such value gets {}.
caml_read_fd == DoWhile(Blocking) \o When(caml_sys_io_error(Nothing))
caml_write_fd == DoWhile(Blocking) \o When(caml_sys_io_error(Nothing))

caml_open_descriptor_in == Acquire("chan") \o Blocking
caml_close_channel == Sys \o Release("chan")
caml_channel_size(c) ==
    Read(c) \o Enter \o Sys
    \o Either(Leave \o caml_sys_error(Nothing), Leave)
caml_flush_partial(c) == Read(c) \o When(caml_write_fd \o Read(c))
caml_flush(c) == DoWhile(caml_flush_partial(c))
caml_putch(c) == Read(c) \o When(caml_flush_partial(c)) \o Read(c)
caml_putword(c) == Read(c) \o When(Raise({})) \o caml_putch(c)
\* The bytes of p are copied to the buffer of the channel before it is written.
caml_putblock(c, p) ==
    Read(c \union p) \o When(caml_write_fd \o Read(c))
caml_really_putblock(c, p) == Loop(caml_putblock(c, p))
caml_seek_out(c) ==
    caml_flush(c) \o Enter \o Sys \o Either(Leave \o caml_sys_error(Nothing), Leave) \o Read(c)
caml_refill(c) == caml_read_fd \o When(Raise({})) \o Read(c)
caml_getch(c) == Read(c) \o When(caml_refill(c))
caml_getword(c) == Read(c) \o When(Raise({})) \o Loop(caml_getch(c))
caml_getblock(c, p) == Read(c) \o When(caml_read_fd \o Read(c)) \o Read(p)
caml_really_getblock(c, p) == Loop(caml_getblock(c, p))
caml_seek_in(c) ==
    Read(c) \o When(Enter \o Sys \o Either(Leave \o caml_sys_error(Nothing), Leave) \o Read(c))
caml_input_scan_line(c) == Read(c) \o Loop(caml_read_fd \o Read(c))

caml_alloc_channel(v) == Alloc(v) \o Kept("chan")
\* Also caml_ml_open_descriptor_out, which takes the same steps.
caml_ml_open_descriptor_in ==
    Prim({}, caml_open_descriptor_in \o caml_alloc_channel("res") \o Return({"res"}))
caml_ml_set_channel_name ==
    Prim({"vchannel", "vname"},
         Read({"vchannel", "vname"}) \o When(caml_stat_strdup("name", "vname") \o Kept("name"))
         \o Return({}))
caml_ml_out_channels_list ==
    Prim({}, CAMLparam({}) \o CAMLlocal({"res", "tail", "chan"})
             \o Loop(caml_alloc_channel("chan") \o Let("tail", "res")
                     \o Block("res", {"chan", "tail"}))
             \o CAMLreturn({"res"}))
caml_channel_descriptor ==
    Prim({"vchannel"}, Read({"vchannel"}) \o When(SetErrno \o caml_sys_error(Nothing))
                       \o Return({}))
\* The channel is marked as closed before the lock is given away, and not
\* touched afterwards.
caml_ml_close_channel ==
    Prim({"vchannel"}, Read({"vchannel"}) \o When(Blocking \o When(caml_sys_error(Nothing)))
                       \o Return({}))
caml_ml_channel_size ==
    Prim({"vchannel"}, caml_channel_size({"vchannel"})
                       \o When(SetErrno \o caml_sys_error(Nothing)) \o Return({}))
caml_ml_channel_size_64 ==
    Prim({"vchannel"}, caml_channel_size({"vchannel"}) \o Alloc("v") \o Return({"v"}))
caml_ml_set_binary_mode ==
    Prim({"vchannel"}, Read({"vchannel"}) \o When(SetErrno \o caml_sys_error(Nothing))
                       \o Sys \o When(caml_sys_error(Nothing)) \o Return({}))

\* An operation under the lock of the channel.
Locked(args, step) ==
    Prim(args, CAMLparam(args) \o Lock \o step \o Unlock \o CAMLreturn({}))
UnlessClosed(args, step) ==
    Prim(args, CAMLparam(args) \o Read(args) \o When(CAMLreturn({}))
               \o Lock \o step \o Unlock \o CAMLreturn({}))
Chan == {"vchannel"}
caml_ml_flush_partial == UnlessClosed(Chan, caml_flush_partial(Chan))
caml_ml_flush == UnlessClosed(Chan, caml_flush(Chan))
caml_ml_output_char == Locked(Chan, caml_putch(Chan))
caml_ml_output_int == Locked(Chan, caml_putword(Chan))
caml_ml_output_partial == Locked(Chan \union {"buff"}, caml_putblock(Chan, {"buff"}))
caml_ml_output_bytes == Locked(Chan \union {"buff"}, caml_really_putblock(Chan, {"buff"}))
caml_ml_seek_out == Locked(Chan, caml_seek_out(Chan))
caml_ml_seek_out_64 == Locked(Chan \union {"pos"}, Read({"pos"}) \o caml_seek_out(Chan))
caml_ml_input_char == Locked(Chan, caml_getch(Chan))
caml_ml_input_int == Locked(Chan, caml_getword(Chan))
caml_ml_input == Locked(Chan \union {"buff"}, caml_getblock(Chan, {"buff"}))
caml_ml_seek_in == Locked(Chan, caml_seek_in(Chan))
caml_ml_seek_in_64 == Locked(Chan \union {"pos"}, Read({"pos"}) \o caml_seek_in(Chan))
caml_ml_input_scan_line == Locked(Chan, caml_input_scan_line(Chan))
Position == Prim(Chan, Read(Chan) \o When(SetErrno \o caml_sys_error(Nothing)) \o Return({}))
caml_ml_pos_out == Position
caml_ml_pos_in == Position
caml_ml_pos_out_64 == Boxed(Chan)
caml_ml_pos_in_64 == Boxed(Chan)

\* md5.c
caml_md5_string == Boxed({"str"})
caml_md5_channel(c) ==
    CAMLparam({}) \o Lock \o Loop(caml_getblock(c, {}) \o When(Raise({})))
    \o Alloc("res") \o Read({"res"}) \o Unlock \o End_roots
caml_md5_chan ==
    Prim({"vchan"}, CAMLparam({"vchan"}) \o caml_md5_channel({"vchan"}) \o CAMLreturn({"res"}))

-----------------------------------------------------------------------------
\* dynlink.c
parse_ld_conf ==
    Acquire("ldconfname") \o Sys
    \o Either(Release("ldconfname"),
              Acquire("ldconf") \o Acquire("config") \o Acquire("wconfig") \o Release("config")
              \o Release("ldconf") \o Release("ldconfname"))
open_shared_lib ==
    Acquire("realname") \o Acquire("u8") \o Release("u8") \o Blocking
    \o Acquire("handle") \o Kept("handle") \o Release("realname")
caml_build_primitive_table ==
    Prim({}, Acquire("tofree1") \o parse_ld_conf \o Loop(open_shared_lib)
             \o Acquire("caml_prim_table") \o Kept("caml_prim_table")
             \o Release("tofree1") \o Release("wconfig") \o Return({}))
caml_dynlink_open_lib ==
    Prim({"mode", "filename"},
         caml_stat_strdup("p", "filename") \o Blocking \o Release("p")
         \o When(Raise({})) \o Block("result", {}) \o Return({"result"}))
caml_dynlink_lookup_symbol ==
    Prim({"handle", "symbolname"}, Read({"handle", "symbolname"}) \o When(Return({}))
                                   \o Block("result", {}) \o Return({"result"}))
caml_dynlink_get_current_libs ==
    Prim({}, CAMLparam({}) \o CAMLlocal({"res"}) \o AllocAny("res")
             \o Loop(Block("v", {}) \o Store("res", {"v"})) \o CAMLreturn({"res"}))

-----------------------------------------------------------------------------
\* extern.c: the output is gathered in a chain of blocks, which is freed when the
\* value cannot be written.
free_extern_output == Release("extern_stack") \o Release("extern_output")
extern_rec(v) ==
    Loop(Read({v}) \o When(Acquire("extern_stack")) \o When(free_extern_output \o Raise({})))
    \o Release("extern_stack")
extern_value(v, flags) ==
    caml_convert_flag_list(flags) \o extern_rec(v) \o When(free_extern_output \o Raise({}))
init_extern_output == Acquire("extern_output")
\* The blocks are lost when the channel cannot be written.
caml_output_val(c, v, flags) ==
    Read(c) \o When(Raise({})) \o init_extern_output \o extern_value(v, flags)
    \o DoWhile(caml_really_putblock(c, {})) \o Release("extern_output")
caml_output_value == Breaking(
    Locked(Chan \union {"v", "flags"}, caml_output_val(Chan, "v", "flags")), {"left"})
caml_output_value_to_bytes ==
    Prim({"v", "flags"}, init_extern_output \o extern_value("v", "flags") \o AllocAny("res")
                         \o Loop(Read({"res"})) \o Release("extern_output") \o Return({"res"}))
caml_output_value_to_block(buf, v, flags) == extern_value(v, flags) \o When(Raise({})) \o Read(buf)
caml_output_value_to_buffer ==
    Prim({"buf", "v", "flags"}, Read({"buf"})
                                \o caml_output_value_to_block({"buf"}, "v", "flags") \o Return({}))
caml_output_value_to_malloc ==
    Prim({"v", "flags"}, init_extern_output \o extern_value("v", "flags") \o Acquire("buf")
                         \o Release("extern_output") \o Kept("buf") \o Return({}))

\* intern.c
intern_cleanup ==
    Release("intern_input") \o Release("intern_obj_table") \o Release("intern_extra_block")
    \o Release("intern_stack")
intern_alloc(v) ==
    Either(Alloc(v), AllocShrData(v) \o When(Acquire("intern_extra_block")))
    \o When(Acquire("intern_obj_table"))
intern_rec(src, v) ==
    Loop(Read(src \union {v}) \o When(Acquire("intern_stack"))
         \o When(intern_cleanup \o Raise({})))
    \o Release("intern_stack")
intern_add_to_heap == Kept("intern_extra_block")
intern_end(v) ==
    CAMLparam({v}) \o intern_add_to_heap \o intern_cleanup \o Poll("") \o End_roots
\* The block is lost when the channel cannot be read.
caml_input_val_core(c, v, end) ==
    Read(c) \o When(Raise({})) \o caml_really_getblock(c, {}) \o When(Raise({}))
    \o Acquire("intern_input") \o caml_really_getblock(c, {})
    \o When(Release("intern_input") \o Raise({}))
    \o intern_alloc(v) \o intern_rec({}, v) \o end
caml_input_val(c, v) == caml_input_val_core(c, v, intern_end(v))
Input(end) ==
    Prim(Chan, CAMLparam(Chan) \o CAMLlocal({"res"}) \o Lock
               \o caml_input_val_core(Chan, "res", end) \o Unlock \o CAMLreturn({"res"}))
caml_input_value == Breaking(Input(intern_end("res")), {"left"})
caml_input_value_to_outside_heap == Breaking(
    Input(intern_add_to_heap \o intern_cleanup \o Collect("res")), {"left"})
\* The position in the string is computed again after the allocation.
caml_input_val_from_bytes ==
    Prim({"str"},
         CAMLparam({"str"}) \o CAMLlocal({"obj"}) \o Read({"str"}) \o When(Raise({}))
         \o intern_alloc("obj") \o intern_rec({"str"}, "obj") \o intern_end("obj")
         \o CAMLreturn({"obj"}))
input_val_from_block(v) == intern_alloc(v) \o intern_rec({}, v) \o intern_end(v)
\* The data of the caller are freed unless their header is bad.
caml_input_value_from_malloc == Breaking(
    Prim({}, Acquire("intern_input") \o When(Raise({}))
             \o input_val_from_block("obj") \o Return({"obj"})), {"left"})
caml_input_value_from_block(v) == When(Raise({})) \o input_val_from_block(v)
caml_marshal_data_size == Checked(Scalar({"buff"}))

-----------------------------------------------------------------------------
\* debugger.c: to its callers the command loop is a wait for input.
open_connection ==
    Acquire("dbg_in") \o Kept("dbg_in") \o Acquire("dbg_out") \o Kept("dbg_out")
    \o caml_putword({}) \o caml_flush({})
caml_debugger_init(flags) ==
    AllocAny(flags) \o Store(flags, {})
    \o When(Acquire("dbg_addr") \o Kept("dbg_addr") \o open_connection)
caml_debugger(param) ==
    When(caml_putch({})
         \o (IF param = Nothing THEN caml_putword({})
             ELSE Unit({"d.flags"}) \o caml_output_val({}, param, "d.flags"))
         \o Loop(caml_putword({})) \o caml_flush({}) \o Loop(caml_getword({})))
save_instruction == When(Acquire("bpt") \o Kept("bpt"))
\* The address of a value comes from the debugger, and the rest of the request
\* is read after it.
command_loop == Breaking(
    Prim({}, Loop(caml_getch({})
        \o Either(caml_getword({}) \o caml_getword({}) \o save_instruction,
           Either(caml_getword({}),
           Either(Loop(caml_putword({})) \o caml_flush({}),
                  LoadOf("val", {}) \o When(caml_getword({})) \o Read({"val"})
                  \o caml_putch({}) \o caml_flush({})))))
        \o Return({})), {"heap"})

-----------------------------------------------------------------------------
\* backtrace_byt.c
process_debug_events(heap) ==
    CAMLparam({heap}) \o CAMLlocal({"l", "ev", "ev_start"})
    \o Loop(Read({heap}) \o LoadOf("l", {heap}) \o Read({"l"}))
    \o When(Acquire("events")
            \o Loop(LoadOf("l", {heap}) \o LoadOf("ev", {"l"}) \o LoadOf("ev_start", {"ev"})
                    \o Read({"ev", "ev_start"}))
            \o Kept("events"))
    \o End_roots
caml_add_debug_info(heap) ==
    CAMLparam({heap}) \o When(caml_debugger(heap)) \o Acquire("debug_info")
    \o When(process_debug_events(heap)) \o Kept("debug_info") \o End_roots
caml_remove_debug_info == CAMLparam({}) \o CAMLlocal({"dis", "prev"}) \o End_roots
caml_alloc_backtrace_buffer == When(Acquire("buffer") \o Kept("buffer"))
caml_stash_backtrace == Prim({"exn"}, Read({"exn"}) \o caml_alloc_backtrace_buffer \o Return({}))
caml_collect_current_callstack(trace) == When(Acquire(trace))

\* startup_byt.c: opening of the file with the bytecode, with and without success.
caml_attempt_open_fails ==
    Acquire("truename") \o Acquire("u8") \o Release("u8")
    \o When(Acquire("fd") \o Release("fd")) \o Release("truename")
caml_attempt_open ==
    Acquire("truename") \o Acquire("u8") \o Release("u8") \o Acquire("fd") \o Kept("truename")
caml_read_section_descriptors == Acquire("trail.section")
\* The channel owns the descriptor.
WithChannel(step) ==
    caml_open_descriptor_in \o Kept("fd") \o step \o caml_close_channel
\* Without a section of debugging information the file stays open, and the
\* table of the sections is never freed.
read_main_debug_info ==
    CAMLparam({}) \o CAMLlocal({"events", "evl", "l"})
    \o When(caml_attempt_open \o caml_read_section_descriptors
            \o When(WithChannel(
                 caml_getword({}) \o AllocAny("events")
                 \o Loop(caml_getword({}) \o caml_input_val({}, "evl")
                         \o caml_input_val({}, "l.names")
                         \o Let("l", "evl") \o Loop(LoadOf("ev", {"l"}) \o Fill("ev", {})
                                                    \o LoadOf("l", {"l"}))
                         \o Store("events", {"evl"})))
               \o process_debug_events("events")))
    \o End_roots
event_for_location == When(read_main_debug_info)
caml_debuginfo_location == event_for_location

\* backtrace.c
caml_print_exception_backtrace == Breaking(
    Prim({}, Loop(caml_debuginfo_location) \o Return({})), {"left"})
caml_get_exception_raw_backtrace(v) == AllocAny(v) \o Fill(v, {})
caml_restore_raw_backtrace ==
    Prim({"exn", "backtrace"}, Read({"exn", "backtrace"}) \o When(Return({}))
                               \o caml_alloc_backtrace_buffer \o Read({"backtrace"}) \o Return({}))
caml_convert_debuginfo(v) ==
    CAMLparam({}) \o CAMLlocal({"p", "fname", "dname"}) \o caml_debuginfo_location
    \o Either(Alloc("fname") \o Alloc("dname") \o Block("p", {"fname", "dname"}), Block("p", {}))
    \o Let(v, "p") \o End_roots
caml_convert_raw_backtrace_slot == Breaking(
    Prim({}, When(Raise({})) \o caml_convert_debuginfo("v") \o Return({"v"})), {"left"})
caml_convert_raw_backtrace == Breaking(
    Prim({"bt"}, CAMLparam({"bt"}) \o CAMLlocal({"array"}) \o When(Raise({})) \o Read({"bt"})
                 \o AllocAny("array")
                 \o Loop(Read({"bt"}) \o caml_convert_debuginfo("d") \o Store("array", {"d"}))
                 \o CAMLreturn({"array"})), {"left"})
caml_raw_backtrace_slot == Checked(Scalar({"bt"}))
caml_raw_backtrace_next_slot ==
    Prim({"slot"}, CAMLparam({"slot"}) \o CAMLlocal({"v"})
                   \o When(AllocAny("v") \o Fill("v", {})) \o CAMLreturn({"v"}))
caml_get_exception_backtrace == Breaking(
    Prim({}, CAMLparam({}) \o CAMLlocal({"arr", "res", "backtrace"})
             \o When(caml_get_exception_raw_backtrace("backtrace") \o Read({"backtrace"})
                     \o AllocAny("arr")
                     \o Loop(Read({"backtrace"}) \o caml_convert_debuginfo("d")
                             \o Store("arr", {"d"}))
                     \o Block("res", {"arr"}))
             \o CAMLreturn({"res"})), {"left"})
caml_get_current_callstack ==
    Prim({}, CAMLparam({}) \o CAMLlocal({"res"}) \o caml_collect_current_callstack("callstack")
             \o AllocAny("res") \o Fill("res", {}) \o Release("callstack") \o CAMLreturn({"res"}))

-----------------------------------------------------------------------------
\* meta.c
caml_get_section_table ==
    Prim({}, When(Raise({})) \o caml_input_value_from_block("v") \o Return({"v"}))
buffer_of_bytes_array(ls) ==
    CAMLparam({ls}) \o CAMLlocal({"s"}) \o Loop(LoadOf("s", {ls}) \o Read({"s"}))
    \o Acquire("prog") \o Loop(LoadOf("s", {ls}) \o Read({"s"})) \o End_roots
\* The fragment and the code are lost when the debugger cannot be told of them.
caml_reify_bytecode == Breaking(
    Prim({"ls_prog", "debuginfo", "digest_opt"},
         CAMLparam({"ls_prog", "debuginfo", "digest_opt"})
         \o CAMLlocal({"clos", "bytecode", "retval"})
         \o Acquire("cf") \o buffer_of_bytes_array("ls_prog") \o caml_add_debug_info("debuginfo")
         \o Read({"digest_opt"}) \o Kept("cf") \o caml_debugger(Nothing)
         \o Block("clos", {}) \o Block("bytecode", {}) \o Kept("prog")
         \o Block("retval", {"bytecode", "clos"}) \o CAMLreturn({"retval"})), {"left"})
\* The code is given back to bc's owner by caml_reify_bytecode.
caml_static_release_bytecode == Breaking(
    Prim({"bc"}, Read({"bc"}) \o Acquire("prog") \o caml_remove_debug_info
                 \o caml_debugger(Nothing) \o Release("prog") \o Return({})), {"left"})
caml_realloc_global ==
    Prim({}, When(AllocShr("new_global_data") \o LoadOf("g", {})
                  \o Initialize("new_global_data", {"g"}) \o Poll("new_global_data"))
             \o Return({}))
caml_invoke_traced_function == Prim({"env", "arg"}, Read({"env", "arg"}) \o Return({}))

\* startup_byt.c; caml_global_data and the flags of the debugger are global roots.
caml_main == Breaking(
    Prim({}, Loop(caml_attempt_open_fails) \o caml_attempt_open \o caml_read_section_descriptors
         \o Unit({"flags"}) \o Begin_roots({"flags"}) \o caml_debugger_init("flags")
         \o Acquire("code") \o Kept("code")
         \o Acquire("shared_libs") \o Acquire("req_prims")
         \o Acquire("tofree1") \o parse_ld_conf \o Loop(open_shared_lib)
         \o Release("tofree1") \o Release("wconfig")
         \o Release("shared_libs") \o Release("req_prims")
         \o WithChannel(caml_input_val({}, "caml_global_data"))
         \o Release("trail.section") \o Begin_roots({"caml_global_data"}) \o IsOld({"caml_global_data"})
         \o caml_copy_string_array("main_argv") \o caml_debugger(Nothing)
         \o Callback_exn("res", {"caml_global_data"})
         \o When(default_fatal_uncaught_exception("res"))
         \o End_roots \o End_roots \o Return({})), {"left"})
caml_startup_code_exn ==
    Prim({}, Acquire("exe_name") \o Kept("exe_name")
         \o Unit({"flags"}) \o Begin_roots({"flags"}) \o caml_debugger_init("flags")
         \o caml_input_value_from_block("caml_global_data")
         \o Begin_roots({"caml_global_data"}) \o IsOld({"caml_global_data"})
         \o caml_copy_string_array("main_argv") \o caml_debugger(Nothing)
         \o Callback_exn("res", {"caml_global_data"})
         \o End_roots \o End_roots \o Return({"res"}))

-----------------------------------------------------------------------------
SystemPrimitives ==
    {caml_sys_open, caml_sys_close, caml_sys_file_exists, caml_sys_is_directory,
     caml_sys_chdir, caml_sys_system_command, caml_sys_rename,
     caml_sys_getcwd, caml_sys_unsafe_getenv, caml_sys_get_argv,
     caml_sys_modify_argv, caml_sys_init, caml_sys_time, caml_sys_random_seed,
     caml_sys_get_config, caml_sys_read_directory, caml_sys_isatty,
     caml_ml_open_descriptor_in, caml_ml_set_channel_name,
     caml_ml_out_channels_list, caml_channel_descriptor, caml_ml_close_channel,
     caml_ml_channel_size, caml_ml_channel_size_64, caml_ml_set_binary_mode,
     caml_ml_flush_partial, caml_ml_flush, caml_ml_output_char, caml_ml_output_int,
     caml_ml_output_partial, caml_ml_output_bytes, caml_ml_seek_out, caml_ml_seek_out_64,
     caml_ml_input_char, caml_ml_input_int, caml_ml_input, caml_ml_seek_in,
     caml_ml_seek_in_64, caml_ml_input_scan_line, caml_ml_pos_out, caml_ml_pos_in,
     caml_ml_pos_out_64, caml_ml_pos_in_64, caml_md5_string, caml_md5_chan,
     caml_build_primitive_table, caml_dynlink_open_lib, caml_dynlink_lookup_symbol,
     caml_dynlink_get_current_libs, caml_output_value, caml_output_value_to_bytes,
     caml_output_value_to_buffer, caml_output_value_to_malloc, caml_input_value,
     caml_input_value_to_outside_heap, caml_input_val_from_bytes,
     caml_input_value_from_malloc, caml_marshal_data_size, command_loop,
     caml_stash_backtrace, caml_print_exception_backtrace, caml_restore_raw_backtrace,
     caml_convert_raw_backtrace_slot, caml_convert_raw_backtrace, caml_raw_backtrace_slot,
     caml_raw_backtrace_next_slot, caml_get_exception_backtrace,
     caml_get_current_callstack, caml_get_section_table, caml_reify_bytecode,
     caml_static_release_bytecode, caml_realloc_global, caml_invoke_traced_function,
     caml_main, caml_startup_code_exn}
=============================================================================
