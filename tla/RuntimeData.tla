---------------------------- MODULE RuntimeData -----------------------------
(* The primitives of the runtime on structured data: big arrays, regular     *)
(* expressions, ephemerons, comparison and hashing, lexers and parsers, and  *)
(* the ones that control the collector.                                      *)
EXTENDS RuntimeValues

-----------------------------------------------------------------------------
\* gc_ctrl.c
caml_alloc_tuple_of_floats ==
    CAMLparam({}) \o CAMLlocal({"res"}) \o AllocAny("res")
    \o Loop(Alloc("d") \o Store("res", {"d"})) \o Store("res", {}) \o CAMLreturn({"res"})
heap_stats == Prim({}, caml_alloc_tuple_of_floats)
caml_gc_quick_stat == Prim({}, caml_alloc_tuple_of_floats)
caml_gc_counters == Prim({}, caml_alloc_tuple_of_floats)
caml_gc_minor_words == Prim({}, CAMLparam({}) \o Alloc("d") \o CAMLreturn({"d"}))
caml_gc_get == Prim({}, CAMLparam({}) \o CAMLlocal({"res"}) \o AllocAny("res")
                        \o Store("res", {}) \o CAMLreturn({"res"}))
\* All the fields of v are read before the minor heap is emptied.
caml_gc_set ==
    Prim({"v"}, Read({"v"}) \o When(MinorCollection \o Collect("")) \o When(MinorCollection)
                \o Poll("") \o Return({}))
\* The finalisers that the collection made ready run before it returns, and what
\* they raise leaves it.
caml_gc_minor == Prim({}, Poll("") \o Return({}))
caml_gc_major == Prim({}, MinorCollection \o Collect("") \o When(Collect("")) \o Poll("")
                          \o Return({}))
caml_gc_full_major == Prim({}, MinorCollection \o Collect("") \o Poll("") \o MinorCollection
                               \o Collect("") \o When(Collect("")) \o Poll("") \o Return({}))
caml_gc_compaction == Prim({}, MinorCollection \o Collect("") \o Poll("") \o MinorCollection
                               \o Collect("") \o Collect("") \o Poll("") \o Return({}))
caml_gc_major_slice == Prim({}, Collect("") \o Return({}))
caml_get_major_bucket == Checked(Scalar({}))
caml_runtime_parameters == Boxed({})

-----------------------------------------------------------------------------
\* bigarray.c: the data are outside the heap; they, and the proxy that the arrays
\* on the same data share, belong to the custom block, which frees them.
caml_ba_alloc(res, dims) ==
    Read(dims) \o When(When(Raise({})) \o Acquire("data"))
    \o Either(Block(res, {}) \o When(MinorCollection),
              AllocShr(res) \o Initialize(res, {}))
    \o Kept("data")
\* The custom block is a local root of its allocator while that may collect.
BaAlloc(res, dims) ==
    CAMLparam({}) \o CAMLlocal({"ba.result"}) \o caml_ba_alloc("ba.result", dims)
    \o Let(res, "ba.result") \o End_roots
caml_ba_create ==
    Prim({"vdim"}, Read({"vdim"}) \o When(Raise({})) \o BaAlloc("res", {}) \o Return({"res"}))
caml_ba_finalize == Prim({"v"}, Acquire("data") \o Read({"v"}) \o Release("data") \o Return({}))
caml_ba_compare == Scalar({"v1", "v2"})
caml_ba_hash == Scalar({"v"})
caml_ba_serialize == Checked(Scalar({"v"}))
caml_ba_deserialize ==
    Prim({}, Loop(When(Raise({}))) \o Acquire("data") \o Kept("data") \o Return({}))
caml_ba_offset(vb) == Read({vb}) \o When(Raise({}))
caml_ba_get_N ==
    Prim({"vb", "vind"}, Read({"vb"}) \o When(Raise({})) \o Read({"vind"}) \o caml_ba_offset("vb")
                         \o Read({"vb"})
                         \o Either(Return({}), Alloc("res") \o Read({"res"}) \o Return({"res"})))
caml_ba_uint8_get16 == Checked(Scalar({"vb"}))
caml_ba_uint8_get32 == Checked(Boxed({"vb"}))
caml_ba_uint8_get64 == Checked(Boxed({"vb"}))
caml_ba_set_aux ==
    Prim({"vb", "vind", "newval"},
         Read({"vb"}) \o When(Raise({})) \o Read({"vind"}) \o caml_ba_offset("vb")
         \o Read({"vb", "newval"}) \o Return({}))
caml_ba_uint8_set16 == Checked(Scalar({"vb"}))
caml_ba_uint8_set32 == Checked(Scalar({"vb", "newval"}))
caml_ba_uint8_set64 == Checked(Scalar({"vb", "newval"}))
caml_ba_dim == Checked(Scalar({"vb"}))
caml_ba_update_proxy(b1, b2) == Read({b1, b2}) \o When(Acquire("proxy") \o Kept("proxy"))
\* The fields of the array are found from its value again after the allocation;
\* the dimensions it points to are copied before it.
View(args, dims) ==
    Prim(args, CAMLparam(args) \o CAMLlocal({"res"}) \o Read(args) \o When(Raise({}))
               \o BaAlloc("res", dims) \o Read({"vb", "res"})
               \o caml_ba_update_proxy("vb", "res") \o CAMLreturn({"res"}))
caml_ba_slice == View({"vb", "vind"}, {"vb"})
caml_ba_sub == View({"vb"}, {"vb"})
caml_ba_reshape == View({"vb", "vdim"}, {})
caml_ba_change_layout ==
    Prim({"vb"}, CAMLparam({"vb"}) \o CAMLlocal({"res"}) \o Read({"vb"})
                 \o When(BaAlloc("res", {}) \o Read({"vb", "res"})
                         \o caml_ba_update_proxy("vb", "res") \o CAMLreturn({"res"}))
                 \o CAMLreturn({"vb"}))
\* The arrays stay rooted while their data are used without the master lock.
caml_ba_blit ==
    Prim({"vsrc", "vdst"}, CAMLparam({"vsrc", "vdst"}) \o Read({"vsrc", "vdst"})
                           \o When(Raise({})) \o When(Enter \o Leave) \o CAMLreturn({}))
caml_ba_fill ==
    Prim({"vb", "vinit"}, CAMLparam({"vb"}) \o Read({"vb", "vinit"}) \o When(Enter \o Leave)
                          \o CAMLreturn({}))

-----------------------------------------------------------------------------
\* strstubs.c: the pointers into the subject are only subtracted after the
\* result has been allocated.
free_backtrack_stack == Release("stack")
re_alloc_groups(res, re) == Read({re}) \o AllocAny(res) \o Fill(res, {})
re_match(res, accepted) ==
    Read({"re"}) \o When(Acquire("groups"))
    \o LoadOf("prog", {"re"}) \o LoadOf("cpool", {"re"}) \o LoadOf("normtable", {"re"})
    \o Loop(Read({"prog", "cpool", "normtable", "str"})
            \o Either(Acquire("stack"), Release("stack")))
    \o Either(free_backtrack_stack \o re_alloc_groups(res, "re") \o Release("groups") \o accepted,
              Release("stack") \o Release("groups"))
\* Also re_partial_match, which takes the same steps.
re_string_match ==
    Prim({"re", "str"}, Read({"str"}) \o When(Raise({}))
                        \o re_match("res", Return({"res"})) \o Return({}))
\* Also re_search_backward, which takes the same steps.
re_search_forward ==
    Prim({"re", "str"}, Read({"str"}) \o When(Raise({})) \o LoadOf("startchars", {"re"})
                        \o Loop(Read({"startchars", "str"}) \o re_match("res", Return({"res"})))
                        \o Return({}))
re_replacement_text ==
    Prim({"repl", "groups", "orig"},
         CAMLparam({"repl", "groups", "orig"}) \o CAMLlocal({"res"})
         \o Read({"repl", "groups"}) \o When(Raise({})) \o AllocAny("res")
         \o Read({"repl", "res"}) \o Loop(Read({"repl", "groups", "orig", "res"}))
         \o CAMLreturn({"res"}))

-----------------------------------------------------------------------------
\* compare.c, hash.c
compare_free_stack == Release("stk")
compare_resize_stack == Acquire("stk") \o When(compare_free_stack \o Raise({}))
do_compare_val(v1, v2) ==
    Loop(Read({v1, v2}) \o LoadOf(v1, {v1}) \o LoadOf(v2, {v2})
         \o Either(compare_resize_stack, When(compare_free_stack \o Raise({}))))
compare_val == Prim({"v1", "v2"}, do_compare_val("v1", "v2") \o compare_free_stack \o Return({}))
caml_hash == Prim({"obj"}, Let("v", "obj") \o Loop(Read({"v"}) \o LoadOf("v", {"v"})) \o Return({}))
hash_aux == Prim({"obj"}, Loop(Read({"obj"}) \o LoadOf("obj", {"obj"})) \o Return({}))

-----------------------------------------------------------------------------
\* lexing.c: only integers are assigned to the fields of the lexer buffer.
run_mem(mem) == Loop(Fill(mem, {}))
run_tag(mem) == Loop(Fill(mem, {}))
caml_lex_engine ==
    Prim({"tbl", "lexbuf"}, When(Fill("lexbuf", {}))
         \o Loop(Read({"tbl", "lexbuf"}) \o When(Return({})) \o Fill("lexbuf", {})
                 \o When(Either(Raise({}), Return({}))))
         \o Return({}))
caml_new_lex_engine ==
    Prim({"tbl", "lexbuf"}, When(Fill("lexbuf", {}))
         \o Loop(Read({"tbl", "lexbuf"}) \o LoadOf("mem", {"lexbuf"})
                 \o When(run_tag("mem") \o Return({})) \o Fill("lexbuf", {}) \o run_tag("mem")
                 \o When(Either(Raise({}), Return({}))) \o run_mem("mem"))
         \o Return({}))

\* parsing.c: the engine between two of its requests to the OCaml code.
caml_parse_engine ==
    LET s_stack == LoadOf("s", {"env"}) \o Fill("s", {})
        stored(f) == LoadOf("stk", {"env"}) \o LoadOf("x", f) \o Store("stk", {"x"})
    IN Prim({"tables", "env", "arg"},
            Either(Either(Fill("env", {}),
                          Fill("env", {}) \o LoadOf("x", {"arg"}) \o Store("env", {"x"})),
                   s_stack \o LoadOf("stk", {"env"}) \o Store("stk", {"arg"}) \o stored({"env"}) \o When(stored({"env"})))
            \o Loop(Read({"tables", "env"}) \o When(Fill("env", {}) \o Return({}))
                    \o Fill("env", {}) \o When(s_stack \o Loop(stored({"env"}))))
            \o Return({}))
caml_set_parser_trace == Scalar({})

-----------------------------------------------------------------------------
\* weak.c: the keys are not roots; the ephemeron itself is in the major heap.
caml_ephemeron_create(res) == AllocShr(res) \o Initialize(res, {})
caml_ephe_create ==
    Prim({}, When(Raise({})) \o caml_ephemeron_create("res") \o Poll("res") \o Return({"res"}))
do_set(ar, v) == Read({ar} \union v) \o Store(ar, v)
caml_ephe_set_key == Prim({"ar", "el"}, Read({"ar"}) \o do_set("ar", {"el"}) \o Return({}))
caml_ephe_unset_key == Prim({"ar"}, Read({"ar"}) \o do_set("ar", {}) \o Return({}))
caml_ephe_set_key_option ==
    Prim({"ar", "el"}, Read({"el", "ar"})
                       \o Either(LoadOf("k", {"el"}) \o do_set("ar", {"k"}), do_set("ar", {}))
                       \o Return({}))
caml_ephemeron_set_data == caml_ephe_set_key
optionalize(found, x) ==
    CAMLparam({}) \o CAMLlocal({"o.res", "o.v"})
    \o (IF found THEN Let("o.v", x) \o Block("o.res", {"o.v"}) ELSE <<>>)
    \o Poll("") \o CAMLreturn({"o.res"})
caml_ephe_get_key ==
    Prim({"ar"}, Read({"ar"})
                 \o Either(LoadOf("data", {"ar"}) \o optionalize(TRUE, "data"),
                           optionalize(FALSE, "data")))
caml_ephe_get_data == caml_ephe_get_key
\* The fields are copied as they are after the last allocation: the copy is taken
\* only if the key still has the shape it had before.
copy_value(src, dst) == Loop(LoadOf("f", {src}) \o Read({"f"}) \o Store(dst, {"f"}))
caml_ephemeron_get_key_copy ==
    Prim({"ar"},
         CAMLparam({"ar"}) \o Unit({"elt"})
         \o Loop(Read({"ar"}) \o When(End_roots \o optionalize(FALSE, "key"))
                 \o LoadOf("v", {"ar"}) \o Read({"v"})
                 \o When(Let("key", "v") \o End_roots \o optionalize(TRUE, "key"))
                 \o Either(Unit({"elt"}) \o MinorCollection,
                           AllocAny("elt") \o Read({"ar"}) \o LoadOf("v", {"ar"})
                           \o When(copy_value("v", "elt") \o Let("key", "elt") \o End_roots
                                   \o optionalize(TRUE, "key"))))
         \o End_roots \o optionalize(FALSE, "key"))
caml_ephemeron_get_data_copy == caml_ephemeron_get_key_copy
caml_ephemeron_key_is_set == Scalar({"ar"})
caml_ephemeron_blit_key ==
    Prim({"ars", "ard"}, Read({"ars", "ard"})
                         \o Loop(LoadOf("k", {"ars"}) \o do_set("ard", {"k"})) \o Return({}))
caml_ephemeron_blit_data == caml_ephemeron_blit_key

\* finalise.c: the table is scanned by the collector.
generic_final_register ==
    Prim({"f", "v"}, Read({"v"}) \o When(Raise({})) \o When(Acquire("table") \o Kept("table"))
                     \o Read({"f", "v"}) \o Return({}))

\* signals.c
caml_install_signal_handler ==
    Prim({"action"},
         CAMLparam({"action"}) \o CAMLlocal({"res"}) \o When(Raise({})) \o Sys
         \o When(Errno \o Alloc("s") \o Raise({"s"}))
         \o When(AllocSmall("res") \o LoadOf("h", {}) \o Fill("res", {"h"}))
         \o When(Read({"action"}) \o When(AllocAny("caml_signal_handlers"))
                 \o LoadOf("caml_signal_handlers", {}) \o LoadOf("h", {"action"})
                 \o Store("caml_signal_handlers", {"h"}))
         \o Poll("") \o CAMLreturn({"res"}))

-----------------------------------------------------------------------------
DataPrimitives ==
    {heap_stats, caml_gc_quick_stat, caml_gc_counters, caml_gc_minor_words,
     caml_gc_get, caml_gc_set, caml_gc_minor, caml_gc_major,
     caml_gc_full_major, caml_gc_compaction, caml_gc_major_slice,
     caml_get_major_bucket, caml_runtime_parameters, caml_ba_create,
     caml_ba_finalize, caml_ba_compare, caml_ba_hash, caml_ba_serialize,
     caml_ba_deserialize, caml_ba_get_N, caml_ba_uint8_get16,
     caml_ba_uint8_get32, caml_ba_uint8_get64, caml_ba_set_aux,
     caml_ba_uint8_set16, caml_ba_uint8_set32, caml_ba_uint8_set64,
     caml_ba_dim, caml_ba_slice, caml_ba_sub, caml_ba_reshape,
     caml_ba_change_layout, caml_ba_blit, caml_ba_fill, re_string_match,
     re_search_forward,
     re_replacement_text, compare_val, caml_hash, hash_aux, caml_lex_engine,
     caml_new_lex_engine, caml_parse_engine, caml_set_parser_trace,
     caml_ephe_create, caml_ephe_set_key, caml_ephe_unset_key,
     caml_ephe_set_key_option, caml_ephemeron_set_data, caml_ephe_get_key,
     caml_ephe_get_data, caml_ephemeron_get_key_copy,
     caml_ephemeron_get_data_copy, caml_ephemeron_key_is_set,
     caml_ephemeron_blit_key, caml_ephemeron_blit_data,
     generic_final_register, caml_install_signal_handler}
=============================================================================
