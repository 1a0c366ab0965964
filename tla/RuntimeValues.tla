--------------------------- MODULE RuntimeValues ----------------------------
(* The primitives of the runtime that build and take apart values: arrays,   *)
(* blocks of any shape, strings, boxed numbers, exceptions.                  *)
EXTENDS StubSteps

\* The usual shape of a primitive on boxed numbers and strings: its arguments
\* are read, then the result is allocated and filled in.
Boxed(args) == Prim(args, Read(args) \o Alloc("res") \o Read({"res"}) \o Return({"res"}))
Scalar(args) == Prim(args, Read(args) \o Return({}))
Checked(p) == [p EXCEPT !.code = Read(p.args) \o When(Raise({})) \o @]

-----------------------------------------------------------------------------
\* alloc.c, custom.c
caml_alloc ==
    Prim({}, Either(Block("result", {}),
                    Either(AllocShr("result") \o Initialize("result", {}), AllocShrData("result"))
                    \o Collect("result"))
             \o Return({"result"}))

caml_alloc_string ==
    Prim({}, Either(Alloc("result"), AllocShrData("result") \o Collect("result"))
             \o Read({"result"}) \o Return({"result"}))

caml_alloc_float_array ==
    Prim({}, Either(Alloc("result"), AllocShrData("result") \o Collect("result"))
             \o Return({"result"}))

\* The inline form of a call: the array of what funct makes of every element.
caml_alloc_array(res, funct) ==
    CAMLparam({}) \o CAMLlocal({"a.v", "a.result"}) \o AllocAny("a.result")
    \o Loop(funct \o Store("a.result", {"a.v"}))
    \o Let(res, "a.result") \o End_roots
caml_copy_string_array(res) == caml_alloc_array(res, Alloc("a.v"))

caml_convert_flag_list(list) == Loop(Read({list}) \o Load(list, list))

caml_alloc_dummy == Prim({}, AllocAny("v") \o Return({"v"}))
caml_alloc_dummy_infix == Prim({}, AllocAny("v") \o Read({"v"}) \o Return({"v"}))
caml_update_dummy ==
    Prim({"dummy", "newval"},
         Read({"newval", "dummy"})
         \o Either(<<>>,
            Either(Let("clos", "newval") \o Loop(Load("f", "clos") \o Store("dummy", {"f"})),
                   Loop(Load("f", "newval") \o Store("dummy", {"f"}))))
         \o Return({}))

alloc_custom_gen ==
    Prim({}, CAMLparam({}) \o CAMLlocal({"result"})
             \o Either(Block("result", {}) \o When(MinorCollection),
                       AllocShr("result") \o Initialize("result", {}) \o Collect(""))
             \o CAMLreturn({"result"}))

-----------------------------------------------------------------------------
\* array.c
caml_array_get_addr == Checked(Prim({"array"}, Load("f", "array") \o Return({"f"})))
caml_array_get_float == Checked(Boxed({"array"}))
caml_array_get ==
    Prim({"array"}, Read({"array"})
                    \o Either(caml_array_get_float.code, caml_array_get_addr.code))
caml_floatarray_get == caml_array_get_float
caml_array_set_addr ==
    Checked(Prim({"array", "newval"}, Store("array", {"newval"}) \o Return({})))
caml_array_set_float == Checked(Scalar({"array", "newval"}))
caml_array_set ==
    Prim({"array", "newval"}, Read({"array"})
                              \o Either(caml_array_set_float.code, caml_array_set_addr.code))
caml_floatarray_set == caml_array_set_float
caml_array_unsafe_get_float == Boxed({"array"})
caml_array_unsafe_get ==
    Prim({"array"}, Read({"array"}) \o Either(caml_array_unsafe_get_float.code,
                                              Load("f", "array") \o Return({"f"})))
caml_floatarray_unsafe_get == caml_array_unsafe_get_float
caml_array_unsafe_set_addr == Prim({"array", "newval"}, Store("array", {"newval"}) \o Return({}))
caml_array_unsafe_set_float == Scalar({"array", "newval"})
caml_array_unsafe_set ==
    Prim({"array", "newval"}, Read({"array"}) \o Either(caml_array_unsafe_set_float.code,
                                                        caml_array_unsafe_set_addr.code))
caml_floatarray_unsafe_set == caml_array_unsafe_set_float

caml_floatarray_create ==
    Prim({}, When(Return({})) \o When(Raise({}))
             \o Either(Alloc("result"), AllocShrData("result"))
             \o Poll("result") \o Return({"result"}))

\* A large array gets init without caml_modify: a minor collection has to
\* promote it first.
caml_make_vect ==
    Prim({"len", "init"},
         CAMLparam({"len", "init"}) \o CAMLlocal({"res"})
         \o Either(Unit({"res"}),
            Either(Read({"init"}) \o When(Raise({})) \o AllocAny("res") \o Read({"res"}),
            Either(Block("res", {"init"}),
                   When(Raise({})) \o Either(MinorCollection, IsOld({"init"}))
                   \o AllocShr("res") \o Fill("res", {"init"}))))
         \o Poll("") \o CAMLreturn({"res"}))

caml_make_float_vect == caml_floatarray_create

caml_make_array ==
    Prim({"init"},
         CAMLparam({"init"}) \o CAMLlocal({"v", "res"})
         \o Read({"init"}) \o When(CAMLreturn({"init"}))
         \o Load("v", "init") \o Read({"v"}) \o When(CAMLreturn({"init"}))
         \o Either(Alloc("res"), AllocShrData("res"))
         \o Read({"init", "res"}) \o Poll("") \o CAMLreturn({"res"}))

caml_array_blit ==
    Prim({"a1", "a2"},
         Read({"a1", "a2"})
         \o When(Return({}))
         \o When(IsYoung("a2") \o Load("f", "a1") \o Fill("a2", {"f"}) \o Return({}))
         \o Loop(Load("f", "a1") \o Store("a2", {"f"}))
         \o Collect("") \o Return({}))

caml_array_gather(arrays) ==
    CAMLparam(arrays) \o Read(arrays) \o When(Raise({}))
    \o Either(Unit({"res"}),
       Either(When(Raise({})) \o AllocAny("res") \o Read(arrays \union {"res"}),
       Either(AllocSmall("res") \o LoadOf("f", arrays) \o Fill("res", {"f"}),
              When(Raise({})) \o AllocShr("res") \o LoadOf("f", arrays)
              \o Initialize("res", {"f"}) \o Poll("res"))))
    \o End_roots
caml_array_sub == Prim({"a"}, caml_array_gather({"a"}) \o Return({"res"}))
caml_array_append == Prim({"a1", "a2"}, caml_array_gather({"a1", "a2"}) \o Return({"res"}))
\* More than 16 arrays are gathered in C memory, which Invalid_argument loses.
caml_array_concat == Breaking(Prim({"al"},
         Let("l", "al") \o Loop(Load("l", "l"))
         \o Either(Let("l", "al") \o LoadOf("a", {"l"}) \o Read({"a"})
                   \o caml_array_gather({"a"}) \o Return({"res"}),
                   Acquire("arrays") \o When(Release("arrays") \o Raise({}))
                   \o Let("l", "al") \o Load("a", "l") \o Read({"a"})
                   \o caml_array_gather({"a"}) \o Release("arrays") \o Return({"res"}))),
         {"left"})

\* The write barrier of caml_modify is written out in the loop.
caml_array_fill ==
    Prim({"array", "val"},
         Read({"array"})
         \o When(Read({"val", "array"}) \o Return({}))
         \o Either(IsYoung("array") \o Fill("array", {"val"}),
                   Loop(Load("old", "array") \o Read({"old"}) \o Store("array", {"val"}))
                   \o When(Collect("")))
         \o Return({}))

-----------------------------------------------------------------------------
\* obj.c
caml_obj_tag == Scalar({"arg"})
caml_obj_make_forward ==
    Prim({"blk", "fwd"}, Store("blk", {"fwd"}) \o Read({"blk"}) \o Return({}))
caml_obj_block ==
    Prim({}, When(Return({})) \o AllocAny("res") \o Fill("res", {}) \o Return({"res"}))
caml_obj_with_tag ==
    Prim({"new_tag_v", "arg"},
         CAMLparam({"new_tag_v", "arg"}) \o CAMLlocal({"res"}) \o Read({"arg", "new_tag_v"})
         \o When(CAMLreturn({}))
         \o Either(AllocAny("res") \o Read({"res", "arg"}),
            Either(AllocSmall("res") \o Load("f", "arg") \o Fill("res", {"f"}),
                   AllocShr("res") \o Load("f", "arg") \o Initialize("res", {"f"}) \o Poll("")))
         \o CAMLreturn({"res"}))
caml_obj_dup ==
    Prim({"arg"}, Read({"arg"}) \o Unit({"new_tag_v"}) \o caml_obj_with_tag.code)
caml_obj_truncate ==
    Prim({"v"}, Read({"v"}) \o When(Raise({})) \o When(Return({}))
                \o Loop(Store("v", {})) \o Fill("v", {}) \o Return({}))
caml_lazy_follow_forward ==
    Prim({"v"}, Read({"v"}) \o When(Load("f", "v") \o Return({"f"})) \o Return({"v"}))
caml_lazy_make_forward ==
    Prim({"v"}, CAMLparam({"v"}) \o CAMLlocal({"res"}) \o Block("res", {"v"})
                \o CAMLreturn({"res"}))
BinarySearch == Loop(Read({"meths"})) \o Read({"meths"}) \o Load("m", "meths") \o Return({"m"})
caml_get_public_method == Prim({"obj"}, Load("meths", "obj") \o BinarySearch)
caml_cache_public_method == Prim({"meths"}, BinarySearch)
caml_cache_public_method2 ==
    Prim({"meths"}, Read({"meths"}) \o When(Load("m", "meths") \o Return({"m"}))
                    \o BinarySearch)
caml_set_oo_id == Prim({"obj"}, Fill("obj", {}) \o Return({"obj"}))
\* The colours of the blocks mark what has been counted: nothing is allocated
\* until they have been restored, also when there is no memory for the queue.
caml_obj_reachable_words ==
    Prim({"v"}, Read({"v"}) \o When(Return({}))
                \o Loop(Read({"v"}) \o Load("v", "v") \o When(Acquire("new_chunk")))
                \o Loop(Read({"v"})) \o Release("new_chunk")
                \o When(Raise({})) \o Return({}))

-----------------------------------------------------------------------------
\* str.c
caml_ml_string_length == Scalar({"s"})
caml_create_bytes == Prim({}, When(Raise({})) \o Alloc("res") \o Return({"res"}))
caml_string_get == Checked(Scalar({"str"}))
caml_bytes_set == Checked(Scalar({"str"}))
caml_string_get16 == Checked(Scalar({"str"}))
caml_string_get32 == Checked(Boxed({"str"}))
caml_string_get64 == Checked(Boxed({"str"}))
caml_bytes_set16 == Checked(Scalar({"str"}))
caml_bytes_set32 == Checked(Scalar({"str", "newval"}))
caml_bytes_set64 == Checked(Scalar({"str", "newval"}))
caml_string_equal == Scalar({"s1", "s2"})
caml_string_compare == Scalar({"s1", "s2"})
caml_string_order == Scalar({"s1", "s2"})
caml_blit_bytes == Scalar({"s1", "s2"})
caml_fill_bytes == Scalar({"s"})
\* The format may be the contents of an OCaml string: it is used again after
\* the allocation, in a copy.
caml_alloc_sprintf(v, format) ==
    Read(format)
    \o Either(Alloc(v), Acquire("saved_format") \o Read(format) \o Alloc(v) \o Read({v})
                        \o Release("saved_format"))

-----------------------------------------------------------------------------
\* ints.c; the boxed integers of 32 bits, 64 bits and of the size of a word are
\* treated alike.
parse_intnat(s) == Read({s}) \o When(Raise({})) \o Loop(Read({s}) \o When(Raise({})))
                   \o Read({s}) \o When(Raise({}))
parse_format(fmt) == Read({fmt}) \o When(Raise({})) \o Read({fmt})
caml_int_of_string == Prim({"s"}, parse_intnat("s") \o Return({}))
caml_format_int ==
    Prim({"fmt"}, parse_format("fmt") \o caml_alloc_sprintf("res", {}) \o Return({"res"}))
caml_copy_int32 == Boxed({})
Division ==
    Prim({"v1", "v2"}, Read({"v1", "v2"}) \o When(Raise({})) \o When(Return({"v1"}))
                       \o Alloc("res") \o Return({"res"}))
FormatBoxed ==
    Prim({"fmt", "arg"}, parse_format("fmt") \o Read({"arg"})
                         \o caml_alloc_sprintf("res", {}) \o Return({"res"}))
ParseBoxed == Prim({"s"}, parse_intnat("s") \o Alloc("res") \o Return({"res"}))
caml_int32_arith == Boxed({"v1", "v2"})
caml_int32_div == Division
caml_int32_logic == Boxed({"v1", "v2"})
caml_int32_conversions == Boxed({"v"})
caml_int32_compare == Scalar({"v1", "v2"})
caml_int32_format == FormatBoxed
caml_int32_of_string == ParseBoxed
caml_int32_bits_of_float == Boxed({"v"})
caml_copy_int64 == Boxed({})
caml_int64_arith == Boxed({"v1", "v2"})
caml_int64_div == Division
caml_int64_logic == Boxed({"v1", "v2"})
caml_int64_conversions == Boxed({"v"})
caml_int64_compare == Scalar({"v1", "v2"})
caml_int64_format == FormatBoxed
caml_int64_of_string == ParseBoxed
caml_int64_bits_of_float == Boxed({"v"})
caml_copy_nativeint == Boxed({})
caml_nativeint_arith == Boxed({"v1", "v2"})
caml_nativeint_div == Division
caml_nativeint_logic == Boxed({"v1", "v2"})
caml_nativeint_conversions == Boxed({"v"})
caml_nativeint_compare == Scalar({"v1", "v2"})
caml_nativeint_format == FormatBoxed
caml_nativeint_of_string == ParseBoxed

-----------------------------------------------------------------------------
\* floats.c
caml_copy_double == Boxed({})
caml_format_float ==
    Prim({"fmt", "arg"}, Read({"arg"}) \o caml_alloc_sprintf("res", {"fmt"}) \o Return({"res"}))
caml_hexstring_of_float ==
    Prim({"arg"}, When(Acquire("buf")) \o Read({"arg"})
                  \o Either(Alloc("res"), caml_alloc_sprintf("res", {}))
                  \o Release("buf") \o Return({"res"}))
caml_float_of_string ==
    Prim({"vs"}, Read({"vs"}) \o When(Acquire("buf")) \o Read({"vs"}) \o Release("buf")
                 \o Either(Alloc("res") \o Return({"res"}), Raise({})))
caml_int_of_float == Scalar({"f"})
caml_float_arith == Boxed({"f", "g"})
caml_fma_float == Boxed({"f1", "f2", "f3"})
caml_frexp_float ==
    Prim({"f"}, CAMLparam({"f"}) \o CAMLlocal({"res", "mantissa"}) \o Read({"f"})
                \o Alloc("mantissa") \o Alloc("res") \o Fill("res", {"mantissa"})
                \o CAMLreturn({"res"}))
caml_log_float == Boxed({"f"})
caml_modf_float ==
    Prim({"f"}, CAMLparam({"f"}) \o CAMLlocal({"res", "quo", "rem"}) \o Read({"f"})
                \o Alloc("quo") \o Alloc("rem") \o Alloc("res")
                \o Fill("res", {"quo", "rem"}) \o CAMLreturn({"res"}))
caml_trigonometric_float == Boxed({"f", "g"})
caml_expm1_float == Boxed({"f"})
caml_copysign_float == Boxed({"f", "g"})
caml_compare_float == Scalar({"f", "g"})
caml_classify_float == Scalar({"vd"})

-----------------------------------------------------------------------------
\* callback.c, printexc.c
caml_register_named_value ==
    Prim({"vname", "val"},
         Let("name", "vname") \o Loop(Read({"name"}))
         \o When(Read({"val"}) \o Return({}))
         \o Acquire("nv") \o Read({"name", "val"}) \o Kept("nv") \o Return({}))

caml_format_exception(msg, exn) ==
    Read({exn}) \o Either(Loop(Load("v", exn) \o Read({"v"})), Read({exn})) \o When(Acquire(msg))
\* The exception is turned into text before at_exit functions run.
default_fatal_uncaught_exception(exn) ==
    caml_format_exception("msg", exn)
    \o When(Callback_exn("r", {})) \o Release("msg")
caml_fatal_uncaught_exception ==
    Prim({"exn"}, Either(Callback("r", {"exn"}), default_fatal_uncaught_exception("exn"))
                  \o Return({}))

-----------------------------------------------------------------------------
ValuePrimitives ==
    {caml_alloc, caml_alloc_string, caml_alloc_float_array, caml_alloc_dummy,
     caml_alloc_dummy_infix, caml_update_dummy, alloc_custom_gen,
     caml_array_get_addr, caml_array_get_float, caml_array_get, caml_floatarray_get,
     caml_array_set_addr, caml_array_set_float, caml_array_set, caml_floatarray_set,
     caml_array_unsafe_get_float, caml_array_unsafe_get, caml_floatarray_unsafe_get,
     caml_array_unsafe_set_addr, caml_array_unsafe_set_float, caml_array_unsafe_set,
     caml_floatarray_unsafe_set, caml_floatarray_create, caml_make_vect, caml_make_float_vect,
     caml_make_array, caml_array_blit, caml_array_sub, caml_array_append, caml_array_concat,
     caml_array_fill}
    \union
    {caml_obj_tag, caml_obj_make_forward, caml_obj_block, caml_obj_with_tag, caml_obj_dup,
     caml_obj_truncate, caml_lazy_follow_forward, caml_lazy_make_forward,
     caml_get_public_method, caml_cache_public_method, caml_cache_public_method2,
     caml_set_oo_id, caml_obj_reachable_words}
    \union
    {caml_ml_string_length, caml_create_bytes, caml_string_get, caml_bytes_set,
     caml_string_get16, caml_string_get32, caml_string_get64, caml_bytes_set16,
     caml_bytes_set32, caml_bytes_set64, caml_string_equal, caml_string_compare,
     caml_string_order, caml_blit_bytes, caml_fill_bytes}
    \union
    {caml_int_of_string, caml_format_int, caml_copy_int32, caml_int32_arith, caml_int32_div,
     caml_int32_logic, caml_int32_conversions, caml_int32_compare, caml_int32_format,
     caml_int32_of_string, caml_int32_bits_of_float, caml_copy_int64, caml_int64_arith,
     caml_int64_div, caml_int64_logic, caml_int64_conversions, caml_int64_compare,
     caml_int64_format, caml_int64_of_string, caml_int64_bits_of_float, caml_copy_nativeint,
     caml_nativeint_arith, caml_nativeint_div, caml_nativeint_logic,
     caml_nativeint_conversions, caml_nativeint_compare, caml_nativeint_format,
     caml_nativeint_of_string}
    \union
    {caml_copy_double, caml_format_float, caml_hexstring_of_float, caml_float_of_string,
     caml_int_of_float, caml_float_arith, caml_fma_float, caml_frexp_float, caml_log_float,
     caml_modf_float, caml_trigonometric_float, caml_expm1_float, caml_copysign_float,
     caml_compare_float, caml_classify_float, caml_register_named_value,
     caml_fatal_uncaught_exception}
=============================================================================
