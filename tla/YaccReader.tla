----------------------------- MODULE YaccReader -----------------------------
(* The reader of ocamlyacc: from the declarations and rules of a grammar     *)
(* file to numbered symbols and rules.  The file is read as a sequence of    *)
(* names; explicit numbers of tokens and rules in the middle of others are   *)
(* left out.                                                                 *)
EXTENDS Integers, Sequences, FiniteSets, SequencesExt

Undefined == -1
Pos(s, x) == CHOOSE i \in DOMAIN s : s[i] = x

-----------------------------------------------------------------------------
\* The symbols in the order they are first met.
make_bucket(name) == [name |-> name, class |-> "unknown", tag |-> FALSE, value |-> Undefined, prec |-> 0,
                      assoc |-> "token", entry |-> 0, true_token |-> FALSE]
create_symbol_table == <<[make_bucket("error") EXCEPT !.class = "term"]>>
Index(table, name) == CHOOSE i \in DOMAIN table : table[i].name = name
lookup(table, name) == IF \E i \in DOMAIN table : table[i].name = name THEN table
                       ELSE Append(table, make_bucket(name))
Bucket(table, name) == table[Index(table, name)]
Changed(table, name, change(_)) ==
    LET t == lookup(table, name) IN [t EXCEPT ![Index(t, name)] = change(@)]

\* A declaration is %token, %left, %right or %nonassoc, with the type of the
\* tokens or without; %type, or %start.
declare_tokens(file, d) ==
    LET level == IF d.kind = "token" THEN file.prec ELSE file.prec + 1
        declared(b) ==
          LET t == [b EXCEPT !.class = "term", !.tag = @ \/ d.tag, !.value = IF b.name = "EOF" THEN 0 ELSE @]
          IN IF d.kind = "token" THEN [t EXCEPT !.true_token = TRUE]
             ELSE [t EXCEPT !.assoc = d.kind, !.prec = level]
    IN [file EXCEPT !.prec = level,
                    !.table = FoldLeft(LAMBDA t, n : Changed(t, n, declared), @, d.names)]
declare_types(file, d) ==
    [file EXCEPT !.table = FoldLeft(LAMBDA t, n : Changed(t, n, LAMBDA b : [b EXCEPT !.tag = TRUE]), @, d.names)]
declare_start(file, d) ==
    [file EXCEPT !.table = FoldLeft(LAMBDA t, k : Changed(t, d.names[k],
                                                         LAMBDA b : [b EXCEPT !.entry = file.entries + k]),
                                    @, [k \in DOMAIN d.names |-> k]),
                 !.entries = @ + Len(d.names)]
read_declarations(src) ==
    FoldLeft(LAMBDA f, d : CASE d.kind = "type" -> declare_types(f, d)
                             [] d.kind = "start" -> declare_start(f, d)
                             [] OTHER -> declare_tokens(f, d),
             [table |-> create_symbol_table, prec |-> 0, entries |-> 0], src.decls)

start_rule(table, lhs) == Changed(table, lhs, LAMBDA b : [b EXCEPT !.class = "nonterm"])
\* The rules, each from its first symbol to the symbol after %prec.
read_grammar(table, rules) ==
    FoldLeft(LAMBDA t, r : LET u == FoldLeft(lookup, start_rule(t, r.lhs), r.rhs)
                           IN IF r.prec = "" THEN u ELSE lookup(u, r.prec),
             table, rules)

\* One rule for each entry point: a token of its own, whose value is the number
\* of the entry point, and the variable.
EntryToken == <<"'\\001'", "'\\002'", "'\\003'">>
Entries(table) == SelectSeq(table, LAMBDA b : b.entry > 0)
make_goal(table) ==
    FoldLeft(LAMBDA t, b : Changed(t, EntryToken[b.entry],
                                   LAMBDA c : [c EXCEPT !.class = "term", !.value = b.entry]),
             start_rule(table, "%entry%"), Entries(table))
check_symbols(table) ==
    [i \in DOMAIN table |-> IF table[i].class # "unknown" THEN table[i] ELSE [table[i] EXCEPT !.class = "term"]]

\* $end is 0, the tokens follow, then $accept, the goal, the other variables.
pack_symbols(table) ==
    LET tokens == SelectSeq(table, LAMBDA b : b.class = "term")
        vars == SelectSeq(table, LAMBDA b : b.class = "nonterm" /\ b.name # "%entry%")
        value(i) == IF i = 1 THEN 256
                    ELSE IF tokens[i].value # Undefined THEN tokens[i].value
                    ELSE 256 + Cardinality({j \in 2..i : tokens[j].value = Undefined})
        n == Len(tokens) + 1
    IN [tokens |-> tokens, ntokens |-> n, nsyms |-> n + 2 + Len(vars),
        index |-> [x \in {table[i].name : i \in DOMAIN table} |->
                     IF x = "%entry%" THEN n + 1
                     ELSE IF Bucket(table, x).class = "term" THEN Index(tokens, x) ELSE n + 1 + Index(vars, x)],
        value |-> [t \in 0..n - 1 |-> IF t = 0 THEN 0 ELSE value(t)],
        prec |-> [t \in 0..n - 1 |-> IF t = 0 THEN 0 ELSE tokens[t].prec],
        assoc |-> [t \in 0..n - 1 |-> IF t = 0 THEN "token" ELSE tokens[t].assoc]]

\* The precedence of a rule is that of the symbol after %prec, or of its last token.
pack_grammar(src, table, s) ==
    LET number(names) == [k \in DOMAIN names |-> s.index[names[k]]]
        goals == LET e == Entries(table)
                 IN [k \in DOMAIN e |-> [lhs |-> "%entry%", rhs |-> <<EntryToken[e[k].entry], e[k].name>>,
                                         prec |-> ""]]
        rules == src.rules \o goals
        last(rhs) == LET at == {k \in DOMAIN rhs : rhs[k] < s.ntokens}
                     IN IF at = {} THEN Undefined ELSE rhs[Max(at)]
        packed(r) == LET rhs == number(r.rhs)
                         by == IF r.prec # "" THEN s.index[r.prec] ELSE last(rhs)
                     IN [lhs |-> s.index[r.lhs], rhs |-> rhs,
                         prec |-> IF by \in DOMAIN s.prec THEN s.prec[by] ELSE 0,
                         assoc |-> IF by \in DOMAIN s.assoc THEN s.assoc[by] ELSE "token"]
        goal == [lhs |-> s.ntokens, rhs |-> <<s.ntokens + 1, 0>>, prec |-> 0, assoc |-> "token"]
    IN [r \in 2..2 + Len(rules) |-> IF r = 2 THEN goal ELSE packed(rules[r - 2])]

\* The constructors of the type of tokens, and the symbols they stand for.
output_token_type(table) ==
    LET true == SelectSeq(table, LAMBDA b : b.class = "term" /\ b.true_token)
    IN [k \in DOMAIN true |-> [name |-> true[k].name, tag |-> true[k].tag]]
output_transl(s, tag) ==
    LET true == SelectSeq([t \in 1..s.ntokens - 1 |-> t],
                          LAMBDA t : s.tokens[t].true_token /\ s.tokens[t].tag = tag)
    IN [k \in DOMAIN true |-> s.value[true[k]]]

reader(src) ==
    LET declared == read_declarations(src).table
        table == check_symbols(make_goal(read_grammar(declared, src.rules)))
        s == pack_symbols(table)
    IN [ntokens |-> s.ntokens, nsyms |-> s.nsyms, rule |-> pack_grammar(src, table, s),
        value |-> s.value, prec |-> s.prec, assoc |-> s.assoc, entries |-> Len(Entries(table)),
        type |-> output_token_type(declared),
        const |-> output_transl(s, FALSE), block |-> output_transl(s, TRUE)]
=============================================================================
