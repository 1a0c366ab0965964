------------------------------ MODULE Grammars ------------------------------
(* Grammar files for the parser generator.                                   *)

Rule(lhs, rhs) == [lhs |-> lhs, rhs |-> rhs, prec |-> ""]
Decl(kind, names) == [kind |-> kind, names |-> names, tag |-> FALSE]
Typed(names) == [kind |-> "token", names |-> names, tag |-> TRUE]
Type(names) == [kind |-> "type", names |-> names, tag |-> TRUE]
Grammar(decls, rules) == [decls |-> decls, rules |-> rules, raising |-> {}, nesting |-> {}]

AllSources == <<
    \* an empty rule, and an action that parses something else
    [Grammar(<<Decl("token", <<"A", "EOF">>), Decl("start", <<"main">>), Type(<<"main">>)>>,
             <<Rule("main", <<"list", "EOF">>), Rule("list", <<>>), Rule("list", <<"list", "A">>)>>)
       EXCEPT !.nesting = {3}],
    \* an action that parses something else, and recovery when that fails
    [Grammar(<<Decl("token", <<"A", "B", "EOF">>), Decl("start", <<"main">>)>>,
             <<Rule("main", <<"item", "EOF">>), Rule("item", <<"A">>), Rule("item", <<"error", "B">>)>>)
       EXCEPT !.nesting = {2}],
    \* LALR(1) but not SLR(1)
    Grammar(<<Typed(<<"ID">>), Decl("token", <<"EQ", "STAR", "EOF">>), Type(<<"main">>), Decl("start", <<"main">>)>>,
            <<Rule("main", <<"s", "EOF">>), Rule("s", <<"l", "EQ", "r">>), Rule("s", <<"r">>),
              Rule("l", <<"STAR", "r">>), Rule("l", <<"ID">>), Rule("r", <<"l">>)>>),
    \* symbols that can be empty, and two entry points, not in the order of their types
    Grammar(<<Decl("token", <<"B">>), Typed(<<"C">>), Decl("token", <<"D", "EOF">>), Type(<<"main", "other">>),
              Decl("start", <<"other", "main">>)>>,
            <<Rule("main", <<"x", "D", "EOF">>), Rule("x", <<"y", "z">>), Rule("y", <<>>), Rule("y", <<"B">>),
              Rule("z", <<>>), Rule("z", <<"C">>), Rule("other", <<"z", "y">>)>>),
    \* precedences, given before the tokens
    Grammar(<<Decl("left", <<"PLUS">>), Decl("right", <<"TIMES">>), Decl("nonassoc", <<"UMINUS">>),
              Decl("token", <<"N", "PLUS", "TIMES", "MINUS", "EOF">>), Decl("start", <<"main">>)>>,
            <<Rule("main", <<"e", "EOF">>), Rule("e", <<"N">>), Rule("e", <<"e", "PLUS", "e">>),
              Rule("e", <<"e", "TIMES", "e">>), [lhs |-> "e", rhs |-> <<"MINUS", "e">>, prec |-> "UMINUS"]>>),
    \* recovery, and actions that raise Parse_error
    [Grammar(<<Decl("token", <<"A", "SEMI", "LP", "RP", "EOF">>), Decl("start", <<"main">>)>>,
             <<Rule("main", <<"list", "EOF">>), Rule("list", <<"item">>), Rule("list", <<"list", "SEMI", "item">>),
               Rule("item", <<"A">>), Rule("item", <<"error">>), Rule("item", <<"LP", "list", "RP">>),
               Rule("item", <<"LP", "error", "RP">>)>>) EXCEPT !.raising = {4, 6}],
    \* a cycle of gotos, which get a lookahead by the last of them
    Grammar(<<Decl("token", <<"A", "B", "C", "D", "EOF">>), Decl("start", <<"main">>)>>,
            <<Rule("main", <<"x", "EOF">>), Rule("x", <<"A", "y">>), Rule("x", <<"A", "w", "D">>),
              Rule("x", <<"C">>), Rule("y", <<"B", "x">>), Rule("w", <<"B", "x">>)>>),
    \* a conflict that is reported: the else belongs to the last if
    Grammar(<<Decl("token", <<"IF", "ELSE", "X", "EOF">>), Decl("start", <<"main">>)>>,
            <<Rule("main", <<"s", "EOF">>), Rule("s", <<"IF", "s">>), Rule("s", <<"IF", "s", "ELSE", "s">>),
              Rule("s", <<"X">>)>>)>>
=============================================================================
