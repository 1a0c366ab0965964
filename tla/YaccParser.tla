----------------------------- MODULE YaccParser -----------------------------
(* The parser engine of the runtime and the driver Parsing.yyparse, running  *)
(* on the tables of a generated parser.  A semantic value is the tree of the *)
(* rule and the values of its symbols; that of a token its number.           *)
EXTENDS Yacc

CONSTANTS StackSize,     \* initial size of the stacks
          MaxRead        \* tokens that the lexer has before the end of the file

VARIABLES
    pc,          \* the label of parse_engine, or the request it returned
    env,         \* Parsing.env
    outer,       \* what the calls of yyparse below the running one have saved
    read,        \* of the running parser: the entry point, the tokens read so far
    recovered    \* whether it has gone through error recovery
engine == <<pc, env, outer, read, recovered>>
parservars == <<generator, engine>>

Src == Sources[source]
\* The names that the declarations of one kind give, in their order.
Named(src, kind) == FoldLeft(LAMBDA s, d : IF d.kind = kind THEN s \o d.names ELSE s, <<>>, src.decls)
Leaf(n) == <<n, <<>> >>
Unit == Leaf(0)

-----------------------------------------------------------------------------
grow_stacks(e) == [e EXCEPT !.s_stack = @ \o [i \in DOMAIN @ |-> 0],
                            !.v_stack = @ \o [i \in DOMAIN @ |-> Unit]]
Size(e) == Len(e.s_stack)
Slot(stack, i) == stack[i + 1]

\* A parser may be called by an action of another, that has computed value.
yyparse(k, value) ==
    /\ outer' = Append(outer, [asp |-> env.asp, sp |-> env.sp, stackbase |-> env.stackbase, state |-> env.state,
                               curr_char |-> env.curr_char, lval |-> env.lval, errflag |-> env.errflag,
                               value |-> value, read |-> read, recovered |-> recovered])
    /\ env' = [env EXCEPT !.stackbase = env.sp + 1, !.curr_char = k, !.state = 0, !.errflag = 0]
    /\ read' = [entry |-> k, tokens |-> <<>>] /\ recovered' = FALSE
    /\ pc' = "loop"

\* The entry of the packed table for x in the vector at base.
At(base, x) == base + x
Found(base, x) == /\ base # 0 /\ At(base, x) \in (0..tables.high) \intersect DOMAIN tables.table
                  /\ tables.table[At(base, x)].check = x
Entry(base, x) == tables.table[At(base, x)].to

push(e, state) == LET f == IF e.sp + 1 < Size(e) THEN e ELSE grow_stacks(e)
                  IN [f EXCEPT !.sp = @ + 1, !.state = state,
                               !.s_stack[e.sp + 2] = state, !.v_stack[e.sp + 2] = e.lval]
goto(state1, m) == IF Found(tables.gindex[m], state1) THEN Entry(tables.gindex[m], state1)
                   ELSE tables.dgoto[m]
\* The stack pointer is set to where the result goes; the values are still above it.
reduce(e, n) == LET sp == e.sp - tables.len[n] + 1
                    f == IF sp < Size(e) THEN e ELSE grow_stacks(e)
                IN [f EXCEPT !.asp = e.sp, !.rule = n, !.sp = sp,
                             !.state = goto(Slot(e.s_stack, sp - 1), tables.lhs[n])]

loop ==
    /\ pc = "loop"
    /\ LET n == tables.defred[env.state]
       IN /\ env' = IF n # 0 THEN reduce(env, n) ELSE env
          /\ pc' = IF n # 0 THEN "action" ELSE IF env.curr_char >= 0 THEN "testshift" ELSE "read"
    /\ UNCHANGED <<outer, read, recovered>>

\* The token is the n-th of the constructors with an argument, or of the others.
lexer ==
    /\ pc = "read"
    /\ \E t \in DOMAIN tables.type :
         LET c == tables.type[t]
             n == Cardinality({u \in 1..t : tables.type[u].tag = c.tag})
         IN /\ Len(read.tokens) >= MaxRead - 2 * (Len(outer) - 1) => c.name = "EOF"
            /\ env' = [env EXCEPT !.curr_char = IF c.tag THEN tables.transl_block[n] ELSE tables.transl_const[n],
                                  !.lval = Leaf(Pos(Named(Src, "token"), c.name))]
            /\ read' = [read EXCEPT !.tokens = Append(@, Pos(Named(Src, "token"), c.name))]
    /\ pc' = "testshift"
    /\ UNCHANGED <<outer, recovered>>

testshift ==
    /\ pc = "testshift"
    /\ LET c == env.curr_char
           s == tables.sindex[env.state]
           r == tables.rindex[env.state]
           shifted == [env EXCEPT !.curr_char = -1, !.errflag = IF @ > 0 THEN @ - 1 ELSE @]
       IN \/ Found(s, c) /\ env' = push(shifted, Entry(s, c)) /\ pc' = "loop"
          \/ ~Found(s, c) /\ Found(r, c) /\ env' = reduce(env, Entry(r, c)) /\ pc' = "action"
          \/ ~Found(s, c) /\ ~Found(r, c) /\ env' = env
             /\ pc' = IF env.errflag > 0 THEN "recover" ELSE "error"
    /\ UNCHANGED <<outer, read, recovered>>

error_function ==
    /\ pc = "error" /\ pc' = "recover" /\ recovered' = TRUE
    /\ UNCHANGED <<env, outer, read>>

\* States are discarded until one shifts the token error.
Recovers(i) == Found(tables.sindex[Slot(env.s_stack, i)], 256)
recover ==
    /\ pc = "recover"
    /\ \/ /\ env.errflag < 3
          /\ LET at == {i \in env.stackbase..env.sp : Recovers(i)}
             IN IF at = {} THEN env' = env /\ pc' = "raise"
                ELSE /\ env' = push([env EXCEPT !.errflag = 3, !.sp = Max(at)],
                                    Entry(tables.sindex[Slot(env.s_stack, Max(at))], 256))
                     /\ pc' = "loop"
       \/ /\ env.errflag >= 3
          /\ IF env.curr_char = 0 THEN env' = env /\ pc' = "raise"
             ELSE env' = [env EXCEPT !.curr_char = -1] /\ pc' = "loop"
    /\ UNCHANGED <<outer, read, recovered>>

-----------------------------------------------------------------------------
\* The action has read the values of the symbols when its own code starts.
peek_val(n) == Slot(env.v_stack, env.asp - n)
Value == <<-env.rule, [i \in 1..tables.len[env.rule] |-> peek_val(tables.len[env.rule] - i)]>>
Computed(e, v) == [e EXCEPT !.s_stack[e.sp + 1] = e.state, !.v_stack[e.sp + 1] = v]

semantic_action ==
    /\ pc = "action" /\ env.rule < tables.entry
    /\ \/ env' = Computed(env, Value) /\ pc' = "loop" /\ UNCHANGED <<outer, read, recovered>>
       \/ /\ env.rule \in Src.raising /\ pc' = "recover" /\ recovered' = TRUE
          /\ UNCHANGED <<env, outer, read>>
       \/ /\ env.rule \in Src.nesting /\ Len(outer) = 1
          /\ \E k \in DOMAIN Named(Src, "start") : yyparse(k, Value)

\* The action of an entry point raises YYexit.
YYexit == pc = "action" /\ env.rule >= tables.entry /\ pc' = "exit" /\ UNCHANGED <<env, outer, read, recovered>>

\* Back to the caller: yyparse restores what it has saved of the environment.
Return ==
    /\ pc \in {"exit", "raise"}
    /\ LET saved == Last(outer)
           restored == [f \in DOMAIN env |-> IF f \in DOMAIN saved THEN saved[f] ELSE env[f]]
       IN /\ outer' = Front(outer) /\ read' = saved.read
          /\ \/ Len(outer) = 1 /\ env' = restored /\ pc' = "done" /\ UNCHANGED recovered
             \/ /\ Len(outer) > 1 /\ pc = "exit"
                /\ env' = Computed(restored, saved.value) /\ pc' = "loop" /\ recovered' = saved.recovered
             \/ /\ Len(outer) > 1 /\ pc = "raise"
                /\ env' = restored /\ pc' = "recover" /\ recovered' = TRUE

Environment ==
    [s_stack |-> [i \in 1..StackSize |-> 0], v_stack |-> [i \in 1..StackSize |-> Unit], stackbase |-> 0,
     curr_char |-> 0, lval |-> Unit, asp |-> 0, rule |-> 0, sp |-> 0, state |-> 0, errflag |-> 0]
NoRead == [entry |-> 0, tokens |-> <<>>]
Parse ==
    \/ /\ stage = "parse" /\ pc = "idle"
       /\ \E k \in DOMAIN Named(Src, "start") : yyparse(k, Unit)
    \/ loop \/ lexer \/ testshift \/ error_function \/ recover \/ semantic_action \/ YYexit \/ Return
\* The program ends; another may be run.
Exit == /\ pc = "done" /\ pc' = "idle" /\ env' = Environment
        /\ read' = NoRead /\ recovered' = FALSE /\ UNCHANGED outer

Init == /\ GeneratorInit
        /\ pc = "idle" /\ env = Environment /\ outer = <<>> /\ read = NoRead /\ recovered = FALSE
Next == \/ Generate /\ UNCHANGED engine
        \/ (Parse \/ Exit) /\ UNCHANGED generator
Spec == Init /\ [][Next]_parservars

-----------------------------------------------------------------------------
\* The language of a grammar file, by its rules alone.  A sentence is a sequence
\* of tokens; of longer ones the first MaxRead + 1 are kept.
Cut(w) == SubSeq(w, 1, IF Len(w) < MaxRead + 1 THEN Len(w) ELSE MaxRead + 1)
Concat(A, B) == {Cut(a \o b) : a \in A, b \in B}
Token(src, n) == LET names == Named(src, "token") IN IF n \in Range(names) THEN {<<Pos(names, n)>>} ELSE {}
Words(src, L, rhs) ==
    FoldLeft(LAMBDA A, n : Concat(A, IF n \in DOMAIN L THEN L[n] ELSE Token(src, n)), {<<>>}, rhs)
RECURSIVE SentencesFrom(_, _)
SentencesFrom(src, L) ==
    LET more == [x \in DOMAIN L |-> L[x] \union UNION {Words(src, L, src.rules[r].rhs) :
                                       r \in {q \in DOMAIN src.rules : src.rules[q].lhs = x}}]
    IN IF more = L THEN L ELSE SentencesFrom(src, more)
Sentences == [i \in DOMAIN Sources |->
                LET src == Sources[i]
                    L == SentencesFrom(src, [x \in {src.rules[r].lhs : r \in DOMAIN src.rules} |-> {}])
                IN [k \in DOMAIN Named(src, "start") |-> Words(src, L, <<Named(src, "start")[k], "EOF">>)]]
Viable(w) == \E s \in Sentences[source][read.entry] : IsPrefix(w, s)

TokenNames == Named(Src, "token")
RECURSIVE IsTree(_, _), Yield(_), Trees(_, _), Forests(_, _), Moves(_)
\* A symbol error stands for whatever was discarded.
IsTree(t, x) ==
    \/ x = "error"
    \/ t[1] > 0 /\ TokenNames[t[1]] = x
    \/ /\ t[1] < 0 /\ Src.rules[-t[1]].lhs = x
       /\ LET rhs == Src.rules[-t[1]].rhs
          IN Len(t[2]) = Len(rhs) /\ \A i \in DOMAIN rhs : IsTree(t[2][i], rhs[i])
Yield(t) == IF t[1] > 0 THEN <<t[1]>> ELSE FoldLeft(LAMBDA w, u : w \o Yield(u), <<>>, t[2])
Trees(x, w) == UNION {{<<-r, f>> : f \in Forests(Src.rules[r].rhs, w)} :
                        r \in {q \in DOMAIN Src.rules : Src.rules[q].lhs = x}}
Forests(rhs, w) ==
    IF rhs = <<>> THEN IF w = <<>> THEN {<<>>} ELSE {}
    ELSE IF rhs[1] \in Range(TokenNames)
    THEN IF w # <<>> /\ TokenNames[w[1]] = rhs[1]
         THEN {<<Leaf(w[1])>> \o f : f \in Forests(Tail(rhs), Tail(w))} ELSE {}
    ELSE LET rest == [i \in 0..Len(w) |-> Forests(Tail(rhs), SubSeq(w, i + 1, Len(w)))]
         IN UNION {{<<t>> \o f : t \in Trees(rhs[1], SubSeq(w, 1, i)), f \in rest[i]} :
                     i \in {j \in DOMAIN rest : rest[j] # {}}}

\* The moves of a parser that builds a tree from left to right: the tokens it
\* shifts, and the rules it reduces by, as negative numbers.
Moves(t) == IF t[1] > 0 THEN <<t[1]>> ELSE FoldLeft(LAMBDA w, u : w \o Moves(u), <<>>, t[2]) \o <<t[1]>>
LevelOf(n) == LET at == {i \in DOMAIN Src.decls : /\ Src.decls[i].kind \in {"left", "right", "nonassoc"}
                                                   /\ n \in Range(Src.decls[i].names)}
              IN IF at = {} THEN 0 ELSE CHOOSE i \in at : TRUE
RuleLevel(r) == LET tokens == SelectSeq(Src.rules[r].rhs, LAMBDA n : n \in Range(TokenNames))
                IN IF Src.rules[r].prec # "" THEN LevelOf(Src.rules[r].prec)
                   ELSE IF tokens = <<>> THEN 0 ELSE LevelOf(Last(tokens))
ReduceFirst(r, t) == LET p == RuleLevel(r)
                         q == LevelOf(TokenNames[t])
                     IN p > 0 /\ q > 0 /\ (p > q \/ (p = q /\ Src.decls[p].kind = "left"))
Preferred(a, b) == CASE a < 0 /\ b < 0 -> a > b
                     [] a < 0 /\ b > 0 -> ReduceFirst(-a, b)
                     [] a > 0 /\ b < 0 -> ~ReduceFirst(-b, a)
                     [] OTHER -> TRUE
BestTree(t, others) ==
    \A u \in others \ {t} :
      LET a == Moves(t)
          b == Moves(u)
          i == Min({j \in DOMAIN a \intersect DOMAIN b : a[j] # b[j]})
      IN Preferred(a[i], b[i])

\* The symbols that x may begin with, by the rules alone.
Corners(x) == FoldLeft(LAMBDA c, r : c \union {Src.rules[i].rhs[1] : i \in {j \in DOMAIN Src.rules :
                                                  Src.rules[j].lhs \in c /\ Src.rules[j].rhs # <<>>}},
                       {x}, Src.rules)

\* What the generated parser does with the tokens that it reads is what the
\* grammar says: its result is a tree of the entry point; if no error was met, a
\* tree of the tokens read, and of these the one that the precedences choose; and
\* it reports an error at the first token that no sentence goes on with, neither
\* before nor after it.  If the entry point may begin with the token error, it
\* gives up at the end of its own input only, also when the error was that of a
\* parser that one of its actions has called.
ParsesTheLanguage ==
    /\ pc = "exit" =>
         LET t == peek_val(0)
             x == Named(Src, "start")[read.entry]
         IN /\ IsTree(t, x)
            /\ ~recovered => /\ IsPrefix(Yield(t), read.tokens) /\ Len(read.tokens) - Len(Yield(t)) \in 0..1
                             /\ BestTree(t, Trees(x, Yield(t)))
    /\ pc = "error" /\ ~recovered /\ ~tables.conflicts => ~Viable(read.tokens) /\ Viable(Front(read.tokens))
    /\ pc = "raise" /\ "error" \in Corners(Named(Src, "start")[read.entry]) =>
         read.tokens # <<>> /\ TokenNames[Last(read.tokens)] = "EOF"
=============================================================================
