-------------------------------- MODULE Yacc --------------------------------
(* The parser generator ocamlyacc: from the rules of a grammar to the LR(0)  *)
(* automaton, the LALR(1) lookaheads, the resolved actions and the packed    *)
(* tables.  Symbols are numbers: the tokens, 0 being $end and 1 error, then  *)
(* $accept, the goal %entry% and the other variables.                        *)
EXTENDS YaccReader

\* Grammar files: declarations and rules, and the rules whose actions may raise
\* Parse_error or call a parser.
CONSTANT Sources

VARIABLES
    source,           \* number of the grammar file
    stage,            \* "lr0", "mkpar", "pack", then the parser runs: "parse"
    g,                \* the packed grammar
    states,           \* the LR(0) states found so far: [sym, items]
    shift_table,      \* of the states done: successors in the order of their symbols
    reduction_table,  \* and the rules that can be reduced
    LA,               \* lookaheads of each state and rule
    parser,           \* actions of each state
    pack,             \* the vectors, their order, and the table under construction
    tables            \* what is written to the output file
generator == <<source, stage, g, states, shift_table, reduction_table, LA, parser, pack, tables>>

InOrder(S, before(_, _)) ==
    [i \in 1..Cardinality(S) |-> CHOOSE x \in S : Cardinality({y \in S : before(y, x)}) = i - 1]

Rules == DOMAIN g.rule
Tokens == 0..g.ntokens - 1
start_symbol == g.ntokens
Vars == start_symbol..g.nsyms - 1
IsVar(x) == x >= start_symbol
Rhs(r) == g.rule[r].rhs
derives(x) == {r \in Rules : g.rule[r].lhs = x}

-----------------------------------------------------------------------------
\* An item is a rule and the number of symbols of it that were seen.
NextSymbol(i) == IF i[2] < Len(Rhs(i[1])) THEN Rhs(i[1])[i[2] + 1] ELSE -i[1]

\* Warshall's algorithm, one row after the other.
transitive_closure(R) ==
    FoldLeft(LAMBDA m, i : [j \in DOMAIN m |-> IF i \in m[j] THEN m[j] \union m[i] ELSE m[j]],
             R, InOrder(DOMAIN R, <))
EFF == LET first == [x \in Vars |-> {Rhs(r)[1] : r \in {q \in derives(x) : Rhs(q) # <<>>}} \intersect Vars]
           tc == transitive_closure(first)
       IN [x \in Vars |-> tc[x] \union {x}]
closure(nucleus) ==
    LET eff == EFF
        vars == {NextSymbol(i) : i \in nucleus} \intersect Vars
    IN nucleus \union {<<r, 0>> : r \in UNION {derives(y) : y \in UNION {eff[x] : x \in vars}}}

RECURSIVE nullable_from(_)
nullable_from(N) ==
    LET more == N \union {x \in Vars : \E r \in derives(x) : Range(Rhs(r)) \subseteq N}
    IN IF more = N THEN N ELSE nullable_from(more)
nullable == nullable_from({})

initialize_states == <<[sym |-> 0, items |-> {<<r, 0>> : r \in derives(start_symbol)}]>>

save_reductions(items) ==
    Append(reduction_table, InOrder({i[1] : i \in {j \in items : NextSymbol(j) < 0}}, <))
save_shifts(shiftset) == Append(shift_table, shiftset)

\* One state: its reductions, and its successors in the order of the symbols,
\* which are new states unless the kernel is known.  $end is never shifted.
generate_states ==
    /\ stage = "lr0" /\ Len(shift_table) < Len(states)
    /\ LET items == closure(states[Len(shift_table) + 1].items)
           symbols == InOrder({NextSymbol(i) : i \in items} \intersect 1..g.nsyms, <)
           kernel(x) == {<<i[1], i[2] + 1>> : i \in {j \in items : NextSymbol(j) = x}}
           known == {states[s].items : s \in DOMAIN states}
           new == SelectSeq(symbols, LAMBDA x : kernel(x) \notin known)
           all == states \o [k \in DOMAIN new |-> [sym |-> new[k], items |-> kernel(new[k])]]
           get_state(x) == (CHOOSE s \in DOMAIN all : all[s].items = kernel(x)) - 1
       IN /\ states' = all
          /\ shift_table' = save_shifts([k \in DOMAIN symbols |-> get_state(symbols[k])])
          /\ reduction_table' = save_reductions(items)
    /\ UNCHANGED <<source, stage, g, LA, parser, pack, tables>>

-----------------------------------------------------------------------------
\* Lookaheads after DeRemer and Pennello.  States are numbered from 0.
nstates == Len(states)
accessing_symbol(s) == states[s + 1].sym
Shifts(s) == shift_table[s + 1]
Goto(s, x) == Shifts(s)[CHOOSE k \in DOMAIN Shifts(s) : accessing_symbol(Shifts(s)[k]) = x]
goto_map ==
    LET all == UNION {{<<accessing_symbol(t), s, t>> : t \in Range(Shifts(s))} : s \in 0..nstates - 1}
    IN InOrder({q \in all : IsVar(q[1])}, LAMBDA a, b : a[1] < b[1] \/ (a[1] = b[1] /\ a[2] < b[2]))
map_goto(gotos, s, x) == CHOOSE i \in DOMAIN gotos : gotos[i][1] = x /\ gotos[i][2] = s

RECURSIVE traverse_split(_, _, _)
traverse_split(i, R, st) ==
    LET height == Len(st.vertices) + 1
        enter == [st EXCEPT !.vertices = Append(@, i), !.index[i] = height]
        edge(s, j) == LET t == IF s.index[j] = 0 THEN traverse_split(j, R, s) ELSE s
                      IN [t EXCEPT !.index[i] = IF @ > t.index[j] THEN t.index[j] ELSE @,
                                   !.F[i] = @ \union t.F[j]]
    IN FoldLeft(edge, enter, R[i])

\* The sets of a relation's strongly connected components are made equal.
RECURSIVE traverse(_, _, _)
traverse(i, R, st) ==
    LET height == Len(st.vertices) + 1
        enter == [st EXCEPT !.vertices = Append(@, i), !.index[i] = height]
        edge(s, j) == LET t == IF s.index[j] = 0 THEN traverse(j, R, s) ELSE s
                      IN [t EXCEPT !.index[i] = IF @ > t.index[j] THEN t.index[j] ELSE @,
                                   !.F[i] = @ \union t.F[j]]
        done == FoldLeft(edge, enter, R[i])
        component == Range(SubSeq(done.vertices, height, Len(done.vertices)))
    IN IF done.index[i] # height THEN done
       ELSE [vertices |-> SubSeq(done.vertices, 1, height - 1),
             index |-> [j \in DOMAIN done.index |->
                          IF j \in component THEN Len(done.index) + 2 ELSE done.index[j]],
             F |-> [j \in DOMAIN done.F |-> IF j \in component THEN done.F[i] ELSE done.F[j]]]
digraph(F, R) ==
    FoldLeft(LAMBDA st, i : IF st.index[i] = 0 /\ R[i] # <<>> THEN traverse(i, R, st) ELSE st,
             [vertices |-> <<>>, index |-> [i \in DOMAIN F |-> 0], F |-> F],
             [i \in DOMAIN F |-> i]).F

initialize_F(gotos, null) ==
    LET after(i) == Range(Shifts(gotos[i][3]))
        reads == [i \in DOMAIN gotos |->
                    InOrder({map_goto(gotos, gotos[i][3], accessing_symbol(t)) :
                               t \in {u \in after(i) : accessing_symbol(u) \in null}}, <)]
        F == [i \in DOMAIN gotos |->
                ({accessing_symbol(t) : t \in after(i)} \intersect Tokens)
                \union (IF i = 1 THEN {0} ELSE {})]
    IN digraph(F, reads)

\* The states passed when the symbols of rule r are read from state s.
Path(s, r) == LET p[k \in 0..Len(Rhs(r))] == IF k = 0 THEN s ELSE Goto(p[k - 1], Rhs(r)[k]) IN p
TrailingOf(r, null) == {k \in DOMAIN Rhs(r) : IsVar(Rhs(r)[k])
                          /\ \A j \in k + 1..Len(Rhs(r)) : Rhs(r)[j] \in null}
Includes(gotos, null) ==
    [i \in DOMAIN gotos |-> UNION {{map_goto(gotos, Path(gotos[i][2], r)[k - 1], Rhs(r)[k]) :
                                      k \in TrailingOf(r, null)} : r \in derives(gotos[i][1])}]
transpose(R) == [j \in DOMAIN R |-> InOrder({i \in DOMAIN R : j \in R[i]}, <)]
lookback(gotos, s, r) ==
    {i \in DOMAIN gotos : gotos[i][1] = g.rule[r].lhs
                          /\ LET p == Path(gotos[i][2], r) IN p[Len(Rhs(r))] = s}
LAruleno(s) == Range(reduction_table[s + 1])
lalr ==
    /\ stage = "lr0" /\ Len(shift_table) = Len(states)
    /\ LET gotos == goto_map
           null == nullable
           follows == digraph(initialize_F(gotos, null), transpose(Includes(gotos, null)))
       IN LA' = [s \in 0..nstates - 1 |->
                   [r \in LAruleno(s) |-> UNION {follows[i] : i \in lookback(gotos, s, r)}]]
    /\ stage' = "mkpar"
    /\ UNCHANGED <<source, g, states, shift_table, reduction_table, parser, pack, tables>>

-----------------------------------------------------------------------------
\* The actions of a state in the order of symbols, shifts before reductions.
parse_actions(s) ==
    LET shifts == {[sym |-> accessing_symbol(t), code |-> "shift", number |-> t,
                    prec |-> g.prec[accessing_symbol(t)], assoc |-> g.assoc[accessing_symbol(t)]] :
                     t \in {u \in Range(Shifts(s)) : ~IsVar(accessing_symbol(u))}}
        reduces == UNION {{[sym |-> t, code |-> "reduce", number |-> r, prec |-> g.rule[r].prec,
                            assoc |-> g.rule[r].assoc] : t \in LA[s][r]} : r \in DOMAIN LA[s]}
        before(a, b) == \/ a.sym < b.sym
                        \/ a.sym = b.sym /\ a.code = "shift" /\ b.code = "reduce"
                        \/ a.sym = b.sym /\ a.code = b.code /\ a.number < b.number
    IN InOrder(shifts \union reduces, before)

find_final_state == Goto(0, start_symbol + 1)

\* Of the actions of one symbol, which are suppressed: the preferred one is
\* compared with each of the others.
Resolve(s, row) ==
    LET step(acc, p) ==
          LET pref == acc.row[acc.pref]
              add(sp, a) == [acc EXCEPT !.row = Append(sp, [act |-> p, supp |-> a])]
              keep(a) == add(acc.row, a)
              prefer == [acc EXCEPT !.row = Append([@ EXCEPT ![acc.pref].supp = 2], [act |-> p, supp |-> 0]),
                                    !.pref = Len(acc.row) + 1]
              conflict(kind) == [keep(1) EXCEPT ![kind] = @ + 1]
          IN IF acc.pref = 0 \/ pref.act.sym # p.sym
             THEN [keep(0) EXCEPT !.pref = Len(acc.row) + 1]
             ELSE IF s = find_final_state /\ p.sym = 0 THEN conflict("sr")
             ELSE IF pref.act.code # "shift" THEN conflict("rr")
             ELSE IF pref.act.prec = 0 \/ p.prec = 0 THEN conflict("sr")
             ELSE IF pref.act.prec < p.prec THEN prefer
             ELSE IF pref.act.prec > p.prec THEN keep(2)
             ELSE IF pref.act.assoc = "left" THEN prefer
             ELSE IF pref.act.assoc = "right" THEN keep(2)
             ELSE add([acc.row EXCEPT ![acc.pref].supp = 2], 2)
    IN FoldLeft(step, [row |-> <<>>, pref |-> 0, sr |-> 0, rr |-> 0], row)

Active(row) == {row[k].act : k \in {j \in DOMAIN row : row[j].supp = 0}}
\* The only rule that the state reduces by, if it does nothing else.
sole_reduction(row) ==
    LET rules == {a.number : a \in {b \in Active(row) : b.code = "reduce"}}
    IN IF (\E a \in Active(row) : a.code = "shift") \/ Cardinality(rules) # 1
          \/ \A a \in Active(row) : a.sym = 1
       THEN 0 ELSE CHOOSE r \in rules : TRUE

make_parser ==
    /\ stage = "mkpar"
    /\ LET resolved == [s \in 0..nstates - 1 |-> Resolve(s, parse_actions(s))]
           remove_conflicts(k) == {s \in 0..nstates - 1 : resolved[s][k] > 0}
       IN parser' = [row |-> [s \in 0..nstates - 1 |-> resolved[s].row],
                     defred |-> [s \in 0..nstates - 1 |-> sole_reduction(resolved[s].row)],
                     conflicts |-> remove_conflicts("sr") \union remove_conflicts("rr")]
    /\ stage' = "pack"
    /\ UNCHANGED <<source, g, states, shift_table, reduction_table, LA, pack, tables>>

-----------------------------------------------------------------------------
\* The vectors to be packed: pairs of what is looked up and the answer.  Those
\* of the shifts of the states come first, then those of the reductions that
\* are not done by default, then the gotos of each variable.
token_actions(s, code) ==
    LET row == SelectSeq(parser.row[s], LAMBDA x : /\ x.supp = 0 /\ x.act.code = code
                                                   /\ code = "shift" \/ x.act.number # parser.defred[s])
    IN [k \in DOMAIN row |-> <<g.value[row[k].act.sym],
                              row[k].act.number - (IF code = "shift" THEN 0 ELSE 2)>>]
GotosOn(x) == SelectSeq(goto_map, LAMBDA q : q[1] = x)
\* The first of the states that most gotos lead to.
default_goto(x) ==
    LET q == GotosOn(x)
        count(s) == Cardinality({i \in DOMAIN q : q[i][3] = s})
    IN CHOOSE s \in 0..nstates - 1 : \A t \in 0..nstates - 1 :
         count(t) < count(s) \/ (count(t) = count(s) /\ s <= t)
save_column(x) == LET q == SelectSeq(GotosOn(x), LAMBDA e : e[3] # default_goto(x))
                  IN [k \in DOMAIN q |-> <<q[k][2], q[k][3]>>]
nvectors == 2 * nstates + g.nsyms - g.ntokens
Vector(i) == IF i < nstates THEN token_actions(i, "shift")
             ELSE IF i < 2 * nstates THEN token_actions(i - nstates, "reduce")
             ELSE IF i < nvectors - 1 THEN save_column(start_symbol + 1 + i - 2 * nstates) ELSE <<>>
Width(v) == LET from == {v[k][1] : k \in DOMAIN v} IN Max(from) - Min(from) + 1
sort_actions(vectors) ==
    InOrder({i \in DOMAIN vectors : vectors[i] # <<>>},
            LAMBDA i, j : LET v == vectors[i]
                              w == vectors[j]
                          IN \/ Width(v) > Width(w)
                             \/ Width(v) = Width(w) /\ Len(v) > Len(w)
                             \/ Width(v) = Width(w) /\ Len(v) = Len(w) /\ i < j)
output_actions ==
    /\ stage = "pack" /\ pack = <<>>
    /\ LET vectors == [i \in 0..nvectors - 1 |-> Vector(i)]
       IN pack' = [vectors |-> vectors, order |-> sort_actions(vectors), pos |-> <<>>,
                   base |-> [i \in 0..nvectors - 1 |-> 0], table |-> <<>>]
    /\ UNCHANGED <<source, stage, g, states, shift_table, reduction_table, LA, parser, tables>>

\* An earlier vector with the same contents, if the one at hand is of a state.
matching_vector(i) ==
    LET done == {pack.order[k] : k \in DOMAIN pack.pos}
    IN IF i < 2 * nstates THEN {j \in done : pack.vectors[j] = pack.vectors[i]} ELSE {}

\* The first place where the vector hits only free entries of the table; it is
\* not 0, which stands for no vector, and no other vector has it.
Fits_anywhere(from, j) == \A x \in from : j + x \notin DOMAIN pack.table
Fits(from, j) == /\ j # 0 /\ j \notin Range(pack.pos)
                 /\ \A x \in from : j + x \notin DOMAIN pack.table
pack_vector(i) ==
    LET from == {pack.vectors[i][k][1] : k \in DOMAIN pack.vectors[i]}
        used == DOMAIN pack.table
        lowzero == Min((0..Cardinality(used)) \ used)
        first == lowzero - Min(from)
        limit == Max(used \union {0}) + Len(pack.pos) + 2
    IN Min({j \in first..first + limit : Fits(from, j)})

pack_table ==
    /\ stage = "pack" /\ pack # <<>> /\ Len(pack.pos) < Len(pack.order)
    /\ LET i == pack.order[Len(pack.pos) + 1]
           v == pack.vectors[i]
           old == matching_vector(i)
           place == IF old # {} THEN pack.base[CHOOSE j \in old : TRUE] ELSE pack_vector(i)
           at(l) == {k \in DOMAIN v : place + v[k][1] = l}
           new == [l \in {place + v[k][1] : k \in DOMAIN v} |->
                     [check |-> l - place, to |-> v[Max(at(l))][2]]]
       IN pack' = [pack EXCEPT !.pos = Append(@, place), !.base[i] = place,
                               !.table = IF old # {} THEN @ ELSE new @@ @]
    /\ UNCHANGED <<source, stage, g, states, shift_table, reduction_table, LA, parser, tables>>

output_rule_data ==
    [lhs |-> [r \in 1..Cardinality(Rules) - 1 |-> g.rule[r + 2].lhs - start_symbol - 1],
     len |-> [r \in 1..Cardinality(Rules) - 1 |-> Len(Rhs(r + 2))],
     defred |-> [s \in 0..nstates - 1 |-> IF parser.defred[s] = 0 THEN 0 ELSE parser.defred[s] - 2]]
output ==
    /\ stage = "pack" /\ pack # <<>> /\ Len(pack.pos) = Len(pack.order)
    /\ LET n == nstates
           vars == 0..g.nsyms - g.ntokens - 2
       IN tables' = [dgoto |-> [x \in vars |-> default_goto(start_symbol + 1 + x)],
                     sindex |-> [s \in 0..n - 1 |-> pack.base[s]],
                     rindex |-> [s \in 0..n - 1 |-> pack.base[n + s]],
                     gindex |-> [x \in vars |-> pack.base[2 * n + x]],
                     table |-> pack.table, high |-> Max(DOMAIN pack.table),
                     type |-> g.type, transl_const |-> g.const, transl_block |-> g.block,
                     conflicts |-> parser.conflicts # {},     \* not in the file, but reported
                     entry |-> Cardinality(Rules) - g.entries] @@ output_rule_data
    /\ stage' = "parse" /\ pack' = <<>> /\ parser' = <<>> /\ LA' = <<>>
    /\ g' = <<>> /\ states' = <<>> /\ shift_table' = <<>> /\ reduction_table' = <<>>
    /\ UNCHANGED source

GeneratorInit ==
    /\ source \in DOMAIN Sources /\ stage = "lr0"
    /\ g = reader(Sources[source])
    /\ states = initialize_states
    /\ shift_table = <<>> /\ reduction_table = <<>>
    /\ LA = <<>> /\ parser = <<>> /\ pack = <<>> /\ tables = <<>>
Generate == generate_states \/ lalr \/ make_parser \/ output_actions \/ pack_table \/ output

-----------------------------------------------------------------------------
RECURSIVE FirstsFrom(_, _)
FirstsFrom(F, null) ==
    LET of(x) == IF IsVar(x) THEN F[x] ELSE {x}
        more == [x \in Vars |-> F[x] \union UNION {UNION {of(Rhs(r)[k]) :
                   k \in {j \in DOMAIN Rhs(r) : \A i \in 1..j - 1 : Rhs(r)[i] \in null}} : r \in derives(x)}]
    IN IF more = F THEN F ELSE FirstsFrom(more, null)

RECURSIVE LookaheadsFrom(_, _, _)
LookaheadsFrom(L, F, null) ==
    LET after(i) == SubSeq(Rhs(i[1]), i[2] + 2, Len(Rhs(i[1])))
        firsts(w, t) == UNION {IF IsVar(w[k]) THEN F[w[k]] ELSE {w[k]} :
                                 k \in {j \in DOMAIN w : \A h \in 1..j - 1 : w[h] \in null}}
                        \union (IF Range(w) \subseteq null THEN {t} ELSE {})
        open == {e \in L : NextSymbol(e[2]) > 0}
        more == L \union {<<Goto(e[1], NextSymbol(e[2])), <<e[2][1], e[2][2] + 1>>, e[3]>> : e \in open}
                  \union UNION {{<<e[1], <<r, 0>>, t>> : r \in derives(NextSymbol(e[2])),
                                                      t \in firsts(after(e[2]), e[3])} :
                                  e \in {f \in open : IsVar(NextSymbol(f[2]))}}
    IN IF more = L THEN L ELSE LookaheadsFrom(more, F, null)

\* The lookaheads that lalr computes with the relations between gotos are those
\* of the LR(1) items that reach the state: the least sets closed under the
\* derivations and the gotos of items.
LookaheadsAreLALR ==
    stage = "mkpar" =>
      LET null == nullable
          L == LookaheadsFrom({<<0, <<2, 0>>, 0>>}, FirstsFrom([x \in Vars |-> {}], null), null)
      IN \A s \in DOMAIN LA : \A r \in DOMAIN LA[s] :
           LA[s][r] = {e[3] : e \in {f \in L : f[1] = s /\ f[2] = <<r, Len(Rhs(r))>>}}
=============================================================================
