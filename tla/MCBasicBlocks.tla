---------------------------- MODULE MCBasicBlocks ----------------------------
(* All closures of four instructions over three small instruction sets.      *)
EXTENDS BasicBlocks

Op(op, n) == Ins(op, n, 0, <<>>)
Jumps(op, labels) == {Ins(op, 0, 0, <<l>>) : l \in labels}
Quads(first, body, last) == {<<a, b, c, d>> : a \in first, b \in body, c \in body, d \in last}

\* Branches, loops and stack effects.
FlowBody == {Op("push", 0), Op("pop", 1), Op("return", 1)}
              \union Jumps("branch", {1, 3, 4}) \union Jumps("branchif", 1..4) \union Jumps("branchcmp", {4})
FlowPrograms == Quads(FlowBody, FlowBody, {Op("return", 1)} \union Jumps("branch", 2..3))

\* Handlers and switches.
TrapBody == {Op("push", 0), Op("poptrap", 0), Op("return", 1)}
              \union Jumps("pushtrap", 2..4) \union Jumps("branchifnot", 2..4)
              \union {Ins("switch", 0, 0, <<j, k>>) : j \in {1, 4}, k \in 2..3}
TrapPrograms == Quads(TrapBody \union {Op("grab", 3)}, TrapBody,
                      {Op("raise", 0), Op("return", 1), Op("stop", 0)})

\* Every kind of instruction, on straight code.
DataBody == {Op(op, 1) : op \in {"acc", "assign"}}
              \union {Op(op, 2) : op \in {"pop", "apply", "makeblock", "ccall"}}
              \union {Op(op, 0) : op \in {"const", "push", "retaddr", "setuppubmet", "getdynmet", "binary",
                                          "ternary", "makeblock", "getmethod", "setglobal"}}
              \union {Op("closure", n) : n \in {0, 2}} \union {Op("applyn", 1), Op("ccalln", 2)}
              \union {Ins("closurerec", n, m, <<>>) : n \in {0, 2}, m \in 1..2}
DataPrograms == Quads({Op("grab", 1), Op("grab", 2), Op("push", 0)}, DataBody,
                      {Op("return", n) : n \in {1, 3, 5}}
                        \union {Ins("appterm", n, m, <<>>) : n \in {1, 3}, m \in {2, 3}})

AllPrograms == FlowPrograms \union TrapPrograms \union DataPrograms
=============================================================================
