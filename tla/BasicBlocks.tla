----------------------------- MODULE BasicBlocks -----------------------------
(***************************************************************************)
(* The front half of the optimising compiler: a closure's bytecode is cut  *)
(* into basic blocks by two depth-first searches (conversion.rs), and the  *)
(* blocks are handed to Cranelift one by one in reverse post-order, each   *)
(* block being sealed after the last of its predecessors                   *)
(* (cranelift_compiler: create_translator, translate_block).               *)
(*                                                                         *)
(* The searches are recursive functions in the code; here their activation *)
(* records are the sequence frames.  An instruction is a record: its kind, *)
(* two numbers and the labels it jumps to.  Each takes one position, and   *)
(* instructions the searches and the translator do not tell apart share a  *)
(* kind: "binary" pops one word (ArithInt, IntCmp, SetField, GetVecTItem,  *)
(* GetBytesChar), "ternary" two (SetVecTItem, SetBytesChar), and those     *)
(* that leave the stack alone (Const, EnvAcc, GetField ...) are "const".   *)
(* What the translator does not implement is "ccalln" if it pops words     *)
(* (CCallN, MakeFloatBlock, SetFloatField), "getmethod" or "setglobal".    *)
(***************************************************************************)
EXTENDS Integers, Sequences, FiniteSetsExt

CONSTANTS
    Programs,  \* closures to compile: sequences of instructions
    MaxRegArgs \* the largest arity compile_closure takes, 5 in the code

Falls == {"branchif", "branchifnot", "branchcmp", "pushtrap"}
Ends == Falls \union {"branch", "appterm", "return", "switch", "raise", "stop"}

\* The labels an instruction can jump to: one for a branch or a handler, a table of them
\* for a switch, none for the rest.
Instruction ==
    {i \in [op : STRING, n : Nat, m : Nat, to : Seq(Nat \ {0})] :
       /\ i.op \in Falls \union {"branch"} => Len(i.to) = 1
       /\ i.op \notin Falls \union {"branch", "switch"} => i.to = <<>>}

ASSUME ProgramsAssumption == Programs \subseteq Seq(Instruction) \ {<<>>}

VARIABLES
    code,      \* the bytecode, from the closure's entry point on
    phase,     \* "starts", "convert", "assemble", "translate" or "done"
    result,    \* "none", "ok", or why the closure was given up
    starts,    \* block_starts
    frames,    \* activations of the search under way, innermost last
    seen,      \* SearchState.seen: the pending blocks
    finished,  \* SearchState.finished, in post-order
    maxSize,   \* max_stack_size
    hasTraps,  \* has_trap_handlers
    blocks,    \* BasicClosure.blocks; block_id is the index less one
    next,      \* the block to translate next
    sealed     \* blocks Cranelift was told to seal

search == <<starts, frames, seen, finished, maxSize, hasTraps>>
output == <<blocks, next, sealed>>
vars == <<code, phase, result, search, output>>

-----------------------------------------------------------------------------
(* Instructions *)

Ins(op, n, m, to) == [op |-> op, n |-> n, m |-> m, to |-> to]

LessOne(n) == IF n > 0 THEN n - 1 ELSE 0

\* What visit ensures of stack_size before an instruction that ends no block.
Need(i) ==
    CASE i.op \in {"pop", "apply"} -> i.n
      [] i.op = "assign" -> i.n + 1
      [] i.op = "applyn" -> i.n + 3
      [] i.op \in {"closure", "closurerec", "makeblock", "ccall", "ccalln"} -> LessOne(i.n)
      [] i.op \in {"binary", "getdynmet", "getmethod"} -> 1
      [] i.op = "ternary" -> 2
      [] i.op = "poptrap" -> 4
      [] OTHER -> 0

\* Mutant: the functions of a CLOSUREREC are not counted.
GrowthNoFuns(i) ==
    CASE i.op \in {"push", "setuppubmet"} -> 1
      [] i.op = "retaddr" -> 3
      [] OTHER -> 0

\* What it adds to stack_size beyond what it takes.
Growth(i) ==
    CASE i.op \in {"push", "setuppubmet"} -> 1
      [] i.op = "retaddr" -> 3
      [] i.op = "closurerec" -> i.m
      [] OTHER -> 0

Enough(i, size) == size >= Need(i)

\* Assign, GetDynMet and GetMethod leave the stack as it is.
Effect(i) == Growth(i) - (IF i.op \in {"assign", "getdynmet", "getmethod"} THEN 0 ELSE Need(i))

\* The words PUSHTRAP leaves on the stack.
TrapFrame == 4

\* What it ensures before one that does.
ExitAllowed(i, size) ==
    CASE i.op = "return" -> size = i.n
      [] i.op = "appterm" -> size = i.m
      [] i.op = "stop" -> size = 1
      [] OTHER -> TRUE
ExitSize(i, size) ==
    CASE i.op \in {"return", "appterm"} -> 0
      [] i.op = "pushtrap" -> size + TrapFrame
      [] OTHER -> size

\* The blocks an exit visits, in order, and the stack size each starts with.
Visit(l, size) == [to |-> l, size |-> size]
ExitVisits(i, p, size) ==
    CASE i.op = "branchif" -> <<Visit(p + 1, size), Visit(i.to[1], size)>>
      [] i.op \in {"branchifnot", "branchcmp"} -> <<Visit(i.to[1], size), Visit(p + 1, size)>>
      [] i.op = "pushtrap" -> <<Visit(i.to[1], size), Visit(p + 1, size + TrapFrame)>>
      [] OTHER -> [k \in DOMAIN i.to |-> Visit(i.to[k], size)]

Arity == IF code[1].op = "grab" THEN code[1].n + 1 ELSE 1

Top == frames[Len(frames)]
Below == SubSeq(frames, 1, Len(frames) - 1)

-----------------------------------------------------------------------------
(* find_block_starts_dfs: where blocks start *)

Scan(l) == [at |-> l, todo |-> <<>>, last |-> FALSE]

\* The labels of an instruction and, if the block ends but control goes on, what follows.
Labels(i, p) == i.to \o (IF i.op \in Falls THEN <<p + 1>> ELSE <<>>)

ScanInstruction ==
    /\ phase = "starts" /\ frames # <<>>
    /\ Top.todo = <<>> /\ ~Top.last /\ Top.at <= Len(code)
    /\ LET i == code[Top.at]
       IN  frames' = Append(Below, [at |-> Top.at + 1, todo |-> Labels(i, Top.at),
                                    last |-> i.op \in Ends])
    /\ UNCHANGED <<code, phase, result, starts, seen, finished, maxSize, hasTraps, output>>

\* visit: search from a label that is new.
ScanLabel ==
    /\ phase = "starts" /\ frames # <<>> /\ Top.todo # <<>>
    /\ LET l == Head(Top.todo)
           rest == Append(Below, [Top EXCEPT !.todo = Tail(@)])
       IN  /\ frames' = IF l \in starts THEN rest ELSE Append(rest, Scan(l))
           /\ starts' = starts \union {l}
    /\ UNCHANGED <<code, phase, result, seen, finished, maxSize, hasTraps, output>>

Pending(type, size, preds) == [type |-> type, size |-> size, preds |-> preds]
Activation(entry, size) ==
    [entry |-> entry, at |-> entry, size |-> size, todo |-> <<>>, ended |-> FALSE, exit |-> <<>>]

\* The search returns; when the outermost one has, convert_dfs visits the entry point.
ScanReturn ==
    /\ phase = "starts" /\ frames # <<>>
    /\ Top.todo = <<>> /\ (Top.last \/ Top.at > Len(code))
    /\ IF Below # <<>> THEN frames' = Below /\ UNCHANGED <<phase, seen>>
       ELSE /\ phase' = "convert"
            /\ frames' = <<Activation(1, Arity)>>
            /\ seen' = [l \in {1} |-> Pending("First", Arity, {})]
    /\ UNCHANGED <<code, result, starts, finished, maxSize, hasTraps, output>>

-----------------------------------------------------------------------------
(* convert_dfs and SearchState::visit *)

Fail(why) == phase' = "done" /\ result' = why
Larger(m, n) == IF m < n THEN n ELSE m

\* The block being visited goes on with stack size s at the next instruction.
GoOn(s) ==
    /\ frames' = Append(Below, [Top EXCEPT !.at = @ + 1, !.size = s])
    /\ UNCHANGED <<phase, result, hasTraps>>

\* The block being visited ends with stack size s, and has these blocks to visit.
End(s, visits) ==
    /\ frames' = Append(Below, [Top EXCEPT !.size = s, !.todo = visits, !.ended = TRUE,
                                           !.exit = [k \in DOMAIN visits |-> visits[k].to]])
    /\ UNCHANGED <<phase, result>>

\* Mutant: a block runs on into the next one instead of jumping to it.
JoinsNextNever == FALSE
\* The LabelDef of a block start that is not this block's own.
JoinsNext == Top.at # Top.entry /\ Top.at \in starts

ConvertInstruction ==
    /\ phase = "convert" /\ frames # <<>> /\ Top.todo = <<>> /\ ~Top.ended
    /\ maxSize' = Larger(maxSize, Top.size)
    /\ IF Top.at > Len(code) THEN Fail("error") /\ UNCHANGED <<frames, hasTraps>>
       ELSE LET i == code[Top.at]
            IN  IF JoinsNext
                THEN End(Top.size, <<Visit(Top.at, Top.size)>>) /\ UNCHANGED hasTraps
                ELSE IF i.op \in Ends
                THEN IF ExitAllowed(i, Top.size)
                     THEN /\ End(ExitSize(i, Top.size), ExitVisits(i, Top.at, Top.size))
                          /\ hasTraps' = (hasTraps \/ i.op = "pushtrap")
                     ELSE Fail("error") /\ UNCHANGED <<frames, hasTraps>>
                ELSE IF Enough(i, Top.size) THEN GoOn(Top.size + Effect(i))
                ELSE Fail("error") /\ UNCHANGED <<frames, hasTraps>>
    /\ UNCHANGED <<code, starts, seen, finished, output>>

\* Mutant: the stack size is not compared.
SeenBeforeAnySize(l, size) == seen[l].type = "Normal"
\* A block seen before must agree on the stack size and on being no entry block.
SeenBefore(l, size) == seen[l].size = size /\ seen[l].type = "Normal"

\* One of the recursive calls of visit.
ConvertVisit ==
    /\ phase = "convert" /\ frames # <<>> /\ Top.todo # <<>>
    /\ LET v == Head(Top.todo)
           rest == Append(Below, [Top EXCEPT !.todo = Tail(@)])
       IN  IF v.to \notin DOMAIN seen
           THEN /\ seen' = [l \in DOMAIN seen \union {v.to} |->
                              IF l = v.to THEN Pending("Normal", v.size, {Top.entry}) ELSE seen[l]]
                /\ frames' = Append(rest, Activation(v.to, v.size))
                /\ UNCHANGED <<phase, result>>
           ELSE IF SeenBefore(v.to, v.size)
           THEN /\ seen' = [seen EXCEPT ![v.to].preds = @ \union {Top.entry}]
                /\ frames' = rest /\ UNCHANGED <<phase, result>>
           ELSE Fail("error") /\ UNCHANGED <<seen, frames>>
    /\ UNCHANGED <<code, starts, finished, maxSize, hasTraps, output>>

\* The exit is known and everything after it has been visited.  The instructions of the
\* block are those from its offset up to, and not including, last.
ConvertFinish ==
    /\ phase = "convert" /\ frames # <<>> /\ Top.todo = <<>> /\ Top.ended
    /\ maxSize' = Larger(maxSize, Top.size)
    /\ finished' = Append(finished,
         [offset |-> Top.entry, last |-> Top.at, exit |-> Top.exit, end |-> Top.size])
    /\ frames' = Below /\ phase' = IF Below = <<>> THEN "assemble" ELSE phase
    /\ UNCHANGED <<code, result, starts, seen, hasTraps, output>>

-----------------------------------------------------------------------------
(* The rest of convert_dfs, and compile_closure up to the first block *)

\* offset_to_block_id_map: finished, reversed.
BlockId(l) == CHOOSE k \in 1..Len(finished) : finished[Len(finished) + 1 - k].offset = l

\* Mutant: a block is sealed after the first of its predecessors.
LastPredFirst(preds) == Min({BlockId(p) : p \in preds})
LastPred(preds) == Max({BlockId(p) : p \in preds})

\* sealed_blocks: those whose last predecessor is this block.
Seals(k) ==
    {BlockId(l) : l \in {l \in DOMAIN seen : seen[l].preds # {} /\ LastPred(seen[l].preds) = k}}

FinishedBlock(k) == CHOOSE b \in {finished[j] : j \in DOMAIN finished} : BlockId(b.offset) = k

BasicBlock(k) ==
    LET b == FinishedBlock(k)
    IN  [offset |-> b.offset, last |-> b.last, start |-> seen[b.offset].size, end |-> b.end,
         exit |-> {BlockId(b.exit[j]) : j \in DOMAIN b.exit}, seals |-> Seals(k)]

Assemble ==
    /\ phase = "assemble"
    /\ blocks' = [k \in 1..Len(finished) |-> BasicBlock(k)]
    /\ IF hasTraps THEN Fail("unsupported") /\ UNCHANGED <<next, sealed>>
       ELSE IF Arity > MaxRegArgs THEN Fail("arity") /\ UNCHANGED <<next, sealed>>
       ELSE phase' = "translate" /\ next' = 1 /\ sealed' = {1} /\ UNCHANGED result
    /\ UNCHANGED <<code, search>>

-----------------------------------------------------------------------------
(* translate_block: the stack variables of the translator.  An instruction *)
(* picks from the top of the stack, then pushes, pops, and pushes again.   *)

Picks(i) ==
    CASE i.op \in {"acc", "assign"} -> i.n + 1
      [] i.op = "getdynmet" -> 1
      [] OTHER -> 0
PushesFirst(i) ==
    CASE i.op \in {"push", "setuppubmet"} -> 1
      [] i.op = "retaddr" -> 3
      [] i.op \in {"closure", "closurerec"} /\ i.n > 0 -> 1
      [] OTHER -> 0
Pops(i) ==
    CASE i.op \in {"pop", "apply", "closure", "closurerec"} -> i.n
      [] i.op = "applyn" -> i.n + 3
      [] i.op \in {"makeblock", "ccall"} -> LessOne(i.n)
      [] i.op = "binary" -> 1
      [] i.op = "ternary" -> 2
      [] OTHER -> 0
PushesAfter(i) == IF i.op = "closurerec" THEN i.m ELSE 0

\* Mutant: one stack variable for every word of the stack, and none to spare.
StackVarsExact == maxSize
\* to_allocate
StackVars == maxSize + 1

\* The errors of the translation, where a stack size is expected.
Underflow == -1
Overflow == -2
Unimplemented == -3

TranslateInstruction(i, size) ==
    LET pushed == size + PushesFirst(i)
        final == pushed - Pops(i) + PushesAfter(i)
    IN  IF size < 0 THEN size
        ELSE IF i.op \in {"ccalln", "getmethod", "setglobal"} THEN Unimplemented
        ELSE IF PushesFirst(i) > 0 /\ pushed > StackVars THEN Overflow
        ELSE IF size < Picks(i) \/ pushed < Pops(i) THEN Underflow
        ELSE IF PushesAfter(i) > 0 /\ final > StackVars THEN Overflow
        ELSE final

\* A tail call copies its arguments to the real stack; Stop is not implemented.
TranslateExit(i, size) ==
    IF size < 0 THEN size
    ELSE CASE i.op = "stop" -> Unimplemented
           [] i.op = "return" -> IF size < i.n THEN Underflow ELSE size - i.n
           [] i.op = "appterm" -> IF size < i.n \/ size < i.m THEN Underflow ELSE size - i.m
           [] OTHER -> size

\* A block that runs into the next one exits with a Branch, before instruction last.
RunsOn(b) == b.last # b.offset /\ b.last \in starts

\* The stack size before each instruction of a block, and before its exit.
SizeBefore(b) ==
    LET size[p \in b.offset..b.last] ==
          IF p = b.offset THEN b.start ELSE TranslateInstruction(code[p - 1], size[p - 1])
    IN  size

\* The stack size after the instructions of a block and its exit.
TranslatedSize(b) ==
    IF RunsOn(b) THEN SizeBefore(b)[b.last] ELSE TranslateExit(code[b.last], SizeBefore(b)[b.last])

TranslateBlock ==
    /\ phase = "translate" /\ next <= Len(blocks)
    /\ LET b == blocks[next]
           size == TranslatedSize(b)
           why == CASE size = Underflow -> "underflow"
                    [] size = Overflow -> "overflow"
                    [] size = Unimplemented -> "unimplemented"
                    [] OTHER -> "mismatch"
       IN  IF size # b.end THEN Fail(why) /\ UNCHANGED <<next, sealed>>
           ELSE next' = next + 1 /\ sealed' = sealed \union b.seals /\ UNCHANGED <<phase, result>>
    /\ UNCHANGED <<code, search, blocks>>

\* FunctionTranslator::finalise
Finalise ==
    /\ phase = "translate" /\ next = Len(blocks) + 1
    /\ phase' = "done" /\ result' = "ok"
    /\ UNCHANGED <<code, search, output>>

-----------------------------------------------------------------------------
Init ==
    /\ code \in Programs
    /\ phase = "starts" /\ result = "none"
    /\ starts = {1} /\ frames = <<Scan(1)>>
    /\ seen = <<>> /\ finished = <<>> /\ maxSize = 0 /\ hasTraps = FALSE
    /\ blocks = <<>> /\ next = 1 /\ sealed = {}

Finished == phase = "done" /\ UNCHANGED vars

Step ==
    \/ ScanInstruction \/ ScanLabel \/ ScanReturn
    \/ ConvertInstruction \/ ConvertVisit \/ ConvertFinish
    \/ Assemble \/ TranslateBlock \/ Finalise

Next == Step \/ Finished

Spec == Init /\ [][Next]_vars
FairSpec == Spec /\ WF_vars(Step)

-----------------------------------------------------------------------------
(* What the bytecode interpreter does with its stack, as a reference: the  *)
(* number of words each instruction pushes and then pops, until control is *)
(* at the next instruction of this function again.                         *)

InterpPushes(i) ==
    CASE i.op \in {"push", "setuppubmet"} -> 1
      [] i.op = "retaddr" -> 3
      [] i.op \in {"closure", "closurerec"} -> IF i.n > 0 THEN 1 ELSE 0
      [] i.op = "pushtrap" -> 4
      [] OTHER -> 0
InterpPops(i) ==
    CASE i.op \in {"pop", "apply", "closure", "closurerec"} -> i.n
      [] i.op = "applyn" -> i.n + 3
      [] i.op \in {"makeblock", "ccall", "ccalln"} -> LessOne(i.n)
      [] i.op = "binary" -> 1
      [] i.op = "ternary" -> 2
      [] i.op = "poptrap" -> 4
      [] OTHER -> 0
InterpReads(i) ==
    CASE i.op \in {"acc", "assign"} -> i.n + 1
      [] i.op \in {"getdynmet", "getmethod"} -> 1
      [] i.op = "appterm" -> i.n
      [] OTHER -> 0

\* Position and stack depth after instruction i at p with depth d.
Successors(i, p, d) ==
    LET after == d + InterpPushes(i) - InterpPops(i) + (IF i.op = "closurerec" THEN i.m ELSE 0)
        jumps == {<<i.to[k], d>> : k \in DOMAIN i.to}
    IN  IF i.op \in {"return", "appterm", "raise", "stop"} THEN {}
        ELSE IF i.op \in {"branch", "switch"} THEN jumps
        ELSE jumps \union {<<p + 1, after>>}

\* What an execution of c that starts with x can reach in n steps, n being at most two
\* passes over the code, where a disagreement must have shown.
ReachedIn(c, x) ==
    LET step[n \in 0..(2 * Len(c))] ==
          IF n = 0 THEN {x}
          ELSE step[n - 1] \union
               UNION {Successors(c[y[1]], y[1], y[2]) : y \in {z \in step[n - 1] : z[1] <= Len(c)}}
    IN  step

\* Everything an execution of the closure can reach.
Reached == ReachedIn(code, <<1, Arity>>)[2 * Len(code)]

\* The closure keeps to the rules the compiler relies on.
Regular ==
    /\ \A x, y \in Reached : x[1] = y[1] => x = y
    /\ \A x \in Reached :
         /\ x[1] <= Len(code)
         /\ LET i == code[x[1]]
            IN  /\ x[2] >= InterpReads(i)
                /\ x[2] + InterpPushes(i) >= InterpPops(i)
                /\ ExitAllowed(i, x[2])
                /\ \A k \in DOMAIN i.to : i.to[k] # 1
                /\ i.op = "poptrap" => \E y \in Reached : code[y[1]].op = "pushtrap"

-----------------------------------------------------------------------------
(* Properties *)

Converted == phase = "translate" \/ (phase = "done" /\ result # "error")
Members(b) == b.offset .. (IF RunsOn(b) THEN b.last - 1 ELSE b.last)
\* convert_dfs computes, for every block, the stack depth the interpreter has there whichever
\* way it got there, and max_stack_size is enough for every depth in between.
DepthsAreInterpreters ==
    Converted => \A x \in Reached :
                   /\ x[2] <= maxSize
                   /\ \A k \in DOMAIN blocks : blocks[k].offset = x[1] => blocks[k].start = x[2]

\* A closure is given up (status -3, for good) by an ensure! of visit or by the translator's
\* own checks of the stack only if it breaks a rule that OCaml's compiler keeps, in code that
\* can be executed.
RejectsOnlyIrregular == result \in {"error", "underflow", "overflow", "mismatch"} => ~Regular

\* Every instruction that can be executed is in exactly one block, and nothing else is
\* in any: back edges into the middle of a straight run included. Block 0, which takes the
\* function's arguments, is the entry point, and every other block comes after one that
\* jumps to it.
EachInstructionOnceInOrder ==
    Converted => /\ \A x \in Reached : \E k \in DOMAIN blocks : x[1] \in Members(blocks[k])
                 /\ \A j, k \in DOMAIN blocks :
                      j # k => Members(blocks[j]) \intersect Members(blocks[k]) = {}
                 /\ \A k \in DOMAIN blocks : \A p \in Members(blocks[k]) : \E x \in Reached : x[1] = p
                 /\ blocks[1].offset = 1
                 /\ \A k \in DOMAIN blocks \ {1} : \E j \in 1..(k - 1) : k \in blocks[j].exit

\* No block is sealed while a jump to it is still to come, which would make Cranelift take
\* a variable's value from the wrong predecessors; the entry block, sealed first, has none.
SealedAfterLastJump ==
    phase \in {"translate", "done"} =>
      \A s \in sealed, k \in DOMAIN blocks : s \in blocks[k].exit => k < next

\* The translator's own count of the stack agrees with visit's for every instruction it
\* implements, and it never runs out of variables, not even where it spills the accumulator.
\* (Visit drops POPTRAP from the block: without a PUSHTRAP, which OCaml's compiler never
\* leaves out, the counts differ.)
TranslatorKeepsCount ==
    result \in {"overflow", "mismatch"} => \E p \in 1..Len(code) : code[p].op = "poptrap"

=============================================================================
