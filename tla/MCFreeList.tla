----------------------------- MODULE MCFreeList -----------------------------
(* Two chunks of eight and four words under each policy; and, apart from     *)
(* them, seven blocks of five sizes that come and go in the best-fit tree.   *)
EXTENDS FreeList

MCChunks == <<<<1, 8>>, <<10, 13>>>>
MCSizes == {1, 2, 4}
MCCustom == {2}

VARIABLES alone,     \* the tree is on its own in this behaviour
          tm, free
T == INSTANCE BestFitTree WITH m <- tm, Words <- 7, Max <- 7, NumSmall <- 2, FlpMax <- 1,
                               Size <- <<3, 4, 5, 6, 7, 4, 6>>
mcvars == <<vars, alone, tm, free>>

MCInit ==
    /\ alone \in BOOLEAN
    /\ Init /\ T!Init
    /\ alone => policy = "best" /\ heap = {1}
MCNext ==
    \/ ~alone /\ Next /\ UNCHANGED <<alone, tm, free>>
    \/ alone /\ T!Next /\ UNCHANGED <<vars, alone>>
MCSpec == MCInit /\ [][MCNext]_mcvars

\* Whatever is put in and taken out of the best-fit tree, it has all the free
\* blocks in the order of their sizes, splaying brings the size asked for to the
\* root, and bf_search_best finds the least block that fits.
TreeSound == T!TreeSound
=============================================================================
