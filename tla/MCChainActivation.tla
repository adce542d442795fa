------------------------- MODULE MCChainActivation -------------------------
(***************************************************************************)
(* Small block trees for ChainActivation.  A block is a natural number, 0  *)
(* the genesis block; the other constants of BlockTree are computed from   *)
(* the parents and the proofs of the blocks.  They are the fields of one   *)
(* definition, which TLC evaluates once, and tables (f @@ << >> is f).     *)
(***************************************************************************)
EXTENDS ChainActivation, TLC

HeightOf(parent) ==
    LET h[b \in DOMAIN parent] == IF b = 0 THEN 0 ELSE h[parent[b]] + 1 IN h

WorkOf(parent, proof) ==
    LET w[b \in DOMAIN parent] == IF b = 0 THEN 1 ELSE w[parent[b]] + proof[b] IN w

PathOf(parent) ==
    LET p[b \in DOMAIN parent] == IF b = 0 THEN {0} ELSE p[parent[b]] \cup {b} IN p

\* A notarisation of carriers[c] by each block c in the domain of carriers.
Carry(heights, carriers) ==
    [c \in DOMAIN heights |-> IF c \in DOMAIN carriers
                              THEN [hash |-> carriers[c], height |-> heights[carriers[c]]]
                              ELSE NoNotarisation] @@ << >>

Tree(parent, proof, carriers) ==
    [block |-> DOMAIN parent, parent |-> parent @@ << >>, height |-> HeightOf(parent) @@ << >>,
     work |-> WorkOf(parent, proof) @@ << >>, path |-> PathOf(parent) @@ << >>,
     notarises |-> Carry(HeightOf(parent), carriers)]

\*   0 - 1 - 2 - 3        3 notarises 2
\*        \- 4 - 5 - 6    the other branch forks below 2; 5 notarises 4
ForkTree ==
    Tree(0 :> 0 @@ 1 :> 0 @@ 2 :> 1 @@ 3 :> 2 @@ 4 :> 1 @@ 5 :> 4 @@ 6 :> 5,
         [b \in 1 .. 6 |-> 1], 3 :> 2 @@ 5 :> 4)
ForkBlock == ForkTree.block
ForkParent == ForkTree.parent
ForkHeight == ForkTree.height
ForkWork == ForkTree.work
ForkPath == ForkTree.path
ForkNotarises == ForkTree.notarises

\*   0 - 1 - 2 - 3        3 notarises 2; no notarisation on the other branch
\*        \- 4
SmallTree ==
    Tree(0 :> 0 @@ 1 :> 0 @@ 2 :> 1 @@ 3 :> 2 @@ 4 :> 1,
         [b \in 1 .. 4 |-> IF b = 4 THEN 3 ELSE 1], 3 :> 2)
SmallBlock == SmallTree.block
SmallParent == SmallTree.parent
SmallHeight == SmallTree.height
SmallWork == SmallTree.work
SmallPath == SmallTree.path
SmallNotarises == SmallTree.notarises

\* Block 3 carries the notarisation of a block of the other branch.
StrayCarriers == Carry(ForkTree.height, 3 :> 4 @@ 5 :> 4)
StrayNotarises == StrayCarriers

----------------------------------------------------------------------------
(***************************************************************************)
(* FindMostWorkChain as the loop it is, to compare MostWork, MarkedChild   *)
(* and Remaining with.                                                     *)
(***************************************************************************)
\* The highest failed block on the walk of c down to the active chain.
HighestFailed(c, bad) ==
    CHOOSE b \in OffChain(c) \cap bad : \A a \in OffChain(c) \cap bad : Height[a] <= Height[b]

RECURSIVE FindMostWorkChain(_, _)
FindMostWorkChain(set, bad) ==
    IF set = {} THEN [found |-> NoBlock, set |-> set, bad |-> bad]
    ELSE LET new == CHOOSE c \in set : \A d \in set \ {c} : Worse(d, c)
         IN  IF OffChain(new) \cap bad = {}
             THEN [found |-> new, set |-> set, bad |-> bad]
             ELSE LET test  == HighestFailed(new, bad)
                      above == Path[new] \ Path[test]
                  IN  FindMostWorkChain(set \ (above \cup {test}), bad \cup above)

\* The loop finds the block, and leaves the set and the marks, that the
\* definitions the actions use say (FindMostWorkChain).
FindMostWorkChainAgrees ==
    CsMainFree =>
        FindMostWorkChain(candidates, failed) =
            [found |-> MostWork, set |-> Remaining, bad |-> failed \cup MarkedChild]
=============================================================================
