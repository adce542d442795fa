--------------------------- MODULE MCKomodoState ---------------------------
(***************************************************************************)
(* Small block trees and old files for KomodoState.                        *)
(***************************************************************************)
EXTENDS KomodoState, TLC

HeightOf(parent) ==
    LET h[b \in DOMAIN parent] == IF b = 0 THEN 0 ELSE h[parent[b]] + 1 IN h

PathOf(parent) ==
    LET p[b \in DOMAIN parent] == IF b = 0 THEN {0} ELSE p[parent[b]] \cup {b} IN p

Carry(heights, carriers) ==
    [c \in DOMAIN heights |-> IF c \in DOMAIN carriers
                              THEN [hash |-> carriers[c], height |-> heights[carriers[c]]]
                              ELSE NoNotarisation]

\* The constants are the fields of one definition, which TLC evaluates once.
Tree(parent, carriers) ==
    [parent |-> parent, height |-> HeightOf(parent) @@ << >>, path |-> PathOf(parent) @@ << >>,
     notarises |-> Carry(HeightOf(parent), carriers) @@ << >>]

\*   0 - 1 - 2 - 3        2 notarises 1, 3 notarises 2
\*        \- 4 - 5 - 6 - 7    5 notarises 1 as well, 6 notarises 4, 7 notarises 5
ForkTree ==
    Tree(0 :> 0 @@ 1 :> 0 @@ 2 :> 1 @@ 3 :> 2 @@ 4 :> 1 @@ 5 :> 4 @@ 6 :> 5 @@ 7 :> 6,
         2 :> 1 @@ 3 :> 2 @@ 5 :> 1 @@ 6 :> 4 @@ 7 :> 5)
ForkBlock == 0 .. 7
ForkParent == ForkTree.parent
ForkHeight == ForkTree.height
ForkWork == ForkTree.height
ForkPath == ForkTree.path
ForkNotarises == ForkTree.notarises

\* An earlier release connected 1 and 4, went back, and connected 2.
ReadableFile ==
    << [func |-> "K", height |-> 1, kheight |-> 1, block |-> 1],
       [func |-> "K", height |-> 2, kheight |-> 2, block |-> 4],
       [func |-> "K", height |-> 2, kheight |-> -2, block |-> 2],
       [func |-> "N", height |-> 2, point |-> ForkNotarises[2], block |-> 2],
       [func |-> "K", height |-> 2, kheight |-> 2, block |-> 2] >>

\* A new node.
Fresh == {[tip |-> 0, file |-> <<>>]}

\* A new node, or one that was updated.
Old == {[tip |-> 2, file |-> ReadableFile]}
FreshOrOld == Fresh \cup Old
=============================================================================
