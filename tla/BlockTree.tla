----------------------------- MODULE BlockTree -----------------------------
(***************************************************************************)
(* The block headers a node may ever hear of: a tree rooted at the genesis *)
(* block.  A block stands for its CBlockIndex and for its hash.  The tree  *)
(* is fixed; how much of it a node knows is the state of the other         *)
(* modules.  Ancestry is given as the set Path[b] of the blocks from the   *)
(* genesis block to b, which is what chainActive holds when b is its tip,  *)
(* and what walking pprev from b visits.                                   *)
(***************************************************************************)
EXTENDS Integers, FiniteSets

CONSTANTS
    Block,      \* the blocks (hashes) of the tree
    Genesis,    \* the genesis block
    Parent,     \* pprev (the genesis block is its own entry)
    Height,     \* nHeight
    ChainWork,  \* nChainWork
    Path,       \* the blocks from Genesis to b
    NoBlock     \* the null hash, or pointer

\* The genesis block is one of the blocks, the null hash is none.
ASSUME GenesisAssumption == Genesis \in Block
ASSUME NoBlockAssumption == NoBlock \notin Block

\* pprev, nHeight and nChainWork are fixed when an entry is created.
ASSUME TypeAssumption ==
    /\ Parent \in [Block -> Block]
    /\ Height \in [Block -> Nat]
    /\ ChainWork \in [Block -> Nat]
    /\ Path \in [Block -> SUBSET Block]

\* AddToBlockIndex: nHeight is the parent's plus one, nChainWork the parent's
\* plus the (positive) proof of the block.
ASSUME TreeAssumption ==
    /\ Height[Genesis] = 0
    /\ \A b \in Block \ {Genesis} :
          /\ Height[b] = Height[Parent[b]] + 1
          /\ ChainWork[b] > ChainWork[Parent[b]]

\* What a walk along pprev visits.
ASSUME PathAssumption ==
    /\ Path[Genesis] = {Genesis}
    /\ \A b \in Block \ {Genesis} : Path[b] = Path[Parent[b]] \cup {b}

\* The blocks whose path runs through b (b included).
Descendants(b) == {d \in Block : b \in Path[d]}

\* CBlockIndex::GetAncestor, as used for heights up to that of b.
GetAncestor(b, h) == CHOOSE a \in Path[b] : Height[a] = h

\* CChain::FindFork with chainActive.Tip() = t: the highest block of b's path
\* that is on the active chain.
FindFork(t, b) ==
    CHOOSE f \in Path[b] \cap Path[t] :
        \A a \in Path[b] \cap Path[t] : Height[a] <= Height[f]
=============================================================================
