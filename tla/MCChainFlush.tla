---------------------------- MODULE MCChainFlush ----------------------------
(***************************************************************************)
(* A small block tree for ChainFlush.  The constants are the fields of one *)
(* definition, which TLC evaluates once.                                   *)
(***************************************************************************)
EXTENDS ChainFlush, TLC

\*   0 - 1 - 2      2 spends the coin of 1
\*        \- 3      3 does not
Fork ==
    [parent |-> 0 :> 0 @@ 1 :> 0 @@ 2 :> 1 @@ 3 :> 1,
     path |-> 0 :> {0} @@ 1 :> {0, 1} @@ 2 :> {0, 1, 2} @@ 3 :> {0, 1, 3},
     height |-> 0 :> 0 @@ 1 :> 1 @@ 2 :> 2 @@ 3 :> 2,
     work |-> 0 :> 1 @@ 1 :> 2 @@ 2 :> 3 @@ 3 :> 3,
     spends |-> 0 :> {} @@ 1 :> {} @@ 2 :> {"c1"} @@ 3 :> {},
     creates |-> 0 :> {} @@ 1 :> {"c1"} @@ 2 :> {"c2"} @@ 3 :> {"c3"}]
ForkBlock == 0 .. 3
ForkParent == Fork.parent
ForkPath == Fork.path
ForkHeight == Fork.height
ForkWork == Fork.work
ForkSpends == Fork.spends
ForkCreates == Fork.creates

\* Bounds: of a failed write and a power loss there is one, while nothing of
\* block 3 and of the last file is there; what was stopped after a failed write
\* is started and writes no more.
FaultsOnOneBranch ==
    /\ (failures # {} \/ powerLost) =>
          /\ ~index[3].known /\ last < MaxFile
          /\ \A p \in Pos : blk[p] # NoBlock => blk[p] # 3 /\ p[1] < MaxFile
    /\ (failures # {} /\ stops > 0) => ~powerLost /\ call = Idle /\ dirtyIndex = {}
=============================================================================
