----------------------------- MODULE MCMempool -----------------------------
(***************************************************************************)
(* A small tree with transactions for Mempool.                             *)
(*                                                                         *)
(*   0 - 1 - 2 - 3 - 4    5 has more work than 4 and less height;          *)
(*            \- 5 - 6    6 and 7 are refused, by ConnectBlock and by      *)
(*                \- 7    CheckBlock; 5 may be put off without that.       *)
(*                                                                         *)
(* a and d spend the same output of the coinbase of block 1, in blocks 3   *)
(* and 5; w and x spend the other one; b, f and g depend on a, and m on    *)
(* the coinbase of block 3; v, y and z reveal the same nullifier.  The     *)
(* branch changes at height 5: m is signed for the later one.              *)
(***************************************************************************)
EXTENDS Mempool, TLC

Blocks == 0 .. 7
Txs == {"c1", "c3", "a", "b", "d", "f", "g", "m", "v", "w", "x", "y", "z"}
Paths == 0 :> {0} @@ 1 :> {0, 1} @@ 2 :> {0, 1, 2} @@ 3 :> {0, 1, 2, 3} @@ 4 :> 0 .. 4
         @@ 5 :> {0, 1, 2, 5} @@ 6 :> {0, 1, 2, 5, 6} @@ 7 :> {0, 1, 2, 5, 7}
None == [t \in Txs |-> {}]
Zero == [t \in Txs |-> 0]

\* The constants are the fields of one definition, which TLC evaluates once.
MC ==
    [parent |-> 0 :> 0 @@ 1 :> 0 @@ 2 :> 1 @@ 3 :> 2 @@ 4 :> 3 @@ 5 :> 2 @@ 6 :> 5 @@ 7 :> 5,
     height |-> [b \in Blocks |-> Cardinality(Paths[b]) - 1] @@ << >>,
     work |-> 7 :> 7 @@ [b \in Blocks |-> b + 1],
     vtx |-> 1 :> <<"c1">> @@ 3 :> <<"c3", "a">> @@ 4 :> <<"b">>
             @@ 5 :> <<"d", "y">> @@ 6 :> <<"x">> @@ 7 :> <<"x">> @@ [b \in Blocks |-> << >>],
     vout |-> "c1" :> {"c1_0", "c1_1"} @@ "c3" :> {"c3_0"} @@ "a" :> {"a_0", "a_1"}
              @@ "b" :> {"b_0"} @@ None,
     vin |-> "a" :> {"c1_0"} @@ "d" :> {"c1_0"} @@ "b" :> {"a_0"} @@ "f" :> {"a_0"}
             @@ "g" :> {"a_1", "b_0"} @@ "m" :> {"c3_0"}
             @@ "w" :> {"c1_1"} @@ "x" :> {"c1_1"} @@ None,
     nullifiers |-> "v" :> {"n"} @@ "y" :> {"n"} @@ "z" :> {"n"} @@ None,
     root |-> 3 :> "r3" @@ 4 :> "r3" @@ 5 :> "r5" @@ 6 :> "r5" @@ 7 :> "r5"
              @@ [b \in Blocks |-> "r0"],
     anchor |-> "v" :> "r0" @@ "y" :> "r0" @@ "z" :> "r3" @@ [t \in Txs |-> NoRoot],
     lock |-> "w" :> 3 @@ Zero,
     expiry |-> "g" :> 3 @@ Zero,
     branch |-> [h \in 0 .. 6 |-> IF h <= 4 THEN 1 ELSE 2] @@ << >>,
     commits |-> "m" :> 2 @@ [t \in Txs |-> 1]]

MCBlock == Blocks
MCParent == MC.parent
MCPath == Paths
MCHeight == MC.height
MCWork == MC.work
MCTx == Txs
MCvtx == MC.vtx
MCvout == MC.vout
MCOutpoint == {"c1_0", "c1_1", "c3_0", "a_0", "a_1", "b_0"}
MCvin == MC.vin
MCNullifiers == MC.nullifiers
MCRoot == MC.root
MCAnchor == MC.anchor
MCLock == MC.lock
MCExpiry == MC.expiry
MCBranchAt == MC.branch
MCCommits == MC.commits

\* Bound: what happens after CheckBlock returned in the middle is followed where
\* one transaction at most was left in tmpmempool.
LittleSwapped == Cardinality({t \in Tx : tmp[t] # NoEntry}) <= 1
=============================================================================
