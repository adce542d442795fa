------------------------------ MODULE CoinsView ------------------------------
(***************************************************************************)
(* What the stack of coins views promises to the code above it: three      *)
(* plain maps, without entries, flags or lazily read fields.  The view of  *)
(* the block being connected or disconnected, the chain tip (pcoinsTip)    *)
(* and the chain state database each hold a complete state; a finished     *)
(* view replaces the tip as a whole, the tip replaces the database as a    *)
(* whole, a failed block leaves no trace and a crash leaves the database.  *)
(*                                                                         *)
(* CoinsCache.tla, the translation of coins.cpp, implements this           *)
(* specification (CoinsCacheProofs.tla).                                   *)
(***************************************************************************)

CONSTANTS Txid,        \* transaction ids
          Out,         \* indices of transaction outputs
          Nullifier,   \* nullifiers of shielded notes
          Anchor,      \* roots of the note commitment tree
          Block        \* block hashes

VARIABLES view,        \* the state the view of the block shows
          tip,         \* the state pcoinsTip shows
          db           \* the state the database holds

vars == <<view, tip, db>>

(***************************************************************************)
(* A complete chain state: the unspent outputs of every transaction, the   *)
(* spent nullifiers, the anchors that may be referred to, the current      *)
(* anchor and the best block.                                              *)
(***************************************************************************)
ChainState == [coins: [Txid -> SUBSET Out], nullifiers: SUBSET Nullifier,
               anchors: SUBSET Anchor, root: Anchor, block: Block]

Init == /\ db \in ChainState
        /\ tip = db
        /\ view = db

ModifyCoins(t, v) ==
  /\ view' = [view EXCEPT !.coins = [@ EXCEPT ![t] = v]]
  /\ UNCHANGED <<tip, db>>

SetNullifier(n, spent) ==
  /\ view' = [view EXCEPT !.nullifiers = IF spent THEN @ \cup {n} ELSE @ \ {n}]
  /\ UNCHANGED <<tip, db>>

\* The block is through: the anchor it leaves behind and its hash.
Connected(rt, b) ==
  /\ view' = [coins |-> view.coins, nullifiers |-> view.nullifiers,
              anchors |-> view.anchors \cup {rt}, root |-> rt, block |-> b]
  /\ UNCHANGED <<tip, db>>

\* The block is undone: its anchor is gone unless it was its parent's as well.
Disconnected(rt, b) ==
  /\ view' = [coins |-> view.coins, nullifiers |-> view.nullifiers,
              anchors |-> view.anchors \ ({view.root} \ {rt}), root |-> rt, block |-> b]
  /\ UNCHANGED <<tip, db>>

FlushView == tip' = view /\ UNCHANGED <<view, db>>

DiscardView == view' = tip /\ UNCHANGED <<tip, db>>

FlushTip == db' = tip /\ UNCHANGED <<view, tip>>

Crash == tip' = db /\ view' = db /\ UNCHANGED db

Next == \/ \E t \in Txid, v \in SUBSET Out : ModifyCoins(t, v)
        \/ \E n \in Nullifier, spent \in BOOLEAN : SetNullifier(n, spent)
        \/ \E rt \in Anchor, b \in Block : Connected(rt, b) \/ Disconnected(rt, b)
        \/ FlushView
        \/ DiscardView
        \/ FlushTip
        \/ Crash

Spec == Init /\ [][Next]_vars
=============================================================================
