--------------------------- MODULE NotarisedChain ---------------------------
(***************************************************************************)
(* What delayed proof of work promises to the users of a node, and nothing *)
(* of how: there is an active chain, of which a prefix, up to the anchor,  *)
(* is final.  The chain grows and shrinks by a block at a time at its tip, *)
(* the anchor only moves forward along the active chain, and the chain     *)
(* never shrinks below the anchor.                                         *)
(***************************************************************************)
EXTENDS BlockTree

VARIABLES
    tip,     \* the active chain is Path[tip]
    anchor   \* the last notarised block (the genesis block at first)

ledger == <<tip, anchor>>

Init == tip = Genesis /\ anchor = Genesis

\* A block is connected; its notarisation may move the anchor forward.
Extend(b) ==
    /\ b # Genesis
    /\ Parent[b] = tip
    /\ tip' = b
    /\ \E a \in Path[b] : anchor \in Path[a] /\ anchor' = a

\* The tip is disconnected, never the anchor.
Retreat ==
    /\ tip # anchor
    /\ tip' = Parent[tip]
    /\ UNCHANGED anchor

Next == Retreat \/ \E b \in Block : Extend(b)

Spec == Init /\ [][Next]_ledger

----------------------------------------------------------------------------
\* The final prefix is part of the active chain.
AnchorActive == anchor \in Path[tip]

\* What was final stays final and active.
FinalForever == [][Path[anchor] \subseteq Path[anchor'] /\ anchor \in Path[tip']]_ledger
=============================================================================
