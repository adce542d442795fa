------------------------------ MODULE Mempool ------------------------------
(***************************************************************************)
(* The memory pool (txmempool.cpp) and everything that changes it: the     *)
(* "tx" message with its orphan transactions, sendrawtransaction, the      *)
(* blocks that ActivateBestChainStep and InvalidateBlock connect and       *)
(* disconnect, CheckBlock on chains with crypto-conditions (ASSETCHAINS_CC *)
(* # 0, here cc), and the thread that tells the wallets.                   *)
(*                                                                         *)
(* The actions of one call are steps of their own where other threads can  *)
(* see the pool between them (they hold cs_main, not mempool.cs), and      *)
(* where the code loops over transactions; op says which call holds        *)
(* cs_main.  Which chain is activated is the subject of ChainActivation:   *)
(* here any chain with more work than the tip may be.  The coins are the   *)
(* plain state that CoinsCache shows the caches to implement, so pcoinsTip *)
(* is given by its best block.                                             *)
(*                                                                         *)
(* A transaction has one anchor at most and stands for its hash.  The      *)
(* interest rule of the KMD chain (komodo_validate_interest), import       *)
(* transactions and the rate limiter are left out.                         *)
(***************************************************************************)
EXTENDS BlockTree, Sequences

CONSTANTS
    Tx, CoinbaseTx, StakeTx,  \* transactions; the coinbases; the PoS ones
    vtx,                      \* the transactions of each block
    Outpoint, vout, vin,      \* outputs: those of a transaction, those it spends
    Nullifier, Nullifiers,    \* the nullifiers a transaction reveals
    Root, Anchor, NoRoot,     \* commitment tree after a block; anchor used
    nLockTime, nExpiryHeight, \* heights (0: none)
    BranchAt, Commits,        \* branch id of a height; the one that is signed
    BadTx, LowFee,            \* invalid scripts; less than the relay fee
    CheckFails, ConnectFails, \* blocks that CheckBlock, ConnectBlock refuse
    Deferred,                 \* blocks that may fail CheckBlock without being invalid
    COINBASE_MATURITY, TimeLocked, unlocktime,
    Peer, MaxOrphans, NoTx, NoEntry, NoPeer,
    Relayed, Sent             \* bound: what peers relay, what is sent from here

TxsOf == [b \in Block |-> {vtx[b][i] : i \in DOMAIN vtx[b]}]
Outs(S) == UNION {vout[t] : t \in S}
Ins(S) == UNION {vin[t] : t \in S}
Nfs(S) == UNION {Nullifiers[t] : t \in S}
\* t spends an output of u.
Spenders == [u \in Tx |-> {t \in Tx : vin[t] \cap vout[u] # {}}]
Spends(t, u) == t \in Spenders[u]

ChainTxs == [b \in Block |-> UNION {TxsOf[a] : a \in Path[b]}]

\* What pcoinsTip holds when b is its best block.
Unspent == [b \in Block |-> Outs(ChainTxs[b]) \ Ins(ChainTxs[b])]
SpentNfs == [b \in Block |-> Nfs(ChainTxs[b])]
Anchors == [b \in Block |-> {Root[a] : a \in Path[b]}]

HaveCoins(b, t) == vout[t] \cap Unspent[b] # {}

\* The height of the (coinbase) transaction that made the output.
CoinHeight(b, t) == Height[CHOOSE a \in Path[b] : t \in TxsOf[a]]

Shielded(t) == Nullifiers[t] # {}

Valid == Block \ (CheckFails \cup ConnectFails)

\* CTxMemPoolEntry, as far as the removals look at it.
Entry == [branch : {BranchAt[h] : h \in DOMAIN BranchAt}, spendsCoinbase : BOOLEAN]

ASSUME TxAssumption ==
    /\ CoinbaseTx \subseteq Tx /\ StakeTx \subseteq Tx
    /\ Relayed \subseteq Tx /\ Sent \subseteq Tx
    /\ vtx \in [Block -> Seq(Tx)]
    /\ vout \in [Tx -> SUBSET Outpoint]
    /\ vin \in [Tx -> SUBSET Outpoint]
    /\ Nullifiers \in [Tx -> SUBSET Nullifier]
    /\ NoTx \notin Tx /\ NoEntry \notin Entry
    /\ \A b \in Block : Height[b] + 1 \in DOMAIN BranchAt
    /\ \A t, u \in Tx : t # u => vout[t] \cap vout[u] = {}
    /\ \A t \in Tx : NoRoot # Anchor[t] => Shielded(t)
    /\ \A t \in CoinbaseTx : vin[t] = {} /\ Nullifiers[t] = {}

ASSUME LimitAssumption ==
    /\ nLockTime \in [Tx -> Nat] /\ nExpiryHeight \in [Tx -> Nat]
    /\ MaxOrphans \in Nat /\ NoPeer \notin Peer

\* The blocks that ConnectBlock accepts: no transaction twice in a chain, no
\* output or nullifier spent twice, and commitment trees only grow.
ASSUME ValidBlocks ==
    /\ Genesis \in Valid /\ Ins(TxsOf[Genesis]) = {}
    /\ \A b \in Valid \ {Genesis} :
          /\ TxsOf[b] \cap ChainTxs[Parent[b]] = {}
          /\ Ins(TxsOf[b]) \subseteq Unspent[Parent[b]] \cup Outs(TxsOf[b])
          /\ Nfs(TxsOf[b]) \cap SpentNfs[Parent[b]] = {}
          /\ Root[b] = Root[Parent[b]] \/ Root[b] \notin Anchors[Parent[b]]

VARIABLES
    cc,          \* ASSETCHAINS_CC # 0
    tip,         \* chainActive.Tip()
    best,        \* the best block of pcoinsTip
    pool,        \* mempool
    tmp,         \* tmpmempool.mapTx
    orphans,     \* mapOrphanTransactions: the peer, or NoPeer
    byPrev,      \* mapOrphanTransactionsByPrev
    op,          \* the call that holds cs_main
    target,      \* its block: pindexMostWork, or the block to invalidate
    oldTip,      \* pindexOldTip
    undone,      \* fBlocksDisconnected
    invalid,     \* fInvalidFound
    undo,        \* DisconnectTip: the transaction it is at, or 0
    work, at,    \* "tx": vWorkQueue and the entry it is at
    visit,       \* the orphans of that entry still to be visited
    erase,       \* vEraseQueue
    misbehaving, \* setMisbehaving
    unclean      \* a call ended without removeForReorg after a disconnect

chain == <<tip, best>>
orphanage == <<orphans, byPrev>>
call == <<op, target, oldTip, undone, invalid>>
handler == <<work, at, visit, erase, misbehaving>>
vars == <<cc, chain, pool, tmp, orphanage, call, undo, handler, unclean>>

-----------------------------------------------------------------------------
(***************************************************************************)
(* CTxMemPool.  A pool has the entries, mapNextTx, the nullifier maps,     *)
(* mapRecentlyAddedTx and totalTxSize (every transaction of size one).     *)
(***************************************************************************)
EmptyPool ==
    [tx |-> [t \in Tx |-> NoEntry], next |-> [o \in Outpoint |-> NoTx],
     nf |-> [n \in Nullifier |-> NoTx], recent |-> {}, size |-> 0]

In(p) == {t \in Tx : p.tx[t] # NoEntry}

\* The transactions of S are added one after the other: of two that spend the
\* same output mapNextTx keeps the last.
addUnchecked(p, S, entry) ==
    [tx |-> [t \in Tx |-> IF t \in S /\ p.tx[t] = NoEntry THEN entry[t] ELSE p.tx[t]],
     next |-> [o \in Outpoint |-> IF o \in Ins(S)
                  THEN CHOOSE t \in S : o \in vin[t] ELSE p.next[o]],
     nf |-> [n \in Nullifier |-> IF n \in Nfs(S)
                  THEN CHOOSE t \in S : n \in Nullifiers[t] ELSE p.nf[n]],
     recent |-> p.recent \cup S, size |-> p.size + Cardinality(S)]

\* A slip: the recently added ones are not updated.
WithoutRecent(p, S) ==
    LET gone == S \cap In(p)
    IN [tx |-> [t \in Tx |-> IF t \in gone THEN NoEntry ELSE p.tx[t]],
        next |-> [o \in Outpoint |-> IF o \in Ins(gone) THEN NoTx ELSE p.next[o]],
        nf |-> [n \in Nullifier |-> IF n \in Nfs(gone) THEN NoTx ELSE p.nf[n]],
        recent |-> p.recent, size |-> p.size - Cardinality(gone)]

\* remove without fRecursive, of each transaction of S that is in the pool.
Without(p, S) ==
    LET gone == S \cap In(p)
    IN [tx |-> [t \in Tx |-> IF t \in gone THEN NoEntry ELSE p.tx[t]],
        next |-> [o \in Outpoint |-> IF o \in Ins(gone) THEN NoTx ELSE p.next[o]],
        nf |-> [n \in Nullifier |-> IF n \in Nfs(gone) THEN NoTx ELSE p.nf[n]],
        recent |-> p.recent \ gone, size |-> p.size - Cardinality(gone)]

\* The transactions of the pool that spend an output of S, by mapNextTx; and
\* the ones reached that way in any number of steps.
Children(p, S) == {p.next[o] : o \in Outs(S)} \ {NoTx}
Family(p, S) ==
    LET all == S \cup In(p)
    IN {t \in all : \A C \in SUBSET all : (S \subseteq C /\ Children(p, C) \subseteq C) => t \in C}

\* Slip: only what is in the pool has its children removed.
removePresent(p, S) == Without(p, Family(p, S \cap In(p)))

\* remove with fRecursive: also when the transaction itself is not there.
remove(p, S) == Without(p, Family(p, S))

IsFinalTx(t, h) == nLockTime[t] < h
IsExpiredTx(t, h) == nExpiryHeight[t] # 0 /\ t \notin CoinbaseTx /\ h > nExpiryHeight[t]

\* A coinbase whose outputs must wait: too young, or locked by value.
Immature(b, t, h) == h - CoinHeight(b, t) < COINBASE_MATURITY
Locked(t, h) == t \in TimeLocked /\ h < unlocktime[t]

\* pcoins is at block b, which is the tip.
removeForReorg(p, b) ==
    LET h == Height[b] + 1
        Lost(u) == \/ ~HaveCoins(b, u)
                   \/ u \in CoinbaseTx /\ Immature(b, u, h) /\ Locked(u, h)
    IN remove(p, {t \in In(p) :
           \/ ~IsFinalTx(t, h)
           \/ /\ p.tx[t].spendsCoinbase
              /\ \E u \in Tx \ In(p) : Spends(t, u) /\ Lost(u)})

removeWithAnchor(p, r) == remove(p, {t \in In(p) : Anchor[t] = r})

\* The pool's transactions in conflict with those of the block.  One that is
\* in the pool itself has been removed before its conflicts are looked up, and
\* mapNextTx no longer has its inputs.
Conflicts(p, S) ==
    LET others == S \ In(p)
    IN ({p.next[o] : o \in Ins(others)} \cup {p.nf[n] : n \in Nfs(others)}) \ {NoTx}

removeForBlock(p, S) == remove(Without(p, S), Conflicts(p, S))

removeExpired(p, h) == remove(p, {t \in In(p) : IsExpiredTx(t, h)})

removeWithoutBranchId(p, id) == remove(p, {t \in In(p) : p.tx[t].branch # id})

-----------------------------------------------------------------------------
(***************************************************************************)
(* AcceptToMemoryPool.  Time locks, expiry and branch id are those of the  *)
(* block after chainActive.Tip(), coins and maturity those of pcoinsTip.   *)
(***************************************************************************)
Fresh(t) ==
    LET h == Height[tip] + 1
    IN /\ ~IsExpiredTx(t, h)
       /\ t \notin CoinbaseTx
       /\ IsFinalTx(t, h)
       /\ t \notin In(pool)
       /\ \A o \in vin[t] : pool.next[o] = NoTx
       /\ \A n \in Nullifiers[t] : pool.nf[n] = NoTx
       /\ ~HaveCoins(best, t)

\* *pfMissingInputs
MissingInputs(t) ==
    /\ Fresh(t)
    /\ \E o \in vin[t] : \A u \in Tx :
           o \in vout[u] => u \notin In(pool) /\ ~HaveCoins(best, u)

HaveInputs(t) == vin[t] \subseteq Outs(In(pool)) \cup Unspent[best]

HaveJoinSplitRequirements(t) ==
    /\ Nullifiers[t] \cap SpentNfs[best] = {}
    /\ Anchor[t] # NoRoot => Anchor[t] \in Anchors[best]

\* CheckTxInputs, as far as coinbases are concerned.
CheckTxInputs(t) ==
    LET h == Height[best] + 1
    IN \A u \in CoinbaseTx :
          Spends(t, u) => ~Locked(u, h) /\ ~Immature(best, u, h)

SpendsCoinbase(t) == \E u \in CoinbaseTx : Spends(t, u)

\* The result, fLimitFree given.
Accepts(t, limitFree) ==
    /\ Fresh(t)
    /\ HaveInputs(t)
    /\ HaveJoinSplitRequirements(t)
    /\ limitFree => t \notin LowFee
    /\ CheckTxInputs(t)
    /\ t \notin BadTx
    /\ Commits[t] = BranchAt[Height[tip] + 1]

Accepted(t) ==
    addUnchecked(pool, {t}, [u \in Tx |-> [branch |-> BranchAt[Height[tip] + 1],
                                           spendsCoinbase |-> SpendsCoinbase(t)]])

Idle == op = "idle"

\* sendrawtransaction, and the wallet's own transactions.
SendRawTransaction(t) ==
    /\ Idle
    /\ Accepts(t, FALSE)
    /\ pool' = Accepted(t)
    /\ UNCHANGED <<cc, chain, tmp, orphanage, call, undo, handler, unclean>>

-----------------------------------------------------------------------------
(***************************************************************************)
(* The "tx" message and the orphan transactions.                           *)
(***************************************************************************)
\* recentRejects, a Bloom filter, is left out: it only makes the node ignore a
\* transaction, and that a message has no effect is always possible here.
AlreadyHave(t) == t \in In(pool) \/ orphans[t] # NoPeer \/ HaveCoins(best, t)

\* The maps after the transactions of S were taken out (EraseOrphanTx).
OrphansWithout(from, S) == [t \in Tx |-> IF t \in S THEN NoPeer ELSE from[t]]
ByPrevWithout(prev, S) == [u \in Tx |-> prev[u] \ (S \cap Spenders[u])]

EraseOrphanTx(S) ==
    /\ orphans' = OrphansWithout(orphans, S)
    /\ byPrev' = ByPrevWithout(byPrev, S)

\* Slip: nothing is evicted.
AddOrphanTxLate(peer, t) ==
    /\ orphans' = [orphans EXCEPT ![t] = peer]
    /\ byPrev' = [u \in Tx |-> IF Spends(t, u) THEN byPrev[u] \cup {t} ELSE byPrev[u]]

\* AddOrphanTx, then LimitOrphanTxSize, which evicts any of them.
AddOrphanTx(peer, t) ==
    LET from == [orphans EXCEPT ![t] = peer]
        prev == [u \in Tx |-> IF Spends(t, u) THEN byPrev[u] \cup {t} ELSE byPrev[u]]
        held == {u \in Tx : from[u] # NoPeer}
    IN \E S \in SUBSET held :
          /\ Cardinality(S) = IF Cardinality(held) > MaxOrphans
                              THEN Cardinality(held) - MaxOrphans ELSE 0
          /\ orphans' = OrphansWithout(from, S)
          /\ byPrev' = ByPrevWithout(prev, S)

TxAccepted(peer, t) ==
    /\ Idle
    /\ ~AlreadyHave(t) /\ Accepts(t, TRUE)
    /\ pool' = Accepted(t)
    /\ op' = "tx" /\ work' = <<t>> /\ at' = 1 /\ visit' = byPrev[t]
    /\ UNCHANGED <<cc, chain, tmp, orphans, byPrev, target, oldTip, undone, invalid,
                   undo, erase, misbehaving, unclean>>

TxOrphaned(peer, t) ==
    /\ Idle
    /\ ~AlreadyHave(t) /\ MissingInputs(t) /\ ~Shielded(t)
    /\ AddOrphanTx(peer, t)
    /\ UNCHANGED <<cc, chain, pool, tmp, call, undo, handler, unclean>>

\* AcceptToMemoryPool refused the transaction with nDos > 0.
Punished(t) ==
    \/ IsExpiredTx(t, Height[tip])
    \/ /\ Fresh(t) /\ HaveInputs(t) /\ HaveJoinSplitRequirements(t) /\ t \notin LowFee
       /\ \/ \E u \in CoinbaseTx : Spends(t, u) /\ Locked(u, Height[best] + 1)
          \/ CheckTxInputs(t) /\ (t \in BadTx \/ Commits[t] # BranchAt[Height[tip] + 1])

\* One turn of the loop over mapOrphanTransactionsByPrev.
OrphanSkipped(t) ==
    /\ orphans[t] \in misbehaving
    /\ UNCHANGED <<pool, work, erase, misbehaving>>

\* Slip: its own orphans are not looked at.
OrphanAcceptedLast(t) ==
    /\ orphans[t] \notin misbehaving
    /\ Accepts(t, TRUE)
    /\ pool' = Accepted(t)
    /\ erase' = erase \cup {t}
    /\ UNCHANGED <<work, misbehaving>>

OrphanAccepted(t) ==
    /\ orphans[t] \notin misbehaving
    /\ Accepts(t, TRUE)
    /\ pool' = Accepted(t)
    /\ work' = Append(work, t) /\ erase' = erase \cup {t}
    /\ UNCHANGED misbehaving

OrphanRefused(t) ==
    /\ orphans[t] \notin misbehaving
    /\ ~Accepts(t, TRUE) /\ ~MissingInputs(t)
    /\ misbehaving' = misbehaving \cup (IF Punished(t) THEN {orphans[t]} ELSE {})
    /\ erase' = erase \cup {t}
    /\ UNCHANGED <<pool, work>>

OrphanWaits(t) ==
    /\ orphans[t] \notin misbehaving
    /\ MissingInputs(t)
    /\ UNCHANGED <<pool, work, erase, misbehaving>>

VisitOrphan(t) ==
    /\ op = "tx" /\ t \in visit
    /\ OrphanSkipped(t) \/ OrphanAccepted(t) \/ OrphanRefused(t) \/ OrphanWaits(t)
    /\ visit' = visit \ {t}
    /\ UNCHANGED <<cc, chain, tmp, orphanage, call, undo, at, unclean>>

NextInWorkQueue ==
    /\ op = "tx" /\ visit = {} /\ at < Len(work)
    /\ at' = at + 1 /\ visit' = byPrev[work[at + 1]]
    /\ UNCHANGED <<cc, chain, pool, tmp, orphanage, call, undo, work, erase, misbehaving,
                   unclean>>

TxDone ==
    /\ op = "tx" /\ visit = {} /\ at = Len(work)
    /\ EraseOrphanTx(erase)
    /\ op' = "idle" /\ work' = << >> /\ at' = 0 /\ erase' = {} /\ misbehaving' = {}
    /\ UNCHANGED <<cc, chain, pool, tmp, target, oldTip, undone,
                   invalid, undo, visit, unclean>>

\* FinalizeNode: EraseOrphansFor
FinalizeNode(peer) ==
    /\ Idle
    /\ \E t \in Tx : orphans[t] = peer
    /\ EraseOrphanTx({t \in Tx : orphans[t] = peer})
    /\ UNCHANGED <<cc, chain, pool, tmp, call, undo, handler, unclean>>

-----------------------------------------------------------------------------
(***************************************************************************)
(* DisconnectTip, ConnectTip and the calls around them.                    *)
(***************************************************************************)
Start(kind, b) ==
    /\ Idle
    /\ op' = kind /\ target' = b /\ oldTip' = tip
    /\ UNCHANGED <<cc, chain, pool, tmp, orphanage, undone, invalid, undo, handler, unclean>>

Release ==
    /\ op' = "idle" /\ target' = Genesis /\ oldTip' = Genesis
    /\ undone' = FALSE /\ invalid' = FALSE

ActivateBestChainStep(b) == ChainWork[b] > ChainWork[tip] /\ Start("step", b)

InvalidateBlock(b) == b \in Path[tip] \ {Genesis} /\ Start("invalidate", b)

Disconnecting ==
    /\ undo = 0
    /\ \/ op = "step" /\ tip \notin Path[target]
       \/ op = "invalidate" /\ target \in Path[tip]

\* DisconnectTip: the coins are rolled back first.
DisconnectTip ==
    /\ Disconnecting
    /\ best' = Parent[tip] /\ undo' = 1
    /\ UNCHANGED <<cc, tip, pool, tmp, orphanage, call, handler, unclean>>

\* One transaction of the block goes back to the pool, or takes what depends
\* on it along.
Resurrect ==
    /\ undo \in DOMAIN vtx[tip]
    /\ LET t == vtx[tip][undo]
       IN pool' = IF t \notin CoinbaseTx \cup StakeTx /\ Accepts(t, FALSE)
                  THEN Accepted(t) ELSE remove(pool, {t})
    /\ undo' = undo + 1
    /\ UNCHANGED <<cc, chain, tmp, orphanage, call, handler, unclean>>

DisconnectDone ==
    /\ undo = Len(vtx[tip]) + 1
    /\ pool' = IF Root[tip] # Root[Parent[tip]]
               THEN removeWithAnchor(pool, Root[tip]) ELSE pool
    /\ tip' = Parent[tip] /\ undo' = 0 /\ undone' = TRUE
    /\ UNCHANGED <<cc, best, tmp, orphanage, op, target, oldTip, invalid, handler, unclean>>

\* CheckBlock when cc: the pool's transparent transactions wait in tmpmempool
\* while those of the block are in the pool, unchecked.
CheckBlockTxs(b) == {t \in TxsOf[b] : t \notin CoinbaseTx \cup StakeTx /\ ~Shielded(t)}

Moved == {t \in In(pool) : ~Shielded(t)}

BlockInPool(b) ==
    LET e == [branch |-> BranchAt[Height[tip] + 1], spendsCoinbase |-> FALSE]
        p == Without(pool, Moved)
    IN addUnchecked(p, CheckBlockTxs(b) \ In(p), [t \in Tx |-> e])

\* Slip: starts with an empty tmpmempool, although CheckBlock may have returned.
TmpFresh(b) ==
    [t \in Tx |-> IF t \in Moved \ CheckBlockTxs(b) THEN pool.tx[t] ELSE NoEntry]

TmpWithout(b) ==
    [t \in Tx |-> IF t \in CheckBlockTxs(b) THEN NoEntry
                  ELSE IF t \in Moved /\ tmp[t] = NoEntry THEN pool.tx[t] ELSE tmp[t]]

AddedBack(b) ==
    addUnchecked(BlockInPool(b), {t \in Tx : TmpWithout(b)[t] # NoEntry}, TmpWithout(b))

Better == tip = target \/ ChainWork[tip] > ChainWork[oldTip]

Connecting == op = "step" /\ undo = 0 /\ tip \in Path[target] /\ ~Better /\ ~invalid

NextBlock == GetAncestor(target, Height[tip] + 1)

ConnectTip ==
    /\ Connecting
    /\ NextBlock \in Valid
    /\ LET p == IF cc THEN AddedBack(NextBlock) ELSE pool
       IN pool' = removeExpired(removeForBlock(p, TxsOf[NextBlock]), Height[NextBlock])
    /\ tmp' = IF cc THEN [t \in Tx |-> NoEntry] ELSE tmp
    /\ tip' = NextBlock /\ best' = NextBlock
    /\ UNCHANGED <<cc, orphanage, call, undo, handler, unclean>>

\* A block is refused: CheckBlock returns before, ConnectBlock after the
\* transactions are put back.
CheckBlockRefuses(b) == cc /\ pool' = BlockInPool(b) /\ tmp' = TmpWithout(b)

ConnectBlockRefuses(b) == cc /\ pool' = AddedBack(b) /\ tmp' = [t \in Tx |-> NoEntry]

ConnectTipInvalid ==
    /\ Connecting
    /\ NextBlock \notin Valid
    /\ \/ ~cc /\ UNCHANGED <<pool, tmp>>
       \/ NextBlock \in CheckFails /\ CheckBlockRefuses(NextBlock)
       \/ NextBlock \notin CheckFails /\ ConnectBlockRefuses(NextBlock)
    /\ invalid' = TRUE
    /\ UNCHANGED <<cc, chain, orphanage, op, target, oldTip, undone, undo, handler, unclean>>

\* Slip: only after a disconnect.
CleanedAfterReorg ==
    IF undone THEN removeWithoutBranchId(removeForReorg(pool, tip), BranchAt[Height[tip] + 1])
              ELSE pool

Cleaned ==
    removeWithoutBranchId(IF undone THEN removeForReorg(pool, tip) ELSE pool,
                          BranchAt[Height[tip] + 1])

StepEnd ==
    /\ op = "step" /\ undo = 0 /\ (Better \/ invalid)
    /\ pool' = Cleaned
    /\ unclean' = (unclean /\ ~undone)
    /\ Release
    /\ UNCHANGED <<cc, chain, tmp, orphanage, undo, handler>>

\* DisconnectTip or ConnectTip failed, and not because the block is invalid: a
\* file cannot be read, or CheckBlock returns false without a reason
\* (komodo_check_deposit), or true for a block of the future.
StepFails ==
    /\ op = "step" /\ undo = 0
    /\ \/ (Disconnecting \/ Connecting) /\ UNCHANGED <<pool, tmp>>
       \/ /\ Connecting /\ NextBlock \in Deferred
          /\ CheckBlockRefuses(NextBlock) \/ ConnectBlockRefuses(NextBlock)
    /\ unclean' = (unclean \/ undone)
    /\ Release
    /\ UNCHANGED <<cc, chain, orphanage, undo, handler>>

\* InvalidateBlock ends, or one of its DisconnectTip fails.
InvalidateEnd ==
    /\ op = "invalidate" /\ undo = 0
    /\ pool' = removeWithoutBranchId(removeForReorg(pool, tip), BranchAt[Height[tip] + 1])
    /\ unclean' = FALSE
    /\ Release
    /\ UNCHANGED <<cc, chain, tmp, orphanage, undo, handler>>

\* The "txnotify" thread; it takes mempool.cs only.
NotifyRecentlyAdded ==
    /\ pool.recent # {}
    /\ pool' = [tx |-> pool.tx, next |-> pool.next, nf |-> pool.nf,
                recent |-> {}, size |-> pool.size]
    /\ UNCHANGED <<cc, chain, tmp, orphanage, call, undo, handler, unclean>>

Init ==
    /\ cc \in BOOLEAN
    /\ tip = Genesis /\ best = Genesis
    /\ pool = EmptyPool
    /\ tmp = [t \in Tx |-> NoEntry]
    /\ orphans = [t \in Tx |-> NoPeer] /\ byPrev = [t \in Tx |-> {}]
    /\ op = "idle" /\ target = Genesis /\ oldTip = Genesis
    /\ undone = FALSE /\ invalid = FALSE /\ undo = 0
    /\ work = << >> /\ at = 0 /\ visit = {} /\ erase = {} /\ misbehaving = {}
    /\ unclean = FALSE

Next ==
    \/ \E t \in Sent : SendRawTransaction(t)
    \/ \E t \in Tx : VisitOrphan(t)
    \/ \E t \in Relayed, p \in Peer : TxAccepted(p, t) \/ TxOrphaned(p, t)
    \/ NextInWorkQueue \/ TxDone
    \/ \E p \in Peer : FinalizeNode(p)
    \/ \E b \in Block : ActivateBestChainStep(b) \/ InvalidateBlock(b)
    \/ DisconnectTip \/ Resurrect \/ DisconnectDone
    \/ ConnectTip \/ ConnectTipInvalid
    \/ StepEnd \/ StepFails \/ InvalidateEnd
    \/ NotifyRecentlyAdded

Spec == Init /\ [][Next]_vars

-----------------------------------------------------------------------------
\* The variables hold what the code can put there, and between two calls the
\* coins are those of the tip: only DisconnectTip has rolled them back first.
\* mapRecentlyAddedTx, which points into mapTx, has no transaction that left
\* the pool, and totalTxSize counts each one of the pool once.
TypeOK ==
    /\ cc \in BOOLEAN
    /\ tip \in Valid /\ best \in Valid
    /\ pool.tx \in [Tx -> Entry \cup {NoEntry}]
    /\ pool.next \in [Outpoint -> Tx \cup {NoTx}]
    /\ pool.nf \in [Nullifier -> Tx \cup {NoTx}]
    /\ tmp \in [Tx -> Entry \cup {NoEntry}]
    /\ orphans \in [Tx -> Peer \cup {NoPeer}] /\ byPrev \in [Tx -> SUBSET Tx]
    /\ op \in {"idle", "tx", "step", "invalidate"}
    /\ target \in Block /\ oldTip \in Block
    /\ undone \in BOOLEAN /\ invalid \in BOOLEAN /\ unclean \in BOOLEAN
    /\ undo \in 0 .. Len(vtx[tip]) + 1
    /\ best = IF undo = 0 THEN tip ELSE Parent[tip]
    /\ work \in Seq(Tx) /\ at \in 0 .. Len(work)
    /\ visit \subseteq Tx /\ erase \subseteq Tx /\ misbehaving \subseteq Peer
    /\ pool.recent \subseteq In(pool) /\ pool.size = Cardinality(In(pool))

\* CTxMemPool::check, inputs: every input of a transaction in the pool is an
\* output of another one in the pool or an unspent coin.  DisconnectTip makes
\* it false in between, for the outputs of the transactions it has not yet put
\* back or removed.
StillToUndo == IF undo = 0 THEN {} ELSE {vtx[tip][i] : i \in {j \in DOMAIN vtx[tip] : j >= undo}}
InputsAvailable ==
    ~cc => Ins(In(pool)) \subseteq Outs(In(pool)) \cup Unspent[best] \cup Outs(StillToUndo)

\* CTxMemPool::check, mapNextTx: it has exactly the inputs of the transactions
\* in the pool, whichever way they came and went, so no two of them spend the
\* same output.  At every moment that a thread with mempool.cs can see.
NextExact(p) ==
    /\ \A t \in In(p) : \A o \in vin[t] : p.next[o] = t
    /\ \A o \in Outpoint : p.next[o] # NoTx => o \in Ins(In(p))
SpendersExact == ~cc => NextExact(pool)

\* CTxMemPool::check, joinsplits and shielded spends: the nullifier maps have
\* exactly the nullifiers of the pool; none is spent in the chain, and every
\* anchor is a commitment tree of the chain (while DisconnectTip is at work, of
\* the chain with the block).  On CC chains too: CheckBlock leaves these
\* transactions where they are.
NullifiersExact(p) ==
    /\ \A t \in In(p) : \A n \in Nullifiers[t] : p.nf[n] = t
    /\ \A n \in Nullifier : p.nf[n] # NoTx => n \in Nfs(In(p))
ShieldedValid ==
    /\ NullifiersExact(pool)
    /\ \A t \in In(pool) :
          /\ Nullifiers[t] \cap SpentNfs[best] = {}
          /\ Anchor[t] # NoRoot => Anchor[t] \in Anchors[tip]

\* The inductive invariant behind the three.  The active chain has been checked
\* block by block: its transactions spend outputs of its transactions.  What
\* CheckBlock puts aside is transparent.
ChainSound ==
    /\ tip \in Block /\ Path[tip] \subseteq Valid
    /\ undo \in Nat /\ (undo # 0 => tip # Genesis)
    /\ best = IF undo = 0 THEN tip ELSE Parent[tip]
    /\ target \in Block /\ (op = "invalidate" => target # Genesis)
    /\ \A b \in Path[tip] : Ins(ChainTxs[b]) \subseteq Outs(ChainTxs[b])
PoolInv ==
    /\ ChainSound
    /\ \A t \in Tx : tmp[t] # NoEntry => ~Shielded(t)
    /\ SpendersExact /\ InputsAvailable /\ ShieldedValid

\* When no call is in progress a transaction of the pool is final for the next
\* block, signed for the branch of the next block, and not expired at the tip,
\* unless a reorganisation has failed half-way.
PoolMinable ==
    Idle /\ ~cc /\ ~unclean =>
        \A t \in In(pool) :
            /\ IsFinalTx(t, Height[tip] + 1)
            /\ Commits[t] = BranchAt[Height[tip] + 1]
            /\ ~IsExpiredTx(t, Height[tip])

\* mapOrphanTransactionsByPrev finds every orphan by each of its parents and
\* nothing else (the loop of the "tx" message would make an empty orphan of
\* it), and the orphans are never more than -maxorphantx.
OrphansIndexed ==
    LET held == {t \in Tx : orphans[t] # NoPeer}
    IN /\ Cardinality(held) <= MaxOrphans
       /\ \A u \in Tx : byPrev[u] = held \cap Spenders[u]

\* "Recursively process any orphan transactions that depended on this one":
\* when the loop ends, no orphan with a parent among the transactions accepted
\* in this call could be accepted, except those of peers that misbehaved.
OrphansResolved ==
    op = "tx" /\ visit = {} /\ at = Len(work) =>
        \A t \in Tx \ erase :
            (/\ orphans[t] \notin misbehaving \cup {NoPeer}
             /\ \E i \in 1 .. Len(work) : Spends(t, work[i]))
            => ~Accepts(t, TRUE)

\* The inductive invariant of the orphans.  An orphan of a peer in good standing
\* that has a parent among the entries looked at so far and none among the others
\* (LookedAt) still lacks an input.
Undoing == undo # 0 \/ undone => op \in {"step", "invalidate"}
LookedAt(t) ==
    /\ t \notin visit \cup erase
    /\ orphans[t] \notin misbehaving \cup {NoPeer}
    /\ \E i \in 1 .. at : Spends(t, work[i])
    /\ \A i \in at + 1 .. Len(work) : ~Spends(t, work[i])
OrphansInv ==
    /\ orphans \in [Tx -> Peer \cup {NoPeer}] /\ byPrev \in [Tx -> SUBSET Tx]
    /\ IsFiniteSet({t \in Tx : orphans[t] # NoPeer}) /\ OrphansIndexed
    /\ work \in Seq(Tx) /\ at \in 0 .. Len(work) /\ Undoing
    /\ op = "tx" => \A t \in Tx : LookedAt(t) => ~HaveInputs(t)

\* The inductive invariant behind PoolMinable.  A step that has disconnected
\* nothing yet has not moved, or has connected a better tip and will end.
StepMoves ==
    (op = "step" /\ ~undone) =>
        tip = oldTip \/ (tip \in Path[target] /\ ChainWork[tip] > ChainWork[oldTip])
MinableEntry(t) ==
    /\ pool.tx[t].branch = Commits[t] /\ ~IsExpiredTx(t, Height[tip])
    /\ (~unclean /\ ~undone) => IsFinalTx(t, Height[tip] + 1)
    /\ (~unclean /\ ~undone /\ (op \in {"idle", "tx"} \/ tip = oldTip))
           => Commits[t] = BranchAt[Height[tip] + 1]
MinableInv == StepMoves /\ (~cc => \A t \in In(pool) : MinableEntry(t))

\* The three together.
MempoolInv == TypeOK /\ OrphansInv /\ MinableInv

\* A block that ConnectTip does not connect, because CheckBlock returns between
\* the two halves of the swap or ConnectBlock after it, makes no transaction
\* disappear: it is in the pool or waits in tmpmempool for the next CheckBlock.
Held == In(pool) \cup {t \in Tx : tmp[t] # NoEntry}
RefusedBlockLosesNothing == [][Connecting /\ tip' = tip => Held \subseteq Held']_vars

\* Every coinbase that a transaction of the pool spends is mature in the next
\* block, as the comments of removeForReorg and AcceptToMemoryPool say.
SpendsMature ==
    Idle /\ ~cc /\ ~unclean =>
        \A t \in In(pool), u \in CoinbaseTx :
            Spends(t, u) => ~Immature(tip, u, Height[tip] + 1)
=============================================================================
