--------------------------- MODULE MempoolProofs ---------------------------
(***************************************************************************)
(* Proofs about Mempool, for every block tree and all transactions: what   *)
(* CTxMemPool::check asserts is true at every moment, the maps of the      *)
(* orphans agree and no orphan is forgotten, and what the pool holds       *)
(* between two calls can be mined.                                         *)
(***************************************************************************)
EXTENDS Mempool, BlockTreeProofs, FiniteSetTheorems, TLAPS

\* Zenon is the default; the steps that need arithmetic, records or functions name SMT.
USE ZenonT(40)

----------------------------------------------------------------------------
(***************************************************************************)
(* The maps of CTxMemPool.                                                 *)
(***************************************************************************)
\* What remove without fRecursive leaves in each of the maps.
LEMMA WithoutFields ==
    ASSUME NEW p, NEW S
    PROVE  /\ In(Without(p, S)) = In(p) \ S
           /\ \A o \in Outpoint : Without(p, S).next[o] =
                  IF o \in Ins(S \cap In(p)) THEN NoTx ELSE p.next[o]
           /\ \A n \in Nullifier : Without(p, S).nf[n] =
                  IF n \in Nfs(S \cap In(p)) THEN NoTx ELSE p.nf[n]
  <1>. DEFINE gone == S \cap In(p)
              tx == [t \in Tx |-> IF t \in gone THEN NoEntry ELSE p.tx[t]]
  <1>1. /\ Without(p, S).tx = tx
        /\ Without(p, S).next = [o \in Outpoint |-> IF o \in Ins(gone) THEN NoTx ELSE p.next[o]]
        /\ Without(p, S).nf = [n \in Nullifier |-> IF n \in Nfs(gone) THEN NoTx ELSE p.nf[n]]
    BY DEF Without
  <1>2. \A t \in Tx : tx[t] # NoEntry <=> t \notin gone /\ p.tx[t] # NoEntry
    OBVIOUS
  <1>3. In(Without(p, S)) = {t \in Tx : tx[t] # NoEntry}
    BY <1>1 DEF In
  <1>. HIDE DEF tx
  <1>4. In(Without(p, S)) = In(p) \ S
    BY <1>2, <1>3 DEF In
  <1>. QED
    BY <1>1, <1>4

\* mapNextTx and the nullifier maps stay exact when transactions are removed.
LEMMA WithoutExact ==
    ASSUME NEW p, NEW S
    PROVE  /\ NextExact(p) => NextExact(Without(p, S))
           /\ NullifiersExact(p) => NullifiersExact(Without(p, S))
  <1>. DEFINE q == Without(p, S)
  <1>1. /\ In(q) = In(p) \ S
        /\ \A o \in Outpoint : q.next[o] = IF o \in Ins(S \cap In(p)) THEN NoTx ELSE p.next[o]
        /\ \A n \in Nullifier : q.nf[n] = IF n \in Nfs(S \cap In(p)) THEN NoTx ELSE p.nf[n]
    BY SMTT(30), WithoutFields
  <1>2. In(p) \subseteq Tx
    BY DEF In
  <1>. HIDE DEF q
  <1>3. ASSUME NextExact(p)
        PROVE  NextExact(q)
    <2>1. ASSUME NEW t \in In(q), NEW o \in vin[t]
          PROVE  q.next[o] = t
      <3>1. o \in Outpoint /\ p.next[o] = t
        BY <1>1, <1>2, <1>3, <2>1, TxAssumption DEF NextExact
      <3>2. o \notin Ins(S \cap In(p))
        BY SMT, <1>1, <1>3, <2>1, <3>1 DEF NextExact, Ins
      <3>. QED
        BY <1>1, <3>1, <3>2
    <2>2. ASSUME NEW o \in Outpoint, q.next[o] # NoTx
          PROVE  o \in Ins(In(q))
      <3>1. o \notin Ins(S \cap In(p)) /\ p.next[o] # NoTx
        BY <1>1, <2>2
      <3>2. PICK t \in In(p) : o \in vin[t]
        BY SMT, <1>3, <3>1 DEF NextExact, Ins
      <3>3. t \notin S
        BY <3>1, <3>2 DEF Ins
      <3>. QED
        BY <1>1, <3>2, <3>3 DEF Ins
    <2>. QED
      BY <2>1, <2>2 DEF NextExact
  <1>4. ASSUME NullifiersExact(p)
        PROVE  NullifiersExact(q)
    <2>1. ASSUME NEW t \in In(q), NEW n \in Nullifiers[t]
          PROVE  q.nf[n] = t
      <3>1. n \in Nullifier /\ p.nf[n] = t
        BY <1>1, <1>2, <1>4, <2>1, TxAssumption DEF NullifiersExact
      <3>2. n \notin Nfs(S \cap In(p))
        BY SMT, <1>1, <1>4, <2>1, <3>1 DEF NullifiersExact, Nfs
      <3>. QED
        BY <1>1, <3>1, <3>2
    <2>2. ASSUME NEW n \in Nullifier, q.nf[n] # NoTx
          PROVE  n \in Nfs(In(q))
      <3>1. n \notin Nfs(S \cap In(p)) /\ p.nf[n] # NoTx
        BY <1>1, <2>2
      <3>2. PICK t \in In(p) : n \in Nullifiers[t]
        BY SMT, <1>4, <3>1 DEF NullifiersExact, Nfs
      <3>3. t \notin S
        BY <3>1, <3>2 DEF Nfs
      <3>. QED
        BY <1>1, <3>2, <3>3 DEF Nfs
    <2>. QED
      BY <2>1, <2>2 DEF NullifiersExact
  <1>. QED
    BY <1>3, <1>4 DEF q

\* The transactions that remove with fRecursive takes out: those it is given,
\* and with each of them the ones that spend its outputs.
LEMMA FamilyClosed ==
    ASSUME NEW p, NextExact(p), NEW S \in SUBSET Tx
    PROVE  /\ S \subseteq Family(p, S) /\ Family(p, S) \subseteq Tx
           /\ \A t \in Family(p, S) : \A u \in In(p) :
                  vout[t] \cap vin[u] # {} => u \in Family(p, S)
  <1>. DEFINE all == S \cup In(p)
              Closed(C) == S \subseteq C /\ Children(p, C) \subseteq C
  <1>1. In(p) \subseteq Tx
    BY DEF In
  <1>2. Family(p, S) = {t \in all : \A C \in SUBSET all : Closed(C) => t \in C}
    BY DEF Family
  <1>3. ASSUME NEW t \in Family(p, S), NEW u \in In(p), vout[t] \cap vin[u] # {}
        PROVE  u \in Family(p, S)
    <2>1. PICK o : o \in vout[t] /\ o \in vin[u]
      BY <1>3
    <2>2. p.next[o] = u /\ u # NoTx
      BY <1>1, <1>3, <2>1, TxAssumption DEF NextExact
    <2>3. ASSUME NEW C \in SUBSET all, Closed(C)
          PROVE  u \in C
      <3>1. t \in C
        BY <1>2, <1>3, <2>3
      <3>2. u \in Children(p, C)
        BY <2>1, <2>2, <3>1 DEF Children, Outs
      <3>. QED
        BY <2>3, <3>2
    <2>. QED
      BY <1>2, <1>3, <2>3
  <1>. QED
    BY <1>1, <1>2, <1>3

\* A pool is sound over a set of coins: mapNextTx is exact, and every input is
\* among the coins or an output of the pool (CTxMemPool::check).
PoolSound(p, coins) == NextExact(p) /\ Ins(In(p)) \subseteq Outs(In(p)) \cup coins

\* remove with fRecursive makes a pool sound: the outputs of the transactions
\* removed are not needed any more, even of those that were not in the pool,
\* and their own inputs need not have been available.
LEMMA RemoveSound ==
    ASSUME NEW p, NEW S \in SUBSET Tx, NEW coins, NextExact(p),
           Ins(In(p) \ S) \subseteq Outs(In(p)) \cup (coins \cup Outs(S))
    PROVE  /\ PoolSound(remove(p, S), coins)
           /\ In(remove(p, S)) \subseteq In(p) \ S
  <1>. DEFINE F == Family(p, S)
              q == remove(p, S)
  <1>2. /\ S \subseteq F /\ F \subseteq Tx
        /\ \A t \in F : \A u \in In(p) : vout[t] \cap vin[u] # {} => u \in F
    BY FamilyClosed
  <1>3. In(q) = In(p) \ F /\ NextExact(q)
    BY WithoutFields, WithoutExact DEF remove
  <1>. HIDE DEF F, q
  <1>4. ASSUME NEW u \in In(q), NEW o \in vin[u]
        PROVE  o \in Outs(In(q)) \cup coins
    <2>1. o \in Outs(In(p)) \cup (coins \cup Outs(S))
      BY <1>2, <1>3, <1>4 DEF Ins
    <2>2. ASSUME NEW t \in F PROVE o \notin vout[t]
      BY <1>2, <1>3, <1>4
    <2>3. o \notin Outs(S)
      BY <1>2, <2>2 DEF Outs
    <2>4. o \in Outs(In(p)) => o \in Outs(In(q))
      BY <1>3, <2>2 DEF Outs
    <2>. QED
      BY <2>1, <2>3, <2>4
  <1>5. Ins(In(q)) \subseteq Outs(In(q)) \cup coins
    BY <1>4 DEF Ins
  <1>. QED
    BY <1>2, <1>3, <1>5 DEF PoolSound, q

\* What the removals do to the nullifier maps; no transaction comes in.
LEMMA RemoveShielded ==
    ASSUME NEW p, NEW S
    PROVE  /\ NullifiersExact(p) => NullifiersExact(remove(p, S))
           /\ In(remove(p, S)) \subseteq In(p) \ S
  <1>1. In(remove(p, S)) = In(p) \ Family(p, S)
    BY WithoutFields DEF remove
  <1>2. In(p) \cap S \subseteq Family(p, S)
    BY DEF Family
  <1>. QED
    BY <1>1, <1>2, WithoutExact DEF remove

\* addUnchecked of one transaction.
LEMMA AddFields ==
    ASSUME NEW p, NEW t \in Tx, NEW e \in Entry, p.tx[t] = NoEntry
    PROVE  LET q == addUnchecked(p, {t}, [u \in Tx |-> e])
           IN  /\ In(q) = In(p) \cup {t}
               /\ \A o \in Outpoint : q.next[o] = IF o \in vin[t] THEN t ELSE p.next[o]
               /\ \A n \in Nullifier : q.nf[n] = IF n \in Nullifiers[t] THEN t ELSE p.nf[n]
  <1>. DEFINE q == addUnchecked(p, {t}, [u \in Tx |-> e])
              tx == [u \in Tx |-> IF u \in {t} /\ p.tx[u] = NoEntry
                                  THEN [v \in Tx |-> e][u] ELSE p.tx[u]]
  <1>1. /\ q.tx = tx
        /\ q.next = [o \in Outpoint |-> IF o \in Ins({t})
                        THEN CHOOSE u \in {t} : o \in vin[u] ELSE p.next[o]]
        /\ q.nf = [n \in Nullifier |-> IF n \in Nfs({t})
                        THEN CHOOSE u \in {t} : n \in Nullifiers[u] ELSE p.nf[n]]
    BY DEF addUnchecked
  <1>2. e # NoEntry
    BY TxAssumption
  <1>3. \A u \in Tx : tx[u] # NoEntry <=> u = t \/ p.tx[u] # NoEntry
    BY <1>2
  <1>4. In(q) = {u \in Tx : tx[u] # NoEntry}
    BY <1>1 DEF In
  <1>. HIDE DEF tx, q
  <1>5. In(q) = In(p) \cup {t}
    BY <1>3, <1>4 DEF In
  <1>6. Ins({t}) = vin[t] /\ Nfs({t}) = Nullifiers[t]
    BY DEF Ins, Nfs
  <1>7. \A o \in vin[t] : (CHOOSE u \in {t} : o \in vin[u]) = t
    OBVIOUS
  <1>8. \A n \in Nullifiers[t] : (CHOOSE u \in {t} : n \in Nullifiers[u]) = t
    OBVIOUS
  <1>9. \A o \in Outpoint : q.next[o] = IF o \in vin[t] THEN t ELSE p.next[o]
    BY <1>1, <1>6, <1>7
  <1>10. \A n \in Nullifier : q.nf[n] = IF n \in Nullifiers[t] THEN t ELSE p.nf[n]
    BY <1>1, <1>6, <1>8
  <1>. QED
    BY <1>5, <1>9, <1>10 DEF q

\* The maps stay exact when a transaction comes in that spends nothing which a
\* transaction of the pool spends.
LEMMA AddExact ==
    ASSUME NEW p, NEW t \in Tx, NEW e \in Entry, p.tx[t] = NoEntry
    PROVE  LET q == addUnchecked(p, {t}, [u \in Tx |-> e])
           IN  /\ NextExact(p) /\ (\A o \in vin[t] : p.next[o] = NoTx) => NextExact(q)
               /\ NullifiersExact(p) /\ (\A n \in Nullifiers[t] : p.nf[n] = NoTx)
                      => NullifiersExact(q)
  <1>. DEFINE q == addUnchecked(p, {t}, [u \in Tx |-> e])
  <1>1. /\ In(q) = In(p) \cup {t}
        /\ \A o \in Outpoint : q.next[o] = IF o \in vin[t] THEN t ELSE p.next[o]
        /\ \A n \in Nullifier : q.nf[n] = IF n \in Nullifiers[t] THEN t ELSE p.nf[n]
    BY AddFields
  <1>2. In(p) \subseteq Tx
    BY DEF In
  <1>. HIDE DEF q
  <1>3. ASSUME NextExact(p), \A o \in vin[t] : p.next[o] = NoTx
        PROVE  NextExact(q)
    <2>1. ASSUME NEW u \in In(q), NEW o \in vin[u]
          PROVE  q.next[o] = u
      <3>1. o \in Outpoint
        BY <1>1, <1>2, <2>1, TxAssumption
      <3>2. CASE u = t
        BY <1>1, <2>1, <3>1, <3>2
      <3>3. CASE u # t
        <4>1. u \in In(p) /\ p.next[o] = u /\ u # NoTx
          BY <1>1, <1>2, <1>3, <2>1, <3>3, TxAssumption DEF NextExact
        <4>. QED
          BY <1>1, <1>3, <3>1, <4>1
      <3>. QED
        BY <3>2, <3>3
    <2>2. ASSUME NEW o \in Outpoint, q.next[o] # NoTx
          PROVE  o \in Ins(In(q))
      BY <1>1, <1>3, <2>2 DEF NextExact, Ins
    <2>. QED
      BY <2>1, <2>2 DEF NextExact
  <1>4. ASSUME NullifiersExact(p), \A n \in Nullifiers[t] : p.nf[n] = NoTx
        PROVE  NullifiersExact(q)
    <2>1. ASSUME NEW u \in In(q), NEW n \in Nullifiers[u]
          PROVE  q.nf[n] = u
      <3>1. n \in Nullifier
        BY <1>1, <1>2, <2>1, TxAssumption
      <3>2. CASE u = t
        BY <1>1, <2>1, <3>1, <3>2
      <3>3. CASE u # t
        <4>1. u \in In(p) /\ p.nf[n] = u /\ u # NoTx
          BY <1>1, <1>2, <1>4, <2>1, <3>3, TxAssumption DEF NullifiersExact
        <4>. QED
          BY <1>1, <1>4, <3>1, <4>1
      <3>. QED
        BY <3>2, <3>3
    <2>2. ASSUME NEW n \in Nullifier, q.nf[n] # NoTx
          PROVE  n \in Nfs(In(q))
      BY <1>1, <1>4, <2>2 DEF NullifiersExact, Nfs
    <2>. QED
      BY <2>1, <2>2 DEF NullifiersExact
  <1>. QED
    BY <1>3, <1>4 DEF q

----------------------------------------------------------------------------
(***************************************************************************)
(* The coins, nullifiers and commitment trees of a chain and its parent.   *)
(***************************************************************************)
\* The transactions of a block, as a set.
LEMMA BlockTxs == \A b \in Block : TxsOf[b] \subseteq Tx
  <1>1. \A b \in Block : vtx[b] \in Seq(Tx)
    BY TxAssumption
  <1>2. \A b \in Block : \A i \in DOMAIN vtx[b] : vtx[b][i] \in Tx
    BY SMT, <1>1
  <1>. QED
    BY <1>2 DEF TxsOf

\* A block adds its transactions to those of the chain (UpdateCoins).
LEMMA ChainGrows ==
    ASSUME NEW b \in Block, b # Genesis
    PROVE  /\ ChainTxs[b] = ChainTxs[Parent[b]] \cup TxsOf[b]
           /\ Unspent[b] \subseteq Unspent[Parent[b]] \cup Outs(TxsOf[b])
           /\ SpentNfs[b] = SpentNfs[Parent[b]] \cup Nfs(TxsOf[b])
           /\ Anchors[b] = Anchors[Parent[b]] \cup {Root[b]}
           /\ Root[Parent[b]] \in Anchors[Parent[b]]
  <1>1. Parent[b] \in Block /\ Path[b] = Path[Parent[b]] \cup {b} /\ Parent[b] \in Path[Parent[b]]
    BY PathParent
  <1>2. \A c \in Block : ChainTxs[c] = UNION {TxsOf[a] : a \in Path[c]}
    BY DEF ChainTxs
  <1>3. ChainTxs[b] = ChainTxs[Parent[b]] \cup TxsOf[b]
    BY SMTT(30), <1>1, <1>2
  <1>4. \A c \in Block : /\ Unspent[c] = Outs(ChainTxs[c]) \ Ins(ChainTxs[c])
                         /\ SpentNfs[c] = Nfs(ChainTxs[c])
                         /\ Anchors[c] = {Root[a] : a \in Path[c]}
    BY DEF Unspent, SpentNfs, Anchors
  <1>5. Unspent[b] \subseteq Unspent[Parent[b]] \cup Outs(TxsOf[b])
    BY SMTT(30), <1>1, <1>3, <1>4 DEF Outs, Ins
  <1>6. SpentNfs[b] = SpentNfs[Parent[b]] \cup Nfs(TxsOf[b])
    BY SMTT(30), <1>1, <1>3, <1>4 DEF Nfs
  <1>7. Anchors[b] = Anchors[Parent[b]] \cup {Root[b]} /\ Root[Parent[b]] \in Anchors[Parent[b]]
    BY SMTT(30), <1>1, <1>4
  <1>. QED
    BY <1>3, <1>5, <1>6, <1>7

\* An output is unspent after a block if the chain has made it, it was unspent
\* or did not exist before, and the block does not spend it.
LEMMA StaysUnspent ==
    ASSUME NEW b \in Valid, b # Genesis, NEW o,
           Ins(ChainTxs[Parent[b]]) \subseteq Outs(ChainTxs[Parent[b]]),
           o \in Unspent[Parent[b]] \cup Outs(TxsOf[b]), o \notin Ins(TxsOf[b])
    PROVE  o \in Unspent[b]
  <1>1. b \in Block /\ Parent[b] \in Block /\ TxsOf[b] \subseteq Tx
    BY PathParent, BlockTxs DEF Valid
  <1>2. /\ Unspent[b] = Outs(ChainTxs[b]) \ Ins(ChainTxs[b])
        /\ Unspent[Parent[b]] = Outs(ChainTxs[Parent[b]]) \ Ins(ChainTxs[Parent[b]])
    BY <1>1 DEF Unspent
  <1>3. ChainTxs[b] = ChainTxs[Parent[b]] \cup TxsOf[b]
    BY <1>1, ChainGrows
  <1>4. TxsOf[b] \cap ChainTxs[Parent[b]] = {} /\ ChainTxs[Parent[b]] \subseteq Tx
    <2>1. TxsOf[b] \cap ChainTxs[Parent[b]] = {}
      BY ValidBlocks
    <2>2. Path[Parent[b]] \subseteq Block
      BY <1>1, PathParent
    <2>3. ChainTxs[Parent[b]] \subseteq Tx
      BY <1>1, <2>2, BlockTxs DEF ChainTxs
    <2>. QED
      BY <2>1, <2>3
  <1>5. Outs(TxsOf[b]) \cap Outs(ChainTxs[Parent[b]]) = {}
    BY SMTT(30), <1>1, <1>4, TxAssumption DEF Outs
  <1>6. o \notin Ins(ChainTxs[Parent[b]])
    BY <1>2, <1>5
  <1>7. o \in Outs(ChainTxs[b]) /\ o \notin Ins(ChainTxs[b])
    BY SMTT(30), <1>2, <1>3, <1>6 DEF Outs, Ins
  <1>. QED
    BY <1>2, <1>7

\* When a block is connected its transactions leave the pool, and so does what
\* is in conflict with them, with all that depends on it (removeForBlock).
LEMMA ForBlockSound ==
    ASSUME NEW p, NEW b \in Valid, b # Genesis,
           PoolSound(p, Unspent[Parent[b]]), NullifiersExact(p),
           Ins(ChainTxs[Parent[b]]) \subseteq Outs(ChainTxs[Parent[b]])
    PROVE  PoolSound(removeForBlock(p, TxsOf[b]), Unspent[b])
  <1>. DEFINE S == TxsOf[b]
              p1 == Without(p, S)
              C == Conflicts(p, S)
  <1>1. S \subseteq Tx /\ In(p) \subseteq Tx
    BY BlockTxs DEF Valid, In
  <1>2. NextExact(p) /\ Ins(In(p)) \subseteq Outs(In(p)) \cup Unspent[Parent[b]]
    BY DEF PoolSound
  <1>3. In(p1) = In(p) \ S /\ NextExact(p1)
    BY <1>2, WithoutFields, WithoutExact
  <1>. HIDE DEF p1
  <1>4. ASSUME NEW u \in In(p1), NEW o \in vin[u], o \in Ins(S)
        PROVE  u \in C
    <2>1. PICK x \in S : o \in vin[x]
      BY <1>4 DEF Ins
    <2>2. p.next[o] = u /\ u # x /\ u # NoTx
      <3>1. u \in In(p) /\ u \notin S /\ u \in Tx
        BY <1>1, <1>3
      <3>2. p.next[o] = u
        BY <1>2, <1>4, <3>1 DEF NextExact
      <3>3. NoTx \notin Tx
        BY TxAssumption
      <3>. QED
        BY <2>1, <3>1, <3>2, <3>3
    <2>3. x \notin In(p)
      BY <1>2, <2>1, <2>2 DEF NextExact
    <2>. QED
      BY <2>1, <2>2, <2>3 DEF Conflicts, Ins
  <1>5. ASSUME NEW u \in In(p1) \ C, NEW o \in vin[u]
        PROVE  o \in Outs(In(p1)) \cup Unspent[b]
    <2>1. o \notin Ins(S)
      BY <1>4, <1>5
    <2>2. o \in Outs(In(p1)) \cup (Unspent[Parent[b]] \cup Outs(S))
      BY <1>2, <1>3, <1>5 DEF Outs, Ins
    <2>. QED
      BY <2>1, <2>2, StaysUnspent
  <1>6. Ins(In(p1) \ C) \subseteq Outs(In(p1)) \cup (Unspent[b] \cup Outs(C))
    BY <1>5 DEF Ins
  <1>7. C \subseteq Tx
    <2>1. \A o \in Ins(S) : p.next[o] # NoTx => p.next[o] \in Tx
      BY SMTT(30), <1>1, <1>2, TxAssumption DEF NextExact, Ins
    <2>2. \A n \in Nfs(S) : p.nf[n] # NoTx => p.nf[n] \in Tx
      BY SMTT(30), <1>1, TxAssumption DEF NullifiersExact, Nfs
    <2>. QED
      BY <2>1, <2>2 DEF Conflicts, Ins, Nfs
  <1>. HIDE DEF C
  <1>8. PoolSound(remove(p1, C), Unspent[b])
    BY <1>3, <1>6, <1>7, RemoveSound
  <1>. QED
    BY <1>8 DEF removeForBlock, p1, C

\* No nullifier of the block, or of the chain below it, is left in the pool.
LEMMA ForBlockShielded ==
    ASSUME NEW p, NEW b \in Valid, b # Genesis, NullifiersExact(p),
           \A t \in In(p) : Nullifiers[t] \cap SpentNfs[Parent[b]] = {}
    PROVE  LET q == removeForBlock(p, TxsOf[b])
           IN  /\ NullifiersExact(q)
               /\ In(q) \subseteq In(p)
               /\ \A t \in In(q) : Nullifiers[t] \cap SpentNfs[b] = {}
  <1>. DEFINE S == TxsOf[b]
              p1 == Without(p, S)
              C == Conflicts(p, S)
              q == remove(p1, C)
  <1>1. S \subseteq Tx /\ In(p) \subseteq Tx /\ b \in Block
    BY BlockTxs DEF Valid, In
  <1>2. In(p1) = In(p) \ S /\ NullifiersExact(p1)
    BY WithoutFields, WithoutExact
  <1>. HIDE DEF p1, C
  <1>3. NullifiersExact(q) /\ In(q) \subseteq In(p1) \ C
    BY <1>2, RemoveShielded
  <1>. HIDE DEF q
  <1>4. ASSUME NEW t \in In(q), NEW n \in Nullifiers[t], n \in SpentNfs[b]
        PROVE  FALSE
    <2>1. t \in In(p) /\ t \notin S /\ t \notin C /\ t # NoTx
      BY <1>1, <1>2, <1>3, TxAssumption
    <2>2. n \in Nfs(S)
      BY <1>1, <1>4, <2>1, ChainGrows
    <2>3. PICK x \in S : n \in Nullifiers[x]
      BY <2>2 DEF Nfs
    <2>4. p.nf[n] = t /\ x \notin In(p)
      BY SMTT(30), <1>4, <2>1, <2>3 DEF NullifiersExact
    <2>. QED
      BY <2>1, <2>3, <2>4 DEF C, Conflicts, Nfs
  <1>. QED
    BY <1>2, <1>3, <1>4 DEF removeForBlock, q, p1, C

----------------------------------------------------------------------------
(***************************************************************************)
(* The removals that follow a change of the chain, and AcceptToMemoryPool. *)
(***************************************************************************)
\* q is what a removal may make of p.
Kept(p, q, coins) ==
    /\ PoolSound(p, coins) => PoolSound(q, coins)
    /\ NullifiersExact(p) => NullifiersExact(q)
    /\ In(q) \subseteq In(p)

\* Every recursive removal keeps a sound pool sound over the same coins.
LEMMA RemoveKeeps ==
    ASSUME NEW p, NEW S \in SUBSET Tx, NEW coins
    PROVE  Kept(p, remove(p, S), coins)
  <1>1. ASSUME PoolSound(p, coins) PROVE PoolSound(remove(p, S), coins)
    <2>1. NextExact(p) /\ Ins(In(p) \ S) \subseteq Outs(In(p)) \cup (coins \cup Outs(S))
      BY <1>1 DEF PoolSound, Ins
    <2>. QED
      BY <2>1, RemoveSound
  <1>. QED
    BY <1>1, RemoveShielded DEF Kept

\* removeForReorg, removeWithAnchor, removeExpired and removeWithoutBranchId.
LEMMA CleanupKeeps ==
    ASSUME NEW p, NEW coins, NEW x
    PROVE  /\ Kept(p, removeForReorg(p, x), coins)
           /\ Kept(p, removeWithAnchor(p, x), coins)
           /\ Kept(p, removeExpired(p, x), coins)
           /\ Kept(p, removeWithoutBranchId(p, x), coins)
  <1>1. In(p) \subseteq Tx
    BY DEF In
  <1>2. ASSUME NEW S \in SUBSET In(p) PROVE Kept(p, remove(p, S), coins)
    BY <1>1, RemoveKeeps
  <1>3. Kept(p, removeForReorg(p, x), coins)
    BY <1>2 DEF removeForReorg
  <1>4. Kept(p, removeWithAnchor(p, x), coins)
    BY <1>2 DEF removeWithAnchor
  <1>5. Kept(p, removeExpired(p, x), coins)
    BY <1>2 DEF removeExpired
  <1>6. Kept(p, removeWithoutBranchId(p, x), coins)
    BY <1>2 DEF removeWithoutBranchId
  <1>. QED
    BY <1>3, <1>4, <1>5, <1>6

\* One removal after another.
LEMMA KeptTwice ==
    ASSUME NEW p, NEW q, NEW r, NEW coins, Kept(p, q, coins), Kept(q, r, coins)
    PROVE  Kept(p, r, coins)
  BY DEF Kept

\* What AcceptToMemoryPool has checked of a transaction that it adds.
LEMMA AcceptedFacts ==
    ASSUME NEW t \in Tx, NEW limitFree, Accepts(t, limitFree), tip \in Block
    PROVE  /\ In(Accepted(t)) = In(pool) \cup {t}
           /\ NextExact(pool) => NextExact(Accepted(t))
           /\ NullifiersExact(pool) => NullifiersExact(Accepted(t))
           /\ vin[t] \subseteq Outs(In(pool)) \cup Unspent[best]
           /\ Nullifiers[t] \cap SpentNfs[best] = {}
           /\ Anchor[t] # NoRoot => Anchor[t] \in Anchors[best]
  <1>. DEFINE e == [branch |-> BranchAt[Height[tip] + 1], spendsCoinbase |-> SpendsCoinbase(t)]
  <1>1. SpendsCoinbase(t) \in BOOLEAN
    BY Zenon DEF SpendsCoinbase
  <1>2. e \in Entry
    BY <1>1, TxAssumption DEF Entry
  <1>3. /\ Fresh(t) /\ vin[t] \subseteq Outs(In(pool)) \cup Unspent[best]
        /\ Nullifiers[t] \cap SpentNfs[best] = {}
        /\ Anchor[t] # NoRoot => Anchor[t] \in Anchors[best]
    BY DEF Accepts, HaveInputs, HaveJoinSplitRequirements
  <1>4. /\ pool.tx[t] = NoEntry
        /\ \A o \in vin[t] : pool.next[o] = NoTx
        /\ \A n \in Nullifiers[t] : pool.nf[n] = NoTx
    BY <1>3 DEF Fresh, In
  <1>5. Accepted(t) = addUnchecked(pool, {t}, [u \in Tx |-> e])
    BY DEF Accepted
  <1>. HIDE DEF e
  <1>. DEFINE q == addUnchecked(pool, {t}, [u \in Tx |-> e])
  <1>6. In(q) = In(pool) \cup {t}
    BY <1>2, <1>4, AddFields
  <1>7. /\ NextExact(pool) => NextExact(q)
        /\ NullifiersExact(pool) => NullifiersExact(q)
    BY <1>2, <1>4, AddExact
  <1>. HIDE DEF q
  <1>8. Accepted(t) = q
    BY <1>5 DEF q
  <1>. QED
    BY <1>3, <1>6, <1>7, <1>8

\* A transaction that is accepted makes its outputs available in the pool.
LEMMA AcceptedSound ==
    ASSUME NEW t \in Tx, NEW limitFree, Accepts(t, limitFree), tip \in Block, NEW coins,
           Unspent[best] \subseteq coins, PoolSound(pool, coins \cup vout[t])
    PROVE  PoolSound(Accepted(t), coins)
  <1>. DEFINE q == Accepted(t)
  <1>1. /\ In(q) = In(pool) \cup {t} /\ NextExact(q)
        /\ vin[t] \subseteq Outs(In(pool)) \cup Unspent[best]
    BY AcceptedFacts DEF PoolSound
  <1>2. Ins(In(pool)) \subseteq Outs(In(pool)) \cup (coins \cup vout[t])
    BY DEF PoolSound
  <1>. HIDE DEF q
  <1>3. Outs(In(q)) = Outs(In(pool)) \cup vout[t] /\ Ins(In(q)) = Ins(In(pool)) \cup vin[t]
    BY <1>1 DEF Outs, Ins
  <1>4. PoolSound(q, coins)
    BY <1>1, <1>2, <1>3 DEF PoolSound
  <1>. QED
    BY <1>4 DEF q

\* CheckBlock moves transparent transactions only: what the pool says about
\* nullifiers stays the same.
SameShielded(p, q) ==
    /\ \A t \in Tx : Shielded(t) => (t \in In(q) <=> t \in In(p))
    /\ \A n \in Nullifier : q.nf[n] = p.nf[n]

\* addUnchecked of transparent transactions.
LEMMA AddTransparent ==
    ASSUME NEW p, NEW S \in SUBSET Tx, \A t \in S : ~Shielded(t), NEW entry
    PROVE  SameShielded(p, addUnchecked(p, S, entry))
  <1>. DEFINE q == addUnchecked(p, S, entry)
              tx == [t \in Tx |-> IF t \in S /\ p.tx[t] = NoEntry THEN entry[t] ELSE p.tx[t]]
  <1>1. /\ q.tx = tx
        /\ q.nf = [n \in Nullifier |-> IF n \in Nfs(S)
                      THEN CHOOSE t \in S : n \in Nullifiers[t] ELSE p.nf[n]]
    BY DEF addUnchecked
  <1>2. Nfs(S) = {}
    BY DEF Nfs, Shielded
  <1>3. \A n \in Nullifier : q.nf[n] = p.nf[n]
    BY <1>1, <1>2
  <1>4. In(q) = {t \in Tx : tx[t] # NoEntry}
    BY <1>1 DEF In
  <1>5. \A t \in Tx : Shielded(t) => tx[t] = p.tx[t]
    OBVIOUS
  <1>. HIDE DEF tx, q
  <1>6. \A t \in Tx : Shielded(t) => (t \in In(q) <=> t \in In(p))
    BY <1>4, <1>5 DEF In
  <1>. QED
    BY <1>3, <1>6 DEF SameShielded, q

\* remove without fRecursive, of transparent transactions.
LEMMA RemoveTransparent ==
    ASSUME NEW p, NEW S \in SUBSET Tx, \A t \in S : ~Shielded(t)
    PROVE  SameShielded(p, Without(p, S))
  <1>. DEFINE q == Without(p, S)
  <1>1. Nfs(S \cap In(p)) = {}
    BY DEF Nfs, Shielded
  <1>2. /\ In(q) = In(p) \ S
        /\ \A n \in Nullifier : q.nf[n] = IF n \in Nfs(S \cap In(p)) THEN NoTx ELSE p.nf[n]
    BY WithoutFields
  <1>. HIDE DEF q
  <1>3. SameShielded(p, q)
    BY <1>1, <1>2 DEF SameShielded
  <1>. QED
    BY <1>3 DEF q

\* The nullifier maps are still exact, and no shielded transaction came in.
LEMMA SameShieldedExact ==
    ASSUME NEW p, NEW q, SameShielded(p, q), NullifiersExact(p)
    PROVE  /\ NullifiersExact(q)
           /\ \A t \in In(q) : Shielded(t) => t \in In(p)
  <1>1. In(p) \subseteq Tx /\ In(q) \subseteq Tx
    BY DEF In
  <1>2. \A t \in In(q) : Shielded(t) => t \in In(p)
    BY <1>1 DEF SameShielded
  <1>3. ASSUME NEW t \in In(q), NEW n \in Nullifiers[t]
        PROVE  q.nf[n] = t
    BY <1>1, <1>2, <1>3, TxAssumption DEF Shielded, NullifiersExact, SameShielded
  <1>4. ASSUME NEW n \in Nullifier, q.nf[n] # NoTx
        PROVE  n \in Nfs(In(q))
    <2>1. PICK t \in In(p) : n \in Nullifiers[t]
      BY <1>4 DEF SameShielded, NullifiersExact, Nfs
    <2>2. t \in In(q)
      BY <1>1, <2>1 DEF SameShielded, Shielded
    <2>. QED
      BY <2>1, <2>2 DEF Nfs
  <1>. QED
    BY <1>2, <1>3, <1>4 DEF NullifiersExact

----------------------------------------------------------------------------
(***************************************************************************)
(* The steps.                                                              *)
(***************************************************************************)
\* The invariant after a step that leaves the chain and tmpmempool alone.
LEMMA PoolStep ==
    ASSUME PoolInv, UNCHANGED <<cc, tip, best, tmp>>, ChainSound',
           ~cc => PoolSound(pool', Unspent[best] \cup Outs(StillToUndo')),
           NullifiersExact(pool'),
           \A t \in In(pool') : t \notin In(pool) =>
               /\ Nullifiers[t] \cap SpentNfs[best] = {}
               /\ Anchor[t] # NoRoot => Anchor[t] \in Anchors[tip]
    PROVE  PoolInv'
  <1>1. SpendersExact' /\ InputsAvailable'
    BY DEF SpendersExact, InputsAvailable, PoolSound
  <1>2. ShieldedValid'
    BY DEF PoolInv, ShieldedValid
  <1>3. (\A t \in Tx : tmp[t] # NoEntry => ~Shielded(t))'
    BY DEF PoolInv
  <1>. QED
    BY <1>1, <1>2, <1>3 DEF PoolInv

\* What the invariant says of the pool, in the form the lemmas use.
LEMMA PoolInvSound ==
    ASSUME PoolInv
    PROVE  /\ ~cc => PoolSound(pool, Unspent[best] \cup Outs(StillToUndo))
           /\ NullifiersExact(pool)
           /\ tip \in Block /\ best \in Block
           /\ Anchors[best] \subseteq Anchors[tip]
  <1>1. ~cc => PoolSound(pool, Unspent[best] \cup Outs(StillToUndo))
    BY DEF PoolInv, SpendersExact, InputsAvailable, PoolSound
  <1>2. /\ NullifiersExact(pool) /\ tip \in Block
        /\ undo # 0 => tip # Genesis
        /\ best = IF undo = 0 THEN tip ELSE Parent[tip]
    BY DEF PoolInv, ShieldedValid, ChainSound
  <1>3. CASE undo = 0
    BY <1>1, <1>2, <1>3
  <1>4. CASE undo # 0
    <2>1. best = Parent[tip] /\ tip # Genesis
      BY <1>2, <1>4
    <2>2. Parent[tip] \in Block
      BY <1>2, <2>1, PathParent
    <2>3. Anchors[Parent[tip]] \subseteq Anchors[tip]
      BY <1>2, <2>1, ChainGrows
    <2>. QED
      BY <1>1, <1>2, <2>1, <2>2, <2>3
  <1>. QED
    BY <1>3, <1>4

\* A call begins or ends, or goes on: the chain is the same.
LEMMA ChainStays ==
    ASSUME PoolInv, UNCHANGED <<tip, best, undo>>, target' \in Block,
           op' = "invalidate" => target' # Genesis
    PROVE  ChainSound' /\ StillToUndo' = StillToUndo
  BY DEF PoolInv, ChainSound, StillToUndo

\* AcceptToMemoryPool adds a transaction.
LEMMA AcceptStep ==
    ASSUME PoolInv, NEW t \in Tx, NEW limitFree, Accepts(t, limitFree), pool' = Accepted(t),
           UNCHANGED <<cc, tip, best, tmp, undo>>, target' \in Block,
           op' = "invalidate" => target' # Genesis
    PROVE  PoolInv'
  <1>. DEFINE coins == Unspent[best] \cup Outs(StillToUndo)
  <1>1. /\ tip \in Block /\ NullifiersExact(pool) /\ Anchors[best] \subseteq Anchors[tip]
        /\ ~cc => PoolSound(pool, coins)
    BY PoolInvSound
  <1>2. ASSUME ~cc PROVE PoolSound(Accepted(t), coins)
    <2>1. PoolSound(pool, coins \cup vout[t])
      BY <1>1, <1>2 DEF PoolSound
    <2>. HIDE DEF coins
    <2>2. Unspent[best] \subseteq coins
      BY DEF coins
    <2>. QED
      BY <1>1, <2>1, <2>2, AcceptedSound
  <1>3. /\ In(Accepted(t)) = In(pool) \cup {t} /\ NullifiersExact(Accepted(t))
        /\ Nullifiers[t] \cap SpentNfs[best] = {}
        /\ Anchor[t] # NoRoot => Anchor[t] \in Anchors[best]
    BY <1>1, AcceptedFacts
  <1>4. ChainSound' /\ StillToUndo' = StillToUndo
    BY ChainStays
  <1>. QED
    BY <1>1, <1>2, <1>3, <1>4, PoolStep

\* The pool is cleaned up, or nothing happens to it.
LEMMA CleanStep ==
    ASSUME PoolInv, Kept(pool, pool', Unspent[best] \cup Outs(StillToUndo)),
           UNCHANGED <<cc, tip, best, tmp, undo>>, target' \in Block,
           op' = "invalidate" => target' # Genesis
    PROVE  PoolInv'
  <1>1. /\ ~cc => PoolSound(pool', Unspent[best] \cup Outs(StillToUndo))
        /\ NullifiersExact(pool') /\ In(pool') \subseteq In(pool)
    BY PoolInvSound DEF Kept
  <1>2. ChainSound' /\ StillToUndo' = StillToUndo
    BY ChainStays
  <1>. QED
    BY <1>1, <1>2, PoolStep

\* The pool is empty at first, and genesis spends nothing.
LEMMA InitPoolInv == Init => PoolInv
  <1>. SUFFICES ASSUME Init PROVE PoolInv
    OBVIOUS
  <1>1. Path[Genesis] = {Genesis} /\ Genesis \in Block /\ Genesis \in Valid
    BY PathAssumption, GenesisAssumption, ValidBlocks
  <1>2. ChainTxs[Genesis] = TxsOf[Genesis]
    BY <1>1 DEF ChainTxs
  <1>3. \A b \in Path[tip] : Ins(ChainTxs[b]) \subseteq Outs(ChainTxs[b])
    BY <1>1, <1>2, ValidBlocks DEF Init
  <1>4. ChainSound
    BY <1>1, <1>3 DEF ChainSound, Init
  <1>5. In(pool) = {} /\ (\A o \in Outpoint : pool.next[o] = NoTx)
        /\ (\A n \in Nullifier : pool.nf[n] = NoTx)
    BY DEF Init, EmptyPool, In
  <1>6. NextExact(pool) /\ NullifiersExact(pool) /\ Ins(In(pool)) = {}
    BY <1>5 DEF NextExact, NullifiersExact, Ins
  <1>7. \A t \in Tx : tmp[t] # NoEntry => ~Shielded(t)
    BY DEF Init
  <1>. QED
    BY <1>4, <1>5, <1>6, <1>7 DEF PoolInv, SpendersExact, InputsAvailable, ShieldedValid

\* DisconnectTip rolls the coins back: what the pool spent of the block is now
\* among the outputs that are still to be undone.
LEMMA DisconnectTipStep ==
    ASSUME PoolInv, DisconnectTip
    PROVE  PoolInv'
  <1>1. /\ tip \in Block /\ best = tip /\ undo = 0 /\ target \in Block
        /\ op = "invalidate" => target # Genesis
    BY DEF PoolInv, ChainSound, DisconnectTip, Disconnecting
  <1>2. tip # Genesis
    BY <1>1, GenesisOnPath, PathAssumption DEF DisconnectTip, Disconnecting
  <1>3. ChainSound'
    <2>1. /\ UNCHANGED <<tip, target, op>>
          /\ best' = Parent[tip] /\ undo' = 1
      BY DEF DisconnectTip, call
    <2>2. /\ Path[tip] \subseteq Valid
          /\ \A b \in Path[tip] : Ins(ChainTxs[b]) \subseteq Outs(ChainTxs[b])
      BY DEF PoolInv, ChainSound
    <2>. QED
      BY SMTT(30), <1>1, <1>2, <2>1, <2>2 DEF ChainSound
  <1>4. StillToUndo = {} /\ StillToUndo' = TxsOf[tip]
    <2>1. vtx[tip] \in Seq(Tx)
      BY <1>1, TxAssumption
    <2>2. \A j \in DOMAIN vtx[tip] : j >= 1
      <3>1. DOMAIN vtx[tip] = 1 .. Len(vtx[tip]) /\ Len(vtx[tip]) \in Nat
        BY SMT, <2>1
      <3>. QED
        BY SMTT(30), <3>1
    <2>3. undo' = 1 /\ tip' = tip
      BY DEF DisconnectTip
    <2>4. {j \in DOMAIN vtx[tip] : j >= 1} = DOMAIN vtx[tip]
      BY <2>2
    <2>5. StillToUndo' = {vtx[tip][i] : i \in DOMAIN vtx[tip]}
      BY SMTT(30), <2>3, <2>4 DEF StillToUndo
    <2>6. TxsOf[tip] = {vtx[tip][i] : i \in DOMAIN vtx[tip]}
      BY <1>1 DEF TxsOf
    <2>7. StillToUndo = {}
      BY <1>1 DEF StillToUndo
    <2>. QED
      BY <2>5, <2>6, <2>7
  <1>5. /\ Unspent[tip] \subseteq Unspent[Parent[tip]] \cup Outs(TxsOf[tip])
        /\ SpentNfs[Parent[tip]] \subseteq SpentNfs[tip]
    BY <1>1, <1>2, ChainGrows
  <1>6. SpendersExact' /\ InputsAvailable'
    <2>1. UNCHANGED <<cc, pool>> /\ best' = Parent[tip]
      BY DEF DisconnectTip
    <2>2. (~cc => NextExact(pool)) /\ (~cc => Ins(In(pool)) \subseteq Outs(In(pool)) \cup Unspent[tip] \cup Outs({}))
      BY <1>1, <1>4 DEF PoolInv, SpendersExact, InputsAvailable
    <2>3. Outs({}) = {}
      BY DEF Outs
    <2>4. ~cc => Ins(In(pool)) \subseteq Outs(In(pool)) \cup Unspent[Parent[tip]] \cup Outs(TxsOf[tip])
      BY <1>5, <2>2, <2>3
    <2>5. SpendersExact'
      BY <2>1, <2>2 DEF SpendersExact
    <2>6. InputsAvailable'
      BY <1>4, <2>1, <2>4 DEF InputsAvailable
    <2>. QED
      BY <2>5, <2>6
  <1>7. ShieldedValid'
    BY <1>1, <1>5 DEF DisconnectTip, PoolInv, ShieldedValid
  <1>8. (\A t \in Tx : tmp[t] # NoEntry => ~Shielded(t))'
    BY DEF PoolInv, DisconnectTip
  <1>. QED
    BY <1>3, <1>6, <1>7, <1>8 DEF PoolInv

\* A transaction of the block is accepted again, or it is removed with all that
\* spends its outputs: they are not missing in either case.
LEMMA ResurrectStep ==
    ASSUME PoolInv, Resurrect
    PROVE  PoolInv'
  <1>. DEFINE t == vtx[tip][undo]
              coins == Unspent[best] \cup Outs(StillToUndo')
  <1>1. /\ tip \in Block /\ Anchors[best] \subseteq Anchors[tip] /\ NullifiersExact(pool)
        /\ ~cc => PoolSound(pool, Unspent[best] \cup Outs(StillToUndo))
    BY PoolInvSound
  <1>2. vtx[tip] \in Seq(Tx) /\ undo \in DOMAIN vtx[tip]
    BY <1>1, TxAssumption DEF Resurrect
  <1>3. t \in Tx /\ undo \in Nat /\ undo # 0 /\ undo' = undo + 1
    <2>1. undo \in Nat /\ undo # 0 /\ t \in Tx
      BY SMT, <1>2
    <2>2. undo' = undo + 1
      BY DEF Resurrect
    <2>. QED
      BY <2>1, <2>2
  <1>4. UNCHANGED <<cc, tip, best, tmp, target, op>>
    BY DEF Resurrect, chain, call
  <1>5. ChainSound'
    <2>1. ChainSound /\ undo' \in Nat /\ undo' # 0
      BY SMT, <1>3 DEF PoolInv
    <2>2. undo # 0
      BY <1>3
    <2>. HIDE DEF t, coins
    <2>. QED
      BY <1>4, <2>1, <2>2 DEF ChainSound
  <1>6. StillToUndo = {t} \cup StillToUndo'
    <2>1. {j \in DOMAIN vtx[tip] : j >= undo} = {undo} \cup {j \in DOMAIN vtx[tip] : j >= undo + 1}
      BY SMTT(30), <1>2, <1>3
    <2>2. undo' # 0
      BY SMTT(30), <1>3
    <2>. QED
      BY <1>3, <1>4, <2>1, <2>2 DEF StillToUndo
  <1>7. Unspent[best] \cup Outs(StillToUndo) = coins \cup vout[t]
    BY <1>6 DEF Outs
  <1>8. Unspent[best] \subseteq coins
    OBVIOUS
  <1>9. (pool' = Accepted(t) /\ Accepts(t, FALSE)) \/ pool' = remove(pool, {t})
    BY DEF Resurrect
  <1>. HIDE DEF t, coins
  <1>10. CASE pool' = Accepted(t) /\ Accepts(t, FALSE)
    <2>1. ~cc => PoolSound(pool', coins)
      BY <1>1, <1>3, <1>7, <1>8, <1>10, AcceptedSound
    <2>2. /\ In(pool') = In(pool) \cup {t} /\ NullifiersExact(pool')
          /\ Nullifiers[t] \cap SpentNfs[best] = {}
          /\ Anchor[t] # NoRoot => Anchor[t] \in Anchors[tip]
      BY <1>1, <1>3, <1>10, AcceptedFacts
    <2>. QED
      BY <1>4, <1>5, <2>1, <2>2, PoolStep DEF coins
  <1>11. CASE pool' = remove(pool, {t})
    <2>1. NullifiersExact(pool') /\ In(pool') \subseteq In(pool)
      BY <1>1, <1>11, RemoveShielded
    <2>2. ASSUME ~cc PROVE PoolSound(pool', coins)
      <3>1. NextExact(pool) /\ Ins(In(pool) \ {t}) \subseteq Outs(In(pool)) \cup (coins \cup Outs({t}))
        BY <1>1, <1>7, <2>2 DEF PoolSound, Ins, Outs
      <3>. QED
        BY SMTT(30), <1>3, <1>11, <3>1, RemoveSound
    <2>. QED
      BY <1>4, <1>5, <2>1, <2>2, PoolStep DEF coins
  <1>. QED
    BY <1>9, <1>10, <1>11

\* DisconnectTip ends: nothing is left to undo, and what was anchored in the
\* commitment tree of the block is gone.
LEMMA DisconnectDoneStep ==
    ASSUME PoolInv, DisconnectDone
    PROVE  PoolInv'
  <1>. DEFINE b == Parent[tip]
  <1>1. /\ tip \in Block /\ NullifiersExact(pool)
        /\ ~cc => PoolSound(pool, Unspent[best] \cup Outs(StillToUndo))
    BY PoolInvSound
  <1>2. vtx[tip] \in Seq(Tx)
    BY <1>1, TxAssumption
  <1>3. undo = Len(vtx[tip]) + 1 /\ undo # 0 /\ undo' = 0
    <2>1. undo = Len(vtx[tip]) + 1 /\ undo' = 0
      BY DEF DisconnectDone
    <2>2. Len(vtx[tip]) \in Nat
      BY SMTT(30), <1>2
    <2>. QED
      BY SMTT(30), <2>1, <2>2
  <1>4. tip # Genesis /\ best = b
    BY <1>3 DEF PoolInv, ChainSound
  <1>5. b \in Block /\ Path[b] \subseteq Path[tip]
    BY <1>1, <1>4, PathParent
  <1>6. UNCHANGED <<cc, best, tmp, op, target>> /\ tip' = b
    BY DEF DisconnectDone
  <1>7. StillToUndo = {} /\ StillToUndo' = {}
    <2>1. {j \in DOMAIN vtx[tip] : j >= undo} = {}
      BY SMTT(30), <1>2, <1>3
    <2>. QED
      BY <1>3, <2>1 DEF StillToUndo
  <1>. HIDE DEF b
  <1>8. ChainSound'
    BY <1>3, <1>4, <1>5, <1>6 DEF PoolInv, ChainSound
  <1>9. /\ Kept(pool, pool', Unspent[best])
        /\ Root[tip] # Root[b] => \A t \in In(pool') : Anchor[t] # Root[tip]
    <2>1. CASE Root[tip] = Root[b]
      BY <2>1 DEF DisconnectDone, Kept, b
    <2>2. CASE Root[tip] # Root[b]
      <3>1. pool' = removeWithAnchor(pool, Root[tip])
        BY <2>2 DEF DisconnectDone, b
      <3>2. pool' = remove(pool, {t \in In(pool) : Anchor[t] = Root[tip]})
        BY <3>1 DEF removeWithAnchor
      <3>3. In(pool') \subseteq In(pool) \ {t \in In(pool) : Anchor[t] = Root[tip]}
        BY <3>2, RemoveShielded
      <3>. QED
        BY <3>1, <3>3, CleanupKeeps
    <2>. QED
      BY <2>1, <2>2
  <1>10. Outs({}) = {}
    BY DEF Outs
  <1>11. SpendersExact' /\ InputsAvailable'
    BY <1>1, <1>6, <1>7, <1>9, <1>10 DEF Kept, PoolSound, SpendersExact, InputsAvailable
  <1>12. Anchors[tip] = Anchors[b] \cup {Root[tip]} /\ Root[b] \in Anchors[b]
    BY <1>1, <1>4, ChainGrows DEF b
  <1>13. ShieldedValid'
    BY <1>1, <1>6, <1>9, <1>12 DEF Kept, PoolInv, ShieldedValid
  <1>14. (\A t \in Tx : tmp[t] # NoEntry => ~Shielded(t))'
    BY <1>6 DEF PoolInv
  <1>. QED
    BY <1>8, <1>11, <1>13, <1>14 DEF PoolInv

\* CheckBlock on a chain with crypto-conditions: the shielded transactions of
\* the pool stay where they are, in both halves of the swap.
LEMMA SwapTransparent ==
    ASSUME PoolInv, NEW b \in Block
    PROVE  /\ SameShielded(pool, BlockInPool(b))
           /\ SameShielded(pool, AddedBack(b))
           /\ \A t \in Tx : TmpWithout(b)[t] # NoEntry => ~Shielded(t)
  <1>. DEFINE p1 == Without(pool, Moved)
              S1 == CheckBlockTxs(b) \ In(p1)
              e1 == [t \in Tx |-> [branch |-> BranchAt[Height[tip] + 1], spendsCoinbase |-> FALSE]]
              p2 == addUnchecked(p1, S1, e1)
              tmp2 == TmpWithout(b)
              S2 == {t \in Tx : tmp2[t] # NoEntry}
  <1>1. /\ Moved \subseteq Tx /\ \A t \in Moved : ~Shielded(t)
        /\ S1 \subseteq Tx /\ \A t \in S1 : ~Shielded(t)
    BY BlockTxs DEF Moved, In, CheckBlockTxs
  <1>2. BlockInPool(b) = p2 /\ AddedBack(b) = addUnchecked(BlockInPool(b), S2, tmp2)
    BY DEF BlockInPool, AddedBack
  <1>3. \A t \in Tx : tmp2[t] # NoEntry => ~Shielded(t)
    BY <1>1 DEF TmpWithout, PoolInv
  <1>. HIDE DEF p1, S1, e1, tmp2
  <1>4. SameShielded(pool, p1)
    BY <1>1, RemoveTransparent DEF p1
  <1>5. SameShielded(p1, p2)
    BY <1>1, AddTransparent
  <1>. HIDE DEF p2
  <1>6. SameShielded(p2, addUnchecked(p2, S2, tmp2))
    BY <1>3, AddTransparent
  <1>7. SameShielded(pool, p2)
    BY <1>4, <1>5 DEF SameShielded
  <1>. DEFINE p3 == addUnchecked(p2, S2, tmp2)
  <1>. HIDE DEF p3
  <1>8. SameShielded(p2, p3)
    BY <1>6 DEF p3
  <1>9. SameShielded(pool, p3)
    BY <1>7, <1>8 DEF SameShielded
  <1>10. BlockInPool(b) = p2 /\ AddedBack(b) = p3
    BY <1>2 DEF p3
  <1>. QED
    BY <1>3, <1>7, <1>9, <1>10 DEF tmp2

\* The block that ConnectTip connects is a child of the tip.
LEMMA ConnectingChild ==
    ASSUME PoolInv, Connecting
    PROVE  /\ NextBlock \in Block /\ NextBlock # Genesis /\ Parent[NextBlock] = tip
           /\ best = tip /\ undo = 0 /\ StillToUndo = {}
  <1>1. target \in Block /\ tip \in Path[target] /\ tip # target /\ undo = 0
    BY DEF PoolInv, ChainSound, Connecting, Better
  <1>2. NextBlock \in Path[target] /\ NextBlock # Genesis /\ Parent[NextBlock] = tip
    BY <1>1, NextIsChild DEF NextBlock
  <1>3. NextBlock \in Block
    BY <1>1, <1>2, PathParent
  <1>. QED
    BY <1>1, <1>2, <1>3 DEF PoolInv, ChainSound, StillToUndo

\* ConnectTip: the chain grows by a block that ConnectBlock accepts.
LEMMA ConnectTipChain ==
    ASSUME PoolInv, ConnectTip
    PROVE  ChainSound' /\ StillToUndo' = {}
  <1>. DEFINE b == NextBlock
  <1>1. b \in Block /\ b # Genesis /\ Parent[b] = tip /\ undo = 0 /\ b \in Valid
    BY ConnectingChild DEF ConnectTip
  <1>2. tip' = b /\ best' = b /\ UNCHANGED <<undo, target, op>>
    BY DEF ConnectTip, call
  <1>. HIDE DEF b
  <1>3. Path[b] = Path[tip] \cup {b} /\ tip \in Path[tip] /\ tip \in Block
    BY <1>1, PathParent
  <1>4. ChainTxs[b] = ChainTxs[tip] \cup TxsOf[b] /\ Ins(ChainTxs[tip]) \subseteq Outs(ChainTxs[tip])
    BY <1>1, <1>3, ChainGrows DEF PoolInv, ChainSound
  <1>5. Ins(TxsOf[b]) \subseteq Unspent[tip] \cup Outs(TxsOf[b])
    BY <1>1, ValidBlocks
  <1>6. Unspent[tip] \subseteq Outs(ChainTxs[tip])
    BY <1>3 DEF Unspent
  <1>7. Ins(ChainTxs[b]) \subseteq Outs(ChainTxs[b])
    BY <1>4, <1>5, <1>6 DEF Ins, Outs
  <1>. QED
    BY <1>1, <1>2, <1>3, <1>7 DEF PoolInv, ChainSound, StillToUndo

\* ConnectTip: removeForBlock and removeExpired leave a pool that is sound over
\* the coins of the new tip.
LEMMA ConnectTipStep ==
    ASSUME PoolInv, ConnectTip
    PROVE  PoolInv'
  <1>. DEFINE b == NextBlock
              p == IF cc THEN AddedBack(b) ELSE pool
              q == removeForBlock(p, TxsOf[b])
  <1>1. /\ b \in Block /\ b # Genesis /\ Parent[b] = tip /\ b \in Valid
        /\ best = tip /\ undo = 0 /\ StillToUndo = {}
    BY ConnectingChild DEF ConnectTip
  <1>2. /\ pool' = removeExpired(q, Height[b]) /\ tip' = b /\ best' = b /\ cc' = cc
        /\ tmp' = IF cc THEN [t \in Tx |-> NoEntry] ELSE tmp
    BY DEF ConnectTip
  <1>3. ChainSound' /\ StillToUndo' = {}
    BY ConnectTipChain
  <1>4. /\ NullifiersExact(p)
        /\ \A t \in In(p) : /\ Nullifiers[t] \cap SpentNfs[tip] = {}
                            /\ Anchor[t] # NoRoot => Anchor[t] \in Anchors[tip]
    <2>1. /\ NullifiersExact(pool)
          /\ \A t \in In(pool) : /\ Nullifiers[t] \cap SpentNfs[tip] = {}
                                 /\ Anchor[t] # NoRoot => Anchor[t] \in Anchors[tip]
      BY <1>1 DEF PoolInv, ShieldedValid
    <2>2. CASE ~cc
      BY <2>1, <2>2
    <2>3. CASE cc
      <3>1. SameShielded(pool, p)
        BY <1>1, <2>3, SwapTransparent
      <3>. HIDE DEF p
      <3>2. NullifiersExact(p) /\ \A t \in In(p) : Shielded(t) => t \in In(pool)
        BY <2>1, <3>1, SameShieldedExact
      <3>3. In(p) \subseteq Tx
        BY DEF In
      <3>4. \A t \in In(p) : ~Shielded(t) => Nullifiers[t] = {} /\ Anchor[t] = NoRoot
        BY <3>3, TxAssumption DEF Shielded
      <3>. QED
        BY <2>1, <3>2, <3>4
    <2>. QED
      BY <2>2, <2>3
  <1>5. ~cc => p = pool
    OBVIOUS
  <1>. HIDE DEF p, b
  <1>6. NullifiersExact(q) /\ In(q) \subseteq In(p) /\ \A t \in In(q) : Nullifiers[t] \cap SpentNfs[b] = {}
    BY <1>1, <1>4, ForBlockShielded
  <1>7. ASSUME ~cc PROVE PoolSound(q, Unspent[b])
    <2>1. Ins(ChainTxs[tip]) \subseteq Outs(ChainTxs[tip])
      BY <1>1, PathParent DEF PoolInv, ChainSound
    <2>2. Outs({}) = {}
      BY DEF Outs
    <2>3. PoolSound(p, Unspent[tip])
      BY <1>1, <1>5, <1>7, <2>2, PoolInvSound
    <2>. QED
      BY <1>1, <1>4, <2>1, <2>3, ForBlockSound
  <1>. HIDE DEF q
  <1>8. Kept(q, pool', Unspent[b])
    BY <1>2, CleanupKeeps
  <1>9. SpendersExact' /\ InputsAvailable'
    BY <1>2, <1>7, <1>8 DEF Kept, PoolSound, SpendersExact, InputsAvailable
  <1>10. Anchors[tip] \subseteq Anchors[b]
    BY <1>1, ChainGrows
  <1>11. ShieldedValid'
    BY <1>2, <1>4, <1>6, <1>8, <1>10 DEF Kept, ShieldedValid
  <1>12. (\A t \in Tx : tmp[t] # NoEntry => ~Shielded(t))'
    BY <1>2 DEF PoolInv
  <1>. QED
    BY <1>3, <1>9, <1>11, <1>12 DEF PoolInv

\* A block is refused after CheckBlock has swapped the pool, or half of it.
LEMMA RefusedStep ==
    ASSUME PoolInv, NEW b \in Block, CheckBlockRefuses(b) \/ ConnectBlockRefuses(b),
           UNCHANGED <<cc, tip, best, undo>>,
           target' \in Block, op' = "invalidate" => target' # Genesis
    PROVE  PoolInv'
  <1>1. cc /\ \/ pool' = BlockInPool(b) /\ tmp' = TmpWithout(b)
              \/ pool' = AddedBack(b) /\ tmp' = [t \in Tx |-> NoEntry]
    BY DEF CheckBlockRefuses, ConnectBlockRefuses
  <1>2. ChainSound'
    BY ChainStays DEF PoolInv, ChainSound
  <1>3. /\ SameShielded(pool, pool')
        /\ \A t \in Tx : tmp'[t] # NoEntry => ~Shielded(t)
    BY <1>1, SwapTransparent
  <1>4. NullifiersExact(pool') /\ \A t \in In(pool') : Shielded(t) => t \in In(pool)
    BY <1>3, PoolInvSound, SameShieldedExact
  <1>5. In(pool') \subseteq Tx
    BY DEF In
  <1>6. \A t \in In(pool') : ~Shielded(t) => Nullifiers[t] = {} /\ Anchor[t] = NoRoot
    BY <1>5, TxAssumption DEF Shielded
  <1>7. ShieldedValid'
    BY <1>4, <1>6 DEF PoolInv, ShieldedValid
  <1>8. SpendersExact' /\ InputsAvailable'
    BY <1>1 DEF SpendersExact, InputsAvailable
  <1>. QED
    BY <1>2, <1>3, <1>7, <1>8 DEF PoolInv

\* A block is invalid: the pool is as before, or has been through CheckBlock.
LEMMA ConnectTipInvalidStep ==
    ASSUME PoolInv, ConnectTipInvalid
    PROVE  PoolInv'
  <1>1. NextBlock \in Block
    BY ConnectingChild DEF ConnectTipInvalid
  <1>2. UNCHANGED <<cc, tip, best, undo, op, target>>
    BY DEF ConnectTipInvalid, chain
  <1>3. target' \in Block /\ (op' = "invalidate" => target' # Genesis)
    BY <1>2 DEF PoolInv, ChainSound
  <1>4. CASE UNCHANGED <<pool, tmp>>
    BY <1>2, <1>3, <1>4, CleanStep DEF Kept
  <1>5. CASE CheckBlockRefuses(NextBlock) \/ ConnectBlockRefuses(NextBlock)
    BY <1>1, <1>2, <1>3, <1>5, RefusedStep
  <1>. QED
    BY <1>4, <1>5 DEF ConnectTipInvalid

\* A step fails: the same, and the call is over.
LEMMA StepFailsStep ==
    ASSUME PoolInv, StepFails
    PROVE  PoolInv'
  <1>1. UNCHANGED <<cc, tip, best, undo>>
    BY DEF StepFails, chain
  <1>2. target' \in Block /\ op' = "idle"
    BY GenesisAssumption DEF StepFails, Release
  <1>3. CASE UNCHANGED <<pool, tmp>>
    BY <1>1, <1>2, <1>3, CleanStep DEF Kept
  <1>4. CASE Connecting /\ (CheckBlockRefuses(NextBlock) \/ ConnectBlockRefuses(NextBlock))
    <2>1. NextBlock \in Block
      BY <1>4, ConnectingChild
    <2>. QED
      BY <1>1, <1>2, <1>4, <2>1, RefusedStep
  <1>. QED
    BY <1>3, <1>4 DEF StepFails

\* "tx", sendrawtransaction and the loop over the orphans.
LEMMA TransactionStep ==
    ASSUME PoolInv,
           \/ \E t \in Sent : SendRawTransaction(t)
           \/ \E t \in Tx : VisitOrphan(t)
           \/ \E t \in Relayed, p \in Peer : TxAccepted(p, t) \/ TxOrphaned(p, t)
           \/ NextInWorkQueue \/ TxDone
           \/ \E p \in Peer : FinalizeNode(p)
    PROVE  PoolInv'
  <1>1. target \in Block /\ (op = "invalidate" => target # Genesis)
    BY DEF PoolInv, ChainSound
  <1>2. UNCHANGED <<cc, tip, best, tmp, undo, target>> /\ (op' = op \/ op' \in {"tx", "idle"})
    BY DEF SendRawTransaction, VisitOrphan, TxAccepted, TxOrphaned, NextInWorkQueue, TxDone,
           FinalizeNode, chain, call
  <1>3. target' \in Block /\ (op' = "invalidate" => target' # Genesis)
    BY <1>1, <1>2
  <1>4. \/ pool' = pool
        \/ \E t \in Tx, l \in BOOLEAN : Accepts(t, l) /\ pool' = Accepted(t)
    BY TxAssumption, Zenon DEF SendRawTransaction, VisitOrphan, OrphanSkipped, OrphanAccepted,
           OrphanRefused, OrphanWaits, TxAccepted, TxOrphaned, NextInWorkQueue, TxDone, FinalizeNode
  <1>5. CASE pool' = pool
    BY <1>2, <1>3, <1>5, CleanStep DEF Kept
  <1>6. CASE \E t \in Tx, l \in BOOLEAN : Accepts(t, l) /\ pool' = Accepted(t)
    BY <1>2, <1>3, <1>6, AcceptStep
  <1>. QED
    BY <1>4, <1>5, <1>6

\* A call on the chain begins or ends; the wallets are told.
LEMMA CallStep ==
    ASSUME PoolInv,
           \/ \E b \in Block : ActivateBestChainStep(b) \/ InvalidateBlock(b)
           \/ StepEnd \/ InvalidateEnd \/ NotifyRecentlyAdded
    PROVE  PoolInv'
  <1>. DEFINE coins == Unspent[best] \cup Outs(StillToUndo)
  <1>1. target \in Block /\ (op = "invalidate" => target # Genesis) /\ Genesis \in Block
    BY GenesisAssumption DEF PoolInv, ChainSound
  <1>2. UNCHANGED <<cc, tip, best, tmp, undo>>
    BY DEF ActivateBestChainStep, InvalidateBlock, Start, StepEnd, InvalidateEnd,
           NotifyRecentlyAdded, chain
  <1>3. target' \in Block /\ (op' = "invalidate" => target' # Genesis)
    BY <1>1 DEF ActivateBestChainStep, InvalidateBlock, Start, StepEnd, InvalidateEnd,
           NotifyRecentlyAdded, Release, call
  <1>4. Kept(pool, pool', coins)
    <2>1. CASE pool' = pool
      BY <2>1 DEF Kept
    <2>2. CASE StepEnd
      <3>. DEFINE p == IF undone THEN removeForReorg(pool, tip) ELSE pool
      <3>1. Kept(pool, p, coins)
        BY CleanupKeeps DEF Kept
      <3>2. pool' = removeWithoutBranchId(p, BranchAt[Height[tip] + 1])
        BY <2>2 DEF StepEnd, Cleaned
      <3>. HIDE DEF p
      <3>3. Kept(p, pool', coins)
        BY <3>2, CleanupKeeps
      <3>. QED
        BY <3>1, <3>3, KeptTwice
    <2>3. CASE InvalidateEnd
      <3>. DEFINE p == removeForReorg(pool, tip)
      <3>1. Kept(pool, p, coins)
        BY CleanupKeeps
      <3>2. pool' = removeWithoutBranchId(p, BranchAt[Height[tip] + 1])
        BY <2>3 DEF InvalidateEnd
      <3>. HIDE DEF p
      <3>3. Kept(p, pool', coins)
        BY <3>2, CleanupKeeps
      <3>. QED
        BY <3>1, <3>3, KeptTwice
    <2>4. CASE NotifyRecentlyAdded
      <3>1. pool'.tx = pool.tx /\ pool'.next = pool.next /\ pool'.nf = pool.nf
        BY <2>4 DEF NotifyRecentlyAdded
      <3>2. In(pool') = In(pool)
        BY <3>1 DEF In
      <3>. QED
        BY <3>1, <3>2 DEF Kept, PoolSound, NextExact, NullifiersExact
    <2>. QED
      BY <2>1, <2>2, <2>3, <2>4
         DEF ActivateBestChainStep, InvalidateBlock, Start
  <1>. QED
    BY <1>2, <1>3, <1>4, CleanStep

\* Every step keeps the invariant, and so does a step of another thread.
LEMMA NextPoolInv == PoolInv /\ [Next]_vars => PoolInv'
  <1>. SUFFICES ASSUME PoolInv, [Next]_vars PROVE PoolInv'
    OBVIOUS
  <1>1. CASE UNCHANGED vars
    <2>1. UNCHANGED <<cc, tip, best, pool, tmp, undo, op, target>>
      BY <1>1 DEF vars, chain, call
    <2>2. target \in Block /\ (op = "invalidate" => target # Genesis)
      BY DEF PoolInv, ChainSound
    <2>. QED
      BY <2>1, <2>2, CleanStep DEF Kept
  <1>2. CASE Next
    BY <1>2, TransactionStep, CallStep, DisconnectTipStep, ResurrectStep, DisconnectDoneStep,
       ConnectTipStep, ConnectTipInvalidStep, StepFailsStep DEF Next
  <1>. QED
    BY <1>1, <1>2

\* Whatever is relayed, sent, connected, disconnected or refused, and whenever
\* the pool is looked at, its maps and the chain fit together.
THEOREM PoolInvariant == Spec => []PoolInv
  BY InitPoolInv, NextPoolInv, PTL DEF Spec

\* CTxMemPool::check: every input is available, no output is spent twice, no
\* nullifier is spent in the chain and every anchor exists.
THEOREM PoolAlwaysChecks == Spec => [](InputsAvailable /\ SpendersExact /\ ShieldedValid)
  <1>1. PoolInv => InputsAvailable /\ SpendersExact /\ ShieldedValid
    BY DEF PoolInv
  <1>. QED
    BY <1>1, PoolInvariant, PTL

\* The transactions after addUnchecked.
LEMMA AddGrows ==
    ASSUME NEW p, NEW S, NEW entry
    PROVE  /\ In(p) \subseteq In(addUnchecked(p, S, entry))
           /\ \A t \in Tx : t \in S /\ entry[t] # NoEntry => t \in In(addUnchecked(p, S, entry))
  <1>. DEFINE q == addUnchecked(p, S, entry)
              tx == [t \in Tx |-> IF t \in S /\ p.tx[t] = NoEntry THEN entry[t] ELSE p.tx[t]]
  <1>1. q.tx = tx
    BY DEF addUnchecked
  <1>2. In(q) = {t \in Tx : tx[t] # NoEntry}
    BY <1>1 DEF In
  <1>3. \A t \in Tx : p.tx[t] # NoEntry \/ (t \in S /\ entry[t] # NoEntry) => tx[t] # NoEntry
    OBVIOUS
  <1>. HIDE DEF tx, q
  <1>4. /\ In(p) \subseteq In(q)
        /\ \A t \in Tx : t \in S /\ entry[t] # NoEntry => t \in In(q)
    BY <1>2, <1>3 DEF In
  <1>. QED
    BY <1>4 DEF q

\* Both halves of the swap in CheckBlock: what was in the pool or in tmpmempool
\* is there after the first, and in the pool after the second.
LEMMA SwapLosesNothing ==
    ASSUME PoolInv, NEW b \in Block
    PROVE  /\ Held \subseteq In(BlockInPool(b)) \cup {t \in Tx : TmpWithout(b)[t] # NoEntry}
           /\ Held \subseteq In(AddedBack(b))
  <1>. DEFINE p1 == Without(pool, Moved)
              S1 == CheckBlockTxs(b) \ In(p1)
              e == [branch |-> BranchAt[Height[tip] + 1], spendsCoinbase |-> FALSE]
              e1 == [t \in Tx |-> e]
              p2 == BlockInPool(b)
              tmp2 == TmpWithout(b)
              S2 == {t \in Tx : tmp2[t] # NoEntry}
  <1>1. p2 = addUnchecked(p1, S1, e1) /\ AddedBack(b) = addUnchecked(p2, S2, tmp2)
    BY DEF BlockInPool, AddedBack
  <1>2. \A t \in Tx : e1[t] # NoEntry
    <2>1. tip \in Block
      BY DEF PoolInv, ChainSound
    <2>2. e \in Entry
      BY <2>1, TxAssumption DEF Entry
    <2>3. e # NoEntry
      BY <2>2, TxAssumption
    <2>. HIDE DEF e
    <2>. QED
      BY <2>3
  <1>3. In(p1) = In(pool) \ Moved
    BY WithoutFields
  <1>4. \A t \in Tx : tmp2[t] = IF t \in CheckBlockTxs(b) THEN NoEntry
                      ELSE IF t \in Moved /\ tmp[t] = NoEntry THEN pool.tx[t] ELSE tmp[t]
    BY DEF TmpWithout
  <1>. HIDE DEF p1, e1, p2, tmp2
  <1>5. In(p1) \cup (CheckBlockTxs(b) \cap Tx) \subseteq In(p2)
    BY <1>1, <1>2, AddGrows
  <1>6. In(p2) \cup S2 \subseteq In(AddedBack(b))
    BY <1>1, AddGrows
  <1>7. ASSUME NEW t \in Held PROVE t \in In(p2) \cup S2
    <2>1. t \in Tx /\ (t \in In(pool) \/ tmp[t] # NoEntry)
      BY DEF Held, In
    <2>2. CASE t \in CheckBlockTxs(b)
      BY <1>5, <2>1, <2>2
    <2>3. CASE t \notin CheckBlockTxs(b) /\ t \in In(pool) \ Moved
      BY <1>3, <1>5, <2>3
    <2>4. CASE t \notin CheckBlockTxs(b) /\ (t \in Moved \/ tmp[t] # NoEntry)
      <3>1. t \in Moved => pool.tx[t] # NoEntry
        BY DEF Moved, In
      <3>. QED
        BY <1>4, <2>1, <2>4, <3>1
    <2>. QED
      BY <2>1, <2>2, <2>3, <2>4
  <1>. QED
    BY <1>6, <1>7 DEF p2, tmp2

\* No transaction disappears because of a block that is refused, on chains with
\* and without crypto-conditions (CheckBlock, ConnectTip).
THEOREM RefusedLosesNothing == Spec => RefusedBlockLosesNothing
  <1>. DEFINE A == Connecting /\ tip' = tip => Held \subseteq Held'
  <1>1. PoolInv /\ [Next]_vars => [A]_vars
    <2>. SUFFICES ASSUME PoolInv, Next, Connecting, tip' = tip PROVE Held \subseteq Held'
      OBVIOUS
    <2>1. /\ op = "step" /\ undo = 0 /\ NextBlock \in Block /\ NextBlock # tip
          /\ ~Better /\ ~invalid /\ tip \in Path[target]
      <3>1. NextBlock \in Block /\ NextBlock # Genesis /\ Parent[NextBlock] = tip /\ tip \in Block
        BY ConnectingChild, PoolInvSound
      <3>2. Height[NextBlock] = Height[tip] + 1 /\ Height[tip] \in Nat
        BY <3>1, TreeAssumption, TypeAssumption
      <3>3. NextBlock # tip
        BY SMTT(30), <3>2
      <3>. QED
        BY <3>1, <3>3 DEF Connecting
    <2>2. ConnectTipInvalid \/ StepFails \/ NotifyRecentlyAdded
      <3>1. undo \notin DOMAIN vtx[tip] /\ undo # Len(vtx[tip]) + 1
        <4>1. vtx[tip] \in Seq(Tx)
          BY PoolInvSound, TxAssumption
        <4>. QED
          BY SMTT(30), <2>1, <4>1
      <3>. QED
        BY <2>1, <3>1 DEF Next, SendRawTransaction, VisitOrphan, TxAccepted, TxOrphaned,
           NextInWorkQueue, TxDone, FinalizeNode, ActivateBestChainStep, InvalidateBlock, Start, Idle,
           DisconnectTip, Disconnecting, Resurrect, DisconnectDone, ConnectTip, StepEnd, InvalidateEnd
    <2>3. \/ pool'.tx = pool.tx /\ tmp' = tmp
          \/ pool' = BlockInPool(NextBlock) /\ tmp' = TmpWithout(NextBlock)
          \/ pool' = AddedBack(NextBlock)
      <3>1. CASE NotifyRecentlyAdded
        BY <3>1 DEF NotifyRecentlyAdded
      <3>2. CASE ConnectTipInvalid \/ StepFails
        BY <3>2 DEF ConnectTipInvalid, StepFails, CheckBlockRefuses, ConnectBlockRefuses
      <3>. QED
        BY <2>2, <3>1, <3>2
    <2>4. Held' = In(pool') \cup {t \in Tx : tmp'[t] # NoEntry}
      BY DEF Held, In
    <2>5. CASE pool'.tx = pool.tx /\ tmp' = tmp
      BY <2>5 DEF Held, In
    <2>6. CASE pool' = BlockInPool(NextBlock) /\ tmp' = TmpWithout(NextBlock)
      BY <2>1, <2>4, <2>6, SwapLosesNothing
    <2>7. CASE pool' = AddedBack(NextBlock)
      BY <2>1, <2>4, <2>7, SwapLosesNothing
    <2>. QED
      BY <2>3, <2>5, <2>6, <2>7
  <1>. QED
    BY <1>1, PoolInvariant, PTL DEF Spec, RefusedBlockLosesNothing

----------------------------------------------------------------------------
(***************************************************************************)
(* The orphan transactions.                                                *)
(***************************************************************************)
\* What the two maps say of each other.
OrphansOf(from) == {t \in Tx : from[t] # NoPeer}
Indexed(from, prev) ==
    /\ from \in [Tx -> Peer \cup {NoPeer}] /\ prev \in [Tx -> SUBSET Tx]
    /\ \A u \in Tx : prev[u] = OrphansOf(from) \cap Spenders[u]

\* EraseOrphanTx takes an orphan out of both maps.
LEMMA EraseIndexed ==
    ASSUME NEW from, NEW prev, Indexed(from, prev), NEW S
    PROVE  /\ Indexed(OrphansWithout(from, S), ByPrevWithout(prev, S))
           /\ OrphansOf(OrphansWithout(from, S)) = OrphansOf(from) \ S
  <1>. DEFINE f == OrphansWithout(from, S)
              p == ByPrevWithout(prev, S)
  <1>1. /\ from \in [Tx -> Peer \cup {NoPeer}] /\ prev \in [Tx -> SUBSET Tx]
        /\ \A u \in Tx : prev[u] = OrphansOf(from) \cap Spenders[u]
    BY DEF Indexed
  <1>2. /\ f \in [Tx -> Peer \cup {NoPeer}]
        /\ \A t \in Tx : f[t] = IF t \in S THEN NoPeer ELSE from[t]
    BY <1>1 DEF OrphansWithout
  <1>3. /\ p \in [Tx -> SUBSET Tx]
        /\ \A u \in Tx : p[u] = prev[u] \ (S \cap Spenders[u])
    BY <1>1 DEF ByPrevWithout
  <1>. HIDE DEF f, p
  <1>4. OrphansOf(f) = OrphansOf(from) \ S
    BY <1>2 DEF OrphansOf
  <1>5. \A u \in Tx : p[u] = OrphansOf(f) \cap Spenders[u]
    BY <1>1, <1>3, <1>4
  <1>6. Indexed(f, p)
    BY <1>2, <1>3, <1>5 DEF Indexed
  <1>. QED
    BY <1>4, <1>6 DEF f, p

\* AddOrphanTx puts an orphan into both.
LEMMA AddIndexed ==
    ASSUME Indexed(orphans, byPrev), NEW t \in Tx, NEW peer \in Peer
    PROVE  LET from == [orphans EXCEPT ![t] = peer]
               prev == [u \in Tx |-> IF Spends(t, u) THEN byPrev[u] \cup {t} ELSE byPrev[u]]
           IN  Indexed(from, prev) /\ OrphansOf(from) = OrphansOf(orphans) \cup {t}
  <1>. DEFINE from == [orphans EXCEPT ![t] = peer]
              prev == [u \in Tx |-> IF Spends(t, u) THEN byPrev[u] \cup {t} ELSE byPrev[u]]
  <1>1. /\ orphans \in [Tx -> Peer \cup {NoPeer}] /\ byPrev \in [Tx -> SUBSET Tx]
        /\ \A u \in Tx : byPrev[u] = OrphansOf(orphans) \cap Spenders[u]
    BY DEF Indexed
  <1>2. /\ from \in [Tx -> Peer \cup {NoPeer}]
        /\ \A u \in Tx : from[u] = IF u = t THEN peer ELSE orphans[u]
    BY <1>1
  <1>3. /\ prev \in [Tx -> SUBSET Tx]
        /\ \A u \in Tx : prev[u] = IF t \in Spenders[u] THEN byPrev[u] \cup {t} ELSE byPrev[u]
    BY <1>1 DEF Spends
  <1>4. peer # NoPeer
    BY LimitAssumption
  <1>. HIDE DEF from, prev
  <1>5. OrphansOf(from) = OrphansOf(orphans) \cup {t}
    BY <1>2, <1>4 DEF OrphansOf
  <1>6. \A u \in Tx : prev[u] = OrphansOf(from) \cap Spenders[u]
    BY <1>1, <1>3, <1>5
  <1>. QED
    BY <1>2, <1>3, <1>5, <1>6 DEF Indexed, from, prev

\* The conjuncts about the two maps.
OrphanMaps ==
    /\ Indexed(orphans, byPrev) /\ IsFiniteSet(OrphansOf(orphans))
    /\ Cardinality(OrphansOf(orphans)) <= MaxOrphans

\* OrphansInv, sorted into the maps and the loop.
LEMMA MapsOfInv ==
    OrphansInv <=> /\ OrphanMaps
                   /\ work \in Seq(Tx) /\ at \in 0 .. Len(work) /\ Undoing
                   /\ op = "tx" => \A t \in Tx : LookedAt(t) => ~HaveInputs(t)
  BY DEF OrphansInv, OrphanMaps, Indexed, OrphansOf, OrphansIndexed

\* Erasing keeps them.
LEMMA EraseMaps ==
    ASSUME OrphanMaps, NEW S, EraseOrphanTx(S)
    PROVE  OrphanMaps'
  <1>1. Indexed(orphans', byPrev') /\ OrphansOf(orphans') = OrphansOf(orphans) \ S
    BY EraseIndexed DEF OrphanMaps, EraseOrphanTx
  <1>. DEFINE A == OrphansOf(orphans)
              B == OrphansOf(orphans')
  <1>2. IsFiniteSet(A) /\ Cardinality(A) <= MaxOrphans /\ B \subseteq A
    BY <1>1 DEF OrphanMaps
  <1>. HIDE DEF A, B
  <1>3. IsFiniteSet(B) /\ Cardinality(B) <= Cardinality(A)
    BY <1>2, FS_Subset
  <1>4. Cardinality(B) \in Nat /\ Cardinality(A) \in Nat
    BY <1>2, <1>3, FS_CardinalityType
  <1>5. Cardinality(B) <= MaxOrphans
    BY SMTT(30), <1>2, <1>3, <1>4, LimitAssumption
  <1>. QED
    BY <1>1, <1>3, <1>5 DEF OrphanMaps, B, OrphansOf

\* A new orphan: LimitOrphanTxSize evicts as many as are too many.
LEMMA OrphanedMaps ==
    ASSUME OrphanMaps, NEW t \in Tx, NEW peer \in Peer, AddOrphanTx(peer, t)
    PROVE  OrphanMaps'
  <1>. DEFINE from == [orphans EXCEPT ![t] = peer]
              prev == [u \in Tx |-> IF Spends(t, u) THEN byPrev[u] \cup {t} ELSE byPrev[u]]
              held == OrphansOf(from)
  <1>1. Indexed(from, prev) /\ held = OrphansOf(orphans) \cup {t}
    BY AddIndexed DEF OrphanMaps
  <1>2. PICK S \in SUBSET held :
            /\ Cardinality(S) = IF Cardinality(held) > MaxOrphans
                                THEN Cardinality(held) - MaxOrphans ELSE 0
            /\ orphans' = OrphansWithout(from, S)
            /\ byPrev' = ByPrevWithout(prev, S)
    BY DEF AddOrphanTx, OrphansOf
  <1>. HIDE DEF from, prev
  <1>3. Indexed(orphans', byPrev') /\ OrphansOf(orphans') = held \ S
    BY <1>1, <1>2, EraseIndexed
  <1>4. IsFiniteSet(held)
    BY SMTT(30), <1>1, FS_AddElement DEF OrphanMaps
  <1>. HIDE DEF held
  <1>5. IsFiniteSet(held \ S) /\ held \cap S = S
    BY <1>4, FS_Subset
  <1>6. Cardinality(held \ S) = Cardinality(held) - Cardinality(S)
    <2>1. Cardinality(held \ S) = Cardinality(held) - Cardinality(held \cap S)
      BY <1>4, FS_Difference
    <2>. QED
      BY <2>1, <1>5
  <1>7. Cardinality(held) \in Nat
    BY <1>4, FS_CardinalityType
  <1>8. Cardinality(held \ S) <= MaxOrphans
    BY SMTT(30), <1>2, <1>6, <1>7, LimitAssumption
  <1>. QED
    BY <1>3, <1>5, <1>8 DEF OrphanMaps, OrphansOf

\* AcceptToMemoryPool that says "missing inputs" is not wrong about it.
LEMMA MissingIsMissing ==
    ASSUME NEW t \in Tx, MissingInputs(t), best \in Block
    PROVE  ~HaveInputs(t)
  <1>1. PICK o \in vin[t] : \A u \in Tx : o \in vout[u] => u \notin In(pool) /\ ~HaveCoins(best, u)
    BY DEF MissingInputs
  <1>2. o \notin Outs(In(pool))
    BY <1>1 DEF Outs, In
  <1>3. o \notin Unspent[best]
    <2>. SUFFICES ASSUME o \in Unspent[best] PROVE FALSE
      OBVIOUS
    <2>1. Path[best] \subseteq Block
      BY PathParent
    <2>2. ChainTxs[best] \subseteq Tx
      BY <2>1, BlockTxs DEF ChainTxs
    <2>3. o \in Outs(ChainTxs[best])
      BY DEF Unspent
    <2>4. PICK u \in ChainTxs[best] : o \in vout[u]
      BY <2>3 DEF Outs
    <2>. QED
      BY <1>1, <2>2, <2>4 DEF HaveCoins
  <1>. QED
    BY <1>2, <1>3 DEF HaveInputs

\* A transaction that comes into the pool gives inputs to those that spend it.
LEMMA InputsOfAccepted ==
    ASSUME NEW t \in Tx, NEW u \in Tx, NEW limitFree, Accepts(u, limitFree), tip \in Block,
           pool' = Accepted(u), best' = best, ~Spends(t, u), HaveInputs(t)'
    PROVE  HaveInputs(t)
  <1>1. In(pool') = In(pool) \cup {u}
    BY AcceptedFacts
  <1>2. vin[t] \cap vout[u] = {}
    BY DEF Spends, Spenders
  <1>3. Outs(In(pool')) = Outs(In(pool)) \cup vout[u]
    BY <1>1 DEF Outs
  <1>4. vin[t] \subseteq Outs(In(pool')) \cup Unspent[best]
    BY DEF HaveInputs
  <1>. QED
    BY <1>2, <1>3, <1>4 DEF HaveInputs

\* The state of the loop over vWorkQueue.
OrphanLoop ==
    /\ work \in Seq(Tx) /\ at \in 0 .. Len(work) /\ Undoing
    /\ op = "tx" => \A t \in Tx : LookedAt(t) => ~HaveInputs(t)

\* One turn of the loop over the orphans of an entry.
LEMMA VisitLoop ==
    ASSUME PoolInv, OrphanLoop, NEW u \in Tx, VisitOrphan(u)
    PROVE  OrphanLoop'
  <1>1. /\ op = "tx" /\ op' = op /\ undo' = undo /\ undone' = undone /\ best' = best /\ at' = at
        /\ orphans' = orphans /\ visit' = visit \ {u}
    BY DEF VisitOrphan, call, chain, orphanage
  <1>2. /\ work \in Seq(Tx) /\ at \in 0 .. Len(work) /\ Undoing
        /\ \A t \in Tx : LookedAt(t) => ~HaveInputs(t)
    BY <1>1 DEF OrphanLoop
  <1>3. best \in Block /\ tip \in Block
    BY PoolInvSound
  <1>4. Undoing'
    BY <1>1, <1>2 DEF Undoing
  <1>5. /\ erase \subseteq erase' /\ misbehaving \subseteq misbehaving'
        /\ work' = work \/ (work' = Append(work, u) /\ OrphanAccepted(u))
    BY DEF VisitOrphan, OrphanSkipped, OrphanAccepted, OrphanRefused, OrphanWaits
  <1>6. /\ work' \in Seq(Tx) /\ Len(work') \in Nat /\ Len(work) <= Len(work')
        /\ \A i \in 1 .. Len(work) : work'[i] = work[i]
        /\ OrphanAccepted(u) => Len(work') = Len(work) + 1 /\ work'[Len(work) + 1] = u
    <2>1. CASE work' = work /\ ~OrphanAccepted(u)
      BY SMTT(30), <2>1, <1>2
    <2>2. CASE work' = Append(work, u)
      BY SMTT(30), <2>2, <1>2
    <2>. QED
      BY <1>5, <2>1, <2>2 DEF OrphanAccepted
  <1>7. ASSUME NEW t \in Tx, LookedAt(t)', HaveInputs(t)'
        PROVE  FALSE
    <2>1. /\ t \notin visit' \cup erase' /\ orphans[t] \notin misbehaving' \cup {NoPeer}
          /\ \E i \in 1 .. at : Spends(t, work'[i])
          /\ \A i \in at + 1 .. Len(work') : ~Spends(t, work'[i])
      BY <1>1, <1>7 DEF LookedAt
    <2>2. CASE t = u
      <3>1. OrphanWaits(u)
        BY <2>1, <2>2, <1>5 DEF VisitOrphan, OrphanSkipped, OrphanAccepted, OrphanRefused
      <3>2. MissingInputs(u) /\ pool' = pool
        BY <3>1 DEF OrphanWaits
      <3>3. ~HaveInputs(u)
        BY <3>2, <1>3, MissingIsMissing
      <3>. QED
        BY <3>2, <3>3, <2>2, <1>1, <1>7 DEF HaveInputs
    <2>3. CASE t # u
      <3>1. t \notin visit \cup erase /\ orphans[t] \notin misbehaving \cup {NoPeer}
        BY <2>1, <2>3, <1>1, <1>5
      <3>2. \E i \in 1 .. at : Spends(t, work[i])
        BY SMTT(30), <2>1, <1>2, <1>6
      <3>3. \A i \in at + 1 .. Len(work) : ~Spends(t, work[i])
        BY SMTT(30), <2>1, <1>2, <1>6
      <3>4. ~HaveInputs(t)
        BY <3>1, <3>2, <3>3, <1>2 DEF LookedAt
      <3>5. CASE OrphanAccepted(u)
        <4>1. Len(work) + 1 \in at + 1 .. Len(work')
          BY SMTT(30), <3>5, <1>2, <1>6
        <4>2. ~Spends(t, u)
          BY <4>1, <3>5, <2>1, <1>6
        <4>3. Accepts(u, TRUE) /\ pool' = Accepted(u)
          BY <3>5 DEF OrphanAccepted
        <4>. QED
          BY <4>2, <4>3, <3>4, <1>1, <1>3, <1>7, InputsOfAccepted
      <3>6. CASE pool' = pool
        BY <3>4, <3>6, <1>1, <1>7 DEF HaveInputs
      <3>. QED
        BY <3>5, <3>6 DEF VisitOrphan, OrphanSkipped, OrphanRefused, OrphanWaits
    <2>. QED
      BY <2>2, <2>3
  <1>. QED
    BY SMTT(30), <1>1, <1>2, <1>4, <1>6, <1>7 DEF OrphanLoop

\* The orphans of an entry are all those that spend one of its outputs.
LEMMA NextLoop ==
    ASSUME OrphanMaps, OrphanLoop, NextInWorkQueue
    PROVE  OrphanLoop'
  <1>1. /\ op = "tx" /\ op' = op /\ undo' = undo /\ undone' = undone /\ best' = best /\ pool' = pool
        /\ orphans' = orphans /\ work' = work /\ erase' = erase /\ misbehaving' = misbehaving
        /\ visit = {} /\ at < Len(work) /\ at' = at + 1 /\ visit' = byPrev[work[at + 1]]
    BY DEF NextInWorkQueue, call, chain, orphanage
  <1>2. /\ work \in Seq(Tx) /\ at \in 0 .. Len(work) /\ Undoing
        /\ \A t \in Tx : LookedAt(t) => ~HaveInputs(t)
    BY <1>1 DEF OrphanLoop
  <1>3. Undoing' /\ at' \in 0 .. Len(work')
    BY SMTT(30), <1>1, <1>2 DEF Undoing
  <1>4. ASSUME NEW t \in Tx, LookedAt(t)'
        PROVE  LookedAt(t)
    <2>1. /\ t \notin visit' \cup erase /\ orphans[t] \notin misbehaving \cup {NoPeer}
          /\ \E i \in 1 .. at + 1 : Spends(t, work[i])
          /\ \A i \in (at + 1) + 1 .. Len(work) : ~Spends(t, work[i])
      BY <1>1, <1>4 DEF LookedAt
    <2>2. work[at + 1] \in Tx
      BY SMTT(30), <1>1, <1>2
    <2>3. visit' = OrphansOf(orphans) \cap Spenders[work[at + 1]]
      BY <1>1, <2>2 DEF OrphanMaps, Indexed
    <2>4. ~Spends(t, work[at + 1])
      BY <2>1, <2>3 DEF OrphansOf, Spends
    <2>5. \A i \in at + 1 .. Len(work) : ~Spends(t, work[i])
      BY SMTT(30), <2>1, <2>4, <1>2
    <2>6. \E i \in 1 .. at : Spends(t, work[i])
      BY SMTT(30), <2>1, <2>4, <1>2
    <2>. QED
      BY <2>1, <2>5, <2>6, <1>1 DEF LookedAt
  <1>5. \A t \in Tx : HaveInputs(t)' <=> HaveInputs(t)
    BY <1>1 DEF HaveInputs
  <1>. QED
    BY <1>1, <1>2, <1>3, <1>4, <1>5 DEF OrphanLoop

\* A transaction of a peer that is accepted is the first entry.
LEMMA AcceptedLoop ==
    ASSUME OrphanMaps, OrphanLoop, NEW peer, NEW u \in Tx, TxAccepted(peer, u)
    PROVE  OrphanLoop'
  <1>1. /\ op = "idle" /\ undo' = undo /\ undone' = undone /\ orphans' = orphans
        /\ work' = <<u>> /\ at' = 1 /\ visit' = byPrev[u] /\ op' = "tx"
    BY DEF TxAccepted, Idle
  <1>2. undo = 0 /\ ~undone
    BY <1>1 DEF OrphanLoop, Undoing
  <1>3. Undoing'
    BY <1>1, <1>2 DEF Undoing
  <1>4. ASSUME NEW t \in Tx, LookedAt(t)'
        PROVE  FALSE
    <2>1. /\ t \notin byPrev[u] /\ orphans[t] # NoPeer
          /\ \E i \in 1 .. 1 : Spends(t, <<u>>[i])
      BY <1>1, <1>4 DEF LookedAt
    <2>2. Spends(t, u)
      BY SMTT(30), <2>1
    <2>. QED
      BY <2>1, <2>2 DEF OrphanMaps, Indexed, OrphansOf, Spends
  <1>. QED
    BY SMTT(30), <1>1, <1>3, <1>4 DEF OrphanLoop

\* Outside the loop only the maps and what DisconnectTip has begun matter.
LEMMA LeavesLoop ==
    ASSUME OrphanLoop, op' # "tx", work' \in Seq(Tx), at' \in 0 .. Len(work'), Undoing'
    PROVE  OrphanLoop'
  BY DEF OrphanLoop

\* A step that leaves both maps alone.
LEMMA MapsStay ==
    ASSUME OrphanMaps, UNCHANGED orphanage
    PROVE  OrphanMaps'
  BY DEF OrphanMaps, orphanage

\* What the steps outside the loop leave alone.
LEMMA OutsideLoop ==
    ASSUME OrphanMaps, OrphanLoop, UNCHANGED orphanage, UNCHANGED handler, op' # "tx", Undoing'
    PROVE  OrphansInv'
  <1>1. work' = work /\ at' = at
    BY DEF handler
  <1>2. work \in Seq(Tx) /\ at \in 0 .. Len(work)
    BY DEF OrphanLoop
  <1>3. OrphanLoop'
    BY <1>1, <1>2, LeavesLoop
  <1>4. OrphanMaps'
    BY MapsStay
  <1>5. (OrphanMaps /\ OrphanLoop)' => OrphansInv'
    BY MapsOfInv, PTL DEF OrphanLoop
  <1>. QED
    BY <1>3, <1>4, <1>5

\* The steps of a "tx" message and of the peers.
LEMMA OrphanStep ==
    ASSUME PoolInv, OrphanMaps, OrphanLoop,
           \/ \E t \in Tx : VisitOrphan(t)
           \/ \E t \in Relayed, p \in Peer : TxAccepted(p, t) \/ TxOrphaned(p, t)
           \/ NextInWorkQueue \/ TxDone
           \/ \E p \in Peer : FinalizeNode(p)
    PROVE  OrphanMaps' /\ OrphanLoop'
  <1>0. Relayed \subseteq Tx
    BY TxAssumption
  <1>1. CASE \E t \in Tx : VisitOrphan(t)
    <2>1. UNCHANGED orphanage
      BY <1>1 DEF VisitOrphan
    <2>. QED
      BY <1>1, <2>1, MapsStay, VisitLoop
  <1>2. CASE NextInWorkQueue
    <2>1. UNCHANGED orphanage
      BY <1>2 DEF NextInWorkQueue
    <2>. QED
      BY <1>2, <2>1, MapsStay, NextLoop
  <1>3. ASSUME NEW t \in Relayed, NEW p \in Peer, TxAccepted(p, t)
        PROVE  OrphanMaps' /\ OrphanLoop'
    <2>1. UNCHANGED orphanage
      BY <1>3 DEF TxAccepted, orphanage
    <2>. QED
      BY <1>0, <1>3, <2>1, MapsStay, AcceptedLoop
  <1>4. ASSUME NEW t \in Relayed, NEW p \in Peer, TxOrphaned(p, t)
        PROVE  OrphanMaps' /\ OrphanLoop'
    <2>1. /\ AddOrphanTx(p, t) /\ op = "idle" /\ op' = op /\ undo' = undo /\ undone' = undone
          /\ work' = work /\ at' = at
      BY <1>4 DEF TxOrphaned, Idle, call, handler
    <2>2. OrphanMaps'
      BY <1>0, <2>1, OrphanedMaps
    <2>. QED
      BY <2>1, <2>2 DEF OrphanLoop, Undoing
  <1>5. CASE TxDone
    <2>1. /\ EraseOrphanTx(erase) /\ op = "tx" /\ op' = "idle" /\ undo' = undo /\ undone' = undone
          /\ work' = << >> /\ at' = 0
      BY <1>5 DEF TxDone
    <2>2. OrphanMaps'
      BY <2>1, EraseMaps
    <2>3. Undoing'
      BY <2>1 DEF OrphanLoop, Undoing
    <2>4. work' \in Seq(Tx) /\ at' \in 0 .. Len(work')
      BY SMTT(30), <2>1
    <2>. QED
      BY <2>1, <2>2, <2>3, <2>4, LeavesLoop
  <1>6. ASSUME NEW p \in Peer, FinalizeNode(p)
        PROVE  OrphanMaps' /\ OrphanLoop'
    <2>1. /\ EraseOrphanTx({t \in Tx : orphans[t] = p}) /\ op = "idle" /\ op' = op
          /\ undo' = undo /\ undone' = undone /\ work' = work /\ at' = at
      BY <1>6 DEF FinalizeNode, Idle, call, handler
    <2>2. OrphanMaps'
      BY <2>1, EraseMaps
    <2>. QED
      BY <2>1, <2>2 DEF OrphanLoop, Undoing
  <1>. QED
    BY <1>1, <1>2, <1>3, <1>4, <1>5, <1>6

\* DisconnectTip, ConnectTip and the calls around them: not in the loop.
LEMMA CallOutside ==
    ASSUME PoolInv, Undoing,
           \/ \E t \in Sent : SendRawTransaction(t)
           \/ \E b \in Block : ActivateBestChainStep(b) \/ InvalidateBlock(b)
           \/ DisconnectTip \/ Resurrect \/ DisconnectDone \/ ConnectTip \/ ConnectTipInvalid
           \/ StepEnd \/ StepFails \/ InvalidateEnd
    PROVE  UNCHANGED orphanage /\ UNCHANGED handler /\ op' # "tx" /\ Undoing'
  <1>0. tip \in Block /\ vtx[tip] \in Seq(Tx)
    BY PoolInvSound, TxAssumption
  <1>1. UNCHANGED orphanage /\ UNCHANGED handler
    BY DEF SendRawTransaction, ActivateBestChainStep, InvalidateBlock, Start, DisconnectTip,
       Resurrect, DisconnectDone, ConnectTip, ConnectTipInvalid, StepEnd, StepFails, InvalidateEnd
  <1>2. CASE \E t \in Sent : SendRawTransaction(t)
    BY SMTT(30), <1>1, <1>2 DEF SendRawTransaction, Idle, call, Undoing
  <1>3. CASE \E b \in Block : ActivateBestChainStep(b) \/ InvalidateBlock(b)
    BY <1>1, <1>3 DEF ActivateBestChainStep, InvalidateBlock, Start, Idle, Undoing
  <1>4. CASE DisconnectTip
    BY <1>1, <1>4 DEF DisconnectTip, Disconnecting, call, Undoing
  <1>5. CASE Resurrect
    <2>1. undo \in DOMAIN vtx[tip] /\ op' = op
      BY <1>5 DEF Resurrect, call
    <2>2. undo # 0
      BY SMTT(30), <1>0, <2>1
    <2>. QED
      BY <1>1, <2>1, <2>2 DEF Undoing
  <1>6. CASE DisconnectDone
    <2>1. undo # 0 /\ op' = op
      BY SMTT(30), <1>0, <1>6 DEF DisconnectDone
    <2>. QED
      BY <1>1, <2>1 DEF Undoing
  <1>7. CASE ConnectTip \/ ConnectTipInvalid
    <2>1. op = "step" /\ op' = op
      BY <1>7 DEF ConnectTip, ConnectTipInvalid, Connecting, call
    <2>. QED
      BY <1>1, <2>1 DEF Undoing
  <1>8. CASE StepEnd \/ StepFails \/ InvalidateEnd
    <2>1. op' = "idle" /\ undo' = 0 /\ ~undone'
      BY <1>8 DEF StepEnd, StepFails, InvalidateEnd, Release
    <2>. QED
      BY <1>1, <2>1 DEF Undoing
  <1>. QED
    BY <1>2, <1>3, <1>4, <1>5, <1>6, <1>7, <1>8

\* The "txnotify" thread comes in between, and moves no transaction.
LEMMA NotifyLoop ==
    ASSUME OrphanLoop, NotifyRecentlyAdded
    PROVE  OrphanLoop'
  <1>1. /\ In(pool') = In(pool) /\ best' = best /\ op' = op /\ undo' = undo /\ undone' = undone
        /\ work' = work /\ at' = at /\ visit' = visit /\ erase' = erase
        /\ misbehaving' = misbehaving /\ orphans' = orphans
    BY DEF NotifyRecentlyAdded, In, chain, call, handler, orphanage
  <1>2. \A t \in Tx : (HaveInputs(t)' <=> HaveInputs(t)) /\ (LookedAt(t)' <=> LookedAt(t))
    BY <1>1 DEF HaveInputs, LookedAt
  <1>3. Undoing' <=> Undoing
    BY <1>1 DEF Undoing
  <1>. QED
    BY <1>1, <1>2, <1>3 DEF OrphanLoop

\* No orphan at first.
LEMMA InitOrphansInv == Init => OrphansInv
  <1>. SUFFICES ASSUME Init PROVE OrphansInv
    OBVIOUS
  <1>1. {t \in Tx : orphans[t] # NoPeer} = {}
    BY DEF Init
  <1>2. IsFiniteSet({}) /\ Cardinality({}) = 0 /\ MaxOrphans \in Nat
    BY FS_EmptySet, LimitAssumption
  <1>3. OrphansIndexed
    <2>1. \A u \in Tx : byPrev[u] = {}
      BY DEF Init
    <2>2. 0 <= MaxOrphans
      BY SMTT(30), <1>2
    <2>. QED
      BY <1>1, <1>2, <2>1, <2>2, Zenon DEF OrphansIndexed
  <1>4. orphans \in [Tx -> Peer \cup {NoPeer}] /\ byPrev \in [Tx -> SUBSET Tx]
    BY DEF Init
  <1>5. work \in Seq(Tx) /\ at \in 0 .. Len(work) /\ Undoing /\ op # "tx"
    BY SMT DEF Init, Undoing
  <1>. QED
    BY <1>1, <1>2, <1>3, <1>4, <1>5 DEF OrphansInv

\* Every step keeps the invariant of the orphans.
LEMMA NextOrphansInv == PoolInv /\ OrphansInv /\ [Next]_vars => OrphansInv'
  <1>. SUFFICES ASSUME PoolInv, OrphansInv, [Next]_vars PROVE OrphansInv'
    OBVIOUS
  <1>1. OrphanMaps /\ OrphanLoop
    BY MapsOfInv DEF OrphanLoop
  <1>2. (OrphanMaps /\ OrphanLoop)' => OrphansInv'
    BY MapsOfInv, PTL DEF OrphanLoop
  <1>3. Undoing
    BY DEF OrphansInv
  <1>4. CASE UNCHANGED vars
    <2>1. UNCHANGED <<orphans, byPrev, work, at, visit, erase, misbehaving, op, undo, undone, pool, best>>
      BY <1>4 DEF vars, orphanage, handler, call, chain
    <2>2. OrphanMaps'
      BY <1>1, <2>1, MapsStay DEF orphanage
    <2>3. \A t \in Tx : (HaveInputs(t)' <=> HaveInputs(t)) /\ (LookedAt(t)' <=> LookedAt(t))
      BY <2>1 DEF HaveInputs, LookedAt
    <2>4. OrphanLoop'
      BY <1>1, <2>1, <2>3 DEF OrphanLoop, Undoing
    <2>. QED
      BY <1>2, <2>2, <2>4
  <1>5. CASE NotifyRecentlyAdded
    <2>1. UNCHANGED orphanage
      BY <1>5 DEF NotifyRecentlyAdded
    <2>. QED
      BY <1>1, <1>2, <1>5, <2>1, MapsStay, NotifyLoop
  <1>6. CASE \/ \E t \in Tx : VisitOrphan(t)
             \/ \E t \in Relayed, p \in Peer : TxAccepted(p, t) \/ TxOrphaned(p, t)
             \/ NextInWorkQueue \/ TxDone
             \/ \E p \in Peer : FinalizeNode(p)
    BY <1>1, <1>2, <1>6, OrphanStep
  <1>7. CASE \/ \E t \in Sent : SendRawTransaction(t)
             \/ \E b \in Block : ActivateBestChainStep(b) \/ InvalidateBlock(b)
             \/ DisconnectTip \/ Resurrect \/ DisconnectDone \/ ConnectTip \/ ConnectTipInvalid
             \/ StepEnd \/ StepFails \/ InvalidateEnd
    BY <1>1, <1>3, <1>7, CallOutside, OutsideLoop
  <1>. QED
    BY <1>4, <1>5, <1>6, <1>7 DEF Next

\* The maps of the orphans agree and hold no more than -maxorphantx, whatever
\* AddOrphanTx, EraseOrphanTx, LimitOrphanTxSize and EraseOrphansFor do.
THEOREM OrphansAlwaysIndexed == Spec => []OrphansIndexed
  <1>1. OrphansInv => OrphansIndexed
    BY DEF OrphansInv
  <1>. QED
    BY <1>1, PoolInvariant, InitOrphansInv, NextOrphansInv, PTL DEF Spec

\* The loop over vWorkQueue leaves no orphan behind that it could have accepted.
THEOREM OrphansAlwaysResolved == Spec => []OrphansResolved
  <1>1. OrphansInv => OrphansResolved
    <2>. SUFFICES ASSUME OrphansInv, op = "tx", visit = {}, at = Len(work), NEW t \in Tx \ erase,
                         orphans[t] \notin misbehaving \cup {NoPeer},
                         \E i \in 1 .. Len(work) : Spends(t, work[i])
                  PROVE  ~Accepts(t, TRUE)
      BY DEF OrphansResolved
    <2>1. \A i \in at + 1 .. Len(work) : ~Spends(t, work[i])
      BY SMT DEF OrphansInv
    <2>2. LookedAt(t)
      BY <2>1 DEF LookedAt
    <2>. QED
      BY <2>2 DEF OrphansInv, Accepts
  <1>. QED
    BY <1>1, PoolInvariant, InitOrphansInv, NextOrphansInv, PTL DEF Spec

----------------------------------------------------------------------------
(***************************************************************************)
(* The transactions that can be mined.                                     *)
(***************************************************************************)
\* A removal changes no entry that it leaves.
Subpool(p, q) == In(q) \subseteq In(p) /\ \A t \in In(q) : q.tx[t] = p.tx[t]

\* One removal after another.
LEMMA SubpoolTwice ==
    ASSUME NEW p, NEW q, NEW r, Subpool(p, q), Subpool(q, r)
    PROVE  Subpool(p, r)
  BY DEF Subpool

\* remove without fRecursive is one.
LEMMA WithoutEntries ==
    ASSUME NEW p, NEW S
    PROVE  Subpool(p, Without(p, S))
  <1>. DEFINE q == Without(p, S)
              gone == S \cap In(p)
              tx == [t \in Tx |-> IF t \in gone THEN NoEntry ELSE p.tx[t]]
  <1>1. q.tx = tx
    BY DEF Without
  <1>2. In(q) = In(p) \ S
    BY WithoutFields
  <1>3. \A t \in Tx : t \notin gone => tx[t] = p.tx[t]
    OBVIOUS
  <1>. HIDE DEF q, tx
  <1>4. In(q) \subseteq Tx /\ In(q) \subseteq In(p)
    BY <1>2 DEF In
  <1>. QED
    BY <1>1, <1>2, <1>3, <1>4 DEF Subpool, q

\* remove with fRecursive is one, and what it was asked to remove is gone.
LEMMA RemoveEntries ==
    ASSUME NEW p, NEW S
    PROVE  Subpool(p, remove(p, S)) /\ In(remove(p, S)) \cap S = {}
  BY WithoutEntries, RemoveShielded DEF remove

\* What each of the removals is for.
LEMMA RemovalFacts ==
    ASSUME NEW p, NEW x
    PROVE  /\ Subpool(p, removeForReorg(p, x))
           /\ \A t \in In(removeForReorg(p, x)) : IsFinalTx(t, Height[x] + 1)
           /\ Subpool(p, removeWithAnchor(p, x))
           /\ Subpool(p, removeForBlock(p, x))
           /\ Subpool(p, removeExpired(p, x))
           /\ \A t \in In(removeExpired(p, x)) : ~IsExpiredTx(t, x)
           /\ Subpool(p, removeWithoutBranchId(p, x))
           /\ \A t \in In(removeWithoutBranchId(p, x)) :
                  removeWithoutBranchId(p, x).tx[t].branch = x
  <1>1. /\ Subpool(p, removeForReorg(p, x))
        /\ \A t \in In(removeForReorg(p, x)) : IsFinalTx(t, Height[x] + 1)
    <2>. DEFINE h == Height[x] + 1
                Lost(u) == \/ ~HaveCoins(x, u)
                           \/ u \in CoinbaseTx /\ Immature(x, u, h) /\ Locked(u, h)
                S == {t \in In(p) : \/ ~IsFinalTx(t, h)
                                    \/ /\ p.tx[t].spendsCoinbase
                                       /\ \E u \in Tx \ In(p) : Spends(t, u) /\ Lost(u)}
    <2>1. removeForReorg(p, x) = remove(p, S)
      BY DEF removeForReorg
    <2>2. Subpool(p, remove(p, S)) /\ In(remove(p, S)) \cap S = {}
      BY RemoveEntries
    <2>3. \A t \in In(p) : ~IsFinalTx(t, h) => t \in S
      OBVIOUS
    <2>. HIDE DEF S
    <2>. QED
      BY <2>1, <2>2, <2>3 DEF Subpool
  <1>2. Subpool(p, removeWithAnchor(p, x))
    BY RemoveEntries DEF removeWithAnchor
  <1>3. Subpool(p, removeForBlock(p, x))
    <2>1. Subpool(p, Without(p, x)) /\ Subpool(Without(p, x), removeForBlock(p, x))
      BY WithoutEntries, RemoveEntries DEF removeForBlock
    <2>. QED
      BY <2>1, SubpoolTwice
  <1>4. Subpool(p, removeExpired(p, x)) /\ \A t \in In(removeExpired(p, x)) : ~IsExpiredTx(t, x)
    <2>. DEFINE S == {t \in In(p) : IsExpiredTx(t, x)}
    <2>1. removeExpired(p, x) = remove(p, S)
      BY DEF removeExpired
    <2>2. Subpool(p, remove(p, S)) /\ In(remove(p, S)) \cap S = {}
      BY RemoveEntries
    <2>. QED
      BY <2>1, <2>2 DEF Subpool
  <1>5. /\ Subpool(p, removeWithoutBranchId(p, x))
        /\ \A t \in In(removeWithoutBranchId(p, x)) :
               removeWithoutBranchId(p, x).tx[t].branch = x
    <2>. DEFINE S == {t \in In(p) : p.tx[t].branch # x}
    <2>1. removeWithoutBranchId(p, x) = remove(p, S)
      BY DEF removeWithoutBranchId
    <2>2. Subpool(p, remove(p, S)) /\ In(remove(p, S)) \cap S = {}
      BY RemoveEntries
    <2>. QED
      BY <2>1, <2>2 DEF Subpool
  <1>. QED
    BY <1>1, <1>2, <1>3, <1>4, <1>5

\* IsExpiredTx and IsFinalTx at the height of a block and at the next.
LEMMA NextHeight ==
    ASSUME NEW t \in Tx, NEW h \in Nat
    PROVE  /\ IsExpiredTx(t, h) => IsExpiredTx(t, h + 1)
           /\ IsFinalTx(t, h) => IsFinalTx(t, h + 1)
  <1>1. nExpiryHeight[t] \in Nat /\ nLockTime[t] \in Nat
    BY LimitAssumption
  <1>. QED
    BY SMTT(30), <1>1 DEF IsExpiredTx, IsFinalTx

\* The entry that AcceptToMemoryPool makes.
LEMMA AcceptedEntry ==
    ASSUME PoolInv, NEW t \in Tx, NEW limitFree, Accepts(t, limitFree)
    PROVE  /\ In(Accepted(t)) = In(pool) \cup {t} /\ t \notin In(pool)
           /\ \A u \in In(pool) : Accepted(t).tx[u] = pool.tx[u]
           /\ Accepted(t).tx[t].branch = Commits[t] /\ Commits[t] = BranchAt[Height[tip] + 1]
           /\ ~IsExpiredTx(t, Height[tip]) /\ IsFinalTx(t, Height[tip] + 1)
  <1>. DEFINE e == [branch |-> BranchAt[Height[tip] + 1], spendsCoinbase |-> SpendsCoinbase(t)]
              entry == [u \in Tx |-> e]
              tx == [u \in Tx |-> IF u \in {t} /\ pool.tx[u] = NoEntry THEN entry[u] ELSE pool.tx[u]]
  <1>1. tip \in Block
    BY PoolInvSound
  <1>2. In(Accepted(t)) = In(pool) \cup {t}
    BY <1>1, AcceptedFacts
  <1>3. t \notin In(pool) /\ ~IsExpiredTx(t, Height[tip] + 1) /\ IsFinalTx(t, Height[tip] + 1)
        /\ Commits[t] = BranchAt[Height[tip] + 1]
    BY DEF Accepts, Fresh
  <1>4. Accepted(t).tx = tx
    BY DEF Accepted, addUnchecked
  <1>5. pool.tx[t] = NoEntry
    BY <1>3 DEF In
  <1>6. tx[t] = e /\ \A u \in In(pool) : tx[u] = pool.tx[u]
    BY <1>3, <1>5 DEF In
  <1>7. e.branch = BranchAt[Height[tip] + 1]
    OBVIOUS
  <1>8. ~IsExpiredTx(t, Height[tip])
    BY <1>1, <1>3, NextHeight, TypeAssumption
  <1>. HIDE DEF tx, e
  <1>. QED
    BY <1>2, <1>3, <1>4, <1>6, <1>7, <1>8

\* The part of MinableInv about the pool.
Minable == \A t \in In(pool) : MinableEntry(t)

\* The transactions that stay while the chain stays.
LEMMA EntriesStay ==
    ASSUME Minable, Subpool(pool, pool'), UNCHANGED <<tip, oldTip, undone, unclean>>,
           op' = op \/ (op \in {"idle", "tx"} /\ op' \in {"idle", "tx"})
    PROVE  Minable'
  BY DEF Minable, MinableEntry, Subpool

\* AcceptToMemoryPool adds a transaction that the next block may have.
LEMMA EntryAdded ==
    ASSUME PoolInv, Minable, NEW t \in Tx, NEW limitFree, Accepts(t, limitFree),
           pool' = Accepted(t), UNCHANGED <<tip, oldTip, undone, unclean>>,
           op' = op \/ (op \in {"idle", "tx"} /\ op' \in {"idle", "tx"})
    PROVE  Minable'
  <1>1. /\ In(pool') = In(pool) \cup {t}
        /\ \A u \in In(pool) : pool'.tx[u] = pool.tx[u]
        /\ pool'.tx[t].branch = Commits[t] /\ Commits[t] = BranchAt[Height[tip] + 1]
        /\ ~IsExpiredTx(t, Height[tip]) /\ IsFinalTx(t, Height[tip] + 1)
    BY AcceptedEntry
  <1>2. MinableEntry(t)'
    BY <1>1 DEF MinableEntry
  <1>3. \A u \in In(pool) : MinableEntry(u)'
    BY <1>1 DEF Minable, MinableEntry
  <1>. QED
    BY <1>1, <1>2, <1>3 DEF Minable

\* A block is taken off: nothing expires, and the end of the call cleans up.
LEMMA MinableDisconnected ==
    ASSUME PoolInv, Minable, DisconnectDone
    PROVE  Minable'
  <1>1. tip \in Block /\ vtx[tip] \in Seq(Tx)
    BY PoolInvSound, TxAssumption
  <1>2. undo # 0
    BY SMTT(30), <1>1 DEF DisconnectDone
  <1>3. tip # Genesis /\ tip' = Parent[tip] /\ undone'
    BY <1>2 DEF PoolInv, ChainSound, DisconnectDone
  <1>4. Height[tip] = Height[tip'] + 1 /\ Height[tip'] \in Nat
    BY <1>1, <1>3, PathParent, TypeAssumption
  <1>5. Subpool(pool, pool')
    <2>1. Subpool(pool, pool)
      BY DEF Subpool
    <2>. QED
      BY <2>1, RemovalFacts DEF DisconnectDone
  <1>6. ASSUME NEW t \in In(pool') PROVE MinableEntry(t)'
    <2>1. t \in Tx /\ MinableEntry(t) /\ pool'.tx[t] = pool.tx[t]
      BY <1>5 DEF Minable, Subpool, In
    <2>2. ~IsExpiredTx(t, Height[tip'])
      BY <2>1, <1>4, NextHeight DEF MinableEntry
    <2>. QED
      BY <2>1, <2>2, <1>3 DEF MinableEntry
  <1>. QED
    BY <1>6 DEF Minable

\* A block is connected by a step that has disconnected nothing: the first one.
LEMMA FirstConnected ==
    ASSUME PoolInv, StepMoves, Connecting
    PROVE  /\ ~undone => tip = oldTip
           /\ NextBlock \in Path[target] /\ NextBlock # tip
           /\ ChainWork[NextBlock] > ChainWork[tip]
           /\ Height[NextBlock] = Height[tip] + 1 /\ Height[tip] \in Nat
  <1>1. target \in Block /\ tip \in Path[target] /\ tip # target /\ tip \in Block
    BY PoolInvSound DEF PoolInv, ChainSound, Connecting, Better
  <1>2. NextBlock \in Path[target] /\ NextBlock # Genesis /\ Parent[NextBlock] = tip
    BY <1>1, NextIsChild DEF NextBlock
  <1>3. NextBlock \in Block
    BY <1>1, <1>2, PathParent
  <1>4. ChainWork[NextBlock] > ChainWork[tip] /\ Height[NextBlock] = Height[tip] + 1
    BY <1>2, <1>3, TreeAssumption
  <1>5. Height[tip] \in Nat
    BY <1>1, TypeAssumption
  <1>6. ~undone => tip = oldTip
    BY DEF StepMoves, Connecting, Better
  <1>7. NextBlock # tip
    BY SMTT(30), <1>4, <1>5
  <1>. QED
    BY <1>2, <1>4, <1>5, <1>6, <1>7

\* ConnectTip: removeExpired at the height of the new tip.
LEMMA MinableConnected ==
    ASSUME PoolInv, StepMoves, ~cc, Minable, ConnectTip
    PROVE  Minable'
  <1>. DEFINE b == NextBlock
              q == removeForBlock(pool, TxsOf[b])
  <1>1. /\ tip' = b /\ pool' = removeExpired(q, Height[b])
        /\ op' = op /\ oldTip' = oldTip /\ undone' = undone /\ unclean' = unclean /\ op = "step"
    BY DEF ConnectTip, call, Connecting
  <1>2. Subpool(pool, q) /\ Subpool(q, pool') /\ \A t \in In(pool') : ~IsExpiredTx(t, Height[b])
    BY <1>1, RemovalFacts
  <1>3. Subpool(pool, pool')
    BY <1>2, SubpoolTwice
  <1>4. /\ ~undone => tip = oldTip
        /\ b # tip /\ Height[b] = Height[tip] + 1 /\ Height[tip] \in Nat
    BY FirstConnected DEF ConnectTip
  <1>. HIDE DEF b, q
  <1>5. ASSUME NEW t \in In(pool') PROVE MinableEntry(t)'
    <2>1. t \in Tx /\ MinableEntry(t) /\ pool'.tx[t] = pool.tx[t]
      BY <1>3 DEF Minable, Subpool, In
    <2>2. IsFinalTx(t, Height[tip] + 1) => IsFinalTx(t, Height[b] + 1)
      BY SMTT(30), <2>1, <1>4, NextHeight
    <2>. QED
      BY <2>1, <2>2, <1>1, <1>2, <1>4 DEF MinableEntry
  <1>. QED
    BY <1>5 DEF Minable

\* removeForReorg and removeWithoutBranchId at the end of a call.
LEMMA MinableEnd ==
    ASSUME Minable, StepEnd
    PROVE  Minable'
  <1>. DEFINE q == IF undone THEN removeForReorg(pool, tip) ELSE pool
              id == BranchAt[Height[tip] + 1]
  <1>1. /\ pool' = removeWithoutBranchId(q, id) /\ tip' = tip
        /\ op' = "idle" /\ (unclean' <=> (unclean /\ ~undone))
    BY DEF StepEnd, Cleaned, Release, chain
  <1>2. Subpool(pool, q) /\ (undone => \A t \in In(q) : IsFinalTx(t, Height[tip] + 1))
    <2>1. Subpool(pool, pool)
      BY DEF Subpool
    <2>. QED
      BY <2>1, RemovalFacts
  <1>. HIDE DEF q, id
  <1>3. Subpool(q, pool') /\ \A t \in In(pool') : pool'.tx[t].branch = id
    BY <1>1, RemovalFacts
  <1>4. Subpool(pool, pool')
    BY <1>2, <1>3, SubpoolTwice
  <1>5. ASSUME NEW t \in In(pool') PROVE MinableEntry(t)'
    <2>1. MinableEntry(t) /\ pool'.tx[t] = pool.tx[t] /\ t \in In(q)
      BY <1>3, <1>4 DEF Minable, Subpool
    <2>2. Commits[t] = id /\ pool'.tx[t].branch = Commits[t] /\ ~IsExpiredTx(t, Height[tip])
      BY <2>1, <1>3 DEF MinableEntry
    <2>3. ~unclean' => IsFinalTx(t, Height[tip] + 1)
      BY <2>1, <1>1, <1>2 DEF MinableEntry
    <2>. QED
      BY <2>2, <2>3, <1>1 DEF MinableEntry, id
  <1>. QED
    BY <1>5 DEF Minable

\* InvalidateBlock ends with both removals in any case.
LEMMA MinableInvalidated ==
    ASSUME Minable, InvalidateEnd
    PROVE  Minable'
  <1>. DEFINE q == removeForReorg(pool, tip)
              id == BranchAt[Height[tip] + 1]
  <1>1. pool' = removeWithoutBranchId(q, id) /\ tip' = tip /\ op' = "idle"
    BY DEF InvalidateEnd, Release, chain
  <1>2. Subpool(pool, q) /\ \A t \in In(q) : IsFinalTx(t, Height[tip] + 1)
    BY RemovalFacts
  <1>. HIDE DEF q, id
  <1>3. Subpool(q, pool') /\ \A t \in In(pool') : pool'.tx[t].branch = id
    BY <1>1, RemovalFacts
  <1>4. Subpool(pool, pool')
    BY <1>2, <1>3, SubpoolTwice
  <1>5. ASSUME NEW t \in In(pool') PROVE MinableEntry(t)'
    <2>1. MinableEntry(t) /\ pool'.tx[t] = pool.tx[t] /\ t \in In(q)
      BY <1>3, <1>4 DEF Minable, Subpool
    <2>2. Commits[t] = id /\ pool'.tx[t].branch = Commits[t] /\ ~IsExpiredTx(t, Height[tip])
      BY <2>1, <1>3 DEF MinableEntry
    <2>. QED
      BY <2>1, <2>2, <1>1, <1>2 DEF MinableEntry, id
  <1>. QED
    BY <1>5 DEF Minable

\* A step that fails has moved only if it has disconnected a block.
LEMMA MinableFailed ==
    ASSUME PoolInv, ~cc, StepMoves, Minable, StepFails
    PROVE  Minable'
  <1>1. /\ pool' = pool /\ tip' = tip /\ op = "step" /\ op' = "idle" /\ ~undone'
        /\ (unclean' <=> (unclean \/ undone))
    BY DEF StepFails, CheckBlockRefuses, ConnectBlockRefuses, Release, chain
  <1>2. ~undone => tip = oldTip
    <2>1. CASE Disconnecting
      BY <1>1, <2>1 DEF StepMoves, Disconnecting
    <2>2. CASE Connecting
      BY <2>2, FirstConnected
    <2>. QED
      BY <2>1, <2>2 DEF StepFails
  <1>3. ASSUME NEW t \in In(pool) PROVE MinableEntry(t)'
    <2>1. MinableEntry(t)
      BY DEF Minable
    <2>. QED
      BY <2>1, <1>1, <1>2 DEF MinableEntry
  <1>. QED
    BY <1>1, <1>3 DEF Minable

\* A call begins at the tip.
LEMMA MinableStart ==
    ASSUME Minable, NEW kind, NEW b, Start(kind, b)
    PROVE  Minable' /\ StepMoves'
  <1>1. /\ pool' = pool /\ tip' = tip /\ oldTip' = tip /\ undone' = undone /\ unclean' = unclean
        /\ op = "idle"
    BY DEF Start, Idle, chain
  <1>. QED
    BY <1>1 DEF Minable, MinableEntry, StepMoves

\* An empty pool, and no call in progress.
LEMMA InitMinableInv == Init => MinableInv
  <1>. SUFFICES ASSUME Init PROVE MinableInv
    OBVIOUS
  <1>1. In(pool) = {}
    BY DEF Init, EmptyPool, In
  <1>. QED
    BY <1>1 DEF MinableInv, StepMoves, Init

\* A step that has disconnected nothing connects one block: ActivateBestChainStep
\* ends as soon as the tip has more work than the old one.
LEMMA StepMovesStep == PoolInv /\ StepMoves /\ [Next]_vars => StepMoves'
  <1>. SUFFICES ASSUME PoolInv, StepMoves, [Next]_vars PROVE StepMoves'
    OBVIOUS
  <1>1. CASE \E b \in Block : ActivateBestChainStep(b) \/ InvalidateBlock(b)
    BY <1>1 DEF ActivateBestChainStep, InvalidateBlock, Start, chain, StepMoves
  <1>2. CASE ConnectTip
    <2>1. /\ tip' = NextBlock /\ op' = op /\ oldTip' = oldTip /\ undone' = undone /\ target' = target
      BY <1>2 DEF ConnectTip, call
    <2>2. /\ ~undone => tip = oldTip
          /\ NextBlock \in Path[target] /\ ChainWork[NextBlock] > ChainWork[tip]
      BY <1>2, FirstConnected DEF ConnectTip
    <2>. QED
      BY <2>1, <2>2 DEF StepMoves
  <1>3. CASE DisconnectDone
    BY <1>3 DEF DisconnectDone, StepMoves
  <1>4. CASE \/ \E t \in Relayed, p \in Peer : TxAccepted(p, t)
             \/ TxDone \/ StepEnd \/ StepFails \/ InvalidateEnd
    BY <1>4 DEF TxAccepted, TxDone, StepEnd, StepFails, InvalidateEnd, Release, StepMoves
  <1>5. CASE UNCHANGED <<tip, op, target, oldTip, undone>>
    BY <1>5 DEF StepMoves
  <1>6. CASE \/ UNCHANGED vars
             \/ \E t \in Sent : SendRawTransaction(t)
             \/ \E t \in Tx : VisitOrphan(t)
             \/ \E t \in Relayed, p \in Peer : TxOrphaned(p, t)
             \/ NextInWorkQueue
             \/ \E p \in Peer : FinalizeNode(p)
             \/ DisconnectTip \/ Resurrect \/ ConnectTipInvalid \/ NotifyRecentlyAdded
    <2>1. UNCHANGED <<tip, op, target, oldTip, undone>>
      BY <1>6 DEF vars, SendRawTransaction, VisitOrphan, TxOrphaned, NextInWorkQueue, FinalizeNode,
         DisconnectTip, Resurrect, ConnectTipInvalid, NotifyRecentlyAdded, chain, call
    <2>. QED
      BY <1>5, <2>1
  <1>. QED
    BY <1>1, <1>2, <1>3, <1>4, <1>6 DEF Next

\* The pool during a "tx" message, and what the wallet sends.
LEMMA MinableMessage ==
    ASSUME PoolInv, Minable,
           \/ \E t \in Sent : SendRawTransaction(t)
           \/ \E t \in Tx : VisitOrphan(t)
           \/ \E t \in Relayed, p \in Peer : TxAccepted(p, t) \/ TxOrphaned(p, t)
           \/ NextInWorkQueue \/ TxDone
           \/ \E p \in Peer : FinalizeNode(p)
    PROVE  Minable'
  <1>0. Relayed \subseteq Tx /\ Sent \subseteq Tx
    BY TxAssumption
  <1>1. /\ UNCHANGED <<tip, oldTip, undone, unclean>>
        /\ op' = op \/ (op \in {"idle", "tx"} /\ op' \in {"idle", "tx"})
    BY DEF SendRawTransaction, VisitOrphan, TxAccepted, TxOrphaned, NextInWorkQueue, TxDone,
       FinalizeNode, chain, call, Idle
  <1>2. \/ pool' = pool
        \/ \E t \in Tx, limitFree \in BOOLEAN : Accepts(t, limitFree) /\ pool' = Accepted(t)
    BY <1>0 DEF SendRawTransaction, VisitOrphan, OrphanSkipped, OrphanAccepted, OrphanRefused,
       OrphanWaits, TxAccepted, TxOrphaned, NextInWorkQueue, TxDone, FinalizeNode
  <1>3. CASE pool' = pool
    <2>1. Subpool(pool, pool')
      BY <1>3 DEF Subpool
    <2>. QED
      BY <2>1, <1>1, EntriesStay
  <1>4. ASSUME NEW t \in Tx, NEW limitFree \in BOOLEAN, Accepts(t, limitFree), pool' = Accepted(t)
        PROVE  Minable'
    BY <1>1, <1>4, EntryAdded
  <1>. QED
    BY <1>2, <1>3, <1>4

\* The steps of DisconnectTip and ConnectTip that leave the tip alone.
LEMMA MinableMidway ==
    ASSUME PoolInv, ~cc, Minable,
           \/ UNCHANGED vars \/ DisconnectTip \/ Resurrect \/ ConnectTipInvalid
           \/ NotifyRecentlyAdded
    PROVE  Minable'
  <1>1. UNCHANGED <<tip, oldTip, undone, unclean, op>>
    BY DEF vars, DisconnectTip, Resurrect, ConnectTipInvalid, NotifyRecentlyAdded, chain, call
  <1>2. CASE Resurrect
    <2>. DEFINE t == vtx[tip][undo]
    <2>1. t \in Tx
      <3>1. tip \in Block /\ vtx[tip] \in Seq(Tx)
        BY PoolInvSound, TxAssumption
      <3>. QED
        BY SMTT(30), <1>2, <3>1 DEF Resurrect
    <2>2. \/ Accepts(t, FALSE) /\ pool' = Accepted(t)
          \/ pool' = remove(pool, {t})
      BY <1>2 DEF Resurrect
    <2>. HIDE DEF t
    <2>3. CASE Accepts(t, FALSE) /\ pool' = Accepted(t)
      BY <2>1, <2>3, <1>1, EntryAdded
    <2>4. CASE pool' = remove(pool, {t})
      <3>1. Subpool(pool, pool')
        BY <2>4, RemoveEntries
      <3>. QED
        BY <3>1, <1>1, EntriesStay
    <2>. QED
      BY <2>2, <2>3, <2>4
  <1>3. CASE ~Resurrect
    <2>1. pool'.tx = pool.tx
      BY SMTT(30), <1>3 DEF vars, DisconnectTip, ConnectTipInvalid, CheckBlockRefuses, ConnectBlockRefuses,
         NotifyRecentlyAdded
    <2>2. Subpool(pool, pool')
      BY <2>1 DEF Subpool, In
    <2>. QED
      BY <2>2, <1>1, EntriesStay
  <1>. QED
    BY <1>2, <1>3

\* Every step keeps the invariant of the transactions that can be mined.
LEMMA NextMinableInv == PoolInv /\ MinableInv /\ [Next]_vars => MinableInv'
  <1>. SUFFICES ASSUME PoolInv, MinableInv, [Next]_vars PROVE MinableInv'
    OBVIOUS
  <1>1. StepMoves /\ StepMoves'
    BY StepMovesStep DEF MinableInv
  <1>2. cc' = cc
    BY DEF Next, vars, SendRawTransaction, VisitOrphan, TxAccepted, TxOrphaned, NextInWorkQueue,
       TxDone, FinalizeNode, ActivateBestChainStep, InvalidateBlock, Start, DisconnectTip,
       Resurrect, DisconnectDone, ConnectTip, ConnectTipInvalid, StepEnd, StepFails,
       InvalidateEnd, NotifyRecentlyAdded
  <1>3. ASSUME ~cc PROVE Minable'
    <2>1. Minable
      BY <1>3 DEF MinableInv, Minable
    <2>2. CASE \E b \in Block : ActivateBestChainStep(b) \/ InvalidateBlock(b)
      BY <2>1, <2>2, MinableStart DEF ActivateBestChainStep, InvalidateBlock
    <2>. QED
      BY <1>1, <1>3, <2>1, <2>2, MinableMessage, MinableMidway, MinableDisconnected,
         MinableConnected, MinableEnd, MinableFailed, MinableInvalidated DEF Next
  <1>. QED
    BY <1>1, <1>2, <1>3 DEF MinableInv, Minable

\* Between two calls, and unless a reorganisation has failed half-way, CreateNewBlock
\* finds only transactions that the next block may have.
THEOREM PoolAlwaysMinable == Spec => []PoolMinable
  <1>1. OrphansInv /\ MinableInv => PoolMinable
    <2>. SUFFICES ASSUME OrphansInv, MinableInv, Idle, ~cc, ~unclean, NEW t \in In(pool)
                  PROVE  /\ IsFinalTx(t, Height[tip] + 1)
                         /\ Commits[t] = BranchAt[Height[tip] + 1]
                         /\ ~IsExpiredTx(t, Height[tip])
      BY DEF PoolMinable
    <2>1. ~undone
      BY DEF OrphansInv, Undoing, Idle
    <2>. QED
      BY <2>1 DEF MinableInv, MinableEntry, Idle
  <1>. QED
    BY <1>1, PoolInvariant, InitOrphansInv, NextOrphansInv, InitMinableInv, NextMinableInv, PTL DEF Spec
=============================================================================
