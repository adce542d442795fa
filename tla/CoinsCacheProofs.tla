-------------------------- MODULE CoinsCacheProofs ---------------------------
(***************************************************************************)
(* The stack of coins caches keeps its invariant and implements the plain  *)
(* maps of CoinsView, for any sets of transactions, outputs, nullifiers,   *)
(* anchors and blocks.                                                     *)
(***************************************************************************)
EXTENDS CoinsCache, TLAPS

\* Zenon is the default; the steps that need arithmetic, records or functions name SMT.
USE ZenonT(40)

USE EmptyRootAssumption, NullAssumption, NoEntryAssumption DEF viewVars, tipVars, dbVars

\* Both caches are empty at the start.
LEMMA InitCoinsInv == Init => CoinsInv
<1> SUFFICES ASSUME Init PROVE CoinsInv
  OBVIOUS
<1>1. TypeOK
  BY DEF Init, TypeOK, Phases, NoCoins, NoMarks
<1>2. CoinsPart
  BY DEF Init, CoinsPart, CoinsAgree, NoCoins
<1>3. NullifiersPart
  BY DEF Init, NullifiersPart, MarksAgree, NoMarks
<1>4. AnchorsPart
  BY DEF Init, AnchorsPart, MarksAgree, NoMarks, CurrentAnchorKnown, DbKnows, TipKnows,
         ViewKnows, TipRoot, ViewRoot
<1>5. PhasePart
  BY DEF Init, PhasePart
<1> QED
  BY <1>1, <1>2, <1>3, <1>4, <1>5 DEF CoinsInv

\* An entry of a cache is never the value for no entry.
LEMMA EntriesDiffer ==
  /\ \A c \in SUBSET Out, f, d \in BOOLEAN :
        [coins |-> c, fresh |-> f, dirty |-> d] # NoEntry
  /\ \A e \in BOOLEAN : Clean(e) # NoEntry /\ Marked(e) # NoEntry
<1>1. \A c \in SUBSET Out, f, d \in BOOLEAN :
        [coins |-> c, fresh |-> f, dirty |-> d] \in CCoinsCacheEntry
  BY DEF CCoinsCacheEntry
<1>2. \A e \in BOOLEAN : Clean(e) \in CMarkCacheEntry /\ Marked(e) \in CMarkCacheEntry
  BY DEF CMarkCacheEntry, Clean, Marked
<1> QED
  BY <1>1, <1>2

\* pcoinsTip reads coins (FetchCoins).
LEMMA TipGetCoinsKeeps ==
  ASSUME CoinsInv, NEW t \in Txid, TipGetCoins(t)
  PROVE  CoinsInv'
<1>0. TypeOK /\ CoinsPart /\ NullifiersPart /\ AnchorsPart /\ PhasePart
  BY DEF CoinsInv
<1>1. TypeOK'
  BY <1>0 DEF TypeOK, TipGetCoins, TipFetched, FetchCoins, Pruned, CCoinsCacheEntry
<1>2. CoinsPart'
  BY <1>0 DEF CoinsPart, TipGetCoins, TypeOK, CoinsAgree, TipFetched, FetchCoins, Pruned, CCoinsCacheEntry
<1>3. NullifiersPart'
  BY <1>0 DEF NullifiersPart, TipGetCoins
<1>4. AnchorsPart'
  BY <1>0 DEF AnchorsPart, TipGetCoins, CurrentAnchorKnown, DbKnows, TipKnows, ViewKnows, TipRoot, ViewRoot
<1>5. PhasePart'
  BY <1>0 DEF PhasePart, TipGetCoins
<1> QED
  BY <1>1, <1>2, <1>3, <1>4, <1>5 DEF CoinsInv

\* The view of a block reads coins, through pcoinsTip if need be.
LEMMA GetCoinsKeeps ==
  ASSUME CoinsInv, NEW t \in Txid, GetCoins(t)
  PROVE  CoinsInv'
<1>0. TypeOK /\ CoinsPart /\ NullifiersPart /\ AnchorsPart /\ PhasePart
  BY DEF CoinsInv
<1>1. TypeOK'
  <2>1. TipAfterMiss(t) \in [Txid -> CCoinsCacheEntry \cup {NoEntry}]
    BY <1>0 DEF TypeOK, TipAfterMiss, TipFetched, FetchCoins, Pruned, CCoinsCacheEntry
  <2> DEFINE parent == TipAfterMiss(t)[t]
             c == IF parent = NoEntry THEN {} ELSE parent.coins
  <2>2. c \in SUBSET Out
    BY <2>1 DEF CCoinsCacheEntry
  <2> HIDE DEF c
  <2>3. FetchCoins(viewCoins, t, parent # NoEntry, c) \in [Txid -> CCoinsCacheEntry \cup {NoEntry}]
    BY <1>0, <2>2 DEF TypeOK, FetchCoins, Pruned, CCoinsCacheEntry
  <2> QED
    BY <1>0, <2>1, <2>3 DEF TypeOK, GetCoins, c
<1>2. CoinsPart'
  <2> SUFFICES ASSUME NEW s \in Txid
               PROVE  CoinsAgree(viewCoins[s], tipCoins[s], dbCoins[s])'
    BY DEF CoinsPart
  <2> DEFINE Read(c) == [coins |-> c, fresh |-> Pruned(c), dirty |-> FALSE]
  <2>1. CoinsAgree(viewCoins[s], tipCoins[s], dbCoins[s]) /\ dbCoins' = dbCoins
    BY <1>0 DEF CoinsPart, GetCoins, dbVars
  <2>2. tipCoins'[s] # tipCoins[s] =>
           tipCoins[s] = NoEntry /\ viewCoins[s] = NoEntry /\ tipCoins'[s] = Read(dbCoins[s])
    BY <1>0 DEF TypeOK, GetCoins, TipAfterMiss, TipFetched, FetchCoins
  <2>3. viewCoins'[s] # viewCoins[s] =>
           tipCoins'[s] # NoEntry /\ viewCoins'[s] = Read(tipCoins'[s].coins)
    BY <1>0 DEF TypeOK, GetCoins, FetchCoins
  <2>4. \A c : Read(c).coins = c /\ Read(c).fresh = Pruned(c) /\ Read(c).dirty = FALSE
    OBVIOUS
  <2> HIDE DEF Read
  <2>5. tipCoins'[s] # NoEntry => /\ tipCoins'[s].fresh => Pruned(dbCoins[s])
                                  /\ tipCoins'[s].dirty \/ tipCoins'[s].coins = dbCoins[s]
    BY <2>1, <2>2, <2>4 DEF CoinsAgree
  <2>6. CASE viewCoins'[s] = viewCoins[s]
    <3>1. CASE viewCoins[s] = NoEntry
      BY <2>1, <2>5, <2>6, <3>1 DEF CoinsAgree
    <3>2. CASE viewCoins[s] # NoEntry
      BY <2>1, <2>2, <2>6, <3>2
    <3> QED
      BY <3>1, <3>2
  <2>7. CASE viewCoins'[s] # viewCoins[s]
    BY <2>1, <2>3, <2>4, <2>5, <2>7 DEF CoinsAgree
  <2> QED
    BY <2>6, <2>7
<1>3. NullifiersPart'
  BY <1>0 DEF NullifiersPart, GetCoins
<1>4. AnchorsPart'
  BY <1>0 DEF AnchorsPart, GetCoins, CurrentAnchorKnown, DbKnows, TipKnows, ViewKnows, TipRoot, ViewRoot
<1>5. PhasePart'
  BY <1>0 DEF PhasePart, GetCoins
<1> QED
  BY <1>1, <1>2, <1>3, <1>4, <1>5 DEF CoinsInv

\* ModifyCoins, with every combination of the flags on the way down.
LEMMA ModifyCoinsKeeps ==
  ASSUME CoinsInv, NEW t \in Txid, NEW v \in SUBSET Out, ModifyCoins(t, v)
  PROVE  CoinsInv'
<1>0. TypeOK /\ CoinsPart /\ NullifiersPart /\ AnchorsPart /\ PhasePart
  BY DEF CoinsInv
<1>1. TypeOK'
  BY <1>0 DEF TypeOK, ModifyCoins, Fresh, TipAfterMiss, TipFetched, FetchCoins, Pruned, CCoinsCacheEntry
<1>2. CoinsPart'
  <2> SUFFICES ASSUME NEW s \in Txid
               PROVE  CoinsAgree(viewCoins[s], tipCoins[s], dbCoins[s])'
    BY DEF CoinsPart
  <2>0. CoinsAgree(viewCoins[s], tipCoins[s], dbCoins[s])
    BY <1>0 DEF CoinsPart
  <2>1. CASE s # t
    BY <1>0, <2>0, <2>1 DEF TypeOK, ModifyCoins, TipAfterMiss, TipFetched, FetchCoins, CoinsAgree
  <2>2. CASE s = t /\ viewCoins[t] = NoEntry
    <3>1. tipCoins'[t] = TipFetched(t)[t] /\ dbCoins' = dbCoins
      BY <2>2 DEF ModifyCoins, TipAfterMiss
    <3>2. viewCoins'[t] = IF Fresh(t) /\ Pruned(v) THEN NoEntry
                          ELSE [coins |-> v, fresh |-> Fresh(t), dirty |-> TRUE]
      BY <1>0 DEF TypeOK, ModifyCoins
    <3>3. Fresh(t) = (tipCoins'[t] = NoEntry \/ Pruned(tipCoins'[t].coins))
      BY <2>2 DEF Fresh, ModifyCoins
    <3>4. CASE tipCoins[t] # NoEntry
      <4>1. tipCoins'[t] = tipCoins[t] /\ tipCoins[t] \in CCoinsCacheEntry
        BY <1>0, <3>1, <3>4 DEF TypeOK, TipFetched, FetchCoins
      <4>2. CASE Pruned(tipCoins[t].coins)
        <5>1. viewCoins'[t] = IF Pruned(v) THEN NoEntry
                              ELSE [coins |-> v, fresh |-> TRUE, dirty |-> TRUE]
          BY <3>2, <3>3, <4>1, <4>2
        <5> QED
          BY SMT, <2>0, <2>2, <3>1, <3>4, <4>1, <4>2, <5>1 DEF CoinsAgree
      <4>3. CASE ~Pruned(tipCoins[t].coins)
        <5>1. viewCoins'[t] = [coins |-> v, fresh |-> FALSE, dirty |-> TRUE]
          BY <3>2, <3>3, <3>4, <4>1, <4>3
        <5> QED
          BY SMT, <2>0, <2>2, <3>1, <3>4, <4>1, <5>1 DEF CoinsAgree
      <4> QED
        BY <4>2, <4>3
    <3>5. CASE tipCoins[t] = NoEntry /\ Pruned(dbCoins[t])
      <4>1. tipCoins'[t] = NoEntry
        BY <3>1, <3>5 DEF TipFetched, FetchCoins, Pruned
      <4>2. viewCoins'[t] = IF Pruned(v) THEN NoEntry
                            ELSE [coins |-> v, fresh |-> TRUE, dirty |-> TRUE]
        BY <3>2, <3>3, <4>1
      <4> QED
        BY SMT, <2>0, <2>2, <3>1, <3>5, <4>1, <4>2 DEF CoinsAgree
    <3>6. CASE tipCoins[t] = NoEntry /\ ~Pruned(dbCoins[t])
      <4>1. tipCoins'[t] = [coins |-> dbCoins[t], fresh |-> FALSE, dirty |-> FALSE]
        BY <1>0, <3>1, <3>6 DEF TypeOK, TipFetched, FetchCoins, Pruned
      <4>2. tipCoins'[t] # NoEntry
        <5>1. dbCoins[t] \in SUBSET Out
          BY <1>0 DEF TypeOK
        <5> QED
          BY <4>1, <5>1, EntriesDiffer
      <4>3. viewCoins'[t] = [coins |-> v, fresh |-> FALSE, dirty |-> TRUE]
        <5>1. ~Pruned(tipCoins'[t].coins)
          BY SMT, <3>6, <4>1 DEF Pruned
        <5>2. Fresh(t) = FALSE
          BY <3>3, <4>2, <5>1
        <5> QED
          BY <3>2, <5>2
      <4> QED
        BY SMT, <2>0, <2>2, <3>1, <3>6, <4>1, <4>2, <4>3 DEF CoinsAgree
    <3> QED
      BY <3>4, <3>5, <3>6
  <2>3. CASE s = t /\ viewCoins[t] # NoEntry
    BY <1>0, <2>0, <2>3
       DEF TypeOK, ModifyCoins, Fresh, TipAfterMiss, CoinsAgree, Pruned, CCoinsCacheEntry
  <2> QED
    BY <2>1, <2>2, <2>3
<1>3. NullifiersPart'
  BY <1>0 DEF NullifiersPart, ModifyCoins
<1>4. AnchorsPart'
  BY <1>0 DEF AnchorsPart, ModifyCoins, CurrentAnchorKnown, DbKnows, TipKnows, ViewKnows, TipRoot, ViewRoot
<1>5. PhasePart'
  BY <1>0 DEF PhasePart, ModifyCoins
<1> QED
  BY <1>1, <1>2, <1>3, <1>4, <1>5 DEF CoinsInv

\* GetNullifier leaves an entry in each cache that had none.
LEMMA GetNullifierKeeps ==
  ASSUME CoinsInv, NEW n \in Nullifier, GetNullifier(n)
  PROVE  CoinsInv'
<1>0. TypeOK /\ CoinsPart /\ NullifiersPart /\ AnchorsPart /\ PhasePart
  BY DEF CoinsInv
<1>1. TypeOK'
  <2>1. TipSpent(n) \in BOOLEAN
    <3>1. CASE tipNullifiers[n] = NoEntry
      BY SMT, <3>1 DEF TipSpent
    <3>2. CASE tipNullifiers[n] # NoEntry
      <4>1. tipNullifiers[n] \in CMarkCacheEntry
        BY <1>0, <3>2 DEF TypeOK
      <4> QED
        BY <3>2, <4>1 DEF TipSpent, CMarkCacheEntry
    <3> QED
      BY <3>1, <3>2
  <2> QED
    BY <1>0, <2>1 DEF TypeOK, GetNullifier, Clean, CMarkCacheEntry
<1>2. CoinsPart'
  BY <1>0 DEF CoinsPart, GetNullifier
<1>3. NullifiersPart'
  BY <1>0 DEF NullifiersPart, GetNullifier, TypeOK, MarksAgree, Clean, TipSpent, CMarkCacheEntry
<1>4. AnchorsPart'
  BY <1>0 DEF AnchorsPart, GetNullifier, CurrentAnchorKnown, DbKnows, TipKnows, ViewKnows, TipRoot, ViewRoot
<1>5. PhasePart'
  BY <1>0 DEF PhasePart, GetNullifier
<1> QED
  BY <1>1, <1>2, <1>3, <1>4, <1>5 DEF CoinsInv

\* SetNullifiers marks the entry dirty.
LEMMA SetNullifierKeeps ==
  ASSUME CoinsInv, NEW n \in Nullifier, NEW spent \in BOOLEAN, SetNullifier(n, spent)
  PROVE  CoinsInv'
<1>0. TypeOK /\ CoinsPart /\ NullifiersPart /\ AnchorsPart /\ PhasePart
  BY DEF CoinsInv
<1>1. TypeOK'
  BY <1>0 DEF TypeOK, SetNullifier, Marked, CMarkCacheEntry
<1>2. CoinsPart'
  BY <1>0 DEF CoinsPart, SetNullifier
<1>3. NullifiersPart'
  BY <1>0 DEF NullifiersPart, SetNullifier, TypeOK, MarksAgree, Marked, CMarkCacheEntry
<1>4. AnchorsPart'
  BY <1>0 DEF AnchorsPart, SetNullifier, CurrentAnchorKnown, DbKnows, TipKnows, ViewKnows, TipRoot, ViewRoot
<1>5. PhasePart'
  BY <1>0 DEF PhasePart, SetNullifier
<1> QED
  BY <1>1, <1>2, <1>3, <1>4, <1>5 DEF CoinsInv

\* GetSproutAnchorAt and GetSaplingAnchorAt.
LEMMA GetAnchorAtKeeps ==
  ASSUME CoinsInv, NEW a \in Anchor, GetAnchorAt(a)
  PROVE  CoinsInv'
<1>0. TypeOK /\ CoinsPart /\ NullifiersPart /\ AnchorsPart /\ PhasePart
  BY DEF CoinsInv
<1>1. TypeOK'
  BY <1>0 DEF TypeOK, GetAnchorAt, TipAnchorsRead, ViewAnchorsRead, TipAnchorsAfter, Clean, CMarkCacheEntry, TipKnows, DbKnows
<1>2. CoinsPart'
  BY <1>0 DEF CoinsPart, GetAnchorAt
<1>3. NullifiersPart'
  BY <1>0 DEF NullifiersPart, GetAnchorAt
<1>4. AnchorsPart'
  <2>1. UNCHANGED <<dbAnchors, dbAnchor, tipAnchor, viewAnchor>>
    BY DEF GetAnchorAt, dbVars
  <2>2. \A x \in Anchor :
           /\ tipAnchors'[x] # tipAnchors[x] =>
                 tipAnchors[x] = NoEntry /\ DbKnows(x) /\ tipAnchors'[x] = Clean(TRUE)
           /\ viewAnchors'[x] # viewAnchors[x] =>
                 viewAnchors[x] = NoEntry /\ TipKnows(x) /\ viewAnchors'[x] = Clean(TRUE)
    BY <1>0 DEF TypeOK, GetAnchorAt, TipAnchorsRead, ViewAnchorsRead, TipAnchorsAfter
  <2>3. Clean(TRUE) # NoEntry /\ Clean(TRUE).entered = TRUE /\ Clean(TRUE).dirty = FALSE
    BY EntriesDiffer DEF Clean
  <2>4. \A x \in Anchor : MarksAgree(viewAnchors[x], tipAnchors[x], DbKnows(x))
    BY <1>0 DEF AnchorsPart
  <2>5. \A x \in Anchor : MarksAgree(viewAnchors[x], tipAnchors[x], DbKnows(x))'
    BY <2>1, <2>2, <2>3, <2>4 DEF MarksAgree, DbKnows, TipKnows
  <2>6. \A x \in Anchor : (TipKnows(x)' <=> TipKnows(x)) /\ (ViewKnows(x)' <=> ViewKnows(x))
    BY <2>1, <2>2, <2>3 DEF DbKnows, TipKnows, ViewKnows
  <2>7. TipRoot \in Anchor /\ ViewRoot \in Anchor
    BY <1>0 DEF TypeOK, TipRoot, ViewRoot
  <2>8. CurrentAnchorKnown'
    BY <1>0, <2>1, <2>6, <2>7 DEF AnchorsPart, CurrentAnchorKnown, DbKnows, TipRoot, ViewRoot
  <2>9. /\ (tipAnchors[EmptyRoot] # NoEntry => tipAnchors[EmptyRoot].entered)'
        /\ (viewAnchors[EmptyRoot] # NoEntry => viewAnchors[EmptyRoot].entered)'
    BY <1>0, <2>2, <2>3, EmptyRootAssumption DEF AnchorsPart
  <2> QED
    BY <2>5, <2>8, <2>9 DEF AnchorsPart
<1>5. PhasePart'
  BY <1>0 DEF PhasePart, GetAnchorAt
<1> QED
  BY <1>1, <1>2, <1>3, <1>4, <1>5 DEF CoinsInv

\* PushAnchor and SetBestBlock at the end of ConnectBlock.
LEMMA ConnectedKeeps ==
  ASSUME CoinsInv, NEW rt \in Anchor, NEW b \in Block, Connected(rt, b)
  PROVE  CoinsInv'
<1>0. TypeOK /\ CoinsPart /\ NullifiersPart /\ AnchorsPart /\ PhasePart
  BY DEF CoinsInv
<1>1. TypeOK'
  BY <1>0 DEF TypeOK, Connected, TipAnchorsRead, ViewAnchorsRead, TipAnchorsAfter, Clean, CMarkCacheEntry, Marked, ReadRoots, PushAnchor, Phases, TipRoot, ViewRoot
<1>2. CoinsPart'
  BY <1>0 DEF CoinsPart, Connected
<1>3. NullifiersPart'
  BY <1>0 DEF NullifiersPart, Connected
<1>4. AnchorsPart'
  <2> DEFINE root == ViewRoot
  <2>1. root \in Anchor /\ ViewKnows(root)
    BY <1>0 DEF TypeOK, AnchorsPart, CurrentAnchorKnown, ViewRoot, TipRoot
  <2>2. /\ viewAnchors' = PushAnchor(ViewAnchorsRead(root), rt)
        /\ tipAnchors' = TipAnchorsAfter(root)
        /\ viewAnchor' = rt
        /\ UNCHANGED <<dbAnchors, dbAnchor>>
    BY DEF Connected
  <2>3. TipRoot' = TipRoot /\ TipRoot \in Anchor
    BY <1>0 DEF TypeOK, Connected, ReadRoots, TipRoot
  <2>4. ViewRoot' = rt
    BY <2>2 DEF ViewRoot
  <2>0. root = ViewRoot
    OBVIOUS
  <2> HIDE DEF root
  <2>5. \A a \in Anchor : TipKnows(a)' <=> TipKnows(a)
    BY <1>0, <2>1, <2>2 DEF TypeOK, TipAnchorsAfter, TipAnchorsRead, TipKnows, DbKnows, Clean
  <2>6. ViewKnows(rt)'
    <3>1. CASE rt # root
      <4>1. viewAnchors'[rt] = Marked(TRUE)
        BY <1>0, <2>0, <2>1, <2>2, <3>1 DEF TypeOK, PushAnchor, ViewAnchorsRead
      <4>2. Marked(TRUE) # NoEntry /\ Marked(TRUE).entered
        BY EntriesDiffer DEF Marked
      <4> QED
        BY <4>1, <4>2 DEF ViewKnows
    <3>2. CASE rt = root
      <4>1. viewAnchors' = ViewAnchorsRead(rt) /\ ViewKnows(rt)
        BY <2>0, <2>1, <2>2, <3>2 DEF PushAnchor
      <4>2. CASE viewAnchors[rt] # NoEntry
        BY <4>1, <4>2 DEF ViewAnchorsRead, ViewKnows
      <4>3. CASE viewAnchors[rt] = NoEntry
        <5>1. viewAnchors'[rt] = Clean(TRUE)
          BY <1>0, <4>1, <4>3 DEF TypeOK, ViewAnchorsRead, ViewKnows
        <5>2. Clean(TRUE) # NoEntry /\ Clean(TRUE).entered
          BY EntriesDiffer DEF Clean
        <5> QED
          BY <5>1, <5>2 DEF ViewKnows
      <4> QED
        BY <4>2, <4>3
    <3> QED
      BY <3>1, <3>2
  <2>7. \A a \in Anchor : MarksAgree(viewAnchors[a], tipAnchors[a], DbKnows(a))'
    <3> SUFFICES ASSUME NEW a \in Anchor
                 PROVE  MarksAgree(viewAnchors[a], tipAnchors[a], DbKnows(a))'
      OBVIOUS
    <3>1. MarksAgree(viewAnchors[a], tipAnchors[a], DbKnows(a)) /\ DbKnows(a)' = DbKnows(a)
      BY <1>0, <2>2 DEF AnchorsPart, DbKnows
    <3>2. tipAnchors'[a] # NoEntry => tipAnchors'[a].dirty \/ tipAnchors'[a].entered = DbKnows(a)
      BY <1>0, <2>1, <2>2, <3>1 DEF TypeOK, TipAnchorsAfter, TipAnchorsRead, MarksAgree, Clean
    <3>3. viewAnchors'[a] # NoEntry => viewAnchors'[a].dirty \/ viewAnchors'[a].entered = TipKnows(a)
      BY <1>0, <2>0, <2>1, <2>2, <3>1
         DEF TypeOK, PushAnchor, ViewAnchorsRead, MarksAgree, Clean, Marked, TipKnows
    <3>4. TipKnows(a) = (IF tipAnchors'[a] = NoEntry THEN DbKnows(a) ELSE tipAnchors'[a].entered)
      BY <1>0, <2>1, <2>2, <3>1 DEF TypeOK, TipAnchorsAfter, TipAnchorsRead, TipKnows, Clean
    <3> QED
      BY <3>1, <3>2, <3>3, <3>4 DEF MarksAgree
  <2>8. /\ tipAnchors'[EmptyRoot] # NoEntry => tipAnchors'[EmptyRoot].entered
        /\ viewAnchors'[EmptyRoot] # NoEntry => viewAnchors'[EmptyRoot].entered
    BY <1>0, <2>0, <2>1, <2>2
       DEF TypeOK, AnchorsPart, TipAnchorsAfter, TipAnchorsRead, PushAnchor, ViewAnchorsRead,
           Clean, Marked
  <2>9. CurrentAnchorKnown'
    BY <1>0, <2>2, <2>3, <2>4, <2>5, <2>6 DEF AnchorsPart, CurrentAnchorKnown, DbKnows
  <2> QED
    BY <2>7, <2>8, <2>9 DEF AnchorsPart
<1>5. PhasePart'
  BY <1>0 DEF PhasePart, Connected
<1> QED
  BY <1>1, <1>2, <1>3, <1>4, <1>5 DEF CoinsInv

\* PopAnchor and SetBestBlock at the end of DisconnectBlock.
LEMMA DisconnectedKeeps ==
  ASSUME CoinsInv, NEW rt \in Anchor, NEW b \in Block, Disconnected(rt, b)
  PROVE  CoinsInv'
<1>0. TypeOK /\ CoinsPart /\ NullifiersPart /\ AnchorsPart /\ PhasePart
  BY DEF CoinsInv
<1>1. TypeOK'
  BY <1>0 DEF TypeOK, Disconnected, TipAnchorsRead, ViewAnchorsRead, TipAnchorsAfter, Clean, CMarkCacheEntry, Marked, ReadRoots, PopAnchor, Phases, TipRoot, ViewRoot
<1>2. CoinsPart'
  BY <1>0 DEF CoinsPart, Disconnected
<1>3. NullifiersPart'
  BY <1>0 DEF NullifiersPart, Disconnected
<1>4. AnchorsPart'
  <2>1. UNCHANGED <<dbAnchors, dbAnchor>> /\ viewAnchor' = rt /\ ReadRoots
    BY DEF Disconnected, dbVars
  <2>2. TipRoot' = TipRoot /\ TipRoot \in Anchor /\ ViewRoot \in Anchor /\ ViewRoot' = rt
    BY <1>0, <2>1 DEF TypeOK, ReadRoots, TipRoot, ViewRoot
  <2>3. \A x \in Anchor :
           /\ tipAnchors'[x] # tipAnchors[x] =>
                 tipAnchors[x] = NoEntry /\ DbKnows(x) /\ tipAnchors'[x] = Clean(TRUE)
           /\ viewAnchors'[x] # viewAnchors[x] =>
                 rt # x /\ x = ViewRoot /\ ViewRoot # EmptyRoot /\ viewAnchors'[x] = Marked(FALSE)
    BY <1>0, <2>2 DEF TypeOK, Disconnected, PopAnchor, TipAnchorsRead, ViewAnchorsRead, TipAnchorsAfter
  <2>4. /\ Clean(TRUE) # NoEntry /\ Clean(TRUE).entered = TRUE /\ Clean(TRUE).dirty = FALSE
        /\ Marked(FALSE).dirty = TRUE
    BY EntriesDiffer DEF Clean, Marked
  <2>5. \A x \in Anchor : MarksAgree(viewAnchors[x], tipAnchors[x], DbKnows(x))
    BY <1>0 DEF AnchorsPart
  <2>6. \A x \in Anchor : MarksAgree(viewAnchors[x], tipAnchors[x], DbKnows(x))'
    <3> SUFFICES ASSUME NEW x \in Anchor
                 PROVE  MarksAgree(viewAnchors[x], tipAnchors[x], DbKnows(x))'
      OBVIOUS
    <3>1. DbKnows(x)' = DbKnows(x)
      BY <2>1 DEF DbKnows
    <3>2. tipAnchors'[x] # NoEntry => tipAnchors'[x].dirty \/ tipAnchors'[x].entered = DbKnows(x)
      <4>1. CASE tipAnchors'[x] = tipAnchors[x]
        BY <2>5, <4>1 DEF MarksAgree
      <4>2. CASE tipAnchors'[x] # tipAnchors[x]
        <5>1. tipAnchors'[x].entered = TRUE /\ DbKnows(x)
          BY <2>3, <2>4, <4>2
        <5> QED
          BY <5>1 DEF DbKnows
      <4> QED
        BY <4>1, <4>2
    <3>3. CASE viewAnchors'[x] = viewAnchors[x]
      <4>1. CASE tipAnchors'[x] = tipAnchors[x]
        BY <2>5, <3>1, <3>3, <4>1 DEF MarksAgree
      <4>2. CASE tipAnchors'[x] # tipAnchors[x]
        <5>1. /\ tipAnchors[x] = NoEntry /\ DbKnows(x)
              /\ tipAnchors'[x] # NoEntry /\ tipAnchors'[x].entered = TRUE
          BY <2>3, <2>4, <4>2
        <5>2. viewAnchors[x] # NoEntry => viewAnchors[x].dirty \/ viewAnchors[x].entered = DbKnows(x)
          BY <2>5, <5>1 DEF MarksAgree
        <5>3. DbKnows(x) = TRUE
          BY <5>1 DEF DbKnows
        <5> QED
          BY <3>1, <3>2, <3>3, <5>1, <5>2, <5>3 DEF MarksAgree
      <4> QED
        BY <4>1, <4>2
    <3>4. CASE viewAnchors'[x] # viewAnchors[x]
      <4>1. viewAnchors'[x].dirty
        BY <2>3, <2>4, <3>4
      <4> QED
        BY <3>1, <3>2, <4>1 DEF MarksAgree
    <3> QED
      BY <3>3, <3>4
  <2>7. \A x \in Anchor : TipKnows(x)' <=> TipKnows(x)
    BY <2>1, <2>3, <2>4 DEF DbKnows, TipKnows
  <2>8. ViewKnows(rt)' /\ TipKnows(TipRoot)' /\ DbKnows(dbAnchor)'
    <3>1. ViewKnows(rt) /\ TipKnows(TipRoot) /\ DbKnows(dbAnchor)
      BY <1>0 DEF Disconnected, AnchorsPart, CurrentAnchorKnown
    <3>2. viewAnchors'[rt] = viewAnchors[rt]
      BY <2>3
    <3>3. ViewKnows(rt)'
      BY <2>7, <3>1, <3>2 DEF ViewKnows
    <3>4. TipKnows(TipRoot)' /\ DbKnows(dbAnchor)'
      BY <2>1, <2>2, <2>7, <3>1 DEF DbKnows
    <3> QED
      BY <3>3, <3>4
  <2>9. CurrentAnchorKnown'
    BY <2>2, <2>8 DEF CurrentAnchorKnown
  <2>10. /\ (tipAnchors[EmptyRoot] # NoEntry => tipAnchors[EmptyRoot].entered)'
         /\ (viewAnchors[EmptyRoot] # NoEntry => viewAnchors[EmptyRoot].entered)'
    BY <1>0, <2>3, <2>4, EmptyRootAssumption DEF AnchorsPart
  <2> QED
    BY <2>6, <2>9, <2>10 DEF AnchorsPart
<1>5. PhasePart'
  BY <1>0 DEF PhasePart, Disconnected
<1> QED
  BY <1>1, <1>2, <1>3, <1>4, <1>5 DEF CoinsInv

\* A view is made on top of pcoinsTip.
LEMMA OpenViewKeeps ==
  ASSUME CoinsInv, OpenView
  PROVE  CoinsInv'
<1>0. TypeOK /\ CoinsPart /\ NullifiersPart /\ AnchorsPart /\ PhasePart
  BY DEF CoinsInv
<1>1. TypeOK'
  BY <1>0 DEF TypeOK, OpenView, Phases, TipBest
<1>2. CoinsPart'
  BY <1>0 DEF CoinsPart, OpenView
<1>3. NullifiersPart'
  BY <1>0 DEF NullifiersPart, OpenView
<1>4. AnchorsPart'
  BY <1>0 DEF AnchorsPart, OpenView, CurrentAnchorKnown, DbKnows, TipKnows, ViewKnows, TipRoot, ViewRoot
<1>5. PhasePart'
  BY <1>0 DEF PhasePart, OpenView
<1> QED
  BY <1>1, <1>2, <1>3, <1>4, <1>5 DEF CoinsInv

\* A view goes away without Flush.
LEMMA DiscardViewKeeps ==
  ASSUME CoinsInv, DiscardView
  PROVE  CoinsInv'
<1>0. TypeOK /\ CoinsPart /\ NullifiersPart /\ AnchorsPart /\ PhasePart
  BY DEF CoinsInv
<1>1. TypeOK'
  BY <1>0 DEF TypeOK, DiscardView, ViewGone, NoCoins, NoMarks, Phases
<1>2. CoinsPart'
  BY <1>0 DEF CoinsPart, DiscardView, ViewGone, NoCoins, NoMarks, CoinsAgree
<1>3. NullifiersPart'
  BY <1>0 DEF NullifiersPart, DiscardView, ViewGone, NoCoins, NoMarks, MarksAgree
<1>4. AnchorsPart'
  BY <1>0 DEF TypeOK, AnchorsPart, DiscardView, ViewGone, NoCoins, NoMarks, MarksAgree,
              CurrentAnchorKnown, DbKnows, TipKnows, ViewKnows, TipRoot, ViewRoot
<1>5. PhasePart'
  BY <1>0 DEF PhasePart, DiscardView, ViewGone, NoCoins, NoMarks, NoCoins
<1> QED
  BY <1>1, <1>2, <1>3, <1>4, <1>5 DEF CoinsInv

\* Flush of a view: BatchWrite of pcoinsTip with each of its branches.
LEMMA FlushViewKeeps ==
  ASSUME CoinsInv, FlushView
  PROVE  CoinsInv'
<1>0. TypeOK /\ CoinsPart /\ NullifiersPart /\ AnchorsPart /\ PhasePart
  BY DEF CoinsInv
<1>1. TypeOK'
  BY <1>0 DEF TypeOK, FlushView, ViewGone, NoCoins, NoMarks, Phases, BatchWriteCoins, BatchWriteMarks, Marked, CCoinsCacheEntry, CMarkCacheEntry
<1>2. CoinsPart'
  BY <1>0 DEF CoinsPart, FlushView, ViewGone, NoCoins, NoMarks, TypeOK, CoinsAgree, BatchWriteCoins, Pruned, CCoinsCacheEntry
<1>3. NullifiersPart'
  BY <1>0 DEF NullifiersPart, FlushView, ViewGone, NoCoins, NoMarks, TypeOK, MarksAgree, BatchWriteMarks, Marked, CMarkCacheEntry
<1>4. AnchorsPart'
  BY <1>0 DEF AnchorsPart, FlushView, ViewGone, NoCoins, NoMarks, TypeOK, PhasePart, MarksAgree, BatchWriteMarks, Marked, CMarkCacheEntry, CurrentAnchorKnown, DbKnows, TipKnows, ViewKnows, TipRoot, ViewRoot
<1>5. PhasePart'
  BY <1>0 DEF PhasePart, FlushView, ViewGone
<1> QED
  BY <1>1, <1>2, <1>3, <1>4, <1>5 DEF CoinsInv

\* Flush of pcoinsTip to the database.
LEMMA FlushTipKeeps ==
  ASSUME CoinsInv, FlushTip
  PROVE  CoinsInv'
<1>0. TypeOK /\ CoinsPart /\ NullifiersPart /\ AnchorsPart /\ PhasePart
  BY DEF CoinsInv
<1>1. TypeOK'
  BY <1>0 DEF TypeOK, FlushTip, ViewGone, NoCoins, NoMarks, Written, TipRoot, TipBest, CCoinsCacheEntry
<1>2. CoinsPart'
  BY <1>0 DEF CoinsPart, FlushTip, ViewGone, NoCoins, NoMarks, TypeOK, PhasePart, CoinsAgree
<1>3. NullifiersPart'
  BY <1>0 DEF NullifiersPart, FlushTip, ViewGone, NoCoins, NoMarks, TypeOK, PhasePart, MarksAgree
<1>4. AnchorsPart'
  BY <1>0 DEF AnchorsPart, FlushTip, ViewGone, NoCoins, NoMarks, TypeOK, PhasePart, MarksAgree, Written, CMarkCacheEntry, CurrentAnchorKnown, DbKnows, TipKnows, ViewKnows, TipRoot, ViewRoot
<1>5. PhasePart'
  BY <1>0 DEF PhasePart, FlushTip
<1> QED
  BY <1>1, <1>2, <1>3, <1>4, <1>5 DEF CoinsInv

\* The caches are lost, the database stays.
LEMMA CrashKeeps ==
  ASSUME CoinsInv, Crash
  PROVE  CoinsInv'
<1>0. TypeOK /\ CoinsPart /\ NullifiersPart /\ AnchorsPart /\ PhasePart
  BY DEF CoinsInv
<1>1. TypeOK'
  BY <1>0 DEF TypeOK, Crash, ViewGone, NoCoins, NoMarks, Phases
<1>2. CoinsPart'
  BY <1>0 DEF CoinsPart, Crash, ViewGone, NoCoins, NoMarks, CoinsAgree
<1>3. NullifiersPart'
  BY <1>0 DEF NullifiersPart, Crash, ViewGone, NoCoins, NoMarks, MarksAgree
<1>4. AnchorsPart'
  BY <1>0 DEF TypeOK, AnchorsPart, Crash, ViewGone, NoCoins, NoMarks, MarksAgree,
              CurrentAnchorKnown, DbKnows, TipKnows, ViewKnows, TipRoot, ViewRoot
<1>5. PhasePart'
  BY <1>0 DEF PhasePart, Crash, ViewGone
<1> QED
  BY <1>1, <1>2, <1>3, <1>4, <1>5 DEF CoinsInv

\* Every step keeps the invariant.
LEMMA NextCoinsInv == CoinsInv /\ [Next]_vars => CoinsInv'
<1> SUFFICES ASSUME CoinsInv, [Next]_vars PROVE CoinsInv'
  OBVIOUS
<1>1. CASE UNCHANGED vars
  BY <1>1 DEF vars, CoinsInv, TypeOK, CoinsPart, NullifiersPart, AnchorsPart, PhasePart,
              CurrentAnchorKnown, DbKnows, TipKnows, ViewKnows, TipRoot, ViewRoot
<1>2. CASE Next
  BY <1>2, TipGetCoinsKeeps, GetCoinsKeeps, ModifyCoinsKeeps, GetNullifierKeeps,
     SetNullifierKeeps, GetAnchorAtKeeps, ConnectedKeeps, DisconnectedKeeps, OpenViewKeeps,
     DiscardViewKeeps, FlushViewKeeps, FlushTipKeeps, CrashKeeps DEF Next
<1> QED
  BY <1>1, <1>2

(***************************************************************************)
(* The flags mean what the flushes take them to mean, whatever was read,   *)
(* modified, flushed or lost before: the invariant holds in every state.   *)
(***************************************************************************)
THEOREM CoinsInvariant == Spec => []CoinsInv
BY InitCoinsInv, NextCoinsInv, PTL DEF Spec

(***************************************************************************)
(* The assertion of CCoinsViewCache::BatchWrite never fails.               *)
(***************************************************************************)
THEOREM FreshAssertionHolds == Spec => []FreshAssertion
<1>1. CoinsInv => FreshAssertion
  BY DEF CoinsInv, CoinsPart, CoinsAgree, FreshAssertion
<1> QED
  BY <1>1, CoinsInvariant, PTL

(***************************************************************************)
(* Dropping a FRESH entry on a pruning never uncovers an unspent output.   *)
(***************************************************************************)
THEOREM FreshEntriesHideNothing == Spec => []FreshHidesNothing
<1>1. CoinsInv => FreshHidesNothing
  BY DEF CoinsInv, CoinsPart, CoinsAgree, FreshHidesNothing, TipCoins
<1> QED
  BY <1>1, CoinsInvariant, PTL

(***************************************************************************)
(* The tree of the current anchor is always there to be read.              *)
(***************************************************************************)
THEOREM CurrentAnchorIsKnown == Spec => []CurrentAnchorKnown
<1>1. CoinsInv => CurrentAnchorKnown
  BY DEF CoinsInv, AnchorsPart
<1> QED
  BY <1>1, CoinsInvariant, PTL

-----------------------------------------------------------------------------
(***************************************************************************)
(* The refinement.  What a step leaves as it was at every level, part by   *)
(* part.                                                                   *)
(***************************************************************************)
SameCoins == \A t \in Txid : TipCoins(t)' = TipCoins(t) /\ ViewCoins(t)' = ViewCoins(t)
SameNullifiers == \A n \in Nullifier :
  (TipSpent(n)' <=> TipSpent(n)) /\ (ViewSpent(n)' <=> ViewSpent(n))
SameAnchors == \A a \in Anchor :
  (TipKnows(a)' <=> TipKnows(a)) /\ (ViewKnows(a)' <=> ViewKnows(a))
SameHashes == /\ TipRoot' = TipRoot /\ ViewRoot' = ViewRoot
              /\ TipBest' = TipBest /\ ViewBest' = ViewBest

\* The abstract state is a function of what the layers show.
LEMMA SameStates ==
  ASSUME SameCoins, SameNullifiers, SameAnchors, SameHashes, UNCHANGED dbVars
  PROVE  ViewState' = ViewState /\ TipState' = TipState /\ DbState' = DbState
<1>1. DbState' = DbState
  BY DEF DbState, DbKnows
<1>2. TipState' = TipState
  BY DEF TipState, SameCoins, SameNullifiers, SameAnchors, SameHashes
<1>3. ViewState' = ViewState
  BY DEF ViewState, SameCoins, SameNullifiers, SameAnchors, SameHashes
<1> QED
  BY <1>1, <1>2, <1>3

\* An entry that is fetched from below shows what was seen before.
LEMMA FetchShowsTheSame ==
  ASSUME CoinsInv, NEW t \in Txid, NEW s \in Txid
  PROVE  /\ TipCoins(s) = (IF TipFetched(t)[s] = NoEntry THEN dbCoins[s]
                           ELSE TipFetched(t)[s].coins)
         /\ TipCoins(s) = (IF TipAfterMiss(t)[s] = NoEntry THEN dbCoins[s]
                           ELSE TipAfterMiss(t)[s].coins)
<1>1. TipCoins(s) = (IF TipFetched(t)[s] = NoEntry THEN dbCoins[s] ELSE TipFetched(t)[s].coins)
  <2>1. CASE tipCoins[t] # NoEntry \/ dbCoins[t] = {}
    BY <2>1 DEF TipFetched, FetchCoins, TipCoins
  <2>2. CASE tipCoins[t] = NoEntry /\ dbCoins[t] # {}
    <3> DEFINE e == [coins |-> dbCoins[t], fresh |-> FALSE, dirty |-> FALSE]
    <3>1. TipFetched(t) = [tipCoins EXCEPT ![t] = e]
      BY <2>2 DEF TipFetched, FetchCoins, Pruned
    <3>2. dbCoins[t] \in SUBSET Out /\ DOMAIN tipCoins = Txid
      BY DEF CoinsInv, TypeOK
    <3>3. e # NoEntry /\ e.coins = dbCoins[t]
      BY <3>2, EntriesDiffer
    <3> HIDE DEF e
    <3> QED
      BY <2>2, <3>1, <3>2, <3>3 DEF TipCoins
  <2> QED
    BY <2>1, <2>2
<1> QED
  BY <1>1 DEF TipAfterMiss, TipCoins

\* A read is a stuttering step of the plain state.
LEMMA ReadsAreSilent ==
  ASSUME CoinsInv,
         \/ \E t \in Txid : TipGetCoins(t) \/ GetCoins(t)
         \/ \E n \in Nullifier : GetNullifier(n)
         \/ \E a \in Anchor : GetAnchorAt(a)
         \/ OpenView
  PROVE  ViewState' = ViewState /\ TipState' = TipState /\ DbState' = DbState
<1>1. ASSUME NEW t \in Txid, TipGetCoins(t) \/ GetCoins(t)
      PROVE  SameCoins /\ SameNullifiers /\ SameAnchors /\ SameHashes /\ UNCHANGED dbVars
  <2>1. SameCoins
    <3> SUFFICES ASSUME NEW s \in Txid
                 PROVE  TipCoins(s)' = TipCoins(s) /\ ViewCoins(s)' = ViewCoins(s)
      BY DEF SameCoins
    <3>1. TipCoins(s)' = TipCoins(s)
      <4>1. tipCoins' = TipFetched(t) \/ tipCoins' = TipAfterMiss(t)
        BY <1>1 DEF TipGetCoins, GetCoins
      <4>2. dbCoins' = dbCoins
        BY <1>1 DEF TipGetCoins, GetCoins, dbVars
      <4>3. TipCoins(s)' = IF tipCoins'[s] = NoEntry THEN dbCoins[s] ELSE tipCoins'[s].coins
        BY <4>2 DEF TipCoins
      <4>4. /\ TipCoins(s) = (IF TipFetched(t)[s] = NoEntry THEN dbCoins[s]
                              ELSE TipFetched(t)[s].coins)
            /\ TipCoins(s) = (IF TipAfterMiss(t)[s] = NoEntry THEN dbCoins[s]
                              ELSE TipAfterMiss(t)[s].coins)
        BY FetchShowsTheSame
      <4> QED
        BY SMT, <4>1, <4>3, <4>4
    <3>2. ViewCoins(s)' = ViewCoins(s)
      <4>1. CASE TipGetCoins(t)
        BY <3>1, <4>1 DEF TipGetCoins, ViewCoins
      <4>2. CASE GetCoins(t) /\ (viewCoins[t] # NoEntry \/ TipAfterMiss(t)[t] = NoEntry)
        BY <3>1, <4>2 DEF GetCoins, FetchCoins, ViewCoins
      <4>3. CASE GetCoins(t) /\ viewCoins[t] = NoEntry /\ TipAfterMiss(t)[t] # NoEntry
        <5> DEFINE c == TipAfterMiss(t)[t].coins
                   e == [coins |-> c, fresh |-> Pruned(c), dirty |-> FALSE]
        <5>1. viewCoins' = [viewCoins EXCEPT ![t] = e]
          BY <4>3 DEF GetCoins, FetchCoins
        <5>2. TipAfterMiss(t)[t] \in CCoinsCacheEntry
          BY <4>3 DEF CoinsInv, TypeOK, TipAfterMiss, TipFetched, FetchCoins, Pruned,
                      CCoinsCacheEntry
        <5>3. c \in SUBSET Out /\ Pruned(c) \in BOOLEAN /\ DOMAIN viewCoins = Txid
          BY <5>2 DEF CoinsInv, TypeOK, CCoinsCacheEntry, Pruned
        <5>4. c = TipCoins(t)
          BY <4>3, FetchShowsTheSame
        <5> HIDE DEF c
        <5>5. e # NoEntry /\ e.coins = c
          BY <5>3, EntriesDiffer
        <5> HIDE DEF e
        <5> QED
          BY <3>1, <4>3, <5>1, <5>3, <5>4, <5>5 DEF ViewCoins
      <4> QED
        BY <1>1, <4>1, <4>2, <4>3
    <3> QED
      BY <3>1, <3>2
  <2> QED
    BY <1>1, <2>1 DEF TipGetCoins, GetCoins, SameNullifiers, SameAnchors, SameHashes, TipSpent,
                      ViewSpent, TipKnows, ViewKnows, DbKnows, TipRoot, ViewRoot, TipBest,
                      ViewBest
<1>2. ASSUME NEW n \in Nullifier, GetNullifier(n)
      PROVE  SameCoins /\ SameNullifiers /\ SameAnchors /\ SameHashes /\ UNCHANGED dbVars
  <2>1. SameNullifiers
    BY <1>2, EntriesDiffer DEF CoinsInv, TypeOK, GetNullifier, SameNullifiers, TipSpent, ViewSpent, Clean, CMarkCacheEntry
  <2> QED
    BY <1>2, <2>1 DEF GetNullifier, SameCoins, SameAnchors, SameHashes, TipCoins, ViewCoins,
                      TipKnows, ViewKnows, DbKnows, TipRoot, ViewRoot, TipBest, ViewBest
<1>3. ASSUME NEW a \in Anchor, GetAnchorAt(a)
      PROVE  SameCoins /\ SameNullifiers /\ SameAnchors /\ SameHashes /\ UNCHANGED dbVars
  <2>1. SameAnchors
    BY <1>3, EntriesDiffer DEF CoinsInv, TypeOK, GetAnchorAt, SameAnchors, TipKnows, ViewKnows, DbKnows,
                  TipAnchorsRead, ViewAnchorsRead, TipAnchorsAfter, Clean
  <2> QED
    BY <1>3, <2>1 DEF GetAnchorAt, SameCoins, SameNullifiers, SameHashes, TipCoins, ViewCoins,
                      TipSpent, ViewSpent, TipRoot, ViewRoot, TipBest, ViewBest
<1>4. ASSUME OpenView
      PROVE  SameCoins /\ SameNullifiers /\ SameAnchors /\ SameHashes /\ UNCHANGED dbVars
  BY <1>4 DEF CoinsInv, TypeOK, PhasePart, OpenView, SameCoins, SameNullifiers, SameAnchors, SameHashes,
              TipCoins, ViewCoins, TipSpent, ViewSpent, TipKnows, ViewKnows, DbKnows,
              TipRoot, ViewRoot, TipBest, ViewBest
<1> QED
  BY <1>1, <1>2, <1>3, <1>4, SameStates

\* The sets of the state the view shows.
ViewMap    == [t \in Txid |-> ViewCoins(t)]
ViewSpends == {n \in Nullifier : ViewSpent(n)}
ViewTrees  == {a \in Anchor : ViewKnows(a)}

\* The state of the view after a step, part by part.
LEMMA ViewStateParts ==
  /\ ViewState = [coins |-> ViewMap, nullifiers |-> ViewSpends, anchors |-> ViewTrees,
                  root |-> ViewRoot, block |-> ViewBest]
  /\ ViewState' = [coins |-> ViewMap', nullifiers |-> ViewSpends', anchors |-> ViewTrees',
                   root |-> ViewRoot', block |-> ViewBest']
BY DEF ViewState, ViewMap, ViewSpends, ViewTrees

\* ModifyCoins changes one transaction of the plain state.
LEMMA ModifyIsPlain ==
  ASSUME CoinsInv, NEW t \in Txid, NEW v \in SUBSET Out, ModifyCoins(t, v)
  PROVE  Plain!ModifyCoins(t, v)
<1>1. /\ SameNullifiers /\ SameAnchors /\ SameHashes /\ UNCHANGED dbVars
  BY DEF ModifyCoins, SameNullifiers, SameAnchors, SameHashes, TipSpent, ViewSpent, TipKnows,
         ViewKnows, DbKnows, TipRoot, ViewRoot, TipBest, ViewBest
<1>2. \A s \in Txid : TipCoins(s)' = TipCoins(s)
  BY FetchShowsTheSame DEF ModifyCoins, TipCoins
<1>3. \A s \in Txid : ViewCoins(s)' = IF s = t THEN v ELSE ViewCoins(s)
  <2> SUFFICES ASSUME NEW s \in Txid
               PROVE  ViewCoins(s)' = IF s = t THEN v ELSE ViewCoins(s)
    OBVIOUS
  <2>1. CASE s # t
    BY <1>2, <2>1 DEF CoinsInv, TypeOK, ModifyCoins, ViewCoins
  <2>2. CASE s = t /\ Fresh(t) /\ Pruned(v)
    <3>1. viewCoins'[t] = NoEntry
      BY <2>2 DEF CoinsInv, TypeOK, ModifyCoins
    <3>2. Pruned(TipCoins(t))
      <4>1. CASE viewCoins[t] # NoEntry
        BY <2>2, <4>1 DEF Fresh, CoinsInv, CoinsPart, CoinsAgree, TipCoins
      <4>2. CASE viewCoins[t] = NoEntry
        <5>1. TipAfterMiss(t)[t] = NoEntry => Pruned(dbCoins[t])
          BY <4>2, EntriesDiffer
             DEF CoinsInv, TypeOK, TipAfterMiss, TipFetched, FetchCoins, Pruned
        <5> QED
          BY <2>2, <4>2, <5>1, FetchShowsTheSame DEF Fresh
      <4> QED
        BY <4>1, <4>2
    <3> QED
      BY <1>2, <2>2, <3>1, <3>2 DEF ViewCoins, Pruned
  <2>3. CASE s = t /\ ~(Fresh(t) /\ Pruned(v))
    <3> DEFINE e == [coins |-> v, fresh |-> Fresh(t), dirty |-> TRUE]
    <3>1. viewCoins'[t] = e
      BY <2>3 DEF CoinsInv, TypeOK, ModifyCoins
    <3>2. viewCoins'[t] \in CCoinsCacheEntry \cup {NoEntry}
      BY ModifyCoinsKeeps DEF CoinsInv, TypeOK
    <3>3. Fresh(t) \in BOOLEAN
      BY DEF CoinsInv, TypeOK, Fresh, CCoinsCacheEntry, Pruned
    <3>4. e # NoEntry /\ e.coins = v
      BY <3>3, EntriesDiffer
    <3> HIDE DEF e
    <3> QED
      BY <2>3, <3>1, <3>4 DEF ViewCoins
  <2> QED
    BY <2>1, <2>2, <2>3
<1>4. TipState' = TipState /\ DbState' = DbState
  BY <1>1, <1>2 DEF TipState, DbState, DbKnows, SameNullifiers, SameAnchors, SameHashes
<1>5. ViewState' = [ViewState EXCEPT !.coins = [@ EXCEPT ![t] = v]]
  <2>1. ViewMap' = [ViewMap EXCEPT ![t] = v]
    BY <1>3 DEF ViewMap
  <2>2. ViewSpends' = ViewSpends /\ ViewTrees' = ViewTrees
    BY <1>1 DEF ViewSpends, ViewTrees, SameNullifiers, SameAnchors
  <2> QED
    BY SMT, <1>1, <2>1, <2>2, ViewStateParts DEF SameHashes
<1> QED
  BY <1>4, <1>5 DEF Plain!ModifyCoins

\* SetNullifiers changes one nullifier of the plain state.
LEMMA SetNullifierIsPlain ==
  ASSUME CoinsInv, NEW n \in Nullifier, NEW spent \in BOOLEAN, SetNullifier(n, spent)
  PROVE  Plain!SetNullifier(n, spent)
<1>1. /\ SameCoins /\ SameAnchors /\ SameHashes /\ UNCHANGED dbVars
      /\ \A m \in Nullifier : TipSpent(m)' <=> TipSpent(m)
  BY DEF SetNullifier, SameCoins, SameAnchors, SameHashes, TipCoins, ViewCoins, TipKnows,
         ViewKnows, DbKnows, TipRoot, ViewRoot, TipBest, ViewBest, TipSpent
<1>2. \A m \in Nullifier : ViewSpent(m)' <=> IF m = n THEN spent ELSE ViewSpent(m)
  <2> SUFFICES ASSUME NEW m \in Nullifier
               PROVE  ViewSpent(m)' <=> IF m = n THEN spent ELSE ViewSpent(m)
    OBVIOUS
  <2>1. CASE m # n
    BY <1>1, <2>1 DEF CoinsInv, TypeOK, SetNullifier, ViewSpent
  <2>2. CASE m = n
    <3>1. viewNullifiers'[n] = Marked(spent)
      BY DEF CoinsInv, TypeOK, SetNullifier
    <3>2. Marked(spent) # NoEntry /\ Marked(spent).entered = spent
      BY EntriesDiffer DEF Marked
    <3> QED
      BY <2>2, <3>1, <3>2 DEF ViewSpent
  <2> QED
    BY <2>1, <2>2
<1>3. TipState' = TipState /\ DbState' = DbState
  BY <1>1 DEF TipState, DbState, DbKnows, SameCoins, SameAnchors, SameHashes
<1>4. ViewSpends' = IF spent THEN ViewSpends \cup {n} ELSE ViewSpends \ {n}
  BY <1>2 DEF ViewSpends
<1>5. ViewState' = [ViewState EXCEPT !.nullifiers =
                      IF spent THEN @ \cup {n} ELSE @ \ {n}]
  <2>1. ViewMap' = ViewMap
    BY <1>1 DEF ViewMap, SameCoins
  <2>2. ViewTrees' = ViewTrees
    BY <1>1 DEF ViewTrees, SameAnchors
  <2>3. CASE spent
    BY SMT, <1>1, <1>4, <2>1, <2>2, <2>3, ViewStateParts DEF SameHashes
  <2>4. CASE ~spent
    BY SMT, <1>1, <1>4, <2>1, <2>2, <2>4, ViewStateParts DEF SameHashes
  <2> QED
    BY <2>3, <2>4
<1> QED
  BY <1>3, <1>5 DEF Plain!SetNullifier

\* The parts of an anchor step the two ends of a block share.
LEMMA AnchorReadShowsTheSame ==
  ASSUME CoinsInv, NEW a \in Anchor, NEW c \in Anchor
  PROVE  /\ (IF TipAnchorsAfter(a)[c] = NoEntry THEN DbKnows(c)
             ELSE TipAnchorsAfter(a)[c].entered) <=> TipKnows(c)
         /\ (IF ViewAnchorsRead(a)[c] = NoEntry THEN TipKnows(c)
             ELSE ViewAnchorsRead(a)[c].entered) <=> ViewKnows(c)
BY EntriesDiffer DEF CoinsInv, TypeOK, TipKnows, ViewKnows, TipAnchorsRead, ViewAnchorsRead,
                     TipAnchorsAfter, Clean

\* What PushAnchor and PopAnchor have in common.
LEMMA EndOfBlock ==
  ASSUME CoinsInv, NEW rt \in Anchor, NEW b \in Block, Connected(rt, b) \/ Disconnected(rt, b)
  PROVE  /\ TipState' = TipState /\ DbState' = DbState
         /\ ViewMap' = ViewMap /\ ViewSpends' = ViewSpends
         /\ ViewRoot' = rt /\ ViewBest' = b
         /\ \A a \in Anchor : TipKnows(a)' <=> TipKnows(a)
<1>1. /\ SameCoins /\ SameNullifiers /\ UNCHANGED dbVars
      /\ ViewRoot' = rt /\ ViewBest' = b /\ TipBest' = TipBest
  BY DEF Connected, Disconnected, SameCoins, SameNullifiers, TipCoins, ViewCoins, TipSpent,
         ViewSpent, ViewRoot, ViewBest, TipBest
<1>2. TipRoot' = TipRoot
  BY <1>1 DEF Connected, Disconnected, ReadRoots, TipRoot, CoinsInv, TypeOK
<1>3. ViewRoot \in Anchor
  BY DEF CoinsInv, TypeOK, ViewRoot, TipRoot
<1>4. tipAnchors' = tipAnchors \/ tipAnchors' = TipAnchorsAfter(ViewRoot)
  BY DEF Connected, Disconnected
<1>5. \A a \in Anchor : TipKnows(a)' <=> TipKnows(a)
  BY <1>1, <1>3, <1>4, AnchorReadShowsTheSame DEF TipKnows, DbKnows
<1>6. TipState' = TipState /\ DbState' = DbState
  BY <1>1, <1>2, <1>5 DEF TipState, DbState, DbKnows, SameCoins, SameNullifiers
<1>7. ViewMap' = ViewMap /\ ViewSpends' = ViewSpends
  BY <1>1 DEF ViewMap, ViewSpends, SameCoins, SameNullifiers
<1> QED
  BY <1>1, <1>5, <1>6, <1>7

\* The end of ConnectBlock is that of the plain state.
LEMMA ConnectedIsPlain ==
  ASSUME CoinsInv, NEW rt \in Anchor, NEW b \in Block, Connected(rt, b)
  PROVE  Plain!Connected(rt, b)
<1>1. ViewRoot \in Anchor /\ ViewKnows(ViewRoot)
  BY DEF CoinsInv, TypeOK, ViewRoot, TipRoot, AnchorsPart, CurrentAnchorKnown
<1>2. \A a \in Anchor : ViewKnows(a)' <=> ViewKnows(a) \/ a = rt
  <2> SUFFICES ASSUME NEW a \in Anchor
               PROVE  ViewKnows(a)' <=> ViewKnows(a) \/ a = rt
    OBVIOUS
  <2>1. TipKnows(a)' <=> TipKnows(a)
    BY EndOfBlock
  <2>2. CASE rt = ViewRoot
    <3>1. viewAnchors' = ViewAnchorsRead(ViewRoot)
      BY <2>2 DEF Connected, PushAnchor
    <3> QED
      BY <1>1, <2>1, <2>2, <3>1, AnchorReadShowsTheSame DEF ViewKnows
  <2>3. CASE rt # ViewRoot /\ a # rt
    <3>1. viewAnchors'[a] = ViewAnchorsRead(ViewRoot)[a]
      BY SMT, <2>3 DEF Connected, PushAnchor
    <3> QED
      BY <1>1, <2>1, <2>3, <3>1, AnchorReadShowsTheSame DEF ViewKnows
  <2>4. CASE rt # ViewRoot /\ a = rt
    <3>1. viewAnchors'[a] = Marked(TRUE)
      BY <2>4 DEF Connected, PushAnchor, ViewAnchorsRead, CoinsInv, TypeOK
    <3>2. Marked(TRUE) # NoEntry /\ Marked(TRUE).entered
      BY EntriesDiffer DEF Marked
    <3> QED
      BY <2>4, <3>1, <3>2 DEF ViewKnows
  <2> QED
    BY <2>2, <2>3, <2>4
<1>3. ViewTrees' = ViewTrees \cup {rt}
  BY <1>2 DEF ViewTrees
<1>4. ViewState' = [coins |-> ViewMap, nullifiers |-> ViewSpends,
                    anchors |-> ViewTrees \cup {rt}, root |-> rt, block |-> b]
  BY <1>3, EndOfBlock, ViewStateParts
<1> QED
  BY <1>4, EndOfBlock, ViewStateParts DEF Plain!Connected

\* The end of DisconnectBlock is that of the plain state.
LEMMA DisconnectedIsPlain ==
  ASSUME CoinsInv, NEW rt \in Anchor, NEW b \in Block, Disconnected(rt, b)
  PROVE  Plain!Disconnected(rt, b)
<1>1. ViewRoot \in Anchor
  BY DEF CoinsInv, TypeOK, ViewRoot, TipRoot
<1>2. \A a \in Anchor : ViewKnows(a)' <=> ViewKnows(a) /\ (rt = ViewRoot \/ a # ViewRoot)
  <2> SUFFICES ASSUME NEW a \in Anchor
               PROVE  ViewKnows(a)' <=> ViewKnows(a) /\ (rt = ViewRoot \/ a # ViewRoot)
    OBVIOUS
  <2>1. TipKnows(a)' <=> TipKnows(a)
    BY EndOfBlock
  <2>2. CASE rt = ViewRoot
    BY <2>1, <2>2 DEF Disconnected, PopAnchor, ViewKnows
  <2>3. CASE rt # ViewRoot /\ a # ViewRoot
    <3>1. viewAnchors'[a] = ViewAnchorsRead(ViewRoot)[a]
      BY SMT, <2>3 DEF Disconnected, PopAnchor
    <3> QED
      BY <1>1, <2>1, <2>3, <3>1, AnchorReadShowsTheSame DEF ViewKnows
  <2>4. CASE rt # ViewRoot /\ a = ViewRoot
    <3>1. viewAnchors'[a] = Marked(FALSE)
      BY <2>4 DEF Disconnected, PopAnchor, ViewAnchorsRead, CoinsInv, TypeOK
    <3>2. Marked(FALSE) # NoEntry /\ ~Marked(FALSE).entered
      BY EntriesDiffer DEF Marked
    <3> QED
      BY <2>4, <3>1, <3>2 DEF ViewKnows
  <2> QED
    BY <2>2, <2>3, <2>4
<1>3. ViewTrees' = ViewTrees \ ({ViewRoot} \ {rt})
  BY <1>2 DEF ViewTrees
<1>4. ViewState' = [coins |-> ViewMap, nullifiers |-> ViewSpends,
                    anchors |-> ViewTrees \ ({ViewRoot} \ {rt}), root |-> rt, block |-> b]
  BY <1>3, EndOfBlock, ViewStateParts
<1> QED
  BY <1>4, EndOfBlock, ViewStateParts DEF Plain!Disconnected

\* Without a view, a read shows the tip.
LEMMA NoViewShowsTip ==
  ASSUME ViewGone
  PROVE  ViewState' = TipState'
BY DEF ViewGone, NoCoins, NoMarks, ViewState, TipState, ViewCoins, ViewSpent, ViewKnows, ViewRoot,
       ViewBest

\* A flush makes the state of the view that of the tip.
LEMMA FlushViewIsPlain ==
  ASSUME CoinsInv, FlushView
  PROVE  Plain!FlushView
<1>1. \A t \in Txid : TipCoins(t)' = ViewCoins(t)
  <2> SUFFICES ASSUME NEW t \in Txid
               PROVE  TipCoins(t)' = ViewCoins(t)
    OBVIOUS
  <2>1. /\ tipCoins'[t] = BatchWriteCoins(viewCoins[t], tipCoins[t])
        /\ dbCoins' = dbCoins
        /\ viewCoins[t] \in CCoinsCacheEntry \cup {NoEntry}
        /\ tipCoins[t] \in CCoinsCacheEntry \cup {NoEntry}
        /\ CoinsAgree(viewCoins[t], tipCoins[t], dbCoins[t])
    BY DEF FlushView, CoinsInv, TypeOK, CoinsPart
  <2>2. CASE viewCoins[t] = NoEntry
    BY <2>1, <2>2 DEF BatchWriteCoins, TipCoins, ViewCoins
  <2>3. CASE viewCoins[t] # NoEntry /\ ~viewCoins[t].dirty
    BY <2>1, <2>3 DEF BatchWriteCoins, CoinsAgree, TipCoins, ViewCoins
  <2>4. CASE viewCoins[t] # NoEntry /\ viewCoins[t].dirty
    <3> DEFINE c == viewCoins[t].coins
    <3>1. c \in SUBSET Out
      BY <2>1, <2>4 DEF CCoinsCacheEntry
    <3>2. CASE tipCoins[t] = NoEntry /\ Pruned(c)
      BY <2>1, <2>4, <3>2 DEF BatchWriteCoins, CoinsAgree, TipCoins, ViewCoins, Pruned
    <3>3. CASE tipCoins[t] = NoEntry /\ ~Pruned(c)
      <4> DEFINE e == [coins |-> c, fresh |-> TRUE, dirty |-> TRUE]
      <4>1. tipCoins'[t] = e
        BY <2>1, <2>4, <3>3 DEF BatchWriteCoins
      <4>2. e # NoEntry /\ e.coins = c
        BY <3>1, EntriesDiffer
      <4> HIDE DEF e
      <4> QED
        BY <2>4, <4>1, <4>2 DEF TipCoins, ViewCoins
    <3>4. CASE tipCoins[t] # NoEntry /\ tipCoins[t].fresh /\ Pruned(c)
      BY <2>1, <2>4, <3>4 DEF BatchWriteCoins, CoinsAgree, TipCoins, ViewCoins, Pruned
    <3>5. CASE tipCoins[t] # NoEntry /\ ~(tipCoins[t].fresh /\ Pruned(c))
      <4> DEFINE e == [coins |-> c, fresh |-> tipCoins[t].fresh, dirty |-> TRUE]
      <4>1. tipCoins'[t] = e
        BY <2>1, <2>4, <3>5 DEF BatchWriteCoins
      <4>2. e # NoEntry /\ e.coins = c
        <5>1. tipCoins[t].fresh \in BOOLEAN
          BY <2>1, <3>5 DEF CCoinsCacheEntry
        <5> QED
          BY <3>1, <5>1, EntriesDiffer
      <4> HIDE DEF e
      <4> QED
        BY <2>4, <4>1, <4>2 DEF TipCoins, ViewCoins
    <3> QED
      BY <3>2, <3>3, <3>4, <3>5
  <2> QED
    BY <2>2, <2>3, <2>4
<1>2. ASSUME NEW v \in CMarkCacheEntry \cup {NoEntry}, NEW p \in CMarkCacheEntry \cup {NoEntry}
      PROVE  /\ v = NoEntry \/ ~v.dirty => BatchWriteMarks(v, p) = p
             /\ v # NoEntry /\ v.dirty => /\ BatchWriteMarks(v, p) # NoEntry
                                          /\ BatchWriteMarks(v, p).entered = v.entered
  <2>1. CASE v = NoEntry \/ ~v.dirty
    BY <2>1 DEF BatchWriteMarks
  <2>2. CASE v # NoEntry /\ v.dirty /\ (p = NoEntry \/ p.entered # v.entered)
    <3>1. BatchWriteMarks(v, p) = Marked(v.entered)
      BY <2>2 DEF BatchWriteMarks
    <3>2. v.entered \in BOOLEAN
      BY <2>2 DEF CMarkCacheEntry
    <3>3. Marked(v.entered) # NoEntry /\ Marked(v.entered).entered = v.entered
      BY <3>2, EntriesDiffer DEF Marked
    <3> QED
      BY <2>2, <3>1, <3>3
  <2>3. CASE v # NoEntry /\ v.dirty /\ p # NoEntry /\ p.entered = v.entered
    BY <2>3 DEF BatchWriteMarks
  <2> QED
    BY <2>1, <2>2, <2>3
<1>3. \A n \in Nullifier : TipSpent(n)' <=> ViewSpent(n)
  <2> SUFFICES ASSUME NEW n \in Nullifier
               PROVE  TipSpent(n)' <=> ViewSpent(n)
    OBVIOUS
  <2> DEFINE v == viewNullifiers[n]
             p == tipNullifiers[n]
  <2>1. /\ tipNullifiers'[n] = BatchWriteMarks(v, p)
        /\ v \in CMarkCacheEntry \cup {NoEntry} /\ p \in CMarkCacheEntry \cup {NoEntry}
    BY DEF FlushView, CoinsInv, TypeOK
  <2>2. dbNullifiers' = dbNullifiers
    BY DEF FlushView, dbVars
  <2>3. v # NoEntry => v.dirty \/ v.entered = (IF p = NoEntry THEN n \in dbNullifiers ELSE p.entered)
    BY DEF CoinsInv, NullifiersPart, MarksAgree
  <2> HIDE DEF v, p
  <2>4. /\ v = NoEntry \/ ~v.dirty => tipNullifiers'[n] = p
        /\ v # NoEntry /\ v.dirty => tipNullifiers'[n] # NoEntry /\ tipNullifiers'[n].entered = v.entered
    BY SMT, <1>2, <2>1
  <2>5. CASE v = NoEntry \/ ~v.dirty
    BY <2>2, <2>3, <2>4, <2>5 DEF TipSpent, ViewSpent, v, p
  <2>6. CASE v # NoEntry /\ v.dirty
    BY <2>4, <2>6 DEF TipSpent, ViewSpent, v
  <2> QED
    BY <2>5, <2>6
<1>4. \A a \in Anchor : TipKnows(a)' <=> ViewKnows(a)
  <2> SUFFICES ASSUME NEW a \in Anchor
               PROVE  TipKnows(a)' <=> ViewKnows(a)
    OBVIOUS
  <2> DEFINE v == viewAnchors[a]
             p == tipAnchors[a]
  <2>1. /\ tipAnchors'[a] = BatchWriteMarks(v, p)
        /\ v \in CMarkCacheEntry \cup {NoEntry} /\ p \in CMarkCacheEntry \cup {NoEntry}
    BY DEF FlushView, CoinsInv, TypeOK
  <2>2. DbKnows(a)' = DbKnows(a)
    BY DEF FlushView, dbVars, DbKnows
  <2>3. v # NoEntry => v.dirty \/ v.entered = (IF p = NoEntry THEN DbKnows(a) ELSE p.entered)
    BY DEF CoinsInv, AnchorsPart, MarksAgree
  <2> HIDE DEF v, p
  <2>4. /\ v = NoEntry \/ ~v.dirty => tipAnchors'[a] = p
        /\ v # NoEntry /\ v.dirty => tipAnchors'[a] # NoEntry /\ tipAnchors'[a].entered = v.entered
    BY SMT, <1>2, <2>1
  <2>5. CASE v = NoEntry \/ ~v.dirty
    BY <2>2, <2>3, <2>4, <2>5 DEF TipKnows, ViewKnows, v, p
  <2>6. CASE v # NoEntry /\ v.dirty
    BY <2>4, <2>6 DEF TipKnows, ViewKnows, v
  <2> QED
    BY <2>5, <2>6
<1>5. TipRoot' = ViewRoot /\ TipBest' = ViewBest
  BY DEF FlushView, CoinsInv, PhasePart, TipRoot, ViewRoot, TipBest, ViewBest
<1>6. TipState' = ViewState /\ DbState' = DbState
  BY <1>1, <1>3, <1>4, <1>5 DEF FlushView, TipState, ViewState, DbState, DbKnows
<1> QED
  BY <1>6, NoViewShowsTip DEF FlushView, Plain!FlushView

\* A view that is dropped leaves the tip as it was.
LEMMA DiscardViewIsPlain ==
  ASSUME CoinsInv, DiscardView
  PROVE  Plain!DiscardView
<1>1. TipState' = TipState /\ DbState' = DbState
  BY DEF DiscardView, TipState, DbState, TipCoins, TipSpent, TipKnows, DbKnows, TipRoot, TipBest
<1> QED
  BY <1>1, NoViewShowsTip DEF DiscardView, Plain!DiscardView

\* The flush of pcoinsTip makes its state the one on disk.
LEMMA FlushTipIsPlain ==
  ASSUME CoinsInv, FlushTip
  PROVE  Plain!FlushTip
<1>1. \A t \in Txid : dbCoins'[t] = TipCoins(t) /\ TipCoins(t)' = TipCoins(t)
  BY DEF FlushTip, CoinsInv, TypeOK, CoinsPart, CoinsAgree, TipCoins, NoCoins
<1>2. \A n \in Nullifier : (n \in dbNullifiers' <=> TipSpent(n)) /\ (TipSpent(n)' <=> TipSpent(n))
  BY DEF FlushTip, CoinsInv, TypeOK, NullifiersPart, MarksAgree, TipSpent, NoMarks, Written
<1>3. \A a \in Anchor : (DbKnows(a)' <=> TipKnows(a)) /\ (TipKnows(a)' <=> TipKnows(a))
  BY DEF FlushTip, CoinsInv, TypeOK, AnchorsPart, MarksAgree, TipKnows, DbKnows, NoMarks, Written
<1>4. /\ dbAnchor' = TipRoot /\ TipRoot' = TipRoot
      /\ dbBlock' = TipBest /\ TipBest' = TipBest
  BY DEF FlushTip, TipRoot, TipBest
<1>5. dbCoins' = [t \in Txid |-> TipCoins(t)]
  BY <1>1 DEF FlushTip
<1>6. dbNullifiers' = {n \in Nullifier : TipSpent(n)}
  <2>1. dbNullifiers' \subseteq Nullifier
    BY DEF FlushTip, Written, CoinsInv, TypeOK
  <2> QED
    BY <1>2, <2>1
<1>7. TipState' = TipState
  BY <1>1, <1>2, <1>3, <1>4 DEF TipState
<1>8. DbState' = TipState
  BY <1>3, <1>4, <1>5, <1>6 DEF TipState, DbState
<1>9. ViewState' = TipState' /\ ViewState = TipState
  BY DEF FlushTip, CoinsInv, PhasePart, NoCoins, NoMarks, ViewState, TipState, ViewCoins, ViewSpent,
         ViewKnows, ViewRoot, ViewBest
<1> QED
  BY <1>7, <1>8, <1>9 DEF Plain!FlushTip

\* After a crash the tip is what was on disk.
LEMMA CrashIsPlain ==
  ASSUME CoinsInv, Crash
  PROVE  Plain!Crash
<1>1. TipState' = [coins |-> [t \in Txid |-> dbCoins[t]],
                   nullifiers |-> {n \in Nullifier : n \in dbNullifiers},
                   anchors |-> {a \in Anchor : DbKnows(a)},
                   root |-> dbAnchor, block |-> dbBlock]
  BY DEF Crash, NoCoins, NoMarks, TipState, TipCoins, TipSpent, TipKnows, DbKnows, TipRoot, TipBest
<1>2. /\ [t \in Txid |-> dbCoins[t]] = dbCoins
      /\ {n \in Nullifier : n \in dbNullifiers} = dbNullifiers
  BY DEF CoinsInv, TypeOK
<1>3. TipState' = DbState
  BY <1>1, <1>2 DEF DbState
<1>4. DbState' = DbState
  BY DEF Crash, DbState, DbKnows
<1> QED
  BY <1>3, <1>4, NoViewShowsTip DEF Crash, Plain!Crash

\* The initial states correspond.
LEMMA InitIsPlain ==
  ASSUME Init
  PROVE  Plain!Init
<1>1. DbState \in Plain!ChainState
  BY DEF Init, DbState, DbKnows, Plain!ChainState
<1>2. TipState = DbState
  <2>1. /\ [t \in Txid |-> TipCoins(t)] = dbCoins
        /\ {n \in Nullifier : TipSpent(n)} = dbNullifiers
        /\ {a \in Anchor : TipKnows(a)} = {a \in Anchor : DbKnows(a)}
        /\ TipRoot = dbAnchor /\ TipBest = dbBlock
    BY DEF Init, NoCoins, NoMarks, TipCoins, TipSpent, TipKnows, DbKnows, TipRoot, TipBest
  <2> QED
    BY <2>1 DEF TipState, DbState
<1>3. ViewState = TipState
  BY DEF Init, NoCoins, NoMarks, ViewState, TipState, ViewCoins, ViewSpent, ViewKnows, ViewRoot,
         ViewBest
<1> QED
  BY <1>1, <1>2, <1>3 DEF Plain!Init

\* Every step is a step of CoinsView or leaves it alone.
LEMMA StepIsPlain ==
  ASSUME CoinsInv, [Next]_vars
  PROVE  [Plain!Next]_Plain!vars
<1>1. CASE \E t \in Txid, v \in SUBSET Out : ModifyCoins(t, v)
  BY <1>1, ModifyIsPlain DEF Plain!Next
<1>2. CASE \E n \in Nullifier, spent \in BOOLEAN : SetNullifier(n, spent)
  BY <1>2, SetNullifierIsPlain DEF Plain!Next
<1>3. CASE \E rt \in Anchor, b \in Block : Connected(rt, b) \/ Disconnected(rt, b)
  BY <1>3, ConnectedIsPlain, DisconnectedIsPlain DEF Plain!Next
<1>4. CASE \/ \E t \in Txid : TipGetCoins(t) \/ GetCoins(t)
           \/ \E n \in Nullifier : GetNullifier(n)
           \/ \E a \in Anchor : GetAnchorAt(a)
           \/ OpenView
  BY <1>4, ReadsAreSilent DEF Plain!vars
<1>5. CASE DiscardView
  BY <1>5, DiscardViewIsPlain DEF Plain!Next
<1>6. CASE FlushView
  BY <1>6, FlushViewIsPlain DEF Plain!Next
<1>7. CASE FlushTip
  BY <1>7, FlushTipIsPlain DEF Plain!Next
<1>8. CASE Crash
  BY <1>8, CrashIsPlain DEF Plain!Next
<1>9. CASE UNCHANGED vars
  <2>1. ViewState' = ViewState /\ TipState' = TipState /\ DbState' = DbState
    BY <1>9 DEF vars, ViewState, TipState, DbState, ViewCoins, TipCoins, ViewSpent, TipSpent,
                ViewKnows, TipKnows, DbKnows, ViewRoot, TipRoot, ViewBest, TipBest
  <2> QED
    BY <2>1 DEF Plain!vars
<1> QED
  BY <1>1, <1>2, <1>3, <1>4, <1>5, <1>6, <1>7, <1>8, <1>9 DEF Next

(***************************************************************************)
(* The caches of coins.cpp, with their flags, dropped entries and lazily   *)
(* read hashes, implement the plain maps of CoinsView: the three levels    *)
(* change by one write at a time, and a flush moves a complete state down  *)
(* (coins.cpp:118-555, txdb.cpp:176-215). That each call is the step of    *)
(* its own name, and a read none, is what the lemmas above say.            *)
(***************************************************************************)
THEOREM CachesImplementView == Spec => ImplementsCoinsView
<1>1. Spec => []CoinsInv
  BY CoinsInvariant
<1>2. Init => Plain!Init
  BY InitIsPlain
<1>3. CoinsInv /\ [Next]_vars => [Plain!Next]_Plain!vars
  BY StepIsPlain
<1> QED
  BY <1>1, <1>2, <1>3, PTL DEF Spec, ImplementsCoinsView, Plain!Spec
=============================================================================
