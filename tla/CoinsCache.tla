----------------------------- MODULE CoinsCache ------------------------------
(***************************************************************************)
(* The stack of coins views of a full node (coins.cpp, txdb.cpp): the      *)
(* CCoinsViewCache "view" that ConnectTip and DisconnectTip open for one   *)
(* block, on top of the CCoinsViewCache pcoinsTip, on top of the database  *)
(* CCoinsViewDB.  A cache holds some of the entries of the map below it;   *)
(* the flags DIRTY (modified here) and FRESH (the map below has nothing    *)
(* or only a pruned entry) let it drop and skip entries when it is         *)
(* flushed.  All of it runs under cs_main, so a call is one step.          *)
(*                                                                         *)
(* A CCoins is the set of its unspent outputs, {} being a pruned one; the  *)
(* empty set in the database is an absent record.  The Sprout and the      *)
(* Sapling pool run the same template code on separate maps: one pool is   *)
(* modelled.                                                               *)
(***************************************************************************)
EXTENDS Integers, FiniteSets, FiniteSetsExt

CONSTANTS Txid,        \* transaction ids
          Out,         \* indices of transaction outputs
          Nullifier,   \* nullifiers of shielded notes
          Anchor,      \* roots of the note commitment tree
          EmptyRoot,   \* the root of the empty tree
          Block,       \* block hashes
          NoEntry,     \* the cache has no entry for a key
          Null         \* a hash field that was never read or set

ASSUME EmptyRootAssumption == EmptyRoot \in Anchor

ASSUME NullAssumption == Null \notin Anchor /\ Null \notin Block

CCoinsCacheEntry == [coins: SUBSET Out, fresh: BOOLEAN, dirty: BOOLEAN]
CMarkCacheEntry  == [entered: BOOLEAN, dirty: BOOLEAN]   \* nullifiers and anchors

ASSUME NoEntryAssumption == NoEntry \notin CCoinsCacheEntry \cup CMarkCacheEntry

VARIABLES phase,                                  \* the block's view: see Phases
          viewCoins, viewNullifiers, viewAnchors, \* cacheCoins, cache...Nullifiers,
          viewAnchor, viewBlock, viewUsage,       \* cache...Anchors, hash...Anchor,
          tipCoins, tipNullifiers, tipAnchors,    \* hashBlock and cachedCoinsUsage
          tipAnchor, tipBlock, tipUsage,          \* of the view and of pcoinsTip
          dbCoins, dbNullifiers, dbAnchors,       \* the records of the database
          dbAnchor, dbBlock

viewVars == <<viewCoins, viewNullifiers, viewAnchors, viewAnchor, viewBlock, viewUsage>>
tipVars  == <<tipCoins, tipNullifiers, tipAnchors, tipAnchor, tipBlock, tipUsage>>
dbVars   == <<dbCoins, dbNullifiers, dbAnchors, dbAnchor, dbBlock>>
vars     == <<phase, viewVars, tipVars, dbVars>>

\* No view; a view whose block is being applied; a view whose block is through.
Phases == {"none", "open", "done"}

NoCoins   == [t \in Txid |-> NoEntry]
NoMarks(S) == [k \in S |-> NoEntry]

Pruned(c) == c = {}

(***************************************************************************)
(* What a read through the stack returns, entry by entry.                  *)
(***************************************************************************)
TipCoins(t)  == IF tipCoins[t] = NoEntry THEN dbCoins[t] ELSE tipCoins[t].coins
ViewCoins(t) == IF viewCoins[t] = NoEntry THEN TipCoins(t) ELSE viewCoins[t].coins

TipSpent(n)  == IF tipNullifiers[n] = NoEntry THEN n \in dbNullifiers
                                              ELSE tipNullifiers[n].entered
ViewSpent(n) == IF viewNullifiers[n] = NoEntry THEN TipSpent(n)
                                               ELSE viewNullifiers[n].entered

\* The database answers for the empty root without a record of it.
DbKnows(a)   == a = EmptyRoot \/ a \in dbAnchors
TipKnows(a)  == IF tipAnchors[a] = NoEntry THEN DbKnows(a) ELSE tipAnchors[a].entered
ViewKnows(a) == IF viewAnchors[a] = NoEntry THEN TipKnows(a) ELSE viewAnchors[a].entered

TipRoot   == IF tipAnchor = Null THEN dbAnchor ELSE tipAnchor
ViewRoot  == IF viewAnchor = Null THEN TipRoot ELSE viewAnchor
TipBest   == IF tipBlock = Null THEN dbBlock ELSE tipBlock
ViewBest  == IF viewBlock = Null THEN TipBest ELSE viewBlock

-----------------------------------------------------------------------------
Init ==
  /\ phase = "none"
  /\ viewCoins = NoCoins /\ viewNullifiers = NoMarks(Nullifier)
  /\ viewAnchors = NoMarks(Anchor)
  /\ viewAnchor = Null /\ viewBlock = Null /\ viewUsage = 0
  /\ tipCoins = NoCoins /\ tipNullifiers = NoMarks(Nullifier)
  /\ tipAnchors = NoMarks(Anchor)
  /\ tipAnchor = Null /\ tipBlock = Null /\ tipUsage = 0
  /\ dbCoins = [t \in Txid |-> {}] /\ dbNullifiers = {} /\ dbAnchors = {}
  /\ dbAnchor = EmptyRoot
  /\ dbBlock \in Block

(***************************************************************************)
(* FetchCoins: the entry a miss brings in from the map below, which        *)
(* answers "present" with a possibly pruned record.                        *)
(***************************************************************************)
FetchCoins(cache, t, present, c) ==
  IF cache[t] # NoEntry \/ ~present
    THEN cache
    ELSE [cache EXCEPT ![t] = [coins |-> c, fresh |-> Pruned(c), dirty |-> FALSE]]

TipFetched(t) == FetchCoins(tipCoins, t, dbCoins[t] # {}, dbCoins[t])

\* A read of the view that misses goes through pcoinsTip, which keeps the entry.
TipAfterMiss(t) == IF viewCoins[t] = NoEntry THEN TipFetched(t) ELSE tipCoins

\* DynamicMemoryUsage of a CCoins: it grows with the outputs it still holds.
Size(e) == IF e = NoEntry THEN 0 ELSE Cardinality(e.coins)

\* A slip: the entry FetchCoins brings in is not counted.
TipGrowthUncounted(t) == 0

TipGrowth(t) == Size(TipAfterMiss(t)[t]) - Size(tipCoins[t])

\* GetCoins, AccessCoins, HaveCoins on pcoinsTip (mempool, RPC, miner).
TipGetCoins(t) ==
  /\ tipCoins' = TipFetched(t)
  /\ tipUsage' = tipUsage + Size(TipFetched(t)[t]) - Size(tipCoins[t])
  /\ UNCHANGED <<phase, viewVars, tipNullifiers, tipAnchors, tipAnchor, tipBlock, dbVars>>

\* GetCoins, AccessCoins, HaveCoins on the view of the block.
GetCoins(t) ==
  /\ phase = "open"
  /\ LET parent == TipAfterMiss(t)[t]
         fetched == FetchCoins(viewCoins, t, parent # NoEntry,
                               IF parent = NoEntry THEN {} ELSE parent.coins)
     IN  /\ viewCoins' = fetched
         /\ viewUsage' = viewUsage + Size(fetched[t]) - Size(viewCoins[t])
  /\ tipCoins' = TipAfterMiss(t)
  /\ tipUsage' = tipUsage + TipGrowth(t)
  /\ UNCHANGED <<phase, viewNullifiers, viewAnchors, viewAnchor, viewBlock,
                 tipNullifiers, tipAnchors, tipAnchor, tipBlock, dbVars>>

(***************************************************************************)
(* ModifyCoins and the destructor of the CCoinsModifier it returns.  The   *)
(* caller (UpdateCoins, DisconnectBlock, ApplyTxInUndo) leaves the value   *)
(* v behind: an output spent, a transaction added, cleared or restored.    *)
(***************************************************************************)
\* A slip: an entry the view had to create counts as FRESH whatever is below.
FreshIfNew(t) == viewCoins[t] # NoEntry => viewCoins[t].fresh

Fresh(t) ==
  IF viewCoins[t] # NoEntry
    THEN viewCoins[t].fresh
    ELSE TipAfterMiss(t)[t] = NoEntry \/ Pruned(TipAfterMiss(t)[t].coins)

ModifyCoins(t, v) ==
  /\ phase = "open"
  /\ viewCoins' = [viewCoins EXCEPT ![t] =
                     IF Fresh(t) /\ Pruned(v) THEN NoEntry
                     ELSE [coins |-> v, fresh |-> Fresh(t), dirty |-> TRUE]]
  /\ viewUsage' = viewUsage - Size(viewCoins[t]) + Size(viewCoins'[t])
  /\ tipCoins' = TipAfterMiss(t)
  /\ tipUsage' = tipUsage + TipGrowth(t)
  /\ UNCHANGED <<phase, viewNullifiers, viewAnchors, viewAnchor, viewBlock,
                 tipNullifiers, tipAnchors, tipAnchor, tipBlock, dbVars>>

(***************************************************************************)
(* Nullifiers.  GetNullifier caches the answer in every map it passes;     *)
(* SetNullifiers overwrites without reading.                               *)
(***************************************************************************)
Clean(entered) == [entered |-> entered, dirty |-> FALSE]
Marked(entered) == [entered |-> entered, dirty |-> TRUE]

GetNullifier(n) ==
  /\ phase = "open"
  /\ viewNullifiers[n] = NoEntry
  /\ viewNullifiers' = [viewNullifiers EXCEPT ![n] = Clean(TipSpent(n))]
  /\ tipNullifiers' = [tipNullifiers EXCEPT ![n] =
                         IF @ = NoEntry THEN Clean(TipSpent(n)) ELSE @]
  /\ UNCHANGED <<phase, viewCoins, viewAnchors, viewAnchor, viewBlock, viewUsage,
                 tipCoins, tipAnchors, tipAnchor, tipBlock, tipUsage, dbVars>>

SetNullifier(n, spent) ==
  /\ phase = "open"
  /\ viewNullifiers' = [viewNullifiers EXCEPT ![n] = Marked(spent)]
  /\ UNCHANGED <<phase, viewCoins, viewAnchors, viewAnchor, viewBlock, viewUsage,
                 tipVars, dbVars>>

(***************************************************************************)
(* Anchors.  GetAnchorAt caches a root only where it is known.             *)
(***************************************************************************)
TipAnchorsRead(a) ==
  IF tipAnchors[a] # NoEntry \/ ~DbKnows(a)
    THEN tipAnchors ELSE [tipAnchors EXCEPT ![a] = Clean(TRUE)]

ViewAnchorsRead(a) ==
  IF viewAnchors[a] # NoEntry \/ ~TipKnows(a)
    THEN viewAnchors ELSE [viewAnchors EXCEPT ![a] = Clean(TRUE)]

TipAnchorsAfter(a) == IF viewAnchors[a] = NoEntry THEN TipAnchorsRead(a) ELSE tipAnchors

\* Every cached tree counts; a tree is as large as its root says: one unit each.
Trees(cache) == Cardinality({a \in DOMAIN cache : cache[a] # NoEntry})

\* ConnectBlock and HaveJoinSplitRequirements look up the anchors of a block.
GetAnchorAt(a) ==
  /\ phase = "open"
  /\ viewAnchors' = ViewAnchorsRead(a)
  /\ tipAnchors' = TipAnchorsAfter(a)
  /\ viewUsage' = viewUsage + Trees(viewAnchors') - Trees(viewAnchors)
  /\ tipUsage' = tipUsage + Trees(tipAnchors') - Trees(tipAnchors)
  /\ UNCHANGED <<phase, viewCoins, viewNullifiers, viewAnchor, viewBlock,
                 tipCoins, tipNullifiers, tipAnchor, tipBlock, dbVars>>

\* GetBestAnchor: both caches read the hash once and keep it.
ReadRoots == tipAnchor' = IF viewAnchor = Null THEN TipRoot ELSE tipAnchor

(***************************************************************************)
(* The end of ConnectBlock: the current anchor is read (its tree must be   *)
(* there), PushAnchor enters the root the block leaves behind unless the   *)
(* block added no commitment, SetBestBlock.  A tree only grows, so the new *)
(* root is neither the empty one nor one of an ancestor.                   *)
(***************************************************************************)
PushAnchor(cache, rt) ==
  IF rt = ViewRoot THEN cache ELSE [cache EXCEPT ![rt] = Marked(TRUE)]

Connected(rt, b) ==
  /\ phase = "open"
  /\ rt = ViewRoot \/ ~ViewKnows(rt)
  /\ phase' = "done"
  /\ viewAnchors' = PushAnchor(ViewAnchorsRead(ViewRoot), rt)
  /\ tipAnchors' = TipAnchorsAfter(ViewRoot)
  /\ viewAnchor' = rt
  /\ ReadRoots
  /\ viewBlock' = b
  /\ viewUsage' = viewUsage + Trees(viewAnchors') - Trees(viewAnchors)
  /\ tipUsage' = tipUsage + Trees(tipAnchors') - Trees(tipAnchors)
  /\ UNCHANGED <<viewCoins, viewNullifiers, tipCoins, tipNullifiers, tipBlock, dbVars>>

(***************************************************************************)
(* The end of DisconnectBlock: PopAnchor back to the root of the parent    *)
(* (from the undo data), which drops the current root unless the block had *)
(* not changed it, SetBestBlock.  Any other known root is allowed, which   *)
(* is more than the undo data of a block can hold.                         *)
(***************************************************************************)
PopAnchor(rt) ==
  IF rt = ViewRoot THEN viewAnchors
  ELSE [ViewAnchorsRead(ViewRoot) EXCEPT ![ViewRoot] = Marked(FALSE)]

Disconnected(rt, b) ==
  /\ phase = "open"
  /\ ViewKnows(rt)
  /\ rt = ViewRoot \/ ViewRoot # EmptyRoot
  /\ phase' = "done"
  /\ viewAnchors' = PopAnchor(rt)
  /\ tipAnchors' = IF rt = ViewRoot THEN tipAnchors ELSE TipAnchorsAfter(ViewRoot)
  /\ viewAnchor' = rt
  /\ ReadRoots
  /\ viewBlock' = b
  /\ viewUsage' = viewUsage + Trees(viewAnchors') - Trees(viewAnchors)
  /\ tipUsage' = tipUsage + Trees(tipAnchors') - Trees(tipAnchors)
  /\ UNCHANGED <<viewCoins, viewNullifiers, tipCoins, tipNullifiers, tipBlock, dbVars>>

-----------------------------------------------------------------------------
(***************************************************************************)
(* ConnectTip and DisconnectTip open a view on pcoinsTip; ConnectBlock and *)
(* DisconnectBlock begin by comparing its best block with the block's.     *)
(***************************************************************************)
OpenView ==
  /\ phase = "none"
  /\ phase' = "open"
  /\ tipBlock' = TipBest
  /\ viewBlock' = TipBest
  /\ UNCHANGED <<viewCoins, viewNullifiers, viewAnchors, viewAnchor, viewUsage,
                 tipCoins, tipNullifiers, tipAnchors, tipAnchor, tipUsage, dbVars>>

ViewGone ==
  /\ phase' = "none"
  /\ viewCoins' = NoCoins /\ viewNullifiers' = NoMarks(Nullifier)
  /\ viewAnchors' = NoMarks(Anchor)
  /\ viewAnchor' = Null /\ viewBlock' = Null /\ viewUsage' = 0

\* The block failed, or was only tested (TestBlockValidity, VerifyDB).
DiscardView == phase # "none" /\ ViewGone /\ UNCHANGED <<tipVars, dbVars>>

(***************************************************************************)
(* CCoinsViewCache::BatchWrite, entry by entry: child is the flushed entry *)
(* of the view, parent that of pcoinsTip.                                  *)
(***************************************************************************)
\* A slip: a pruned child drops the entry of pcoinsTip, FRESH or not.
BatchWriteCoinsDropping(child, parent) ==
  IF child = NoEntry \/ ~child.dirty THEN parent
  ELSE IF Pruned(child.coins) THEN NoEntry
  ELSE [coins |-> child.coins, fresh |-> parent = NoEntry \/ parent.fresh, dirty |-> TRUE]

BatchWriteCoins(child, parent) ==
  IF child = NoEntry \/ ~child.dirty THEN parent
  ELSE IF parent = NoEntry
         THEN IF Pruned(child.coins) THEN NoEntry
              ELSE [coins |-> child.coins, fresh |-> TRUE, dirty |-> TRUE]
  ELSE IF parent.fresh /\ Pruned(child.coins) THEN NoEntry
  ELSE [coins |-> child.coins, fresh |-> parent.fresh, dirty |-> TRUE]

\* BatchWriteNullifiers and BatchWriteAnchors.
BatchWriteMarks(child, parent) ==
  IF child = NoEntry \/ ~child.dirty THEN parent
  ELSE IF parent = NoEntry \/ parent.entered # child.entered THEN Marked(child.entered)
  ELSE parent

FlushView ==
  /\ phase = "done"
  /\ ViewGone
  /\ tipCoins' = [t \in Txid |-> BatchWriteCoins(viewCoins[t], tipCoins[t])]
  /\ tipNullifiers' = [n \in Nullifier |->
                         BatchWriteMarks(viewNullifiers[n], tipNullifiers[n])]
  /\ tipAnchors' = [a \in Anchor |-> BatchWriteMarks(viewAnchors[a], tipAnchors[a])]
  /\ tipAnchor' = viewAnchor
  /\ tipBlock' = viewBlock
  /\ tipUsage' = tipUsage
       + MapThenSumSet(LAMBDA t : Size(tipCoins'[t]) - Size(tipCoins[t]), Txid)
       + Trees(tipAnchors') - Trees(tipAnchors)
  /\ UNCHANGED dbVars

(***************************************************************************)
(* pcoinsTip->Flush and CCoinsViewDB::BatchWrite: one atomic batch.  It    *)
(* runs in FlushStateToDisk, where no view is open.  A pruned CCoins and   *)
(* an unspent nullifier erase their record; the hashes are written when    *)
(* they were read or set, and pcoinsTip keeps them.                        *)
(***************************************************************************)
Written(S, cache) ==
  (S \cup {k \in DOMAIN cache : cache[k] # NoEntry /\ cache[k].dirty /\ cache[k].entered})
     \ {k \in DOMAIN cache : cache[k] # NoEntry /\ cache[k].dirty /\ ~cache[k].entered}

FlushTip ==
  /\ phase = "none"
  /\ dbCoins' = [t \in Txid |-> IF tipCoins[t] # NoEntry /\ tipCoins[t].dirty
                                  THEN tipCoins[t].coins ELSE dbCoins[t]]
  /\ dbNullifiers' = Written(dbNullifiers, tipNullifiers)
  /\ dbAnchors' = Written(dbAnchors, tipAnchors) \ {EmptyRoot}
  /\ dbAnchor' = TipRoot
  /\ dbBlock' = TipBest
  /\ tipCoins' = NoCoins /\ tipNullifiers' = NoMarks(Nullifier)
  /\ tipAnchors' = NoMarks(Anchor) /\ tipUsage' = 0
  /\ UNCHANGED <<phase, viewVars, tipAnchor, tipBlock>>

\* The process ends; what was not flushed is gone.
Crash ==
  /\ ViewGone
  /\ tipCoins' = NoCoins /\ tipNullifiers' = NoMarks(Nullifier)
  /\ tipAnchors' = NoMarks(Anchor)
  /\ tipAnchor' = Null /\ tipBlock' = Null /\ tipUsage' = 0
  /\ UNCHANGED dbVars

Next ==
  \/ \E t \in Txid : \/ TipGetCoins(t)
                     \/ GetCoins(t)
                     \/ \E v \in SUBSET Out : ModifyCoins(t, v)
  \/ \E n \in Nullifier : \/ GetNullifier(n)
                          \/ \E spent \in BOOLEAN : SetNullifier(n, spent)
  \/ \E a \in Anchor : GetAnchorAt(a)
  \/ \E rt \in Anchor, b \in Block : Connected(rt, b) \/ Disconnected(rt, b)
  \/ OpenView
  \/ DiscardView
  \/ FlushView
  \/ FlushTip
  \/ Crash

Spec == Init /\ [][Next]_vars

-----------------------------------------------------------------------------
TypeOK ==
  /\ phase \in Phases
  /\ viewCoins \in [Txid -> CCoinsCacheEntry \cup {NoEntry}]
  /\ tipCoins \in [Txid -> CCoinsCacheEntry \cup {NoEntry}]
  /\ viewNullifiers \in [Nullifier -> CMarkCacheEntry \cup {NoEntry}]
  /\ tipNullifiers \in [Nullifier -> CMarkCacheEntry \cup {NoEntry}]
  /\ viewAnchors \in [Anchor -> CMarkCacheEntry \cup {NoEntry}]
  /\ tipAnchors \in [Anchor -> CMarkCacheEntry \cup {NoEntry}]
  /\ viewAnchor \in Anchor \cup {Null} /\ tipAnchor \in Anchor \cup {Null}
  /\ viewBlock \in Block \cup {Null} /\ tipBlock \in Block \cup {Null}
  /\ dbCoins \in [Txid -> SUBSET Out]
  /\ dbNullifiers \in SUBSET Nullifier /\ dbAnchors \in SUBSET Anchor
  /\ dbAnchor \in Anchor /\ dbBlock \in Block

(***************************************************************************)
(* An entry marked FRESH hides nothing: the map below it has no unspent    *)
(* output of that transaction (and the entry is not one that only read a   *)
(* pruned record of the database, which has none).  Dropping it on a later *)
(* pruning (~CCoinsModifier, BatchWrite) loses nothing.                    *)
(***************************************************************************)
FreshHidesNothing ==
  \A t \in Txid :
    /\ tipCoins[t] # NoEntry /\ tipCoins[t].fresh => Pruned(dbCoins[t])
    /\ viewCoins[t] # NoEntry /\ viewCoins[t].fresh => Pruned(TipCoins(t))

(***************************************************************************)
(* The assertion of BatchWrite: a modified, unspent entry whose            *)
(* transaction pcoinsTip has no entry for is FRESH (coins.cpp:508).        *)
(***************************************************************************)
FreshAssertion ==
  \A t \in Txid :
    /\ viewCoins[t] # NoEntry /\ viewCoins[t].dirty /\ ~Pruned(viewCoins[t].coins)
    /\ tipCoins[t] = NoEntry
    => viewCoins[t].fresh

(***************************************************************************)
(* The tree of the current anchor can be read at every level: the          *)
(* assertions of ConnectBlock, ConnectTip, DisconnectTip and               *)
(* BringBestAnchorIntoCache (main.cpp:3570, 4148, 4264, coins.cpp:268).    *)
(***************************************************************************)
CurrentAnchorKnown == DbKnows(dbAnchor) /\ TipKnows(TipRoot) /\ ViewKnows(ViewRoot)

(***************************************************************************)
(* cachedCoinsUsage is the sum over the cached entries, however they came  *)
(* and went: the SelfTest of coins_tests.cpp, here with the anchors.       *)
(***************************************************************************)
Usage(coins, anchors) == MapThenSumSet(LAMBDA t : Size(coins[t]), Txid) + Trees(anchors)

UsageExact == /\ viewUsage = Usage(viewCoins, viewAnchors)
              /\ tipUsage = Usage(tipCoins, tipAnchors)

(***************************************************************************)
(* The inductive invariant.  For one key, v, p and d are the entry of the  *)
(* view, the entry of pcoinsTip and the record: an entry that was not      *)
(* modified agrees with the map below, and an entry of the view that is    *)
(* not FRESH was read through pcoinsTip, which still holds its own.        *)
(***************************************************************************)
CoinsAgree(v, p, d) ==
  LET below == IF p = NoEntry THEN d ELSE p.coins
  IN  /\ p # NoEntry => (p.fresh => Pruned(d)) /\ (p.dirty \/ p.coins = d)
      /\ v # NoEntry => /\ v.fresh => Pruned(below)
                        /\ v.fresh \/ p # NoEntry
                        /\ v.dirty \/ v.coins = below

MarksAgree(v, p, known) ==
  /\ p # NoEntry => p.dirty \/ p.entered = known
  /\ v # NoEntry => v.dirty \/ v.entered = (IF p = NoEntry THEN known ELSE p.entered)

CoinsPart == \A t \in Txid : CoinsAgree(viewCoins[t], tipCoins[t], dbCoins[t])

NullifiersPart == \A n \in Nullifier :
  MarksAgree(viewNullifiers[n], tipNullifiers[n], n \in dbNullifiers)

AnchorsPart ==
  /\ \A a \in Anchor : MarksAgree(viewAnchors[a], tipAnchors[a], DbKnows(a))
  /\ tipAnchors[EmptyRoot] # NoEntry => tipAnchors[EmptyRoot].entered
  /\ viewAnchors[EmptyRoot] # NoEntry => viewAnchors[EmptyRoot].entered
  /\ CurrentAnchorKnown

PhasePart ==
  /\ phase = "none" => /\ viewCoins = NoCoins /\ viewNullifiers = NoMarks(Nullifier)
                       /\ viewAnchors = NoMarks(Anchor)
                       /\ viewAnchor = Null /\ viewBlock = Null
  /\ phase = "done" => viewAnchor # Null /\ viewBlock # Null

CoinsInv == TypeOK /\ CoinsPart /\ NullifiersPart /\ AnchorsPart /\ PhasePart

(***************************************************************************)
(* The stack of caches is the plain specification of CoinsView: what a     *)
(* read returns at each level.                                             *)
(***************************************************************************)
ViewState == [coins |-> [t \in Txid |-> ViewCoins(t)],
              nullifiers |-> {n \in Nullifier : ViewSpent(n)},
              anchors |-> {a \in Anchor : ViewKnows(a)},
              root |-> ViewRoot, block |-> ViewBest]
TipState  == [coins |-> [t \in Txid |-> TipCoins(t)],
              nullifiers |-> {n \in Nullifier : TipSpent(n)},
              anchors |-> {a \in Anchor : TipKnows(a)},
              root |-> TipRoot, block |-> TipBest]
DbState   == [coins |-> dbCoins, nullifiers |-> dbNullifiers,
              anchors |-> {a \in Anchor : DbKnows(a)},
              root |-> dbAnchor, block |-> dbBlock]

Plain == INSTANCE CoinsView WITH view <- ViewState, tip <- TipState, db <- DbState

(***************************************************************************)
(* Whatever the caches do, the three levels as their callers read them     *)
(* change as plain maps would: one write to the view at a time, and a      *)
(* flush moves a complete state down (coins.cpp:490-555).                  *)
(***************************************************************************)
ImplementsCoinsView == Plain!Spec
=============================================================================
