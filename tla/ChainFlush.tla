----------------------------- MODULE ChainFlush -----------------------------
(***************************************************************************)
(* What the node keeps on disk and in which order it writes it: the blk    *)
(* and rev files, the block index database, the coins database; pruning,   *)
(* FlushStateToDisk, and what a restart finds after the process or the     *)
(* machine stopped between two of the writes (main.cpp).                   *)
(*                                                                         *)
(* Everything here runs under cs_main, so only a stop of the process, a    *)
(* power loss or a failed write can come between two stages of a flush.    *)
(* A stop of the process loses memory and keeps every completed write; a   *)
(* power loss also takes any part of what was not fsynced.  The index      *)
(* batch is written with fSync (WriteBatchSync), the coins batch is not:   *)
(* after a power loss the coins database may be in an earlier state.       *)
(*                                                                         *)
(* A block takes one unit of its blk file and its undo record one unit of  *)
(* the rev file.  pcoinsTip is the plain state that CoinsCache shows the   *)
(* caches to implement: the best block and the set of unspent coins.       *)
(***************************************************************************)
EXTENDS BlockTree, FiniteSetsExt

CONSTANTS
    Coin,                \* the transaction outputs
    Spends, Creates,     \* what each block spends and (net) creates
    MAX_BLOCKFILE_SIZE, BLOCKFILE_CHUNK_SIZE, UNDOFILE_CHUNK_SIZE,
    MIN_BLOCKS_TO_KEEP, PruneAfterHeight,
    MaxStops,            \* bound: how often the process or the machine stops
    MaxFile,             \* bound: the number of the last block file
    Faults,              \* which writes may fail
    MaxFaults            \* bound: how many of them fail in one behaviour

NoPos == << >>
File == 0 .. MaxFile
Pos == File \X (0 .. MAX_BLOCKFILE_SIZE)

\* The state of the coins that connecting Path[b] leads to.
UTXO(b) == (UNION {Creates[a] : a \in Path[b]}) \ (UNION {Spends[a] : a \in Path[b]})

ASSUME ConstantsAssumption ==
    /\ Spends \in [Block -> SUBSET Coin] /\ Creates \in [Block -> SUBSET Coin]
    /\ {MAX_BLOCKFILE_SIZE, BLOCKFILE_CHUNK_SIZE, UNDOFILE_CHUNK_SIZE} \subseteq Nat \ {0}
    /\ {MIN_BLOCKS_TO_KEEP, PruneAfterHeight, MaxStops, MaxFile, MaxFaults} \subseteq Nat

\* The blocks are valid: each spends coins that are there and creates new ones.
ASSUME ValidBlocks ==
    /\ Spends[Genesis] = {}
    /\ \A b \in Block \ {Genesis} :
          /\ Spends[b] \subseteq UTXO(Parent[b])
          /\ \A a \in Path[Parent[b]] : Creates[b] \cap Creates[a] = {}

\* FindFilesToPrune computes nHeight - MIN_BLOCKS_TO_KEEP unsigned.
ASSUME PruneLate == PruneAfterHeight >= MIN_BLOCKS_TO_KEEP

VARIABLES
    \* In memory
    index,         \* mapBlockIndex: positions of the block and of its undo data
    dirtyIndex,    \* setDirtyBlockIndex
    info,          \* vinfoBlockFile
    dirtyFiles,    \* setDirtyFileInfo
    last,          \* nLastBlockFile
    tip,           \* chainActive.Tip()
    coins,         \* pcoinsTip
    checkPrune,    \* fCheckForPruning
    call,          \* the FlushStateToDisk in progress
    \* On disk
    blk, rev,      \* the records of the block and undo files
    unsynced,      \* the records not yet committed by FlushBlockFile
    diskIndex, diskInfo, diskLast,    \* the block index database
    db,            \* the coins database
    dbSynced,      \* the state of it that a power loss brings back
    \* History
    running,       \* the process is up
    stops,         \* how often it has stopped
    failures,      \* the writes that have failed
    powerLost,     \* the machine has lost power
    pruned         \* the blocks of the files that were pruned

memory == <<index, dirtyIndex, info, dirtyFiles, last, tip, coins, checkPrune, call>>
files == <<blk, rev, unsynced>>
indexDb == <<diskIndex, diskInfo, diskLast>>
coinsDb == <<db, dbSynced>>
history == <<running, stops, failures, powerLost, pruned>>
vars == <<memory, files, indexDb, coinsDb, history>>

NoEntry == [known |-> FALSE, data |-> NoPos, undo |-> NoPos]
EmptyFile == [nSize |-> 0, nUndoSize |-> 0, nHeightLast |-> 0]

\* No flush in progress; otherwise the stage it is at, its mode, the files it has
\* to unlink, whether it writes the coins too, and the block UpdateTip gets after it.
Idle == [stage |-> "idle", mode |-> "none", prune |-> {}, full |-> FALSE, then |-> NoBlock]
Flushing(mode, then) == [Idle EXCEPT !.stage = "begin", !.mode = mode, !.then = then]

\* The genesis block is in blk file 0; it has no undo data.
Init ==
    /\ index = [b \in Block |-> IF b = Genesis
                                THEN [known |-> TRUE, data |-> <<0, 0>>, undo |-> NoPos]
                                ELSE NoEntry]
    /\ dirtyIndex = {} /\ dirtyFiles = {}
    /\ info = [f \in File |-> IF f = 0 THEN [EmptyFile EXCEPT !.nSize = 1] ELSE EmptyFile]
    /\ last = 0 /\ tip = Genesis /\ checkPrune = FALSE /\ call = Idle
    /\ coins = [best |-> Genesis, set |-> Creates[Genesis]]
    /\ blk = [p \in Pos |-> IF p = <<0, 0>> THEN Genesis ELSE NoBlock]
    /\ rev = [p \in Pos |-> NoBlock]
    /\ unsynced = {}
    /\ diskIndex = index /\ diskInfo = info /\ diskLast = last
    /\ db = coins /\ dbSynced = coins
    /\ running = TRUE /\ stops = 0 /\ failures = {} /\ powerLost = FALSE /\ pruned = {}

Ready == running /\ call = Idle

CanFail(write) ==
    /\ write \in Faults \ failures
    /\ Cardinality(failures) < MaxFaults
    /\ failures' = failures \cup {write}

OnlyFails(write) == CanFail(write) /\ UNCHANGED <<running, stops, powerLost, pruned>>
NoFailure == UNCHANGED history

\* FlushBlockFile: commit the last block file and its undo file.
FlushBlockFile(un) == {u \in un : u[2] # last}

-----------------------------------------------------------------------------
(***************************************************************************)
(* Blocks arrive and are connected and disconnected.                       *)
(***************************************************************************)

\* FindBlockPos moves on from the last file when the block does not fit.
Fits(f) == f >= last /\ info[f].nSize + 1 < MAX_BLOCKFILE_SIZE
BlockFile == Min({f \in File : Fits(f)})
\* Slip: the file that is left is not committed.
LeaveUncommitted == unsynced

LeaveFile == IF BlockFile # last THEN FlushBlockFile(unsynced) ELSE unsynced

\* Room for one more unit after n of them needs a new chunk of the file.
NewChunk(n, size) == (n + size) \div size > (n + size - 1) \div size

\* FindBlockPos: reserve room for b.
FindBlockPos(b) ==
    /\ \E f \in File : Fits(f)
    /\ last' = BlockFile
    /\ info' = [info EXCEPT ![BlockFile].nSize = @ + 1,
                            ![BlockFile].nHeightLast = Max({@, Height[b]})]
    /\ checkPrune' = (checkPrune \/ NewChunk(info[BlockFile].nSize, BLOCKFILE_CHUNK_SIZE))

\* AcceptBlock for a header whose parent is known and whose data is missing.  A
\* failed WriteBlockToDisk calls AbortNode and goes on: the entry gets its
\* position although the record is not there.
AcceptBlock(b, written) ==
    /\ Ready
    /\ b # Genesis /\ index[Parent[b]].known /\ index[b].data = NoPos
    /\ FindBlockPos(b)
    /\ LET pos == <<BlockFile, info[BlockFile].nSize>> IN
       /\ IF written
          THEN /\ blk' = [blk EXCEPT ![pos] = b]
               /\ unsynced' = LeaveFile \cup {<<"blk", pos[1], pos[2]>>}
               /\ NoFailure
          ELSE /\ unsynced' = LeaveFile
               /\ OnlyFails("block")
               /\ UNCHANGED blk
       /\ index' = [index EXCEPT ![b].known = TRUE, ![b].data = pos]
    /\ dirtyIndex' = dirtyIndex \cup {b}
    /\ dirtyFiles' = dirtyFiles \cup {BlockFile}
    /\ call' = IF checkPrune' THEN Flushing("none", NoBlock) ELSE Idle
    /\ UNCHANGED <<tip, coins, rev, indexDb, coinsDb>>

\* FindBlockPos finds no disk space for the new chunk after it has counted the
\* block: the header is known, the file information is not marked dirty.
AcceptBlockNoSpace(b) ==
    /\ Ready
    /\ b # Genesis /\ index[Parent[b]].known /\ index[b].data = NoPos
    /\ FindBlockPos(b) /\ NewChunk(info[BlockFile].nSize, BLOCKFILE_CHUNK_SIZE)
    /\ OnlyFails("space")
    /\ unsynced' = LeaveFile
    /\ index' = [index EXCEPT ![b].known = TRUE]
    /\ dirtyIndex' = dirtyIndex \cup {b}
    /\ UNCHANGED <<dirtyFiles, tip, coins, call, blk, rev, indexDb, coinsDb>>

\* ReadBlockFromDisk returns the block with the hash of the entry, or fails.
ReadBlockFromDisk(b) == index[b].data # NoPos /\ blk[index[b].data] = b

\* UndoReadFromDisk: the checksum covers the hash of the parent block.
UndoReadFromDisk(b) ==
    /\ index[b].undo # NoPos
    /\ rev[index[b].undo] # NoBlock
    /\ Parent[rev[index[b].undo]] = Parent[b]

\* FindUndoPos: the undo record goes to the rev file of the block's own file.
UndoPos(b) == LET f == index[b].data[1] IN <<f, info[f].nUndoSize>>
\* Slip: nUndoSize is not advanced.
FindUndoPosStill(b) ==
    /\ UndoPos(b) \in Pos
    /\ UNCHANGED info
    /\ dirtyFiles' = dirtyFiles \cup {index[b].data[1]}
    /\ checkPrune' = (checkPrune \/ NewChunk(UndoPos(b)[2], UNDOFILE_CHUNK_SIZE))

FindUndoPos(b) ==
    /\ UndoPos(b) \in Pos
    /\ info' = [info EXCEPT ![index[b].data[1]].nUndoSize = @ + 1]
    /\ dirtyFiles' = dirtyFiles \cup {index[b].data[1]}
    /\ checkPrune' = (checkPrune \/ NewChunk(UndoPos(b)[2], UNDOFILE_CHUNK_SIZE))

\* Slip: the entry is not marked dirty.
WriteUndoClean(b) ==
    /\ IF index[b].undo = NoPos
       THEN /\ FindUndoPos(b)
            /\ rev' = [rev EXCEPT ![UndoPos(b)] = b]
            /\ unsynced' = unsynced \cup {<<"rev", UndoPos(b)[1], UndoPos(b)[2]>>}
            /\ index' = [index EXCEPT ![b].undo = UndoPos(b)]
       ELSE UNCHANGED <<info, dirtyFiles, checkPrune, rev, unsynced, index>>
    /\ UNCHANGED dirtyIndex

\* The end of ConnectBlock: a block connected before keeps its undo record.
WriteUndo(b) ==
    IF index[b].undo = NoPos
    THEN /\ FindUndoPos(b)
         /\ rev' = [rev EXCEPT ![UndoPos(b)] = b]
         /\ unsynced' = unsynced \cup {<<"rev", UndoPos(b)[1], UndoPos(b)[2]>>}
         /\ index' = [index EXCEPT ![b].undo = UndoPos(b)]
         /\ dirtyIndex' = dirtyIndex \cup {b}
    ELSE UNCHANGED <<info, dirtyFiles, checkPrune, rev, unsynced, index, dirtyIndex>>

\* ConnectTip up to its FlushStateToDisk(FLUSH_STATE_IF_NEEDED).
ConnectTip(b) ==
    /\ Ready
    /\ b # Genesis /\ Parent[b] = tip
    /\ coins.best = tip       \* asserted by ConnectBlock
    /\ ReadBlockFromDisk(b)
    /\ WriteUndo(b)
    /\ coins' = [best |-> b, set |-> (coins.set \ Spends[b]) \cup Creates[b]]
    /\ call' = Flushing("needed", b)
    /\ NoFailure
    /\ UNCHANGED <<last, tip, blk, indexDb, coinsDb>>

\* ConnectBlock fails on UndoWriteToDisk, after FindUndoPos: the view is dropped.
ConnectTipNoUndo(b) ==
    /\ Ready
    /\ b # Genesis /\ Parent[b] = tip /\ coins.best = tip
    /\ ReadBlockFromDisk(b)
    /\ index[b].undo = NoPos
    /\ FindUndoPos(b)
    /\ OnlyFails("undo")
    /\ UNCHANGED <<index, dirtyIndex, last, tip, coins, call, files, indexDb, coinsDb>>

\* DisconnectTip up to its FlushStateToDisk; DisconnectBlock applies the undo record.
DisconnectTip ==
    /\ Ready
    /\ tip # Genesis
    /\ coins.best = tip       \* asserted by DisconnectBlock
    /\ ReadBlockFromDisk(tip) /\ UndoReadFromDisk(tip)
    /\ coins' = [best |-> Parent[tip],
                 set |-> (coins.set \ Creates[tip]) \cup Spends[rev[index[tip].undo]]]
    /\ call' = Flushing("needed", Parent[tip])
    /\ NoFailure
    /\ UNCHANGED <<index, dirtyIndex, info, dirtyFiles, last, tip, checkPrune, files, indexDb, coinsDb>>
-----------------------------------------------------------------------------
(***************************************************************************)
(* FlushStateToDisk.                                                       *)
(***************************************************************************)

\* The calls that belong to no block: periodically and at the end of
\* ActivateBestChain, always at shutdown, and from PruneAndFlush.
FlushStateToDisk(mode) ==
    /\ Ready
    /\ mode \in {"periodic", "always", "none"}
    /\ call' = Flushing(mode, NoBlock)
    /\ checkPrune' = (checkPrune \/ mode = "none")
    /\ NoFailure
    /\ UNCHANGED <<index, dirtyIndex, info, dirtyFiles, last, tip, coins, files, indexDb, coinsDb>>

\* FindFilesToPrune: the files it may choose, and how many it takes, in order,
\* until the usage is below the target.
Prunable ==
    {f \in File : /\ f < last
                  /\ info[f].nSize # 0
                  /\ Height[tip] > PruneAfterHeight
                  /\ info[f].nHeightLast <= Height[tip] - MIN_BLOCKS_TO_KEEP}
FindFilesToPrune ==
    {fs \in SUBSET Prunable : \A f \in fs, g \in Prunable : g < f => g \in fs}

\* PruneOneBlockFile, for each of the files: an entry without data has nFile 0.
InFile(b, fs) == index[b].known /\ (IF index[b].data = NoPos THEN 0 ELSE index[b].data[1]) \in fs
\* Slip: the entries of a pruned file are not put in setDirtyBlockIndex.
PruneUnmarked(fs) ==
    LET gone == {b \in Block : InFile(b, fs)} IN
    /\ index' = [b \in Block |-> IF b \in gone
                                  THEN [known |-> TRUE, data |-> NoPos, undo |-> NoPos]
                                  ELSE index[b]]
    /\ info' = [f \in File |-> IF f \in fs THEN EmptyFile ELSE info[f]]
    /\ dirtyFiles' = dirtyFiles \cup fs
    /\ pruned' = pruned \cup gone
    /\ UNCHANGED dirtyIndex

PruneOneBlockFile(fs) ==
    LET gone == {b \in Block : InFile(b, fs)} IN
    /\ index' = [b \in Block |-> IF b \in gone
                                  THEN [known |-> TRUE, data |-> NoPos, undo |-> NoPos]
                                  ELSE index[b]]
    /\ dirtyIndex' = dirtyIndex \cup gone
    /\ info' = [f \in File |-> IF f \in fs THEN EmptyFile ELSE info[f]]
    /\ dirtyFiles' = dirtyFiles \cup fs
    /\ pruned' = pruned \cup gone

\* What the mode, the cache sizes and the clocks make the call write: nothing,
\* the block index, or the block index and the coins.
Writes(mode, fs) ==
    IF fs # {} THEN {"coins"}
    ELSE CASE mode = "none" -> {"nothing"}
           [] mode = "needed" -> {"nothing", "coins"}
           [] mode = "periodic" -> {"nothing", "index", "coins"}
           [] mode = "always" -> {"coins"}

\* Slip: the coins are written first.
CoinsFirst(stage) ==
    CASE stage = "begin" -> "coins"
      [] stage = "coins" -> "index"
      [] stage = "index" /\ call.prune # {} -> "unlink"
      [] OTHER -> "idle"

\* The stages a call goes through; the last one returns, and ConnectTip and
\* DisconnectTip go on to UpdateTip.
NextStage(stage) ==
    CASE stage = "begin" -> "index"
      [] stage = "index" /\ call.prune # {} -> "unlink"
      [] stage = "index" /\ call.prune = {} /\ call.full -> "coins"
      [] stage = "unlink" /\ call.full -> "coins"
      [] OTHER -> "idle"
Proceed(stage) ==
    IF NextStage(stage) = "idle"
    THEN /\ call' = Idle
         /\ tip' = IF call.then = NoBlock THEN tip ELSE call.then
    ELSE /\ call' = [call EXCEPT !.stage = NextStage(stage)]
         /\ UNCHANGED tip

\* The call fails: ConnectTip and DisconnectTip return before UpdateTip.
GiveUp(write) == call' = Idle /\ OnlyFails(write) /\ UNCHANGED tip

\* Up to FlushBlockFile, which commits the last block file and undo file.
FlushBegin ==
    /\ running /\ call.stage = "begin"
    /\ \E fs \in IF checkPrune THEN FindFilesToPrune ELSE {{}} : \E w \in Writes(call.mode, fs) :
          /\ PruneOneBlockFile(fs)
          /\ IF w = "nothing"
             THEN /\ call' = Idle
                  /\ tip' = IF call.then = NoBlock THEN tip ELSE call.then
                  /\ UNCHANGED <<unsynced, failures>>
             ELSE \/ /\ call' = [stage |-> NextStage("begin"), mode |-> "none", prune |-> fs,
                                 full |-> (w = "coins"), then |-> call.then]
                     /\ unsynced' = FlushBlockFile(unsynced)
                     /\ UNCHANGED <<tip, failures>>
                  \/ /\ call' = Idle        \* CheckDiskSpace
                     /\ CanFail("space")
                     /\ UNCHANGED <<tip, unsynced>>
    /\ checkPrune' = FALSE
    /\ UNCHANGED <<last, coins, blk, rev, indexDb, coinsDb, running, stops, powerLost>>

\* WriteBatchSync writes the dirty entries, file informations and nLastBlockFile.
FlushIndex ==
    /\ running /\ call.stage = "index"
    /\ Proceed("index")
    /\ diskIndex' = [b \in Block |-> IF b \in dirtyIndex THEN index[b] ELSE diskIndex[b]]
    /\ diskInfo' = [f \in File |-> IF f \in dirtyFiles THEN info[f] ELSE diskInfo[f]]
    /\ diskLast' = last
    /\ dirtyIndex' = {} /\ dirtyFiles' = {}
    /\ NoFailure
    /\ UNCHANGED <<index, info, last, coins, checkPrune, files, coinsDb>>

\* A failed batch: the sets were emptied while it was put together.
FlushIndexFails ==
    /\ running /\ call.stage = "index"
    /\ GiveUp("index")
    /\ dirtyIndex' = {} /\ dirtyFiles' = {}
    /\ UNCHANGED <<index, info, last, coins, checkPrune, files, indexDb, coinsDb>>

\* UnlinkPrunedFiles, one file after the other.
FlushUnlink ==
    /\ running /\ call.stage = "unlink"
    /\ LET f == Min(call.prune) IN
       /\ IF call.prune = {f}
          THEN Proceed("unlink")
          ELSE call' = [call EXCEPT !.prune = @ \ {f}] /\ UNCHANGED tip
       /\ blk' = [p \in Pos |-> IF p[1] = f THEN NoBlock ELSE blk[p]]
       /\ rev' = [p \in Pos |-> IF p[1] = f THEN NoBlock ELSE rev[p]]
       /\ unsynced' = {u \in unsynced : u[2] # f}
    /\ NoFailure
    /\ UNCHANGED <<index, dirtyIndex, info, dirtyFiles, last, coins, checkPrune, indexDb, coinsDb>>

\* pcoinsTip->Flush(): one batch, not synced; the system may write it out or not.
FlushCoins ==
    /\ running /\ call.stage = "coins"
    /\ Proceed("coins")
    /\ db' = coins
    /\ dbSynced' \in {dbSynced, coins}
    /\ NoFailure
    /\ UNCHANGED <<index, dirtyIndex, info, dirtyFiles, last, coins, checkPrune, files, indexDb>>

\* A failed batch throws after the cache entries were erased; the best block of
\* the cache stays, and what it does not hold it reads from the database.
FlushCoinsFails ==
    /\ running /\ call.stage = "coins"
    /\ GiveUp("coins")
    /\ coins' = [best |-> coins.best, set |-> db.set]
    /\ UNCHANGED <<index, dirtyIndex, info, dirtyFiles, last, checkPrune, files, indexDb, coinsDb>>

\* CheckDiskSpace refuses the coins write.
FlushCoinsNoSpace ==
    /\ running /\ call.stage = "coins"
    /\ GiveUp("space")
    /\ UNCHANGED <<index, dirtyIndex, info, dirtyFiles, last, coins, checkPrune, files, indexDb, coinsDb>>

-----------------------------------------------------------------------------
(***************************************************************************)
(* Stops and restarts.                                                     *)
(***************************************************************************)

\* LoadBlockIndexDB gives up when a file with block data cannot be opened, and
\* leaves the chain without a tip when the best block has no index entry.
Loadable(onDisk, best) ==
    /\ \A b \in Block : diskIndex[b].data # NoPos =>
          \E p \in Pos : p[1] = diskIndex[b].data[1] /\ onDisk[p] # NoBlock
    /\ diskIndex[best].known

\* The next start: opening the coins database makes its state durable.
LoadBlockIndexDB ==
    /\ index' = diskIndex /\ info' = diskInfo /\ last' = diskLast
    /\ dirtyIndex' = {} /\ dirtyFiles' = {}
    /\ coins' = db' /\ tip' = db'.best /\ dbSynced' = db'
    /\ checkPrune' = FALSE /\ call' = Idle
    /\ running' = Loadable(blk', db'.best)
    /\ stops < MaxStops /\ stops' = stops + 1
    /\ UNCHANGED <<indexDb, failures, pruned>>

\* The process stops at any point and is started again.
Crash ==
    /\ running
    /\ UNCHANGED <<files, db, powerLost>>
    /\ LoadBlockIndexDB

\* The machine stops: any of the records that were not committed are lost, and
\* the coins database is again in the last state the system had written out.
PowerLoss ==
    /\ running
    /\ \E lost \in SUBSET unsynced :
          /\ blk' = [p \in Pos |-> IF <<"blk", p[1], p[2]>> \in lost THEN NoBlock ELSE blk[p]]
          /\ rev' = [p \in Pos |-> IF <<"rev", p[1], p[2]>> \in lost THEN NoBlock ELSE rev[p]]
    /\ unsynced' = {}
    /\ db' = dbSynced
    /\ powerLost' = TRUE
    /\ LoadBlockIndexDB

Next ==
    \/ \E b \in Block, written \in BOOLEAN : AcceptBlock(b, written)
    \/ \E b \in Block : AcceptBlockNoSpace(b)
    \/ \E b \in Block : ConnectTip(b) \/ ConnectTipNoUndo(b)
    \/ DisconnectTip
    \/ \E mode \in {"periodic", "always", "none"} : FlushStateToDisk(mode)
    \/ FlushBegin
    \/ FlushIndex \/ FlushIndexFails
    \/ FlushUnlink
    \/ FlushCoins \/ FlushCoinsFails
    \/ FlushCoinsNoSpace
    \/ Crash
    \/ PowerLoss

Spec == Init /\ [][Next]_vars
-----------------------------------------------------------------------------
(***************************************************************************)
(* Properties.                                                             *)
(***************************************************************************)

Entry == [known : BOOLEAN, data : Pos \cup {NoPos}, undo : Pos \cup {NoPos}]
Info == [nSize : 0 .. MAX_BLOCKFILE_SIZE, nUndoSize : 0 .. MAX_BLOCKFILE_SIZE + 1, nHeightLast : Nat]
CoinsState == [best : Block, set : SUBSET Coin]

\* The types of the index, file and coins state in memory and on disk.
TypeOK ==
    /\ index \in [Block -> Entry] /\ diskIndex \in [Block -> Entry]
    /\ info \in [File -> Info] /\ diskInfo \in [File -> Info]
    /\ last \in File /\ diskLast \in File
    /\ dirtyIndex \subseteq Block /\ dirtyFiles \subseteq File
    /\ tip \in Block /\ coins \in CoinsState /\ db \in CoinsState /\ dbSynced \in CoinsState
    /\ blk \in [Pos -> Block \cup {NoBlock}] /\ rev \in [Pos -> Block \cup {NoBlock}]
    /\ failures \subseteq Faults

\* GetBestBlock is "the block hash whose state this CCoinsView currently represents"
\* (coins.h): in the coins database, at every point where the process may stop, the
\* coins are those that connecting the best block's chain leads to.  A failed coins
\* batch breaks this: the cache has lost its entries and not its best block.
DatabaseExact ==
    "coins" \notin failures => \A d \in {db, dbSynced} : d.set = UTXO(d.best)

\* However the node stops, it can start again: the coins database never names a best
\* block that the index database lacks, and no block file that the index refers to is
\* gone - unless an index batch or a block write failed.
RestartPossible ==
    failures \cap {"index", "block"} = {} =>
        running /\ \A d \in {db, dbSynced} : Loadable(blk, d.best)

\* A position in the index database is that of the block's own committed record:
\* FlushBlockFile comes before the index batch, files are unlinked only after it, and
\* no later block is written over the record - unless a block write failed.
DataBacked ==
    "block" \notin failures =>
        \A b \in Block : diskIndex[b].data # NoPos =>
            /\ blk[diskIndex[b].data] = b
            /\ <<"blk", diskIndex[b].data[1], diskIndex[b].data[2]>> \notin unsynced

\* Every block under the best block of the coins database, in any state of it that a
\* power loss may bring back, can be disconnected after a restart: the index database
\* has its undo record and the record is its own, or the block was pruned - unless an
\* index batch failed or the machine lost power before.
RollbackPossible ==
    ("index" \notin failures /\ ~powerLost) =>
        \A d \in {db, dbSynced} : \A b \in Path[d.best] \ {Genesis} :
            \/ b \in pruned
            \/ diskIndex[b].undo # NoPos /\ rev[diskIndex[b].undo] = b
-----------------------------------------------------------------------------
(***************************************************************************)
(* What makes them inductive.                                              *)
(***************************************************************************)
\* An entry with data is known, and its undo record is in the rev file of its
\* block file; both lie below the ends recorded in file informations inf.
EntryOK(e, inf) ==
    /\ e.data # NoPos => e.known /\ e.data[2] < inf[e.data[1]].nSize
    /\ e.undo # NoPos => /\ e.data # NoPos
                         /\ e.undo[1] = e.data[1]
                         /\ e.undo[2] < inf[e.undo[1]].nUndoSize

\* File f was pruned in memory: no position in it will be handed out again.
Gone(f) ==
    /\ f < last
    /\ info[f].nSize = 0
    /\ \A b \in Block : index[b].data # NoPos => index[b].data[1] # f

\* The entry of b on disk still refers to f, which is gone: the next batch
\* replaces it, or leaves f's information alone.
Left(b, f) == Gone(f) /\ (b \in dirtyIndex \/ f \notin dirtyFiles)

\* What the index and the files' informations say of each other.
LayoutOf(b) ==
    /\ EntryOK(index[b], info) /\ EntryOK(diskIndex[b], diskInfo)
    /\ (b \in dirtyIndex /\ index[b].data # NoPos) => index[b].data[1] \in dirtyFiles
    /\ diskIndex[b].data \notin {NoPos, index[b].data} => Left(b, diskIndex[b].data[1])
    /\ diskIndex[b].undo \notin {NoPos, index[b].undo} => Left(b, diskIndex[b].undo[1])

\* File f waits to be unlinked.
Pruning(f) ==
    /\ Gone(f)
    /\ call.stage = "index" => f \in dirtyFiles
    /\ call.stage = "unlink" =>
          \A b \in Block : diskIndex[b].data # NoPos => diskIndex[b].data[1] # f

Call == [stage : {"idle", "begin", "index", "unlink", "coins"},
         mode : {"none", "needed", "periodic", "always"},
         prune : SUBSET File, full : BOOLEAN, then : Block \cup {NoBlock}]

LayoutInv ==
    /\ call \in Call
    /\ call.stage = "unlink" => call.prune # {}
    /\ \A b \in Block : LayoutOf(b)
    /\ call.stage \in {"index", "unlink"} => \A f \in call.prune : Pruning(f)

\* What the files hold at the positions in memory and on disk: an undo record
\* is the block's own, or a power loss took it; a block's record is there.
UndoOf(b, p) == rev[p] = b \/ (powerLost /\ rev[p] = NoBlock)
Unsynced(p) == <<"blk", p[1], p[2]>> \in unsynced

RecordOf(b) ==
    /\ index[b].undo # NoPos => UndoOf(b, index[b].undo)
    /\ diskIndex[b].undo # NoPos => UndoOf(b, diskIndex[b].undo)
    /\ index[b].data # NoPos =>
          /\ "block" \notin failures => blk[index[b].data] = b
          /\ Unsynced(index[b].data) => (index[b].data[1] = last /\ call.stage # "index")
    /\ diskIndex[b].data # NoPos =>
          /\ "block" \notin failures => blk[diskIndex[b].data] = b
          /\ ~Unsynced(diskIndex[b].data)

RecordInv == \A b \in Block : RecordOf(b)

\* As long as no index batch fails, what is not dirty is on disk, with the
\* headers and the undo records of every chain the coins may be at.
Undoable(ix, best) == \A b \in Path[best] \ {Genesis} : ix[b].undo # NoPos \/ b \in pruned
HasBest(ix, best) == ix[best].known /\ Undoable(ix, best)
HasParents(ix) == \A b \in Block \ {Genesis} : ix[b].known => ix[Parent[b]].known

\* What the two indices say of b.
BatchOf(b) ==
    /\ b \notin dirtyIndex => diskIndex[b] = index[b]
    /\ diskIndex[b].known => index[b].known
    /\ diskIndex[b].undo # NoPos => (index[b].undo # NoPos \/ b \in pruned)

BatchInv ==
    "index" \notin failures =>
        /\ call.stage \in {"unlink", "coins"} => dirtyIndex = {}
        /\ HasParents(index) /\ HasParents(diskIndex)
        /\ HasBest(index, coins.best)
        /\ \A d \in {db, dbSynced} : HasBest(diskIndex, d.best)
        /\ \A b \in Block : BatchOf(b)

\* As long as no coins batch fails, the coins are those of their best block.
CoinsInv == "coins" \notin failures => \A d \in {coins, db, dbSynced} : d.set = UTXO(d.best)

\* As long as neither fails, the node is up.
RunningInv == failures \cap {"index", "block"} = {} => running

FlushInv == TypeOK /\ LayoutInv /\ RecordInv /\ BatchInv /\ CoinsInv /\ RunningInv
=============================================================================
