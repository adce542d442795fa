-------------------------- MODULE ChainFlushProofs --------------------------
(***************************************************************************)
(* Proofs about ChainFlush: for every tree of valid blocks, every size of  *)
(* the files, and every sequence of blocks, flushes, failed writes, stops  *)
(* and power losses.  FlushInv is inductive; its parts are proved to be    *)
(* kept one after the other.                                               *)
(***************************************************************************)
EXTENDS ChainFlush, BlockTreeProofs, TLAPS

\* Zenon is the default; the steps that need arithmetic, records or functions name SMT.
USE ZenonT(40)

----------------------------------------------------------------------------
(***************************************************************************)
(* Positions, files and coins.                                             *)
(***************************************************************************)
\* A set of numbers that is not empty has a least element.
LEMMA MinFacts ==
    ASSUME NEW S \in SUBSET Nat, S # {}
    PROVE  Min(S) \in S /\ \A y \in S : Min(S) <= y
  <1>1. PICK x \in S : \A y \in S : ~(<<y, x>> \in OpToRel(<, Nat))
    BY NatLessThanWellFounded, WFMin, ZenonT(60)
  <1>2. ASSUME NEW y \in S PROVE x <= y
    <2>1. x \in Nat /\ y \in Nat
      OBVIOUS
    <2>2. y < x => <<y, x>> \in OpToRel(<, Nat)
      BY <2>1, Zenon DEF OpToRel
    <2>3. ~(y < x)
      BY <1>1, <2>2, Zenon
    <2>. QED
      BY SMT, <2>1, <2>3
  <1>. QED
    BY <1>2 DEF Min

\* The larger of two numbers.
LEMMA MaxType ==
    ASSUME NEW x \in Nat, NEW y \in Nat
    PROVE  Max({x, y}) \in Nat
  <1>1. \E m \in {x, y} : \A z \in {x, y} : m >= z
    BY SMT
  <1>2. Max({x, y}) \in {x, y}
    BY <1>1 DEF Max
  <1>. QED
    BY <1>2

\* A position is a file and an offset.
LEMMA PosFacts ==
    /\ \A p \in Pos : /\ p # NoPos /\ p = <<p[1], p[2]>>
                      /\ p[1] \in File /\ p[2] \in 0 .. MAX_BLOCKFILE_SIZE
    /\ \A f \in File, k \in 0 .. MAX_BLOCKFILE_SIZE : <<f, k>> \in Pos
    /\ File \subseteq Nat /\ 0 \in File
    /\ 0 .. MAX_BLOCKFILE_SIZE \subseteq Nat
  <1>1. MAX_BLOCKFILE_SIZE \in Nat /\ MaxFile \in Nat
    BY ConstantsAssumption
  <1>2. \A p \in Pos : /\ p = <<p[1], p[2]>>
                       /\ p[1] \in File /\ p[2] \in 0 .. MAX_BLOCKFILE_SIZE
    BY SMT DEF Pos
  <1>3. ASSUME NEW f, NEW k PROVE <<f, k>> # << >>
    OBVIOUS
  <1>4. \A p \in Pos : p # NoPos
    BY <1>2, <1>3 DEF NoPos
  <1>. QED
    BY SMT, <1>1, <1>2, <1>4 DEF Pos, File

\* The types of an entry's positions and of a file's information.
LEMMA EntryTypes ==
    ASSUME TypeOK
    PROVE  /\ \A b \in Block : /\ index[b] \in Entry /\ diskIndex[b] \in Entry
                               /\ {index[b].data, index[b].undo} \subseteq Pos \cup {NoPos}
                               /\ {diskIndex[b].data, diskIndex[b].undo} \subseteq Pos \cup {NoPos}
           /\ \A f \in File : /\ info[f] \in Info /\ diskInfo[f] \in Info
                              /\ {info[f].nSize, info[f].nUndoSize, info[f].nHeightLast} \subseteq Nat
                              /\ {diskInfo[f].nSize, diskInfo[f].nUndoSize} \subseteq Nat
  <1>1. \A b \in Block : index[b] \in Entry /\ diskIndex[b] \in Entry
    BY DEF TypeOK
  <1>2. \A f \in File : info[f] \in Info /\ diskInfo[f] \in Info
    BY DEF TypeOK
  <1>3. MAX_BLOCKFILE_SIZE \in Nat
    BY ConstantsAssumption
  <1>. QED
    BY SMT, <1>1, <1>2, <1>3 DEF Entry, Info

\* The file in which FindBlockPos finds room, and the position.
LEMMA BlockFileFacts ==
    ASSUME TypeOK, \E f \in File : Fits(f)
    PROVE  /\ BlockFile \in File /\ Fits(BlockFile)
           /\ BlockFile >= last
           /\ info[BlockFile].nSize + 1 \in 0 .. MAX_BLOCKFILE_SIZE
           /\ <<BlockFile, info[BlockFile].nSize>> \in Pos
  <1>. DEFINE S == {f \in File : Fits(f)}
  <1>1. S # {} /\ S \in SUBSET Nat
    BY PosFacts
  <1>2. BlockFile \in S
    BY <1>1, MinFacts DEF BlockFile
  <1>3. BlockFile \in File /\ Fits(BlockFile)
    BY <1>2
  <1>4. MAX_BLOCKFILE_SIZE \in Nat /\ info[BlockFile].nSize \in Nat
    BY <1>3, ConstantsAssumption, EntryTypes
  <1>5. info[BlockFile].nSize + 1 < MAX_BLOCKFILE_SIZE /\ BlockFile >= last
    BY <1>3 DEF Fits
  <1>6. info[BlockFile].nSize + 1 \in 0 .. MAX_BLOCKFILE_SIZE /\ info[BlockFile].nSize \in 0 .. MAX_BLOCKFILE_SIZE
    BY SMT, <1>4, <1>5
  <1>. QED
    BY <1>3, <1>5, <1>6, PosFacts

\* Connecting a valid block changes the coins of its chain by what it spends
\* and creates, and disconnecting it takes that back.
LEMMA CoinsOfBlock ==
    ASSUME NEW b \in Block \ {Genesis}
    PROVE  /\ UTXO(b) = (UTXO(Parent[b]) \ Spends[b]) \cup Creates[b]
           /\ UTXO(Parent[b]) = (UTXO(b) \ Creates[b]) \cup Spends[b]
  <1>. DEFINE p == Parent[b]
              C == UNION {Creates[a] : a \in Path[p]}
              D == UNION {Spends[a] : a \in Path[p]}
  <1>1. p \in Block /\ Path[b] = Path[p] \cup {b} /\ Path[p] \subseteq Block
    BY PathParent
  <1>2. UTXO(p) = C \ D
    BY DEF UTXO
  <1>3. UTXO(b) = (C \cup Creates[b]) \ (D \cup Spends[b])
    <2>1. UNION {Creates[a] : a \in Path[b]} = C \cup Creates[b]
      BY <1>1
    <2>2. UNION {Spends[a] : a \in Path[b]} = D \cup Spends[b]
      BY <1>1
    <2>. QED
      BY <2>1, <2>2 DEF UTXO
  <1>4. Spends[b] \subseteq C \ D
    BY <1>2, ValidBlocks
  <1>5. Creates[b] \cap C = {}
    BY SMT, ValidBlocks
  <1>6. D \subseteq C
    <2>. SUFFICES ASSUME NEW a \in Path[p], NEW c \in Spends[a] PROVE c \in C
      OBVIOUS
    <2>1. a # Genesis /\ a \in Block
      BY <1>1, ValidBlocks
    <2>2. c \in UTXO(Parent[a])
      BY <2>1, ValidBlocks
    <2>3. PICK e \in Path[Parent[a]] : c \in Creates[e]
      BY <2>2 DEF UTXO
    <2>4. Path[Parent[a]] \subseteq Path[p]
      BY <1>1, <2>1, PathParent, Ancestry
    <2>. QED
      BY <2>3, <2>4
  <1>. HIDE DEF C, D, p
  <1>7. UTXO(b) = (UTXO(p) \ Spends[b]) \cup Creates[b]
    BY <1>2, <1>3, <1>4, <1>5, <1>6
  <1>8. UTXO(p) = (UTXO(b) \ Creates[b]) \cup Spends[b]
    BY <1>2, <1>3, <1>4, <1>5, <1>6
  <1>. QED
    BY <1>7, <1>8 DEF p

\* So are the coins of the genesis block those it creates.
LEMMA CoinsOfGenesis == UTXO(Genesis) = Creates[Genesis]
  <1>1. Path[Genesis] = {Genesis} /\ Spends[Genesis] = {}
    BY PathAssumption, ValidBlocks
  <1>. QED
    BY <1>1 DEF UTXO

----------------------------------------------------------------------------
(***************************************************************************)
(* What the operations change.                                             *)
(***************************************************************************)
\* The stages of a call.
LEMMA StageFacts ==
    /\ NextStage("begin") = "index"
    /\ NextStage("index") = IF call.prune # {} THEN "unlink" ELSE IF call.full THEN "coins" ELSE "idle"
    /\ NextStage("unlink") = IF call.full THEN "coins" ELSE "idle"
    /\ NextStage("coins") = "idle"
  BY DEF NextStage

\* A call goes on, or returns and UpdateTip follows.
LEMMA ProceedFacts ==
    ASSUME TypeOK, LayoutInv, NEW stage \in {"index", "unlink", "coins"}, Proceed(stage)
    PROVE  /\ call' \in Call /\ tip' \in Block
           /\ call'.stage = NextStage(stage)
           /\ call'.stage # "idle" => (call'.prune = call.prune /\ call'.full = call.full)
  <1>1. call \in Call /\ tip \in Block
    BY DEF LayoutInv, TypeOK
  <1>2. NextStage(stage) \in {"unlink", "coins", "idle"}
    BY StageFacts
  <1>3. CASE NextStage(stage) = "idle"
    <2>1. call' = Idle /\ tip' = IF call.then = NoBlock THEN tip ELSE call.then
      BY <1>3 DEF Proceed
    <2>2. call'.stage = "idle" /\ call' \in Call
      BY <2>1 DEF Idle, Call
    <2>. QED
      BY <1>1, <1>3, <2>1, <2>2 DEF Call
  <1>4. CASE NextStage(stage) # "idle"
    BY <1>1, <1>2, <1>4 DEF Proceed, Call
  <1>. QED
    BY <1>3, <1>4

\* A new call, and none.
LEMMA CallTypes ==
    /\ Idle \in Call /\ Idle.stage = "idle"
    /\ \A mode \in {"none", "needed", "periodic", "always"}, b \in Block \cup {NoBlock} :
          Flushing(mode, b) \in Call /\ Flushing(mode, b).stage = "begin"
  BY DEF Call, Idle, Flushing

\* A block is received: AcceptBlock gets as far as FindBlockPos or further.
LEMMA AcceptFacts ==
    ASSUME TypeOK, LayoutInv, NEW b \in Block, NEW written \in BOOLEAN,
           AcceptBlock(b, written) \/ AcceptBlockNoSpace(b)
    PROVE  /\ b # Genesis /\ index[Parent[b]].known /\ index[b].data = NoPos /\ call = Idle
           /\ last' = BlockFile /\ \E f \in File : Fits(f)
           /\ info' = [info EXCEPT ![BlockFile].nSize = @ + 1,
                                   ![BlockFile].nHeightLast = Max({@, Height[b]})]
           /\ dirtyIndex' = dirtyIndex \cup {b}
           /\ \/ /\ index' = [index EXCEPT ![b].known = TRUE,
                                           ![b].data = <<BlockFile, info[BlockFile].nSize>>]
                 /\ dirtyFiles' = dirtyFiles \cup {BlockFile}
              \/ /\ index' = [index EXCEPT ![b].known = TRUE]
                 /\ dirtyFiles' = dirtyFiles
           /\ call' \in Call /\ call'.stage \in {"idle", "begin"}
           /\ failures \subseteq failures' /\ failures' \subseteq Faults
           /\ UNCHANGED <<tip, coins, rev, indexDb, coinsDb, running, stops, powerLost, pruned>>
  <1>. USE CallTypes DEF TypeOK, NoFailure, OnlyFails, CanFail, history, Ready, FindBlockPos
  <1>1. CASE AcceptBlock(b, written)
    <2>1. call' \in {Idle, Flushing("none", NoBlock)}
      BY <1>1 DEF AcceptBlock
    <2>2. failures \subseteq failures' /\ failures' \subseteq Faults
          /\ UNCHANGED <<running, stops, powerLost, pruned>>
      BY <1>1 DEF AcceptBlock
    <2>. QED
      BY <1>1, <2>1, <2>2 DEF AcceptBlock
  <1>2. CASE AcceptBlockNoSpace(b)
    BY <1>2 DEF AcceptBlockNoSpace
  <1>. QED
    BY <1>1, <1>2

\* The file informations after FindBlockPos.
LEMMA InfoAfterAccept ==
    ASSUME TypeOK, \E f \in File : Fits(f), NEW h \in Nat,
           info' = [info EXCEPT ![BlockFile].nSize = @ + 1, ![BlockFile].nHeightLast = Max({@, h})]
    PROVE  /\ info' \in [File -> Info]
           /\ info'[BlockFile].nSize = info[BlockFile].nSize + 1
           /\ info'[BlockFile].nUndoSize = info[BlockFile].nUndoSize
           /\ \A f \in File \ {BlockFile} : info'[f] = info[f]
  <1>. DEFINE n == info[BlockFile]
  <1>1. BlockFile \in File /\ n.nSize + 1 \in 0 .. MAX_BLOCKFILE_SIZE
    BY BlockFileFacts
  <1>2. n \in Info /\ n.nHeightLast \in Nat /\ info \in [File -> Info]
    BY <1>1, EntryTypes DEF TypeOK
  <1>3. Max({n.nHeightLast, h}) \in Nat
    BY <1>2, MaxType
  <1>4. info' = [info EXCEPT ![BlockFile] =
                    [n EXCEPT !.nSize = n.nSize + 1, !.nHeightLast = Max({n.nHeightLast, h})]]
    BY <1>1, <1>2 DEF Info
  <1>5. [n EXCEPT !.nSize = n.nSize + 1, !.nHeightLast = Max({n.nHeightLast, h})] \in Info
    BY <1>1, <1>2, <1>3 DEF Info
  <1>. QED
    BY SMT, <1>1, <1>2, <1>4, <1>5 DEF Info

\* The same after FindUndoPos.
LEMMA InfoAfterUndo ==
    ASSUME TypeOK, NEW b \in Block, index[b].data # NoPos, FindUndoPos(b)
    PROVE  LET f == index[b].data[1]
           IN  /\ f \in File /\ info' \in [File -> Info]
               /\ UndoPos(b) = <<f, info[f].nUndoSize>> /\ UndoPos(b) \in Pos
               /\ info'[f].nSize = info[f].nSize
               /\ info'[f].nUndoSize = info[f].nUndoSize + 1
               /\ \A g \in File \ {f} : info'[g] = info[g]
               /\ dirtyFiles' = dirtyFiles \cup {f}
  <1>. DEFINE f == index[b].data[1]
              n == info[f]
  <1>1. f \in File /\ UndoPos(b) = <<f, n.nUndoSize>> /\ UndoPos(b) \in Pos
    BY EntryTypes, PosFacts DEF FindUndoPos, UndoPos
  <1>2. n \in Info /\ n.nUndoSize \in Nat /\ info \in [File -> Info]
    BY <1>1, EntryTypes DEF TypeOK
  <1>3. n.nUndoSize \in 0 .. MAX_BLOCKFILE_SIZE
    BY SMT, <1>1 DEF Pos
  <1>4. MAX_BLOCKFILE_SIZE \in Nat
    BY ConstantsAssumption
  <1>5. n.nUndoSize + 1 \in 0 .. MAX_BLOCKFILE_SIZE + 1
    BY SMT, <1>3, <1>4
  <1>6. info' = [info EXCEPT ![f] = [n EXCEPT !.nUndoSize = n.nUndoSize + 1]]
    BY <1>1, <1>2 DEF FindUndoPos
  <1>7. [n EXCEPT !.nUndoSize = n.nUndoSize + 1] \in Info
    BY <1>2, <1>5 DEF Info
  <1>8. dirtyFiles' = dirtyFiles \cup {f}
    BY DEF FindUndoPos
  <1>. QED
    BY <1>1, <1>2, <1>6, <1>7, <1>8 DEF Info

\* What ConnectBlock does to the index: an undo record for a block without one.
LEMMA ConnectFacts ==
    ASSUME TypeOK, LayoutInv, NEW b \in Block, ConnectTip(b)
    PROVE  /\ b # Genesis /\ Parent[b] = tip /\ coins.best = tip /\ call = Idle
           /\ index[b].data # NoPos
           /\ coins' = [best |-> b, set |-> (coins.set \ Spends[b]) \cup Creates[b]]
           /\ call' \in Call /\ call'.stage = "begin"
           /\ UNCHANGED <<last, tip, blk, indexDb, coinsDb, history>>
           /\ \/ /\ index[b].undo # NoPos
                 /\ UNCHANGED <<info, dirtyFiles, rev, unsynced, index, dirtyIndex>>
              \/ /\ index[b].undo = NoPos
                 /\ FindUndoPos(b)
                 /\ rev' = [rev EXCEPT ![UndoPos(b)] = b]
                 /\ unsynced' = unsynced \cup {<<"rev", UndoPos(b)[1], UndoPos(b)[2]>>}
                 /\ index' = [index EXCEPT ![b].undo = UndoPos(b)]
                 /\ dirtyIndex' = dirtyIndex \cup {b}
  BY CallTypes DEF ConnectTip, WriteUndo, Ready, ReadBlockFromDisk, NoFailure

\* Pruning in memory, and the choice of what to write.
LEMMA BeginFacts ==
    ASSUME TypeOK, LayoutInv, FlushBegin
    PROVE  /\ running /\ call.stage = "begin" /\ call' \in Call /\ tip' \in Block
           /\ failures \subseteq failures' /\ failures' \subseteq Faults
           /\ UNCHANGED <<last, coins, blk, rev, indexDb, coinsDb, running, stops, powerLost>>
           /\ \E fs \in SUBSET Prunable :
                 /\ PruneOneBlockFile(fs)
                 /\ \/ call'.stage = "idle" /\ unsynced' = unsynced
                    \/ /\ call'.stage = "index" /\ call'.prune = fs
                       /\ unsynced' = FlushBlockFile(unsynced)
  <1>1. call \in Call /\ tip \in Block /\ call.then \in Block \cup {NoBlock}
    BY DEF LayoutInv, TypeOK, Call
  <1>2. PICK fs \in (IF checkPrune THEN FindFilesToPrune ELSE {{}}) : \E w \in Writes(call.mode, fs) :
          /\ PruneOneBlockFile(fs)
          /\ IF w = "nothing"
             THEN /\ call' = Idle
                  /\ tip' = IF call.then = NoBlock THEN tip ELSE call.then
                  /\ UNCHANGED <<unsynced, failures>>
             ELSE \/ /\ call' = [stage |-> NextStage("begin"), mode |-> "none", prune |-> fs,
                                 full |-> (w = "coins"), then |-> call.then]
                     /\ unsynced' = FlushBlockFile(unsynced)
                     /\ UNCHANGED <<tip, failures>>
                  \/ /\ call' = Idle
                     /\ CanFail("space")
                     /\ UNCHANGED <<tip, unsynced>>
    BY DEF FlushBegin
  <1>21. PICK w \in Writes(call.mode, fs) :
          /\ PruneOneBlockFile(fs)
          /\ IF w = "nothing"
             THEN /\ call' = Idle
                  /\ tip' = IF call.then = NoBlock THEN tip ELSE call.then
                  /\ UNCHANGED <<unsynced, failures>>
             ELSE \/ /\ call' = [stage |-> NextStage("begin"), mode |-> "none", prune |-> fs,
                                 full |-> (w = "coins"), then |-> call.then]
                     /\ unsynced' = FlushBlockFile(unsynced)
                     /\ UNCHANGED <<tip, failures>>
                  \/ /\ call' = Idle
                     /\ CanFail("space")
                     /\ UNCHANGED <<tip, unsynced>>
    BY <1>2
  <1>3. fs \in SUBSET Prunable /\ fs \subseteq File
    BY <1>2 DEF FindFilesToPrune, Prunable
  <1>4. CASE w = "nothing"
    BY <1>1, <1>21, <1>3, <1>4, CallTypes DEF FlushBegin, TypeOK
  <1>5. CASE w # "nothing" /\ call' = Idle /\ CanFail("space") /\ UNCHANGED <<tip, unsynced>>
    BY <1>1, <1>21, <1>3, <1>5, CallTypes DEF FlushBegin, TypeOK, CanFail
  <1>6. CASE /\ w # "nothing"
             /\ call' = [stage |-> NextStage("begin"), mode |-> "none", prune |-> fs,
                         full |-> (w = "coins"), then |-> call.then]
             /\ unsynced' = FlushBlockFile(unsynced)
             /\ UNCHANGED <<tip, failures>>
    <2>1. call' \in Call /\ call'.stage = "index" /\ call'.prune = fs
      BY <1>1, <1>3, <1>6, StageFacts DEF Call
    <2>. QED
      BY <1>1, <1>21, <1>3, <1>6, <2>1 DEF FlushBegin, TypeOK
  <1>. QED
    BY <1>21, <1>4, <1>5, <1>6

\* PruneOneBlockFile, entry by entry.
LEMMA PruneFacts ==
    ASSUME TypeOK, NEW fs \in SUBSET File, PruneOneBlockFile(fs)
    PROVE  /\ index' \in [Block -> Entry] /\ info' \in [File -> Info]
           /\ \A b \in Block : \/ ~InFile(b, fs) /\ index'[b] = index[b]
                               \/ /\ InFile(b, fs)
                                  /\ index'[b] = [known |-> TRUE, data |-> NoPos, undo |-> NoPos]
           /\ \A f \in File : info'[f] = IF f \in fs THEN EmptyFile ELSE info[f]
           /\ dirtyIndex' = dirtyIndex \cup {b \in Block : InFile(b, fs)}
           /\ pruned' = pruned \cup {b \in Block : InFile(b, fs)}
           /\ dirtyFiles' = dirtyFiles \cup fs
  <1>. DEFINE gone == {b \in Block : InFile(b, fs)}
              none == [known |-> TRUE, data |-> NoPos, undo |-> NoPos]
  <1>1. /\ index' = [b \in Block |-> IF b \in gone THEN none ELSE index[b]]
        /\ info' = [f \in File |-> IF f \in fs THEN EmptyFile ELSE info[f]]
        /\ dirtyIndex' = dirtyIndex \cup gone /\ pruned' = pruned \cup gone
        /\ dirtyFiles' = dirtyFiles \cup fs
    BY DEF PruneOneBlockFile
  <1>2. none \in Entry
    BY DEF Entry
  <1>3. MAX_BLOCKFILE_SIZE \in Nat
    BY ConstantsAssumption
  <1>4. EmptyFile \in Info
    BY SMT, <1>3 DEF EmptyFile, Info
  <1>5. \A b \in Block : index'[b] = IF InFile(b, fs) THEN none ELSE index[b]
    BY <1>1
  <1>6. index' \in [Block -> Entry] /\ info' \in [File -> Info]
    BY <1>1, <1>2, <1>4, EntryTypes
  <1>. QED
    BY <1>1, <1>5, <1>6

\* The index after a block was received, entry by entry.
LEMMA AcceptEntries ==
    ASSUME TypeOK, LayoutInv, NEW b \in Block, NEW written \in BOOLEAN,
           AcceptBlock(b, written) \/ AcceptBlockNoSpace(b)
    PROVE  /\ index' \in [Block -> Entry] /\ info' \in [File -> Info]
           /\ \A c \in Block \ {b} : index'[c] = index[c]
           /\ index'[b].known /\ index'[b].undo = index[b].undo
           /\ \/ /\ index'[b].data = <<BlockFile, info[BlockFile].nSize>>
                 /\ dirtyFiles' = dirtyFiles \cup {BlockFile}
              \/ index'[b].data = NoPos /\ dirtyFiles' = dirtyFiles
  <1>. DEFINE pos == <<BlockFile, info[BlockFile].nSize>>
  <1>1. pos \in Pos /\ index \in [Block -> Entry] /\ index[b] \in Entry /\ index[b].data = NoPos
    BY AcceptFacts, BlockFileFacts, EntryTypes DEF TypeOK
  <1>2. info' \in [File -> Info]
    <2>1. Height[b] \in Nat
      BY TypeAssumption
    <2>. QED
      BY <2>1, AcceptFacts, InfoAfterAccept
  <1>3. \/ /\ index' = [index EXCEPT ![b].known = TRUE, ![b].data = pos]
           /\ dirtyFiles' = dirtyFiles \cup {BlockFile}
        \/ index' = [index EXCEPT ![b].known = TRUE] /\ dirtyFiles' = dirtyFiles
    BY AcceptFacts
  <1>. HIDE DEF pos
  <1>4. CASE /\ index' = [index EXCEPT ![b].known = TRUE, ![b].data = pos]
             /\ dirtyFiles' = dirtyFiles \cup {BlockFile}
    BY <1>1, <1>2, <1>4 DEF Entry, pos
  <1>5. CASE index' = [index EXCEPT ![b].known = TRUE] /\ dirtyFiles' = dirtyFiles
    BY <1>1, <1>2, <1>5 DEF Entry
  <1>. QED
    BY <1>3, <1>4, <1>5

\* The index after an undo record was written, entry by entry.
LEMMA ConnectEntries ==
    ASSUME TypeOK, LayoutInv, NEW b \in Block, index[b].data # NoPos, FindUndoPos(b),
           index' = [index EXCEPT ![b].undo = UndoPos(b)]
    PROVE  /\ index' \in [Block -> Entry] /\ info' \in [File -> Info]
           /\ \A c \in Block \ {b} : index'[c] = index[c]
           /\ index'[b].known = index[b].known /\ index'[b].data = index[b].data
           /\ index'[b].undo = UndoPos(b)
  <1>1. index \in [Block -> Entry] /\ index[b] \in Entry
    BY EntryTypes DEF TypeOK
  <1>2. UndoPos(b) \in Pos /\ info' \in [File -> Info]
    BY InfoAfterUndo
  <1>. QED
    BY <1>1, <1>2 DEF Entry

\* Every step keeps the types.
LEMMA TypeNext == TypeOK /\ LayoutInv /\ [Next]_vars => TypeOK'
  <1>. SUFFICES ASSUME TypeOK, LayoutInv, [Next]_vars PROVE TypeOK'
    OBVIOUS
  <1>. USE DEF indexDb, coinsDb, files, history
  <1>0. CASE UNCHANGED vars
    BY <1>0 DEF TypeOK, vars, memory
  <1>1. ASSUME NEW b \in Block, NEW written \in BOOLEAN, AcceptBlock(b, written) \/ AcceptBlockNoSpace(b)
        PROVE  TypeOK'
    <2>1. /\ BlockFile \in File /\ <<BlockFile, info[BlockFile].nSize>> \in Pos
      BY <1>1, AcceptFacts, BlockFileFacts
    <2>2. info' \in [File -> Info] /\ index' \in [Block -> Entry]
      BY <1>1, AcceptEntries
    <2>4. blk' \in [Pos -> Block \cup {NoBlock}]
      BY <1>1, <2>1 DEF AcceptBlock, AcceptBlockNoSpace, TypeOK
    <2>5. /\ last' = BlockFile /\ dirtyIndex' = dirtyIndex \cup {b}
          /\ dirtyFiles' \subseteq dirtyFiles \cup {BlockFile} /\ failures' \subseteq Faults
          /\ UNCHANGED <<tip, coins, rev, diskIndex, diskInfo, diskLast, db, dbSynced>>
      BY <1>1, AcceptFacts
    <2>. QED
      BY <2>1, <2>2, <2>4, <2>5 DEF TypeOK
  <1>2. ASSUME NEW b \in Block, ConnectTip(b) PROVE TypeOK'
    <2>1. index[b].undo = NoPos /\ FindUndoPos(b) =>
             /\ index[b].data[1] \in File /\ UndoPos(b) \in Pos /\ info' \in [File -> Info]
             /\ dirtyFiles' = dirtyFiles \cup {index[b].data[1]}
      BY <1>2, ConnectFacts, InfoAfterUndo
    <2>2. info' \in [File -> Info] /\ dirtyFiles' \subseteq File
      BY <1>2, <2>1, ConnectFacts DEF TypeOK
    <2>3. index' \in [Block -> Entry] /\ dirtyIndex' \subseteq Block
      <3>1. index \in [Block -> Entry]
        BY DEF TypeOK
      <3>. QED
        BY SMTT(30), <1>2, <2>1, <3>1, ConnectFacts DEF Entry, TypeOK
    <2>4. rev' \in [Pos -> Block \cup {NoBlock}]
      BY SMTT(30), <1>2, <2>1, ConnectFacts DEF TypeOK
    <2>5. coins' \in CoinsState
      <3>1. coins.set \subseteq Coin
        BY DEF TypeOK, CoinsState
      <3>2. coins' = [best |-> b, set |-> (coins.set \ Spends[b]) \cup Creates[b]]
        BY <1>2, ConnectFacts
      <3>3. (coins.set \ Spends[b]) \cup Creates[b] \subseteq Coin
        BY <3>1, ConstantsAssumption
      <3>. QED
        BY <3>2, <3>3 DEF CoinsState
    <2>6. UNCHANGED <<last, tip, blk, diskIndex, diskInfo, diskLast, db, dbSynced, failures>>
      BY <1>2, ConnectFacts
    <2>. QED
      BY <2>2, <2>3, <2>4, <2>5, <2>6 DEF TypeOK
  <1>3. ASSUME NEW b \in Block, ConnectTipNoUndo(b) PROVE TypeOK'
    <2>1. index[b].data # NoPos /\ FindUndoPos(b)
      BY <1>3 DEF ConnectTipNoUndo, ReadBlockFromDisk
    <2>2. info' \in [File -> Info] /\ dirtyFiles' \subseteq File
      BY <2>1, InfoAfterUndo DEF TypeOK
    <2>. QED
      BY <1>3, <2>2 DEF ConnectTipNoUndo, OnlyFails, CanFail, TypeOK
  <1>4. CASE DisconnectTip
    <2>1. tip \in Block \ {Genesis} /\ coins.set \subseteq Coin
      BY <1>4 DEF DisconnectTip, TypeOK, CoinsState
    <2>2. rev[index[tip].undo] \in Block
      <3>1. index[tip].undo \in Pos /\ rev[index[tip].undo] # NoBlock
        BY <1>4, <2>1, EntryTypes DEF DisconnectTip, UndoReadFromDisk
      <3>. QED
        BY <3>1 DEF TypeOK
    <2>3. coins' \in CoinsState
      <3>1. (coins.set \ Creates[tip]) \cup Spends[rev[index[tip].undo]] \subseteq Coin
        BY <2>1, <2>2, ConstantsAssumption
      <3>2. Parent[tip] \in Block
        BY <2>1, PathParent
      <3>. QED
        BY <1>4, <3>1, <3>2 DEF DisconnectTip, CoinsState
    <2>. QED
      BY <1>4, <2>3 DEF DisconnectTip, NoFailure, TypeOK
  <1>5. ASSUME NEW mode, FlushStateToDisk(mode) PROVE TypeOK'
    BY <1>5 DEF FlushStateToDisk, NoFailure, TypeOK
  <1>6. CASE FlushBegin
    <2>1. PICK fs \in SUBSET Prunable : PruneOneBlockFile(fs)
      BY <1>6, BeginFacts
    <2>2. fs \in SUBSET File
      BY DEF Prunable
    <2>3. /\ index' \in [Block -> Entry] /\ info' \in [File -> Info]
          /\ dirtyIndex' \subseteq Block /\ dirtyFiles' \subseteq File
      BY SMTT(30), <2>1, <2>2, PruneFacts DEF TypeOK
    <2>. QED
      BY <1>6, <2>3, BeginFacts DEF TypeOK
  <1>7. CASE FlushIndex
    <2>1. tip' \in Block
      BY <1>7, ProceedFacts DEF FlushIndex
    <2>2. diskIndex' \in [Block -> Entry] /\ diskInfo' \in [File -> Info]
      BY <1>7 DEF FlushIndex, TypeOK
    <2>. QED
      BY <1>7, <2>1, <2>2 DEF FlushIndex, NoFailure, TypeOK
  <1>8. CASE FlushIndexFails \/ FlushCoinsFails \/ FlushCoinsNoSpace
    <2>1. failures' \subseteq Faults /\ tip' = tip
      BY <1>8 DEF FlushIndexFails, FlushCoinsFails, FlushCoinsNoSpace, GiveUp, OnlyFails, CanFail, TypeOK
    <2>2. coins' \in CoinsState
      BY SMTT(30), <1>8 DEF FlushIndexFails, FlushCoinsFails, FlushCoinsNoSpace, CoinsState, TypeOK
    <2>. QED
      BY <1>8, <2>1, <2>2 DEF FlushIndexFails, FlushCoinsFails, FlushCoinsNoSpace, TypeOK
  <1>9. CASE FlushUnlink
    <2>1. tip' \in Block
      BY <1>9, ProceedFacts DEF FlushUnlink, TypeOK
    <2>2. blk' \in [Pos -> Block \cup {NoBlock}] /\ rev' \in [Pos -> Block \cup {NoBlock}]
      <3>1. \E f : /\ blk' = [p \in Pos |-> IF p[1] = f THEN NoBlock ELSE blk[p]]
                   /\ rev' = [p \in Pos |-> IF p[1] = f THEN NoBlock ELSE rev[p]]
        BY <1>9 DEF FlushUnlink
      <3>. QED
        BY <3>1 DEF TypeOK
    <2>. QED
      BY <1>9, <2>1, <2>2 DEF FlushUnlink, NoFailure, TypeOK
  <1>10. CASE FlushCoins
    <2>1. tip' \in Block
      BY <1>10, ProceedFacts DEF FlushCoins
    <2>. QED
      BY <1>10, <2>1 DEF FlushCoins, NoFailure, TypeOK
  <1>11. CASE Crash \/ PowerLoss
    <2>1. db' \in CoinsState
      BY <1>11 DEF Crash, PowerLoss, TypeOK
    <2>2. blk' \in [Pos -> Block \cup {NoBlock}] /\ rev' \in [Pos -> Block \cup {NoBlock}]
      <3>1. CASE Crash
        BY <3>1 DEF Crash, TypeOK
      <3>2. CASE PowerLoss
        <4>1. PICK lost \in SUBSET unsynced :
                 /\ blk' = [p \in Pos |-> IF <<"blk", p[1], p[2]>> \in lost THEN NoBlock ELSE blk[p]]
                 /\ rev' = [p \in Pos |-> IF <<"rev", p[1], p[2]>> \in lost THEN NoBlock ELSE rev[p]]
          BY <3>2 DEF PowerLoss
        <4>2. \A p \in Pos : blk[p] \in Block \cup {NoBlock} /\ rev[p] \in Block \cup {NoBlock}
          BY DEF TypeOK
        <4>3. /\ \A p \in Pos : (IF <<"blk", p[1], p[2]>> \in lost THEN NoBlock ELSE blk[p]) \in Block \cup {NoBlock}
              /\ \A p \in Pos : (IF <<"rev", p[1], p[2]>> \in lost THEN NoBlock ELSE rev[p]) \in Block \cup {NoBlock}
          BY <4>2
        <4>. QED
          BY <4>1, <4>3
      <3>. QED
        BY <1>11, <3>1, <3>2
    <2>3. LoadBlockIndexDB
      BY <1>11 DEF Crash, PowerLoss
    <2>4. coins' = db' /\ dbSynced' = db' /\ tip' \in Block
      BY <2>1, <2>3 DEF LoadBlockIndexDB, CoinsState
    <2>. QED
      BY <2>1, <2>2, <2>3, <2>4 DEF LoadBlockIndexDB, TypeOK
  <1>. QED
    BY <1>0, <1>1, <1>2, <1>3, <1>4, <1>5, <1>6, <1>7, <1>8, <1>9, <1>10, <1>11 DEF Next

----------------------------------------------------------------------------
(***************************************************************************)
(* The index and the files' informations.                                  *)
(***************************************************************************)
\* Positions below the ends of the files stay below them while files grow.
LEMMA EntryGrows ==
    ASSUME NEW e \in Entry, NEW s \in [File -> Info], NEW t \in [File -> Info], EntryOK(e, s),
           \A f \in File : s[f].nSize <= t[f].nSize /\ s[f].nUndoSize <= t[f].nUndoSize
    PROVE  EntryOK(e, t)
  <1>1. /\ e.data # NoPos => e.data[1] \in File /\ e.data[2] \in Nat
        /\ e.undo # NoPos => e.undo[1] \in File /\ e.undo[2] \in Nat
    BY PosFacts DEF Entry
  <1>2. \A f \in File : {s[f].nSize, s[f].nUndoSize, t[f].nSize, t[f].nUndoSize} \subseteq Nat
    <2>1. MAX_BLOCKFILE_SIZE \in Nat
      BY ConstantsAssumption
    <2>. QED
      BY SMT, <2>1 DEF Info
  <1>3. e.data # NoPos => e.known /\ e.data[2] < t[e.data[1]].nSize
    BY SMTT(30), <1>1, <1>2 DEF EntryOK
  <1>4. e.undo # NoPos => e.data # NoPos /\ e.undo[1] = e.data[1] /\ e.undo[2] < t[e.undo[1]].nUndoSize
    BY SMT, <1>1, <1>2 DEF EntryOK
  <1>. QED
    BY <1>3, <1>4 DEF EntryOK

\* A step that hands out positions or none keeps the layout.
LEMMA LayoutGrows ==
    ASSUME TypeOK, LayoutInv, UNCHANGED indexDb, last' >= last, last' \in File,
           call' \in Call, call'.stage \in {"idle", "begin", "coins"},
           dirtyIndex \subseteq dirtyIndex',
           \A f \in File : Gone(f) =>
              /\ info'[f].nSize = 0
              /\ f \in dirtyFiles' => f \in dirtyFiles
              /\ \A c \in Block : index'[c].data # NoPos => index'[c].data[1] # f,
           \A c \in Block :
              /\ EntryOK(index'[c], info')
              /\ (c \in dirtyIndex' /\ index'[c].data # NoPos) => index'[c].data[1] \in dirtyFiles'
              /\ index[c].data \in {NoPos, index'[c].data}
              /\ index[c].undo \in {NoPos, index'[c].undo}
    PROVE  LayoutInv'
  <1>1. ASSUME NEW c \in Block, NEW f \in File, Left(c, f) PROVE Left(c, f)'
    <2>1. last \in Nat /\ last' \in Nat /\ f \in Nat
      BY PosFacts DEF TypeOK
    <2>2. Gone(f) /\ (c \in dirtyIndex' \/ f \notin dirtyFiles')
      BY <1>1 DEF Left
    <2>3. f < last'
      BY SMT, <2>1, <2>2 DEF Gone
    <2>4. Gone(f)'
      BY <2>2, <2>3 DEF Gone
    <2>. QED
      BY <2>2, <2>4 DEF Left
  <1>2. ASSUME NEW c \in Block PROVE LayoutOf(c)'
    <2>1. LayoutOf(c) /\ diskIndex' = diskIndex /\ diskInfo' = diskInfo
      BY DEF LayoutInv, indexDb
    <2>2. diskIndex[c].data # NoPos => diskIndex[c].data[1] \in File
      BY EntryTypes, PosFacts
    <2>3. diskIndex[c].undo # NoPos => diskIndex[c].undo[1] \in File
      BY EntryTypes, PosFacts
    <2>4. diskIndex[c].data \notin {NoPos, index'[c].data} => Left(c, diskIndex[c].data[1])'
      BY <1>1, <2>1, <2>2 DEF LayoutOf
    <2>5. diskIndex[c].undo \notin {NoPos, index'[c].undo} => Left(c, diskIndex[c].undo[1])'
      BY <1>1, <2>1, <2>3 DEF LayoutOf
    <2>6. EntryOK(diskIndex[c], diskInfo)
      BY <2>1 DEF LayoutOf
    <2>. QED
      BY <2>1, <2>4, <2>5, <2>6 DEF LayoutOf
  <1>. QED
    BY <1>2 DEF LayoutInv

\* So does a step that changes the call only.
LEMMA LayoutKept ==
    ASSUME TypeOK, LayoutInv, UNCHANGED <<index, info, last, dirtyIndex, dirtyFiles, indexDb>>,
           call' \in Call, call'.stage \in {"idle", "begin", "coins"}
    PROVE  LayoutInv'
  <1>1. last' >= last /\ last' \in File
    BY SMT, PosFacts DEF TypeOK
  <1>2. \A c \in Block : LayoutOf(c)
    BY DEF LayoutInv
  <1>3. \A f \in File : Gone(f) =>
              /\ info'[f].nSize = 0
              /\ f \in dirtyFiles' => f \in dirtyFiles
              /\ \A c \in Block : index'[c].data # NoPos => index'[c].data[1] # f
    BY DEF Gone
  <1>4. \A c \in Block : EntryOK(index'[c], info')
    BY <1>2 DEF LayoutOf
  <1>5. \A c \in Block : (c \in dirtyIndex' /\ index'[c].data # NoPos) => index'[c].data[1] \in dirtyFiles'
    BY <1>2 DEF LayoutOf
  <1>. QED
    BY <1>1, <1>3, <1>4, <1>5, LayoutGrows

\* A block is received.
LEMMA LayoutAccept ==
    ASSUME TypeOK, LayoutInv, NEW b \in Block, NEW written \in BOOLEAN,
           AcceptBlock(b, written) \/ AcceptBlockNoSpace(b)
    PROVE  LayoutInv'
  <1>. DEFINE f == BlockFile
  <1>1. /\ f \in File /\ f >= last /\ last \in File /\ File \subseteq Nat
        /\ last' = f /\ index[b].data = NoPos /\ dirtyIndex' = dirtyIndex \cup {b}
        /\ dirtyFiles \subseteq dirtyFiles' /\ dirtyFiles' \subseteq dirtyFiles \cup {f}
        /\ UNCHANGED indexDb /\ call' \in Call /\ call'.stage \in {"idle", "begin"}
    <2>1. f \in File /\ f >= last
      BY AcceptFacts, BlockFileFacts
    <2>2. last \in File /\ File \subseteq Nat
      BY PosFacts DEF TypeOK
    <2>3. dirtyFiles \subseteq dirtyFiles' /\ dirtyFiles' \subseteq dirtyFiles \cup {f}
      BY AcceptFacts
    <2>. QED
      BY <2>1, <2>2, <2>3, AcceptFacts
  <1>2. /\ info' \in [File -> Info] /\ info'[f].nSize = info[f].nSize + 1
        /\ info'[f].nUndoSize = info[f].nUndoSize
        /\ \A g \in File \ {f} : info'[g] = info[g]
    <2>1. Height[b] \in Nat
      BY TypeAssumption
    <2>2. \E g \in File : Fits(g)
      BY AcceptFacts
    <2>3. info' = [info EXCEPT ![BlockFile].nSize = @ + 1,
                               ![BlockFile].nHeightLast = Max({@, Height[b]})]
      BY AcceptFacts
    <2>. QED
      BY <2>1, <2>2, <2>3, InfoAfterAccept
  <1>3. \A c \in Block : LayoutOf(c)
    BY DEF LayoutInv
  <1>4. index[b].undo = NoPos
    BY <1>1, <1>3 DEF LayoutOf, EntryOK
  <1>5. /\ index' \in [Block -> Entry] /\ \A c \in Block \ {b} : index'[c] = index[c]
        /\ index'[b].known /\ index'[b].undo = NoPos
        /\ \/ index'[b].data = <<f, info[f].nSize>> /\ f \in dirtyFiles'
           \/ index'[b].data = NoPos
    BY <1>4, AcceptEntries
  <1>. HIDE DEF f
  <1>6. \A g \in File : Gone(g) =>
              /\ info'[g].nSize = 0
              /\ g \in dirtyFiles' => g \in dirtyFiles
              /\ \A c \in Block : index'[c].data # NoPos => index'[c].data[1] # g
    <2>. SUFFICES ASSUME NEW g \in File, Gone(g)
                  PROVE  /\ info'[g].nSize = 0
                         /\ g \in dirtyFiles' => g \in dirtyFiles
                         /\ \A c \in Block : index'[c].data # NoPos => index'[c].data[1] # g
      OBVIOUS
    <2>1. g < last /\ g \in Nat /\ f \in Nat /\ last \in Nat
      BY <1>1 DEF Gone
    <2>2. g # f
      BY SMT, <1>1, <2>1
    <2>3. info'[g].nSize = 0 /\ (g \in dirtyFiles' => g \in dirtyFiles)
      BY <1>1, <1>2, <2>2 DEF Gone
    <2>4. \A c \in Block : index'[c].data # NoPos => index'[c].data[1] # g
      BY SMT, <1>5, <2>2 DEF Gone
    <2>. QED
      BY <2>3, <2>4
  <1>7. \A c \in Block : EntryOK(index'[c], info')
    <2>1. \A g \in File : info[g].nSize <= info'[g].nSize /\ info[g].nUndoSize <= info'[g].nUndoSize
      <3>1. \A g \in File : info[g].nSize \in Nat /\ info[g].nUndoSize \in Nat
        BY EntryTypes
      <3>. QED
        BY SMTT(30), <1>1, <1>2, <3>1
    <2>2. ASSUME NEW c \in Block \ {b} PROVE EntryOK(index'[c], info')
      <3>1. index'[c] \in Entry /\ EntryOK(index'[c], info) /\ info \in [File -> Info]
        BY <1>3, <1>5 DEF LayoutOf, TypeOK
      <3>. QED
        BY <1>2, <2>1, <3>1, EntryGrows
    <2>3. EntryOK(index'[b], info')
      <3>1. info[f].nSize \in Nat
        BY <1>1, EntryTypes
      <3>2. info[f].nSize < info'[f].nSize
        BY SMTT(30), <1>2, <3>1
      <3>. QED
        BY SMTT(30), <1>5, <3>2 DEF EntryOK
    <2>. QED
      BY <2>2, <2>3
  <1>8. \A c \in Block : (c \in dirtyIndex' /\ index'[c].data # NoPos) => index'[c].data[1] \in dirtyFiles'
    BY SMTT(30), <1>1, <1>3, <1>5 DEF LayoutOf
  <1>9. \A c \in Block : index[c].data \in {NoPos, index'[c].data} /\ index[c].undo \in {NoPos, index'[c].undo}
    BY <1>1, <1>4, <1>5
  <1>. QED
    BY <1>1, <1>6, <1>7, <1>8, <1>9, LayoutGrows

\* An undo record gets its position, whether it is written or not.
LEMMA LayoutUndo ==
    ASSUME TypeOK, LayoutInv, NEW b \in Block, index[b].data # NoPos, index[b].undo = NoPos,
           FindUndoPos(b), UNCHANGED <<last, indexDb>>,
           call' \in Call, call'.stage \in {"idle", "begin"},
           \/ index' = [index EXCEPT ![b].undo = UndoPos(b)] /\ dirtyIndex' = dirtyIndex \cup {b}
           \/ index' = index /\ dirtyIndex' = dirtyIndex
    PROVE  LayoutInv'
  <1>. DEFINE f == index[b].data[1]
  <1>1. /\ f \in File /\ info' \in [File -> Info] /\ UndoPos(b) = <<f, info[f].nUndoSize>>
        /\ info'[f].nSize = info[f].nSize /\ info'[f].nUndoSize = info[f].nUndoSize + 1
        /\ \A g \in File \ {f} : info'[g] = info[g]
        /\ dirtyFiles' = dirtyFiles \cup {f}
    BY InfoAfterUndo
  <1>2. \A c \in Block : LayoutOf(c)
    BY DEF LayoutInv
  <1>3. /\ index' \in [Block -> Entry] /\ \A c \in Block \ {b} : index'[c] = index[c]
        /\ index'[b].known = index[b].known /\ index'[b].data = index[b].data
        /\ index'[b].undo \in {NoPos, UndoPos(b)}
        /\ dirtyIndex \subseteq dirtyIndex' /\ dirtyIndex' \subseteq dirtyIndex \cup {b}
    BY ConnectEntries DEF TypeOK
  <1>4. f = index[b].data[1] /\ f = index'[b].data[1]
    BY <1>3
  <1>. HIDE DEF f
  <1>5. \A g \in File : Gone(g) =>
              /\ info'[g].nSize = 0
              /\ g \in dirtyFiles' => g \in dirtyFiles
              /\ \A c \in Block : index'[c].data # NoPos => index'[c].data[1] # g
    <2>. SUFFICES ASSUME NEW g \in File, Gone(g)
                  PROVE  /\ info'[g].nSize = 0
                         /\ g \in dirtyFiles' => g \in dirtyFiles
                         /\ \A c \in Block : index'[c].data # NoPos => index'[c].data[1] # g
      OBVIOUS
    <2>1. g # f
      BY <1>4 DEF Gone
    <2>2. info'[g].nSize = 0 /\ (g \in dirtyFiles' => g \in dirtyFiles)
      BY <1>1, <2>1 DEF Gone
    <2>3. ASSUME NEW c \in Block, index'[c].data # NoPos PROVE index'[c].data[1] # g
      BY <1>3, <1>4, <2>1, <2>3 DEF Gone
    <2>. QED
      BY <2>2, <2>3
  <1>6. \A c \in Block : EntryOK(index'[c], info')
    <2>1. \A g \in File : info[g].nSize <= info'[g].nSize /\ info[g].nUndoSize <= info'[g].nUndoSize
      <3>1. \A g \in File : info[g].nSize \in Nat /\ info[g].nUndoSize \in Nat
        BY EntryTypes
      <3>. QED
        BY SMTT(30), <1>1, <3>1
    <2>2. ASSUME NEW c \in Block PROVE index[c] \in Entry /\ EntryOK(index[c], info')
      <3>1. index[c] \in Entry /\ EntryOK(index[c], info) /\ info \in [File -> Info]
        BY <1>2 DEF LayoutOf, TypeOK
      <3>. QED
        BY <1>1, <2>1, <3>1, EntryGrows
    <2>3. EntryOK(index'[b], info')
      <3>1. info[f].nUndoSize \in Nat
        BY <1>1, EntryTypes
      <3>2. info[f].nUndoSize < info'[f].nUndoSize
        BY SMTT(30), <1>1, <3>1
      <3>3. EntryOK(index[b], info')
        BY <2>2
      <3>4. /\ index'[b].data # NoPos => index'[b].known /\ index'[b].data[2] < info'[index'[b].data[1]].nSize
        BY <1>3, <3>3 DEF EntryOK
      <3>5. CASE index'[b].undo = NoPos
        BY <3>4, <3>5 DEF EntryOK
      <3>6. CASE index'[b].undo = UndoPos(b)
        <4>1. index'[b].undo[1] = f /\ index'[b].undo[2] = info[f].nUndoSize
          BY SMTT(30), <1>1, <3>6
        <4>. QED
          BY <1>3, <1>4, <3>2, <3>4, <4>1 DEF EntryOK
      <3>. QED
        BY <1>3, <3>5, <3>6
    <2>. QED
      BY <1>3, <2>2, <2>3
  <1>7. \A c \in Block : (c \in dirtyIndex' /\ index'[c].data # NoPos) => index'[c].data[1] \in dirtyFiles'
    BY <1>1, <1>2, <1>3, <1>4 DEF LayoutOf
  <1>8. \A c \in Block : index[c].data \in {NoPos, index'[c].data} /\ index[c].undo \in {NoPos, index'[c].undo}
    BY <1>3
  <1>9. last' >= last /\ last' \in File
    BY SMTT(30), PosFacts DEF TypeOK
  <1>. QED
    BY <1>3, <1>5, <1>6, <1>7, <1>8, <1>9, LayoutGrows

\* Pruning in memory: the files are gone, and the entries that were in them
\* are dirty.
LEMMA LayoutPrune ==
    ASSUME TypeOK, LayoutInv, FlushBegin
    PROVE  LayoutInv'
  <1>1. PICK fs \in SUBSET Prunable :
           /\ PruneOneBlockFile(fs)
           /\ \/ call'.stage = "idle"
              \/ call'.stage = "index" /\ call'.prune = fs
    BY BeginFacts
  <1>2. fs \in SUBSET File /\ \A f \in fs : f < last /\ info[f].nSize # 0
    BY <1>1 DEF Prunable
  <1>3. /\ \A b \in Block : \/ ~InFile(b, fs) /\ index'[b] = index[b]
                            \/ InFile(b, fs) /\ index'[b].data = NoPos /\ index'[b].undo = NoPos
        /\ \A f \in File : info'[f] = IF f \in fs THEN EmptyFile ELSE info[f]
        /\ dirtyIndex' = dirtyIndex \cup {b \in Block : InFile(b, fs)}
        /\ dirtyFiles' = dirtyFiles \cup fs
    BY SMTT(30), <1>1, <1>2, PruneFacts
  <1>4. \A b \in Block : LayoutOf(b)
    BY DEF LayoutInv
  <1>5. \A b \in Block : index[b].data # NoPos => (InFile(b, fs) <=> index[b].data[1] \in fs)
    BY <1>4 DEF LayoutOf, EntryOK, InFile
  <1>6. call' \in Call /\ UNCHANGED <<last, diskIndex, diskInfo>>
    BY BeginFacts DEF indexDb
  <1>7. ASSUME NEW f \in fs PROVE Gone(f)'
    <2>1. info'[f].nSize = 0 /\ f < last'
      BY SMTT(30), <1>2, <1>3, <1>6 DEF EmptyFile
    <2>2. ASSUME NEW c \in Block, index'[c].data # NoPos PROVE index'[c].data[1] # f
      BY SMTT(30), <1>3, <1>5, <2>2
    <2>. QED
      BY <2>1, <2>2 DEF Gone
  <1>8. ASSUME NEW c \in Block, NEW f \in File, Left(c, f) PROVE Left(c, f)'
    <2>1. Gone(f) /\ f \notin fs
      BY <1>2, <1>8 DEF Left, Gone
    <2>2. info'[f].nSize = 0 /\ f < last'
      BY <1>3, <1>6, <2>1 DEF Gone
    <2>3. ASSUME NEW d \in Block, index'[d].data # NoPos PROVE index'[d].data[1] # f
      BY <1>3, <2>1, <2>3 DEF Gone
    <2>4. Gone(f)'
      BY <2>2, <2>3 DEF Gone
    <2>. QED
      BY <1>3, <1>8, <2>1, <2>4 DEF Left
  <1>9. ASSUME NEW c \in Block PROVE LayoutOf(c)'
    <2>. DEFINE d == diskIndex[c]
                e == index[c]
    <2>1. /\ d.data # NoPos => d.data[1] \in File
          /\ d.undo # NoPos => d.undo[1] \in File
          /\ e.data # NoPos => e.data[1] \in File
      BY EntryTypes, PosFacts
    <2>2. EntryOK(e, info) /\ EntryOK(d, diskInfo)
      BY <1>4 DEF LayoutOf
    <2>3. EntryOK(index'[c], info')
      <3>1. CASE InFile(c, fs)
        BY <1>3, <3>1 DEF EntryOK
      <3>2. CASE ~InFile(c, fs)
        <4>1. index'[c] = e
          BY <1>3, <3>2
        <4>2. e.data # NoPos => info'[e.data[1]] = info[e.data[1]]
          BY <1>3, <1>5, <2>1, <3>2
        <4>. QED
          BY <2>2, <4>1, <4>2 DEF EntryOK
      <3>. QED
        BY <3>1, <3>2
    <2>4. (c \in dirtyIndex' /\ index'[c].data # NoPos) => index'[c].data[1] \in dirtyFiles'
      <3>1. (c \in dirtyIndex /\ e.data # NoPos) => e.data[1] \in dirtyFiles
        BY <1>4 DEF LayoutOf
      <3>. QED
        BY <1>3, <3>1
    <2>5. d.data \notin {NoPos, index'[c].data} => Left(c, d.data[1])'
      <3>. SUFFICES ASSUME d.data \notin {NoPos, index'[c].data} PROVE Left(c, d.data[1])'
        OBVIOUS
      <3>1. CASE d.data = e.data
        <4>1. InFile(c, fs) /\ d.data[1] \in fs
          <5>1. e.data # NoPos /\ index'[c] # e
            BY <3>1
          <5>2. InFile(c, fs)
            BY <1>3, <5>1
          <5>. QED
            BY <1>5, <3>1, <5>1, <5>2
        <4>2. Gone(d.data[1])' /\ c \in dirtyIndex'
          BY <1>3, <1>6, <1>7, <4>1
        <4>. QED
          BY <1>6, <4>2 DEF Left
      <3>2. CASE d.data # e.data
        <4>1. Left(c, d.data[1])
          BY <1>4, <3>2 DEF LayoutOf
        <4>. QED
          BY <1>6, <1>8, <2>1, <4>1
      <3>. QED
        BY <3>1, <3>2
    <2>6. d.undo \notin {NoPos, index'[c].undo} => Left(c, d.undo[1])'
      <3>. SUFFICES ASSUME d.undo \notin {NoPos, index'[c].undo} PROVE Left(c, d.undo[1])'
        OBVIOUS
      <3>1. CASE d.undo = e.undo
        <4>1. e.data # NoPos /\ d.undo[1] = e.data[1]
          BY <2>2, <3>1 DEF EntryOK
        <4>2. InFile(c, fs) /\ d.undo[1] \in fs
          <5>1. index'[c] # e
            BY <3>1
          <5>2. InFile(c, fs)
            BY <1>3, <5>1
          <5>. QED
            BY <1>5, <4>1, <5>2
        <4>3. Gone(d.undo[1])' /\ c \in dirtyIndex'
          BY <1>3, <1>6, <1>7, <4>2
        <4>. QED
          BY <1>6, <4>3 DEF Left
      <3>2. CASE d.undo # e.undo
        <4>1. Left(c, d.undo[1])
          BY <1>4, <3>2 DEF LayoutOf
        <4>. QED
          BY <1>6, <1>8, <2>1, <4>1
      <3>. QED
        BY <3>1, <3>2
    <2>. QED
      BY <1>6, <2>2, <2>3, <2>4, <2>5, <2>6 DEF LayoutOf
  <1>10. call'.stage \in {"index", "unlink"} => \A f \in call'.prune : Pruning(f)'
    <2>. SUFFICES ASSUME call'.stage = "index", NEW f \in call'.prune PROVE Pruning(f)'
      BY <1>1
    <2>1. f \in fs
      BY <1>1
    <2>2. Gone(f)' /\ f \in dirtyFiles'
      BY <1>3, <1>7, <2>1
    <2>. QED
      BY <2>2 DEF Pruning
  <1>. QED
    BY <1>1, <1>6, <1>9, <1>10 DEF LayoutInv

\* The index batch: what is written is consistent, and refers to no file that
\* is to be unlinked.
LEMMA LayoutIndex ==
    ASSUME TypeOK, LayoutInv, FlushIndex
    PROVE  LayoutInv'
  <1>1. /\ \A b \in Block : diskIndex'[b] = IF b \in dirtyIndex THEN index[b] ELSE diskIndex[b]
        /\ \A f \in File : diskInfo'[f] = IF f \in dirtyFiles THEN info[f] ELSE diskInfo[f]
        /\ dirtyIndex' = {} /\ dirtyFiles' = {} /\ UNCHANGED <<index, info, last>>
        /\ call.stage = "index"
    BY DEF FlushIndex
  <1>2. /\ call' \in Call /\ call'.stage = NextStage("index")
        /\ call'.stage # "idle" => call'.prune = call.prune
    BY ProceedFacts DEF FlushIndex
  <1>3. \A b \in Block : LayoutOf(b)
    BY DEF LayoutInv
  <1>4. \A f : Gone(f) => Gone(f)'
    BY <1>1 DEF Gone
  <1>5. ASSUME NEW c \in Block PROVE LayoutOf(c)'
    <2>. DEFINE d == diskIndex[c]
                e == index[c]
    <2>1. /\ d.data # NoPos => d.data[1] \in File
          /\ d.undo # NoPos => d.undo[1] \in File
          /\ e.data # NoPos => e.data[1] \in File
      BY EntryTypes, PosFacts
    <2>2. EntryOK(e, info) /\ EntryOK(d, diskInfo)
      BY <1>3 DEF LayoutOf
    <2>3. /\ d.data \notin {NoPos, e.data} => Left(c, d.data[1])
          /\ d.undo \notin {NoPos, e.undo} => Left(c, d.undo[1])
      BY <1>3 DEF LayoutOf
    <2>4. EntryOK(index'[c], info')
      BY <1>1, <2>2
    <2>5. EntryOK(diskIndex'[c], diskInfo')
      <3>1. CASE c \in dirtyIndex
        <4>1. diskIndex'[c] = e /\ (e.data # NoPos => e.data[1] \in dirtyFiles)
          BY <1>1, <1>3, <3>1 DEF LayoutOf
        <4>2. e.data # NoPos => diskInfo'[e.data[1]] = info[e.data[1]]
          BY <1>1, <2>1, <4>1
        <4>. QED
          BY <2>2, <4>1, <4>2 DEF EntryOK
      <3>2. CASE c \notin dirtyIndex /\ d.data # NoPos /\ d.data[1] \in dirtyFiles
        <4>1. diskIndex'[c] = d /\ diskInfo'[d.data[1]] = info[d.data[1]]
          BY <1>1, <2>1, <3>2
        <4>2. d.data = e.data
          BY <2>3, <3>2 DEF Left
        <4>3. d.undo # NoPos => d.undo = e.undo
          BY <2>2, <2>3, <3>2 DEF Left, EntryOK
        <4>. QED
          BY <2>2, <3>2, <4>1, <4>2, <4>3 DEF EntryOK
      <3>3. CASE c \notin dirtyIndex /\ (d.data # NoPos => d.data[1] \notin dirtyFiles)
        <4>1. diskIndex'[c] = d /\ (d.data # NoPos => diskInfo'[d.data[1]] = diskInfo[d.data[1]])
          BY <1>1, <2>1, <3>3
        <4>. QED
          BY <2>2, <4>1 DEF EntryOK
      <3>. QED
        BY <3>1, <3>2, <3>3
    <2>51. diskIndex'[c] \in {d, e} /\ index'[c] = e
      BY <1>1
    <2>52. \A f : Left(c, f) => Left(c, f)'
      BY <1>1, <1>4 DEF Left
    <2>6. ASSUME diskIndex'[c].data \notin {NoPos, index'[c].data}, NEW f, f = diskIndex'[c].data[1]
          PROVE  Left(c, f)'
      <3>1. diskIndex'[c] = d
        BY <2>51, <2>6
      <3>2. Left(c, f)
        BY <2>3, <2>51, <2>6, <3>1
      <3>. QED
        BY <2>52, <3>2
    <2>7. ASSUME diskIndex'[c].undo \notin {NoPos, index'[c].undo}, NEW f, f = diskIndex'[c].undo[1]
          PROVE  Left(c, f)'
      <3>1. diskIndex'[c] = d
        BY <2>51, <2>7
      <3>2. Left(c, f)
        BY <2>3, <2>51, <2>7, <3>1
      <3>. QED
        BY <2>52, <3>2
    <2>. QED
      BY <1>1, <2>4, <2>5, <2>6, <2>7 DEF LayoutOf
  <1>6. NextStage("index") \in {"unlink", "coins", "idle"} /\ (NextStage("index") = "unlink" => call.prune # {})
    BY StageFacts
  <1>7. ASSUME call'.stage = "unlink", NEW f \in call'.prune PROVE Pruning(f)'
    <2>1. Gone(f) /\ f \in dirtyFiles
      BY <1>1, <1>2, <1>7 DEF LayoutInv, Pruning
    <2>2. ASSUME NEW c \in Block, diskIndex'[c].data # NoPos, diskIndex'[c].data[1] = f PROVE FALSE
      <3>1. index[c].data # NoPos => index[c].data[1] # f
        BY <2>1 DEF Gone
      <3>2. c \notin dirtyIndex /\ diskIndex'[c] = diskIndex[c]
        BY <1>1, <2>2, <3>1
      <3>3. diskIndex[c].data \notin {NoPos, index[c].data} => Left(c, diskIndex[c].data[1])
        BY <1>3 DEF LayoutOf
      <3>. QED
        BY <2>1, <2>2, <3>1, <3>2, <3>3 DEF Left
    <2>. QED
      BY <1>4, <1>7, <2>1, <2>2 DEF Pruning
  <1>. QED
    BY <1>2, <1>5, <1>6, <1>7 DEF LayoutInv

\* A failed index batch leaves nothing dirty.
LEMMA LayoutIndexFails ==
    ASSUME TypeOK, LayoutInv, FlushIndexFails
    PROVE  LayoutInv'
  <1>1. /\ dirtyIndex' = {} /\ dirtyFiles' = {} /\ UNCHANGED <<index, info, last, diskIndex, diskInfo>>
        /\ call' \in Call /\ call'.stage = "idle"
    BY CallTypes DEF FlushIndexFails, GiveUp, indexDb
  <1>2. \A b \in Block : LayoutOf(b)
    BY DEF LayoutInv
  <1>3. \A c, f : Left(c, f) => Left(c, f)'
    BY <1>1 DEF Gone, Left
  <1>4. ASSUME NEW c \in Block PROVE LayoutOf(c)'
    <2>1. LayoutOf(c)
      BY <1>2
    <2>2. EntryOK(index[c], info) /\ EntryOK(diskIndex[c], diskInfo)
      BY <2>1 DEF LayoutOf
    <2>3. diskIndex[c].data \notin {NoPos, index[c].data} => Left(c, diskIndex[c].data[1])'
      BY <1>1, <1>3, <2>1 DEF LayoutOf
    <2>4. diskIndex[c].undo \notin {NoPos, index[c].undo} => Left(c, diskIndex[c].undo[1])'
      BY <1>1, <1>3, <2>1 DEF LayoutOf
    <2>. QED
      BY <1>1, <2>2, <2>3, <2>4 DEF LayoutOf
  <1>. QED
    BY <1>1, <1>4 DEF LayoutInv

\* The file that is unlinked, and the rest of the call.
LEMMA UnlinkFacts ==
    ASSUME TypeOK, LayoutInv, FlushUnlink
    PROVE  \E f \in call.prune :
              /\ f \in File /\ Pruning(f) /\ call.stage = "unlink"
              /\ blk' = [p \in Pos |-> IF p[1] = f THEN NoBlock ELSE blk[p]]
              /\ rev' = [p \in Pos |-> IF p[1] = f THEN NoBlock ELSE rev[p]]
              /\ unsynced' = {u \in unsynced : u[2] # f}
              /\ call' \in Call
              /\ \/ call'.stage \in {"coins", "idle"}
                 \/ call'.stage = "unlink" /\ call'.prune = call.prune \ {f} /\ call'.prune # {}
              /\ UNCHANGED <<index, dirtyIndex, info, dirtyFiles, last, coins, checkPrune, indexDb, coinsDb, history>>
  <1>. DEFINE f == Min(call.prune)
  <1>1. call \in Call /\ call.stage = "unlink" /\ call.prune # {} /\ call.prune \subseteq File
    BY DEF LayoutInv, FlushUnlink, Call
  <1>2. f \in call.prune
    BY <1>1, MinFacts, PosFacts
  <1>3. /\ blk' = [p \in Pos |-> IF p[1] = f THEN NoBlock ELSE blk[p]]
        /\ rev' = [p \in Pos |-> IF p[1] = f THEN NoBlock ELSE rev[p]]
        /\ unsynced' = {u \in unsynced : u[2] # f}
        /\ UNCHANGED <<index, dirtyIndex, info, dirtyFiles, last, coins, checkPrune, indexDb, coinsDb, history>>
        /\ IF call.prune = {f}
           THEN Proceed("unlink")
           ELSE call' = [call EXCEPT !.prune = @ \ {f}]
    BY DEF FlushUnlink, NoFailure
  <1>. HIDE DEF f
  <1>4. CASE call.prune = {f}
    <2>1. call' \in Call /\ call'.stage \in {"coins", "idle"}
      BY <1>3, <1>4, ProceedFacts, StageFacts
    <2>. QED
      BY <1>1, <1>2, <1>3, <2>1 DEF LayoutInv
  <1>5. CASE call.prune # {f}
    <2>1. call' \in Call /\ call'.stage = "unlink" /\ call'.prune = call.prune \ {f} /\ call'.prune # {}
      BY <1>1, <1>2, <1>3, <1>5 DEF Call
    <2>. QED
      BY <1>1, <1>2, <1>3, <2>1 DEF LayoutInv
  <1>. QED
    BY <1>4, <1>5

\* Unlinking a file changes neither the index nor the informations.
LEMMA LayoutUnlink ==
    ASSUME TypeOK, LayoutInv, FlushUnlink
    PROVE  LayoutInv'
  <1>1. /\ UNCHANGED <<index, dirtyIndex, info, dirtyFiles, last, indexDb>>
        /\ call.stage = "unlink" /\ call' \in Call
        /\ \/ call'.stage \in {"coins", "idle"}
           \/ call'.stage = "unlink" /\ call'.prune \subseteq call.prune /\ call'.prune # {}
    BY UnlinkFacts
  <1>2. CASE call'.stage \in {"coins", "idle"}
    BY <1>1, <1>2, LayoutKept
  <1>3. CASE call'.stage = "unlink" /\ call'.prune \subseteq call.prune /\ call'.prune # {}
    <2>1. \A b \in Block : LayoutOf(b)'
      BY <1>1 DEF LayoutInv, LayoutOf, Left, Gone, EntryOK, indexDb
    <2>2. \A f \in call'.prune : Pruning(f)'
      BY <1>1, <1>3 DEF LayoutInv, Pruning, Gone, indexDb
    <2>. QED
      BY <1>1, <1>3, <2>1, <2>2 DEF LayoutInv
  <1>. QED
    BY <1>1, <1>2, <1>3

\* After a restart memory is what the index database says.
LEMMA LayoutRestart ==
    ASSUME TypeOK, LayoutInv, LoadBlockIndexDB
    PROVE  LayoutInv'
  <1>1. /\ index' = diskIndex /\ info' = diskInfo /\ diskIndex' = diskIndex /\ diskInfo' = diskInfo
        /\ dirtyIndex' = {} /\ call' \in Call /\ call'.stage = "idle"
    BY CallTypes DEF LoadBlockIndexDB, indexDb
  <1>2. \A b \in Block : EntryOK(diskIndex[b], diskInfo)
    BY DEF LayoutInv, LayoutOf
  <1>3. \A b \in Block : LayoutOf(b)'
    BY <1>1, <1>2 DEF LayoutOf
  <1>. QED
    BY <1>1, <1>3 DEF LayoutInv

\* Every step keeps the layout.
LEMMA LayoutNext == TypeOK /\ LayoutInv /\ [Next]_vars => LayoutInv'
  <1>. SUFFICES ASSUME TypeOK, LayoutInv, [Next]_vars PROVE LayoutInv'
    OBVIOUS
  <1>0. CASE UNCHANGED vars
    <2>1. UNCHANGED <<index, dirtyIndex, info, dirtyFiles, last, call, diskIndex, diskInfo>>
      BY <1>0 DEF vars, memory, indexDb
    <2>2. \A b \in Block : LayoutOf(b)'
      BY <2>1 DEF LayoutInv, LayoutOf, Left, Gone, EntryOK
    <2>3. call.stage \in {"index", "unlink"} => \A f \in call.prune : Pruning(f)'
      BY <2>1 DEF LayoutInv, Pruning, Gone
    <2>. QED
      BY <2>1, <2>2, <2>3 DEF LayoutInv
  <1>1. ASSUME NEW b \in Block, NEW written \in BOOLEAN, AcceptBlock(b, written) \/ AcceptBlockNoSpace(b)
        PROVE  LayoutInv'
    BY <1>1, LayoutAccept
  <1>2. ASSUME NEW b \in Block, ConnectTip(b) PROVE LayoutInv'
    <2>1. CASE index[b].undo # NoPos
      BY <1>2, <2>1, ConnectFacts, LayoutKept
    <2>2. CASE index[b].undo = NoPos
      BY <1>2, <2>2, ConnectFacts, LayoutUndo
    <2>. QED
      BY <2>1, <2>2
  <1>3. ASSUME NEW b \in Block, ConnectTipNoUndo(b) PROVE LayoutInv'
    <2>1. /\ index[b].data # NoPos /\ index[b].undo = NoPos /\ FindUndoPos(b)
          /\ UNCHANGED <<index, dirtyIndex, last, indexDb>>
          /\ call' \in Call /\ call'.stage = "idle"
      BY <1>3, CallTypes DEF ConnectTipNoUndo, ReadBlockFromDisk, Ready
    <2>. QED
      BY <2>1, LayoutUndo
  <1>4. CASE DisconnectTip
    <2>1. /\ call' \in Call /\ call'.stage = "begin"
      <3>1. Parent[tip] \in Block
        BY <1>4, PathParent DEF DisconnectTip, TypeOK
      <3>. QED
        BY <1>4, <3>1, CallTypes DEF DisconnectTip
    <2>. QED
      BY <1>4, <2>1, LayoutKept DEF DisconnectTip
  <1>5. ASSUME NEW mode, FlushStateToDisk(mode) PROVE LayoutInv'
    <2>1. call' \in Call /\ call'.stage = "begin"
      BY <1>5, CallTypes DEF FlushStateToDisk
    <2>. QED
      BY <1>5, <2>1, LayoutKept DEF FlushStateToDisk
  <1>6. CASE FlushCoins
    <2>1. call' \in Call /\ call'.stage = "idle"
      BY <1>6, ProceedFacts, StageFacts DEF FlushCoins
    <2>. QED
      BY <1>6, <2>1, LayoutKept DEF FlushCoins
  <1>7. CASE FlushCoinsFails \/ FlushCoinsNoSpace
    BY <1>7, CallTypes, LayoutKept DEF FlushCoinsFails, FlushCoinsNoSpace, GiveUp
  <1>8. CASE Crash \/ PowerLoss
    BY <1>8, LayoutRestart DEF Crash, PowerLoss
  <1>. QED
    BY <1>0, <1>1, <1>2, <1>3, <1>4, <1>5, <1>6, <1>7, <1>8,
       LayoutPrune, LayoutIndex, LayoutIndexFails, LayoutUnlink DEF Next

----------------------------------------------------------------------------
(***************************************************************************)
(* The records of the files.                                               *)
(***************************************************************************)
\* The position of a new block is in no entry, in memory or on disk.
LEMMA FreshBlockPos ==
    ASSUME TypeOK, LayoutInv, \E f \in File : Fits(f), NEW c \in Block
    PROVE  <<BlockFile, info[BlockFile].nSize>> \notin {index[c].data, diskIndex[c].data}
  <1>. DEFINE f == BlockFile
              n == info[BlockFile].nSize
  <1>1. f \in File /\ f >= last /\ last \in Nat /\ f \in Nat /\ n \in Nat
    BY BlockFileFacts, EntryTypes, PosFacts DEF TypeOK
  <1>2. LayoutOf(c)
    BY DEF LayoutInv
  <1>. HIDE DEF f
  <1>3. <<f, n>> # NoPos /\ <<f, n>>[1] = f /\ <<f, n>>[2] = n
    BY DEF NoPos
  <1>4. index[c].data # <<f, n>>
    <2>1. index[c].data # NoPos => index[c].data[2] < info[index[c].data[1]].nSize
      BY <1>2 DEF LayoutOf, EntryOK
    <2>2. ~(n < info[f].nSize)
      BY SMT, <1>1 DEF f
    <2>. QED
      BY <1>3, <2>1, <2>2
  <1>5. diskIndex[c].data # <<f, n>>
    <2>1. ~Gone(f)
      BY SMT, <1>1 DEF Gone
    <2>. QED
      BY <1>2, <1>3, <1>4, <2>1 DEF LayoutOf, Left
  <1>. QED
    BY <1>4, <1>5 DEF f

\* The position of a new undo record likewise.
LEMMA FreshUndoPos ==
    ASSUME TypeOK, LayoutInv, NEW b \in Block, index[b].data # NoPos, UndoPos(b) \in Pos, NEW c \in Block
    PROVE  UndoPos(b) \notin {index[c].undo, diskIndex[c].undo}
  <1>. DEFINE f == index[b].data[1]
              n == info[f].nUndoSize
  <1>1. f \in File /\ n \in Nat /\ UndoPos(b) = <<f, n>>
    BY EntryTypes, PosFacts DEF UndoPos
  <1>2. LayoutOf(c)
    BY DEF LayoutInv
  <1>3. ~Gone(f)
    BY DEF Gone
  <1>4. n = info[f].nUndoSize
    OBVIOUS
  <1>. HIDE DEF f, n
  <1>5. <<f, n>> # NoPos /\ <<f, n>>[1] = f /\ <<f, n>>[2] = n
    BY DEF NoPos
  <1>6. index[c].undo # <<f, n>>
    <2>1. index[c].undo # NoPos => index[c].undo[2] < info[index[c].undo[1]].nUndoSize
      BY <1>2 DEF LayoutOf, EntryOK
    <2>2. ~(n < info[f].nUndoSize)
      BY SMT, <1>1, <1>4
    <2>. QED
      BY <1>5, <2>1, <2>2
  <1>7. diskIndex[c].undo # <<f, n>>
    BY <1>2, <1>3, <1>5, <1>6 DEF LayoutOf, Left
  <1>. QED
    BY <1>1, <1>6, <1>7

\* A step that writes no record keeps what the records say.
LEMMA RecordKept ==
    ASSUME RecordInv, UNCHANGED <<index, diskIndex, blk, rev, unsynced, last, powerLost>>,
           failures \subseteq failures', call'.stage # "index"
    PROVE  RecordInv'
  BY DEF RecordInv, RecordOf, UndoOf, Unsynced

\* A block is written, or the write fails, or there is no space for it.
LEMMA RecordAccept ==
    ASSUME TypeOK, LayoutInv, RecordInv, NEW b \in Block, NEW written \in BOOLEAN,
           AcceptBlock(b, written) \/ AcceptBlockNoSpace(b)
    PROVE  RecordInv'
  <1>. DEFINE pos == <<BlockFile, info[BlockFile].nSize>>
  <1>1. /\ BlockFile \in File /\ pos \in Pos /\ last' = BlockFile /\ call'.stage # "index"
        /\ failures \subseteq failures' /\ UNCHANGED <<rev, diskIndex, powerLost>>
        /\ \A c \in Block : pos \notin {index[c].data, diskIndex[c].data}
    <2>1. \E f \in File : Fits(f)
      BY AcceptFacts
    <2>2. BlockFile \in File /\ pos \in Pos
      BY <2>1, BlockFileFacts
    <2>3. \A c \in Block : pos \notin {index[c].data, diskIndex[c].data}
      BY <2>1, FreshBlockPos
    <2>4. /\ last' = BlockFile /\ call'.stage # "index"
          /\ failures \subseteq failures' /\ UNCHANGED <<rev, diskIndex, powerLost>>
      BY AcceptFacts DEF indexDb
    <2>. QED
      BY <2>2, <2>3, <2>4
  <1>2. /\ \A c \in Block \ {b} : index'[c] = index[c]
        /\ index'[b].undo = index[b].undo
        /\ index'[b].data \in {NoPos, pos}
    BY AcceptEntries
  <1>3. /\ \A p \in Pos \ {pos} : blk'[p] = blk[p]
        /\ ("block" \notin failures' /\ index'[b].data # NoPos) => blk'[pos] = b
    <2>1. CASE AcceptBlock(b, written)
      <3>1. CASE written
        <4>1. blk' = [blk EXCEPT ![pos] = b]
          BY <2>1, <3>1 DEF AcceptBlock
        <4>. QED
          BY <1>1, <4>1 DEF TypeOK
      <3>2. CASE ~written
        BY <2>1, <3>2 DEF AcceptBlock, OnlyFails, CanFail
      <3>. QED
        BY <3>1, <3>2
    <2>2. CASE AcceptBlockNoSpace(b)
      <3>1. blk' = blk /\ index' = [index EXCEPT ![b].known = TRUE]
        BY <2>2 DEF AcceptBlockNoSpace
      <3>2. index[b].data = NoPos /\ index[b] \in Entry /\ index \in [Block -> Entry]
        BY AcceptFacts, EntryTypes DEF TypeOK
      <3>3. index'[b].data = NoPos
        BY <3>1, <3>2 DEF Entry
      <3>. QED
        BY <3>1, <3>3
    <2>. QED
      BY <2>1, <2>2
  <1>4. /\ unsynced' \subseteq LeaveFile \cup {<<"blk", pos[1], pos[2]>>}
    BY DEF AcceptBlock, AcceptBlockNoSpace
  <1>5. \A c \in Block : RecordOf(c)
    BY DEF RecordInv
  <1>6. \A c \in Block : {index[c].data, diskIndex[c].data} \subseteq Pos \cup {NoPos}
    BY EntryTypes
  <1>. HIDE DEF pos
  <1>7. \A p \in Pos \ {pos} : Unsynced(p)' => Unsynced(p) /\ (p[1] = last => last' = last)
    <2>. SUFFICES ASSUME NEW p \in Pos \ {pos}, <<"blk", p[1], p[2]>> \in unsynced'
                  PROVE  Unsynced(p) /\ (p[1] = last => last' = last)
      BY DEF Unsynced
    <2>1. <<"blk", p[1], p[2]>> # <<"blk", pos[1], pos[2]>>
      BY <1>1, PosFacts
    <2>2. <<"blk", p[1], p[2]>> \in LeaveFile
      BY <1>4, <2>1
    <2>. QED
      BY <1>1, <2>2 DEF LeaveFile, FlushBlockFile, Unsynced
  <1>8. ASSUME NEW c \in Block PROVE RecordOf(c)'
    <2>1. (index[c].undo # NoPos => UndoOf(c, index[c].undo))'
      <3>1. index'[c].undo = index[c].undo
        BY <1>2
      <3>. QED
        BY <1>1, <1>5, <3>1 DEF RecordOf, UndoOf
    <2>2. (diskIndex[c].undo # NoPos => UndoOf(c, diskIndex[c].undo))'
      BY <1>1, <1>5 DEF RecordOf, UndoOf
    <2>3. ASSUME NEW p \in Pos, p = diskIndex[c].data
          PROVE  ("block" \notin failures' => blk'[p] = c) /\ ~Unsynced(p)'
      <3>1. p # pos /\ p # NoPos
        BY <1>1, <2>3, PosFacts
      <3>2. ("block" \notin failures => blk[p] = c) /\ ~Unsynced(p)
        BY <1>5, <2>3, <3>1 DEF RecordOf
      <3>. QED
        BY <1>1, <1>3, <1>7, <3>1, <3>2
    <2>4. ASSUME NEW p \in Pos, p = index'[c].data
          PROVE  /\ "block" \notin failures' => blk'[p] = c
                 /\ Unsynced(p)' => p[1] = last'
      <3>1. CASE p = pos
        <4>1. c = b /\ index'[b].data # NoPos
          BY <1>1, <1>2, <2>4, <3>1, PosFacts
        <4>2. p[1] = last'
          BY <1>1, <3>1 DEF pos
        <4>. QED
          BY <1>3, <3>1, <4>1, <4>2
      <3>2. CASE p # pos
        <4>1. p = index[c].data /\ p # NoPos
          BY <1>2, <2>4, <3>2, PosFacts
        <4>2. /\ "block" \notin failures => blk[p] = c
              /\ Unsynced(p) => p[1] = last
          BY <1>5, <4>1 DEF RecordOf
        <4>. QED
          BY <1>1, <1>3, <1>7, <3>2, <4>2
      <3>. QED
        BY <3>1, <3>2
    <2>5. index'[c].data \in Pos \cup {NoPos} /\ diskIndex[c].data \in Pos \cup {NoPos}
      BY <1>1, <1>2, <1>6
    <2>. QED
      BY <1>1, <2>1, <2>2, <2>3, <2>4, <2>5 DEF RecordOf
  <1>. QED
    BY <1>8 DEF RecordInv

\* An undo record is written.
LEMMA RecordUndo ==
    ASSUME TypeOK, LayoutInv, RecordInv, NEW b \in Block, ConnectTip(b)
    PROVE  RecordInv'
  <1>1. /\ index[b].data # NoPos /\ call'.stage = "begin"
        /\ UNCHANGED <<last, blk, diskIndex, failures, powerLost>>
    BY ConnectFacts DEF indexDb, history
  <1>2. CASE index[b].undo # NoPos
    BY <1>1, <1>2, ConnectFacts, RecordKept
  <1>3. CASE index[b].undo = NoPos
    <2>. DEFINE pos == UndoPos(b)
    <2>1. /\ FindUndoPos(b) /\ rev' = [rev EXCEPT ![pos] = b]
          /\ unsynced' = unsynced \cup {<<"rev", pos[1], pos[2]>>}
          /\ index' = [index EXCEPT ![b].undo = pos]
      BY <1>3, ConnectFacts
    <2>2. pos \in Pos /\ \A c \in Block : pos \notin {index[c].undo, diskIndex[c].undo}
      BY <1>1, <2>1, FreshUndoPos DEF FindUndoPos
    <2>3. /\ \A c \in Block \ {b} : index'[c] = index[c]
          /\ index'[b].data = index[b].data /\ index'[b].undo = pos
      BY <1>1, <2>1, ConnectEntries
    <2>. HIDE DEF pos
    <2>4. rev'[pos] = b /\ \A p \in Pos \ {pos} : rev'[p] = rev[p]
      BY <2>1, <2>2 DEF TypeOK
    <2>5. \A p : Unsynced(p)' <=> Unsynced(p)
      BY <2>1 DEF Unsynced
    <2>6. ASSUME NEW c \in Block PROVE RecordOf(c)'
      <3>1. RecordOf(c) /\ index'[c].data = index[c].data
        BY <2>3 DEF RecordInv
      <3>2. {index[c].undo, diskIndex[c].undo} \subseteq Pos \cup {NoPos}
        BY EntryTypes
      <3>3. ASSUME NEW p \in Pos, p = diskIndex[c].undo PROVE UndoOf(c, p)'
        BY <1>1, <2>2, <2>4, <3>1, <3>3, PosFacts DEF RecordOf, UndoOf
      <3>4. ASSUME NEW p \in Pos, p = index'[c].undo PROVE UndoOf(c, p)'
        <4>1. CASE p = pos
          <5>1. c = b
            BY <2>2, <2>3, <3>4, <4>1
          <5>. QED
            BY <2>4, <4>1, <5>1 DEF UndoOf
        <4>2. CASE p # pos
          <5>1. p = index[c].undo
            BY <2>3, <3>4, <4>2
          <5>. QED
            BY <1>1, <2>4, <3>1, <4>2, <5>1, PosFacts DEF RecordOf, UndoOf
        <4>. QED
          BY <4>1, <4>2
      <3>5. index'[c].undo \in Pos \cup {NoPos}
        BY <2>2, <2>3, <3>2
      <3>6. (index[c].undo # NoPos => UndoOf(c, index[c].undo))'
        BY <3>4, <3>5
      <3>7. (diskIndex[c].undo # NoPos => UndoOf(c, diskIndex[c].undo))'
        BY <1>1, <3>2, <3>3
      <3>8. (index[c].data # NoPos =>
               /\ "block" \notin failures => blk[index[c].data] = c
               /\ Unsynced(index[c].data) => (index[c].data[1] = last /\ call.stage # "index"))'
        BY <1>1, <2>5, <3>1 DEF RecordOf
      <3>9. (diskIndex[c].data # NoPos =>
               /\ "block" \notin failures => blk[diskIndex[c].data] = c
               /\ ~Unsynced(diskIndex[c].data))'
        BY <1>1, <2>5, <3>1 DEF RecordOf
      <3>. QED
        BY <3>6, <3>7, <3>8, <3>9 DEF RecordOf
    <2>. QED
      BY <2>6 DEF RecordInv
  <1>. QED
    BY <1>2, <1>3

\* Pruning forgets positions, and FlushBlockFile comes before the index batch.
LEMMA RecordPrune ==
    ASSUME TypeOK, LayoutInv, RecordInv, FlushBegin
    PROVE  RecordInv'
  <1>1. PICK fs \in SUBSET Prunable :
           /\ PruneOneBlockFile(fs)
           /\ \/ call'.stage = "idle" /\ unsynced' = unsynced
              \/ call'.stage = "index" /\ unsynced' = FlushBlockFile(unsynced)
    BY BeginFacts
  <1>2. UNCHANGED <<last, diskIndex, blk, rev, powerLost>> /\ failures \subseteq failures'
    BY BeginFacts DEF indexDb
  <1>3. fs \in SUBSET File
    BY DEF Prunable
  <1>4. \A c \in Block : \/ index'[c] = index[c]
                         \/ index'[c].data = NoPos /\ index'[c].undo = NoPos
    BY SMTT(30), <1>1, <1>3, PruneFacts
  <1>5. \A p \in Pos : Unsynced(p)' => Unsynced(p) /\ (call'.stage = "index" => p[1] # last)
    <2>1. \A p \in Pos : <<"blk", p[1], p[2]>>[2] = p[1]
      OBVIOUS
    <2>. QED
      BY <1>1, <2>1 DEF Unsynced, FlushBlockFile
  <1>6. ASSUME NEW c \in Block PROVE RecordOf(c)'
    <2>1. RecordOf(c)
      BY DEF RecordInv
    <2>2. {index[c].data, diskIndex[c].data} \subseteq Pos \cup {NoPos}
      BY EntryTypes
    <2>3. (index[c].undo # NoPos => UndoOf(c, index[c].undo))'
      BY <1>2, <1>4, <2>1 DEF RecordOf, UndoOf
    <2>4. (diskIndex[c].undo # NoPos => UndoOf(c, diskIndex[c].undo))'
      BY <1>2, <2>1 DEF RecordOf, UndoOf
    <2>5. ASSUME NEW p \in Pos, p = index'[c].data
          PROVE  /\ "block" \notin failures' => blk'[p] = c
                 /\ Unsynced(p)' => (p[1] = last' /\ call'.stage # "index")
      <3>1. p = index[c].data /\ p # NoPos
        BY <1>4, <2>5, PosFacts
      <3>2. /\ "block" \notin failures => blk[p] = c
            /\ Unsynced(p) => p[1] = last
        BY <2>1, <3>1 DEF RecordOf
      <3>. QED
        BY <1>2, <1>5, <3>2
    <2>6. ASSUME NEW p \in Pos, p = diskIndex[c].data
          PROVE  ("block" \notin failures' => blk'[p] = c) /\ ~Unsynced(p)'
      BY <1>2, <1>5, <2>1, <2>6, PosFacts DEF RecordOf
    <2>7. index'[c].data \in Pos \cup {NoPos}
      BY <1>4, <2>2
    <2>. QED
      BY <1>2, <2>2, <2>3, <2>4, <2>5, <2>6, <2>7 DEF RecordOf
  <1>. QED
    BY <1>6 DEF RecordInv

\* The index batch writes positions of committed records.
LEMMA RecordIndex ==
    ASSUME TypeOK, LayoutInv, RecordInv, FlushIndex
    PROVE  RecordInv'
  <1>1. /\ \A c \in Block : diskIndex'[c] \in {index[c], diskIndex[c]}
        /\ UNCHANGED <<index, last, blk, rev, unsynced, failures, powerLost>>
        /\ call.stage = "index"
    BY DEF FlushIndex, NoFailure, history, files
  <1>2. call'.stage # "index"
    BY ProceedFacts, StageFacts DEF FlushIndex
  <1>3. ASSUME NEW c \in Block PROVE RecordOf(c)'
    <2>1. RecordOf(c)
      BY DEF RecordInv
    <2>2. (index[c].undo # NoPos => UndoOf(c, index[c].undo))'
      BY <1>1, <2>1 DEF RecordOf, UndoOf
    <2>3. (diskIndex[c].undo # NoPos => UndoOf(c, diskIndex[c].undo))'
      BY <1>1, <2>1 DEF RecordOf, UndoOf
    <2>4. (index[c].data # NoPos =>
             /\ "block" \notin failures => blk[index[c].data] = c
             /\ Unsynced(index[c].data) => (index[c].data[1] = last /\ call.stage # "index"))'
      BY <1>1, <1>2, <2>1 DEF RecordOf, Unsynced
    <2>5. (diskIndex[c].data # NoPos =>
             /\ "block" \notin failures => blk[diskIndex[c].data] = c
             /\ ~Unsynced(diskIndex[c].data))'
      BY <1>1, <2>1 DEF RecordOf, Unsynced
    <2>. QED
      BY <2>2, <2>3, <2>4, <2>5 DEF RecordOf
  <1>. QED
    BY <1>3 DEF RecordInv

\* The file that is unlinked holds no record that an entry refers to.
LEMMA RecordUnlink ==
    ASSUME TypeOK, LayoutInv, RecordInv, FlushUnlink
    PROVE  RecordInv'
  <1>1. PICK f \in call.prune :
              /\ f \in File /\ Pruning(f) /\ call.stage = "unlink"
              /\ blk' = [p \in Pos |-> IF p[1] = f THEN NoBlock ELSE blk[p]]
              /\ rev' = [p \in Pos |-> IF p[1] = f THEN NoBlock ELSE rev[p]]
              /\ unsynced' = {u \in unsynced : u[2] # f}
              /\ call'.stage # "index"
              /\ UNCHANGED <<index, last, diskIndex, powerLost, failures>>
    BY UnlinkFacts DEF indexDb, history
  <1>2. \A p \in Pos : p[1] # f => blk'[p] = blk[p] /\ rev'[p] = rev[p]
    BY <1>1
  <1>3. \A p : Unsynced(p)' => Unsynced(p)
    BY <1>1 DEF Unsynced
  <1>4. ASSUME NEW c \in Block PROVE RecordOf(c)'
    <2>1. RecordOf(c) /\ LayoutOf(c)
      BY DEF RecordInv, LayoutInv
    <2>2. /\ index[c].data # NoPos => index[c].data \in Pos /\ index[c].data[1] # f
          /\ diskIndex[c].data # NoPos => diskIndex[c].data \in Pos /\ diskIndex[c].data[1] # f
      BY <1>1, EntryTypes DEF Pruning, Gone
    <2>3. /\ index[c].undo # NoPos => index[c].undo \in Pos /\ index[c].undo[1] # f
          /\ diskIndex[c].undo # NoPos => diskIndex[c].undo \in Pos /\ diskIndex[c].undo[1] # f
      BY <2>1, <2>2, EntryTypes DEF LayoutOf, EntryOK
    <2>4. (index[c].undo # NoPos => UndoOf(c, index[c].undo))'
      BY <1>1, <1>2, <2>1, <2>3 DEF RecordOf, UndoOf
    <2>5. (diskIndex[c].undo # NoPos => UndoOf(c, diskIndex[c].undo))'
      BY <1>1, <1>2, <2>1, <2>3 DEF RecordOf, UndoOf
    <2>6. (index[c].data # NoPos =>
             /\ "block" \notin failures => blk[index[c].data] = c
             /\ Unsynced(index[c].data) => (index[c].data[1] = last /\ call.stage # "index"))'
      BY <1>1, <1>2, <1>3, <2>1, <2>2 DEF RecordOf
    <2>7. (diskIndex[c].data # NoPos =>
             /\ "block" \notin failures => blk[diskIndex[c].data] = c
             /\ ~Unsynced(diskIndex[c].data))'
      BY <1>1, <1>2, <1>3, <2>1, <2>2 DEF RecordOf
    <2>. QED
      BY <2>4, <2>5, <2>6, <2>7 DEF RecordOf
  <1>. QED
    BY <1>4 DEF RecordInv

\* A restart finds the records of the entries on disk, but for undo records
\* that a power loss took.
LEMMA RecordRestart ==
    ASSUME TypeOK, RecordInv, Crash \/ PowerLoss
    PROVE  RecordInv'
  <1>1. index' = diskIndex /\ diskIndex' = diskIndex /\ failures' = failures /\ call'.stage # "index"
    BY CallTypes DEF Crash, PowerLoss, LoadBlockIndexDB, indexDb
  <1>2. \A p \in Pos : Unsynced(p)' => Unsynced(p)
    BY DEF Crash, PowerLoss, Unsynced, files
  <1>3. \A p \in Pos : ~Unsynced(p) => blk'[p] = blk[p]
    BY DEF Crash, PowerLoss, Unsynced, files
  <1>4. /\ powerLost => powerLost'
        /\ \A p \in Pos : rev'[p] = rev[p] \/ (powerLost' /\ rev'[p] = NoBlock)
    <2>1. CASE Crash
      BY <2>1 DEF Crash, files
    <2>2. CASE PowerLoss
      <3>1. powerLost' = TRUE
        BY <2>2 DEF PowerLoss
      <3>2. \A p \in Pos : rev'[p] = rev[p] \/ rev'[p] = NoBlock
        BY <2>2 DEF PowerLoss
      <3>. QED
        BY <3>1, <3>2
    <2>. QED
      BY <2>1, <2>2
  <1>5. ASSUME NEW c \in Block PROVE RecordOf(c)'
    <2>1. RecordOf(c) /\ diskIndex[c].undo \in Pos \cup {NoPos} /\ diskIndex[c].data \in Pos \cup {NoPos}
      BY EntryTypes DEF RecordInv
    <2>2. ASSUME NEW p \in Pos, p = diskIndex[c].undo PROVE UndoOf(c, p)'
      BY <1>4, <2>1, <2>2, PosFacts DEF RecordOf, UndoOf
    <2>3. ASSUME NEW p \in Pos, p = diskIndex[c].data
          PROVE  ("block" \notin failures' => blk'[p] = c) /\ ~Unsynced(p)'
      BY <1>1, <1>2, <1>3, <2>1, <2>3, PosFacts DEF RecordOf
    <2>. QED
      BY <1>1, <2>1, <2>2, <2>3 DEF RecordOf
  <1>. QED
    BY <1>5 DEF RecordInv

\* Every step keeps what the records say.
LEMMA RecordNext == TypeOK /\ LayoutInv /\ RecordInv /\ [Next]_vars => RecordInv'
  <1>. SUFFICES ASSUME TypeOK, LayoutInv, RecordInv, [Next]_vars PROVE RecordInv'
    OBVIOUS
  <1>0. CASE UNCHANGED vars
    BY <1>0 DEF vars, memory, indexDb, files, history, RecordInv, RecordOf, UndoOf, Unsynced
  <1>1. ASSUME NEW b \in Block, NEW written \in BOOLEAN, AcceptBlock(b, written) \/ AcceptBlockNoSpace(b)
        PROVE  RecordInv'
    BY <1>1, RecordAccept
  <1>2. ASSUME NEW b \in Block, ConnectTip(b) PROVE RecordInv'
    BY <1>2, RecordUndo
  <1>3. ASSUME NEW b \in Block, ConnectTipNoUndo(b) PROVE RecordInv'
    BY <1>3, CallTypes, RecordKept DEF ConnectTipNoUndo, Ready, OnlyFails, CanFail, files, indexDb
  <1>4. CASE DisconnectTip
    <2>1. call'.stage = "begin"
      <3>1. Parent[tip] \in Block
        BY <1>4, PathParent DEF DisconnectTip, TypeOK
      <3>. QED
        BY <1>4, <3>1, CallTypes DEF DisconnectTip
    <2>. QED
      BY <1>4, <2>1, RecordKept DEF DisconnectTip, NoFailure, history, files, indexDb
  <1>5. ASSUME NEW mode, FlushStateToDisk(mode) PROVE RecordInv'
    <2>1. call'.stage = "begin"
      BY <1>5, CallTypes DEF FlushStateToDisk
    <2>. QED
      BY <1>5, <2>1, RecordKept DEF FlushStateToDisk, NoFailure, history, files, indexDb
  <1>6. CASE FlushCoins
    <2>1. call'.stage = "idle"
      BY <1>6, ProceedFacts, StageFacts DEF FlushCoins
    <2>. QED
      BY <1>6, <2>1, RecordKept DEF FlushCoins, NoFailure, history, files, indexDb
  <1>7. CASE FlushIndexFails \/ FlushCoinsFails \/ FlushCoinsNoSpace
    BY <1>7, CallTypes, RecordKept
       DEF FlushIndexFails, FlushCoinsFails, FlushCoinsNoSpace, GiveUp, OnlyFails, CanFail, files, indexDb
  <1>8. CASE Crash \/ PowerLoss
    BY <1>8, RecordRestart
  <1>. QED
    BY <1>0, <1>1, <1>2, <1>3, <1>4, <1>5, <1>6, <1>7, <1>8,
       RecordPrune, RecordIndex, RecordUnlink DEF Next

----------------------------------------------------------------------------
(***************************************************************************)
(* What is on disk when an index batch has been written.                   *)
(***************************************************************************)
\* The best block moves to the parent.
LEMMA BestOfParent ==
    ASSUME NEW ix, NEW b \in Block \ {Genesis}, HasParents(ix), HasBest(ix, b)
    PROVE  HasBest(ix, Parent[b])
  <1>1. Path[Parent[b]] \subseteq Path[b]
    BY PathParent
  <1>. QED
    BY <1>1 DEF HasBest, HasParents, Undoable

\* A step that leaves the two indices alone.
LEMMA BatchKept ==
    ASSUME BatchInv, UNCHANGED <<index, diskIndex, dirtyIndex, pruned>>, failures \subseteq failures',
           "index" \notin failures' =>
              /\ call'.stage \in {"unlink", "coins"} => dirtyIndex = {}
              /\ HasBest(index, coins'.best)
              /\ HasBest(diskIndex, db'.best) /\ HasBest(diskIndex, dbSynced'.best)
    PROVE  BatchInv'
  <1>. SUFFICES ASSUME "index" \notin failures' PROVE BatchInv'
    BY DEF BatchInv
  <1>1. /\ HasParents(index) /\ HasParents(diskIndex) /\ \A b \in Block : BatchOf(b)
    BY DEF BatchInv
  <1>2. HasParents(index)' /\ HasParents(diskIndex)'
    BY <1>1 DEF HasParents
  <1>3. \A b \in Block : BatchOf(b)'
    BY <1>1 DEF BatchOf
  <1>4. HasBest(index, coins.best)' /\ HasBest(diskIndex, db.best)' /\ HasBest(diskIndex, dbSynced.best)'
    BY DEF HasBest, Undoable
  <1>. QED
    BY <1>2, <1>3, <1>4 DEF BatchInv

\* A step that leaves the coins and the index database alone, and forgets
\* neither a header nor, without pruning the block, an undo record.
LEMMA BatchGrows ==
    ASSUME TypeOK, BatchInv, UNCHANGED <<diskIndex, db, dbSynced>>, failures \subseteq failures',
           dirtyIndex \subseteq dirtyIndex', pruned \subseteq pruned',
           call'.stage \notin {"unlink", "coins"},
           \A c \in Block : /\ index[c].known => index'[c].known
                            /\ index[c].undo # NoPos => (index'[c].undo # NoPos \/ c \in pruned')
                            /\ c \notin dirtyIndex' => index'[c] = index[c],
           HasParents(index) => HasParents(index)',
           HasBest(index, coins.best) => HasBest(index, coins.best)'
    PROVE  BatchInv'
  <1>. SUFFICES ASSUME "index" \notin failures' PROVE BatchInv'
    BY DEF BatchInv
  <1>1. /\ HasParents(index) /\ HasParents(diskIndex) /\ \A b \in Block : BatchOf(b)
        /\ HasBest(index, coins.best)
        /\ HasBest(diskIndex, db.best) /\ HasBest(diskIndex, dbSynced.best)
    BY DEF BatchInv
  <1>2. HasParents(diskIndex)'
    BY <1>1 DEF HasParents
  <1>3. \A b \in Block : BatchOf(b)'
    BY <1>1 DEF BatchOf
  <1>4. HasBest(diskIndex, db.best)' /\ HasBest(diskIndex, dbSynced.best)'
    BY <1>1 DEF HasBest, Undoable
  <1>. QED
    BY <1>1, <1>2, <1>3, <1>4 DEF BatchInv

\* A block is received.
LEMMA BatchAccept ==
    ASSUME TypeOK, LayoutInv, BatchInv, NEW b \in Block, NEW written \in BOOLEAN,
           AcceptBlock(b, written) \/ AcceptBlockNoSpace(b)
    PROVE  BatchInv'
  <1>1. /\ b # Genesis /\ index[Parent[b]].known /\ dirtyIndex' = dirtyIndex \cup {b}
        /\ failures \subseteq failures' /\ call'.stage \notin {"unlink", "coins"}
        /\ UNCHANGED <<coins, diskIndex, db, dbSynced, pruned>>
    BY AcceptFacts DEF indexDb, coinsDb
  <1>2. /\ \A c \in Block \ {b} : index'[c] = index[c]
        /\ index'[b].known /\ index'[b].undo = index[b].undo
    BY AcceptEntries
  <1>3. \A c \in Block : /\ index[c].known => index'[c].known
                         /\ index[c].undo = index'[c].undo
                         /\ c \notin dirtyIndex' => index'[c] = index[c]
    BY <1>1, <1>2
  <1>4. HasParents(index) => HasParents(index)'
    <2>1. \A c \in Block : Parent[c] \in Block
      BY TypeAssumption
    <2>. QED
      BY <1>1, <1>2, <1>3, <2>1 DEF HasParents
  <1>5. HasBest(index, coins.best) => HasBest(index, coins.best)'
    <2>1. coins.best \in Block /\ Path[coins.best] \subseteq Block
      BY PathParent DEF TypeOK, CoinsState
    <2>. QED
      BY <1>1, <1>3, <2>1 DEF HasBest, Undoable
  <1>. QED
    BY <1>1, <1>3, <1>4, <1>5, BatchGrows

\* A block is connected: it has its undo record.
LEMMA BatchConnect ==
    ASSUME TypeOK, LayoutInv, BatchInv, NEW b \in Block, ConnectTip(b)
    PROVE  BatchInv'
  <1>1. /\ b # Genesis /\ Parent[b] = coins.best /\ coins'.best = b /\ index[b].data # NoPos
        /\ failures' = failures /\ call'.stage = "begin"
        /\ UNCHANGED <<diskIndex, db, dbSynced, pruned>>
    BY SMTT(30), ConnectFacts DEF indexDb, coinsDb, history
  <1>2. index[b].known
    BY <1>1 DEF LayoutInv, LayoutOf, EntryOK
  <1>3. /\ dirtyIndex \subseteq dirtyIndex'
        /\ \A c \in Block \ {b} : index'[c] = index[c]
        /\ index'[b].known = index[b].known /\ index'[b].undo # NoPos
        /\ b \notin dirtyIndex' => index'[b] = index[b]
    <2>1. CASE index[b].undo # NoPos
      BY <2>1, ConnectFacts
    <2>2. CASE index[b].undo = NoPos
      <3>1. FindUndoPos(b) /\ index' = [index EXCEPT ![b].undo = UndoPos(b)] /\ dirtyIndex' = dirtyIndex \cup {b}
        BY <2>2, ConnectFacts
      <3>2. UndoPos(b) # NoPos
        BY <3>1, PosFacts DEF FindUndoPos
      <3>. QED
        BY <1>1, <3>1, <3>2, ConnectEntries
    <2>. QED
      BY <2>1, <2>2
  <1>4. \A c \in Block : /\ index[c].known => index'[c].known
                         /\ index[c].undo # NoPos => index'[c].undo # NoPos
                         /\ c \notin dirtyIndex' => index'[c] = index[c]
    BY <1>2, <1>3
  <1>5. HasParents(index) => HasParents(index)'
    <2>1. \A c \in Block : Parent[c] \in Block /\ index'[c].known = index[c].known
      BY <1>3, TypeAssumption
    <2>. QED
      BY <2>1 DEF HasParents
  <1>6. HasBest(index, coins.best) => HasBest(index, coins.best)'
    <2>1. Path[b] = Path[coins.best] \cup {b} /\ Path[b] \subseteq Block
      BY <1>1, PathParent
    <2>2. Undoable(index, coins.best) => Undoable(index, coins.best)'
      BY <1>1, <1>3, <1>4, <2>1 DEF Undoable
    <2>. QED
      BY <1>1, <1>2, <1>3, <2>2 DEF HasBest
  <1>. QED
    BY <1>1, <1>3, <1>4, <1>5, <1>6, BatchGrows

\* Files are pruned in memory.
LEMMA BatchPrune ==
    ASSUME TypeOK, LayoutInv, BatchInv, FlushBegin
    PROVE  BatchInv'
  <1>1. PICK fs \in SUBSET Prunable : PruneOneBlockFile(fs) /\ call'.stage \in {"idle", "index"}
    BY BeginFacts
  <1>2. fs \in SUBSET File
    BY DEF Prunable
  <1>3. UNCHANGED <<coins, diskIndex, db, dbSynced>> /\ failures \subseteq failures'
    BY BeginFacts DEF indexDb, coinsDb
  <1>4. /\ \A b \in Block : \/ ~InFile(b, fs) /\ index'[b] = index[b]
                            \/ InFile(b, fs) /\ index'[b].known
        /\ dirtyIndex' = dirtyIndex \cup {b \in Block : InFile(b, fs)}
        /\ pruned' = pruned \cup {b \in Block : InFile(b, fs)}
    BY SMTT(30), <1>1, <1>2, PruneFacts
  <1>5. \A c \in Block : /\ index[c].known <=> index'[c].known
                         /\ index[c].undo # NoPos => (index'[c].undo # NoPos \/ c \in pruned')
                         /\ c \notin dirtyIndex' => index'[c] = index[c]
    BY <1>4 DEF InFile
  <1>6. HasParents(index) => HasParents(index)'
    BY <1>5, TypeAssumption DEF HasParents
  <1>7. HasBest(index, coins.best) => HasBest(index, coins.best)'
    <2>1. coins.best \in Block /\ Path[coins.best] \subseteq Block
      BY PathParent DEF TypeOK, CoinsState
    <2>. QED
      BY <1>3, <1>4, <1>5, <2>1 DEF HasBest, Undoable
  <1>. QED
    BY <1>1, <1>3, <1>4, <1>5, <1>6, <1>7, BatchGrows

\* The batch is written: the two indices are the same.
LEMMA BatchIndex ==
    ASSUME TypeOK, LayoutInv, BatchInv, FlushIndex
    PROVE  BatchInv'
  <1>. SUFFICES ASSUME "index" \notin failures' PROVE BatchInv'
    BY DEF BatchInv
  <1>1. /\ \A b \in Block : diskIndex'[b] = IF b \in dirtyIndex THEN index[b] ELSE diskIndex[b]
        /\ dirtyIndex' = {} /\ UNCHANGED <<index, coins, db, dbSynced, pruned, failures>>
    BY DEF FlushIndex, NoFailure, history, coinsDb
  <1>2. /\ HasParents(index) /\ \A b \in Block : BatchOf(b)
        /\ HasBest(index, coins.best)
        /\ HasBest(diskIndex, db.best) /\ HasBest(diskIndex, dbSynced.best)
    BY <1>1 DEF BatchInv
  <1>3. \A b \in Block : diskIndex'[b] = index[b]
    BY <1>1, <1>2 DEF BatchOf
  <1>4. HasParents(index)' /\ HasParents(diskIndex)' /\ \A b \in Block : BatchOf(b)'
    BY <1>1, <1>2, <1>3, TypeAssumption DEF HasParents, BatchOf
  <1>5. HasBest(index, coins.best)'
    BY <1>1, <1>2 DEF HasBest, Undoable
  <1>6. ASSUME NEW best \in Block, HasBest(diskIndex, best) PROVE HasBest(diskIndex, best)'
    <2>1. Path[best] \subseteq Block
      BY PathParent
    <2>2. diskIndex'[best].known
      BY <1>2, <1>3, <1>6 DEF BatchOf, HasBest
    <2>3. \A b \in Path[best] \ {Genesis} : diskIndex'[b].undo # NoPos \/ b \in pruned
      BY <1>2, <1>3, <1>6, <2>1 DEF BatchOf, HasBest, Undoable
    <2>. QED
      BY <1>1, <2>2, <2>3 DEF HasBest, Undoable
  <1>7. HasBest(diskIndex, db.best)' /\ HasBest(diskIndex, dbSynced.best)'
    <2>1. db.best \in Block /\ dbSynced.best \in Block
      BY DEF TypeOK, CoinsState
    <2>. QED
      BY <1>1, <1>2, <1>6, <2>1
  <1>. QED
    BY <1>1, <1>4, <1>5, <1>7 DEF BatchInv

\* Every step keeps it.
LEMMA BatchNext == TypeOK /\ LayoutInv /\ BatchInv /\ [Next]_vars => BatchInv'
  <1>. SUFFICES ASSUME TypeOK, LayoutInv, BatchInv, [Next]_vars PROVE BatchInv'
    OBVIOUS
  <1>. USE DEF indexDb, coinsDb, history
  <1>1. "index" \notin failures =>
           /\ HasParents(index) /\ \A b \in Block : BatchOf(b)
           /\ call.stage \in {"unlink", "coins"} => dirtyIndex = {}
           /\ HasBest(index, coins.best) /\ HasBest(diskIndex, db.best) /\ HasBest(diskIndex, dbSynced.best)
    BY DEF BatchInv
  <1>2. CASE UNCHANGED vars
    BY <1>1, <1>2, BatchKept DEF vars, memory
  <1>3. ASSUME NEW b \in Block, NEW written \in BOOLEAN, AcceptBlock(b, written) \/ AcceptBlockNoSpace(b)
        PROVE  BatchInv'
    BY <1>3, BatchAccept
  <1>4. ASSUME NEW b \in Block, ConnectTip(b) PROVE BatchInv'
    BY <1>4, BatchConnect
  <1>5. ASSUME NEW b \in Block, ConnectTipNoUndo(b) PROVE BatchInv'
    BY <1>1, <1>5, CallTypes, BatchKept DEF ConnectTipNoUndo, Ready, OnlyFails, CanFail
  <1>6. CASE DisconnectTip
    <2>1. tip \in Block \ {Genesis} /\ coins.best = tip /\ coins'.best = Parent[tip]
      BY <1>6 DEF DisconnectTip, TypeOK
    <2>2. call'.stage = "begin"
      BY <1>6, <2>1, CallTypes, PathParent DEF DisconnectTip
    <2>3. "index" \notin failures => HasBest(index, coins'.best)
      BY <1>1, <2>1, BestOfParent
    <2>. QED
      BY <1>1, <1>6, <2>2, <2>3, BatchKept DEF DisconnectTip, NoFailure
  <1>7. ASSUME NEW mode, FlushStateToDisk(mode) PROVE BatchInv'
    <2>1. call'.stage = "begin"
      BY <1>7, CallTypes DEF FlushStateToDisk
    <2>. QED
      BY <1>1, <1>7, <2>1, BatchKept DEF FlushStateToDisk, NoFailure
  <1>8. CASE FlushIndexFails
    BY <1>8 DEF FlushIndexFails, GiveUp, OnlyFails, CanFail, BatchInv
  <1>9. CASE FlushUnlink
    <2>1. /\ call.stage = "unlink"
          /\ UNCHANGED <<index, diskIndex, dirtyIndex, pruned, failures, coins, db, dbSynced>>
      BY <1>9, UnlinkFacts
    <2>. QED
      BY <1>1, <2>1, BatchKept
  <1>10. CASE FlushCoins
    <2>1. call'.stage = "idle"
      BY <1>10, ProceedFacts, StageFacts DEF FlushCoins
    <2>2. /\ call.stage = "coins" /\ db' = coins /\ dbSynced' \in {dbSynced, coins}
          /\ UNCHANGED <<index, diskIndex, dirtyIndex, pruned, failures, coins>>
      BY <1>10 DEF FlushCoins, NoFailure
    <2>3. "index" \notin failures => HasBest(diskIndex, coins.best)
      <3>. SUFFICES ASSUME "index" \notin failures PROVE HasBest(diskIndex, coins.best)
        OBVIOUS
      <3>1. \A b \in Block : diskIndex[b] = index[b]
        BY <1>1, <2>2 DEF BatchOf
      <3>2. coins.best \in Block /\ Path[coins.best] \subseteq Block
        BY PathParent DEF TypeOK, CoinsState
      <3>. QED
        BY <1>1, <3>1, <3>2 DEF HasBest, Undoable
    <2>. QED
      BY <1>1, <2>1, <2>2, <2>3, BatchKept
  <1>11. CASE FlushCoinsFails \/ FlushCoinsNoSpace
    <2>1. /\ call'.stage = "idle" /\ coins'.best = coins.best /\ failures \subseteq failures'
          /\ UNCHANGED <<index, diskIndex, dirtyIndex, pruned, db, dbSynced>>
      BY SMTT(30), <1>11, CallTypes DEF FlushCoinsFails, FlushCoinsNoSpace, GiveUp, OnlyFails, CanFail
    <2>. QED
      BY <1>1, <2>1, BatchKept
  <1>12. CASE Crash \/ PowerLoss
    <2>1. /\ LoadBlockIndexDB /\ db' \in {db, dbSynced}
      BY <1>12 DEF Crash, PowerLoss
    <2>2. /\ index' = diskIndex /\ diskIndex' = diskIndex /\ dirtyIndex' = {}
          /\ coins' = db' /\ dbSynced' = db' /\ UNCHANGED <<failures, pruned>>
          /\ call'.stage = "idle"
      BY <2>1, CallTypes DEF LoadBlockIndexDB
    <2>. SUFFICES ASSUME "index" \notin failures PROVE BatchInv'
      BY <2>2 DEF BatchInv
    <2>3. HasParents(diskIndex) /\ HasBest(diskIndex, db'.best)
      BY <1>1, <2>1 DEF BatchInv
    <2>4. HasParents(index)' /\ HasParents(diskIndex)'
      BY <2>2, <2>3 DEF HasParents
    <2>5. HasBest(index, coins.best)' /\ HasBest(diskIndex, db.best)' /\ HasBest(diskIndex, dbSynced.best)'
      BY <2>2, <2>3 DEF HasBest, Undoable
    <2>6. \A b \in Block : BatchOf(b)'
      BY <2>2 DEF BatchOf
    <2>. QED
      BY <2>2, <2>4, <2>5, <2>6 DEF BatchInv
  <1>. QED
    BY <1>2, <1>3, <1>4, <1>5, <1>6, <1>7, <1>8, <1>9, <1>10, <1>11, <1>12,
       BatchPrune, BatchIndex DEF Next

----------------------------------------------------------------------------
(***************************************************************************)
(* The coins, and whether the node starts again.                           *)
(***************************************************************************)
\* Connecting and disconnecting a block keep the coins those of the best block:
\* the undo record that is read is the block's own.
LEMMA CoinsNext == TypeOK /\ LayoutInv /\ RecordInv /\ CoinsInv /\ [Next]_vars => CoinsInv'
  <1>. SUFFICES ASSUME TypeOK, LayoutInv, RecordInv, CoinsInv, [Next]_vars, "coins" \notin failures',
                       "coins" \notin failures => \A d \in {coins, db, dbSynced} : d.set = UTXO(d.best)
                PROVE  \A d \in {coins', db', dbSynced'} : d.set = UTXO(d.best)
    BY DEF CoinsInv
  <1>. USE DEF coinsDb, history
  <1>1. CASE UNCHANGED <<coins, db, dbSynced>> /\ failures \subseteq failures'
    BY <1>1
  <1>2. ASSUME NEW b \in Block, ConnectTip(b) PROVE \A d \in {coins', db', dbSynced'} : d.set = UTXO(d.best)
    <2>1. /\ b \in Block \ {Genesis} /\ coins.best = Parent[b] /\ UNCHANGED <<db, dbSynced, failures>>
          /\ coins' = [best |-> b, set |-> (coins.set \ Spends[b]) \cup Creates[b]]
      BY <1>2, ConnectFacts
    <2>2. coins.set = UTXO(Parent[b])
      BY <2>1
    <2>3. coins'.set = UTXO(b) /\ coins'.best = b
      BY <2>1, <2>2, CoinsOfBlock
    <2>. QED
      BY <2>1, <2>3
  <1>3. CASE DisconnectTip
    <2>1. /\ tip \in Block \ {Genesis} /\ coins.best = tip /\ UNCHANGED <<db, dbSynced, failures>>
          /\ coins' = [best |-> Parent[tip],
                       set |-> (coins.set \ Creates[tip]) \cup Spends[rev[index[tip].undo]]]
          /\ index[tip].undo # NoPos /\ rev[index[tip].undo] # NoBlock
      BY <1>3 DEF DisconnectTip, NoFailure, UndoReadFromDisk, TypeOK
    <2>2. rev[index[tip].undo] = tip
      BY <2>1 DEF RecordInv, RecordOf, UndoOf
    <2>3. coins.set = UTXO(tip)
      BY <2>1
    <2>4. coins'.set = UTXO(Parent[tip]) /\ coins'.best = Parent[tip]
      BY <2>1, <2>2, <2>3, CoinsOfBlock
    <2>. QED
      BY <2>1, <2>4
  <1>4. CASE FlushCoins
    BY <1>4 DEF FlushCoins, NoFailure
  <1>5. CASE FlushCoinsFails
    BY <1>5 DEF FlushCoinsFails, GiveUp, OnlyFails, CanFail
  <1>6. CASE Crash \/ PowerLoss
    <2>1. coins' = db' /\ dbSynced' = db' /\ db' \in {db, dbSynced} /\ failures' = failures
      BY <1>6 DEF Crash, PowerLoss, LoadBlockIndexDB
    <2>. QED
      BY <2>1
  <1>7. ASSUME NEW b \in Block, NEW written \in BOOLEAN,
               AcceptBlock(b, written) \/ AcceptBlockNoSpace(b)
        PROVE  UNCHANGED <<coins, db, dbSynced>> /\ failures \subseteq failures'
    BY <1>7, AcceptFacts
  <1>8. ASSUME NEW b \in Block, ConnectTipNoUndo(b)
        PROVE  UNCHANGED <<coins, db, dbSynced>> /\ failures \subseteq failures'
    BY <1>8 DEF ConnectTipNoUndo, OnlyFails, CanFail
  <1>9. ASSUME NEW mode, FlushStateToDisk(mode)
        PROVE  UNCHANGED <<coins, db, dbSynced>> /\ failures \subseteq failures'
    BY <1>9 DEF FlushStateToDisk, NoFailure
  <1>10. FlushBegin => UNCHANGED <<coins, db, dbSynced>> /\ failures \subseteq failures'
    BY BeginFacts
  <1>11. FlushIndex \/ FlushUnlink => UNCHANGED <<coins, db, dbSynced>> /\ failures \subseteq failures'
    BY DEF FlushIndex, FlushUnlink, NoFailure
  <1>12. FlushIndexFails \/ FlushCoinsNoSpace => UNCHANGED <<coins, db, dbSynced>> /\ failures \subseteq failures'
    BY DEF FlushIndexFails, FlushCoinsNoSpace, GiveUp, OnlyFails, CanFail
  <1>13. UNCHANGED vars => UNCHANGED <<coins, db, dbSynced>> /\ failures \subseteq failures'
    BY DEF vars, memory
  <1>. QED
    BY <1>1, <1>2, <1>3, <1>4, <1>5, <1>6, <1>7, <1>8, <1>9, <1>10, <1>11, <1>12, <1>13 DEF Next

\* A restart succeeds when every batch and every block write did.
LEMMA RunningNext ==
    TypeOK' /\ RecordInv' /\ BatchInv' /\ RunningInv /\ [Next]_vars => RunningInv'
  <1>. SUFFICES ASSUME TypeOK', RecordInv', BatchInv', RunningInv, [Next]_vars,
                       failures' \cap {"index", "block"} = {}
                PROVE  running'
    BY DEF RunningInv
  <1>. USE DEF history
  <1>1. CASE Crash \/ PowerLoss
    <2>1. running' = Loadable(blk', db'.best) /\ diskIndex' = diskIndex
      BY <1>1 DEF Crash, PowerLoss, LoadBlockIndexDB, indexDb
    <2>2. ASSUME NEW b \in Block, diskIndex[b].data # NoPos
          PROVE  \E p \in Pos : p[1] = diskIndex[b].data[1] /\ blk'[p] # NoBlock
      <3>1. blk'[diskIndex[b].data] = b
        BY <2>1, <2>2 DEF RecordInv, RecordOf
      <3>2. diskIndex'[b] \in Entry
        BY DEF TypeOK
      <3>3. diskIndex[b].data \in Pos
        BY <2>1, <2>2, <3>2 DEF Entry
      <3>. QED
        BY <3>1, <3>3, NoBlockAssumption
    <2>3. diskIndex[db'.best].known
      BY <2>1 DEF BatchInv, HasBest
    <2>. QED
      BY <2>1, <2>2, <2>3 DEF Loadable
  <1>2. CASE UNCHANGED vars
    BY <1>2 DEF vars, RunningInv
  <1>3. ASSUME NEW b \in Block, NEW written \in BOOLEAN,
               \/ AcceptBlock(b, written) \/ AcceptBlockNoSpace(b)
               \/ ConnectTip(b) \/ ConnectTipNoUndo(b)
        PROVE  running'
    BY SMTT(30), <1>3 DEF AcceptBlock, AcceptBlockNoSpace, ConnectTip, ConnectTipNoUndo, Ready, OnlyFails, NoFailure
  <1>4. ASSUME NEW mode, DisconnectTip \/ FlushStateToDisk(mode) PROVE running'
    BY SMTT(30), <1>4 DEF DisconnectTip, FlushStateToDisk, Ready, NoFailure
  <1>5. FlushBegin => running'
    BY SMTT(30) DEF FlushBegin
  <1>6. FlushIndex \/ FlushUnlink \/ FlushCoins => running'
    BY SMTT(30) DEF FlushIndex, FlushUnlink, FlushCoins, NoFailure
  <1>7. FlushIndexFails \/ FlushCoinsFails \/ FlushCoinsNoSpace => running'
    BY SMT DEF FlushIndexFails, FlushCoinsFails, FlushCoinsNoSpace, GiveUp, OnlyFails
  <1>. QED
    BY <1>1, <1>2, <1>3, <1>4, <1>5, <1>6, <1>7 DEF Next

----------------------------------------------------------------------------
(***************************************************************************)
(* The theorems.                                                           *)
(***************************************************************************)
\* A new node.
LEMMA FlushInit == Init => FlushInv
  <1>. SUFFICES ASSUME Init PROVE FlushInv
    OBVIOUS
  <1>1. MAX_BLOCKFILE_SIZE \in Nat \ {0} /\ 0 \in File /\ <<0, 0>> \in Pos /\ <<0, 0>> # NoPos
    BY SMTT(30), ConstantsAssumption, PosFacts
  <1>2. /\ Genesis \in Block /\ Path[Genesis] = {Genesis}
    BY GenesisAssumption, PathAssumption
  <1>3. /\ \A b \in Block : index[b] = IF b = Genesis
                                       THEN [known |-> TRUE, data |-> <<0, 0>>, undo |-> NoPos]
                                       ELSE NoEntry
        /\ diskIndex = index /\ diskInfo = info /\ info[0].nSize = 1
        /\ blk[<<0, 0>>] = Genesis /\ unsynced = {} /\ dirtyIndex = {}
    <2>1. info[0] = [EmptyFile EXCEPT !.nSize = 1]
      BY <1>1 DEF Init
    <2>2. info[0].nSize = 1
      BY <2>1 DEF EmptyFile
    <2>3. blk[<<0, 0>>] = Genesis
      BY <1>1 DEF Init
    <2>. QED
      BY <2>2, <2>3 DEF Init
  <1>4. TypeOK
    <2>1. index \in [Block -> Entry]
      BY <1>1 DEF Init, Entry, NoEntry
    <2>2. info \in [File -> Info]
      <3>1. [EmptyFile EXCEPT !.nSize = 1] \in Info /\ EmptyFile \in Info
        BY SMTT(30), <1>1 DEF EmptyFile, Info
      <3>. QED
        BY <3>1 DEF Init
    <2>3. coins \in CoinsState
      <3>1. Creates[Genesis] \subseteq Coin
        BY <1>2, ConstantsAssumption
      <3>. QED
        BY <1>2, <3>1 DEF Init, CoinsState
    <2>4. blk \in [Pos -> Block \cup {NoBlock}] /\ rev \in [Pos -> Block \cup {NoBlock}]
      BY <1>2 DEF Init
    <2>. QED
      BY <1>1, <1>2, <2>1, <2>2, <2>3, <2>4 DEF Init, TypeOK
  <1>5. LayoutInv
    <2>1. ASSUME NEW b \in Block PROVE EntryOK(index[b], info)
      BY SMTT(30), <1>1, <1>3 DEF EntryOK, NoEntry
    <2>2. \A b \in Block : LayoutOf(b)
      BY <1>3, <2>1 DEF LayoutOf
    <2>3. call \in Call /\ call.stage = "idle"
      BY CallTypes DEF Init
    <2>. QED
      BY <2>2, <2>3 DEF LayoutInv
  <1>6. RecordInv
    BY SMTT(30), <1>1, <1>3 DEF RecordInv, RecordOf, Unsynced, NoEntry
  <1>7. BatchInv
    <2>1. HasParents(index)
      BY SMTT(30), <1>3 DEF HasParents, NoEntry
    <2>2. HasBest(index, Genesis)
      BY SMTT(30), <1>2, <1>3 DEF HasBest, Undoable
    <2>3. coins.best = Genesis /\ db = coins /\ dbSynced = coins
      BY DEF Init
    <2>. QED
      BY <1>3, <2>1, <2>2, <2>3 DEF BatchInv, BatchOf
  <1>8. CoinsInv
    BY SMTT(30), CoinsOfGenesis DEF Init, CoinsInv
  <1>9. RunningInv
    BY DEF Init, RunningInv
  <1>. QED
    BY <1>4, <1>5, <1>6, <1>7, <1>8, <1>9 DEF FlushInv

\* Every step.
LEMMA FlushStep == FlushInv /\ [Next]_vars => FlushInv'
  BY TypeNext, LayoutNext, RecordNext, BatchNext, CoinsNext, RunningNext DEF FlushInv

\* The strengthened invariant holds however the writes, failures, stops and
\* power losses fall: index, file informations, records, batches and coins.
THEOREM FlushInvariant == Spec => [](FlushInv /\ TypeOK)
  <1>1. FlushInv => TypeOK
    BY DEF FlushInv
  <1>. QED
    BY <1>1, FlushInit, FlushStep, PTL DEF Spec

\* The coins database always holds the coins of the block it names as its best
\* one (BatchWrite of coins and best block in one batch), unless such a batch failed.
THEOREM DatabaseIsExact == Spec => []DatabaseExact
  <1>1. FlushInv => DatabaseExact
    BY DEF FlushInv, CoinsInv, DatabaseExact
  <1>. QED
    BY <1>1, FlushInit, FlushStep, PTL DEF Spec

\* What the index database says of a block's position is the committed record
\* of that block, unless a block write failed.
THEOREM DataIsBacked == Spec => []DataBacked
  <1>1. FlushInv => DataBacked
    BY DEF FlushInv, RecordInv, RecordOf, Unsynced, DataBacked
  <1>. QED
    BY <1>1, FlushInit, FlushStep, PTL DEF Spec

\* However the process or the machine stops, LoadBlockIndexDB succeeds at the
\* next start, unless an index batch or a block write failed.
THEOREM RestartIsPossible == Spec => []RestartPossible
  <1>1. FlushInv => RestartPossible
    <2>. SUFFICES ASSUME FlushInv, failures \cap {"index", "block"} = {}
                  PROVE  running /\ \A d \in {db, dbSynced} : Loadable(blk, d.best)
      BY DEF RestartPossible
    <2>1. running /\ \A d \in {db, dbSynced} : diskIndex[d.best].known
      BY DEF FlushInv, RunningInv, BatchInv, HasBest
    <2>2. ASSUME NEW b \in Block, diskIndex[b].data # NoPos
          PROVE  \E p \in Pos : p[1] = diskIndex[b].data[1] /\ blk[p] # NoBlock
      <3>1. blk[diskIndex[b].data] = b /\ diskIndex[b].data \in Pos
        BY <2>2, EntryTypes DEF FlushInv, RecordInv, RecordOf
      <3>. QED
        BY <3>1, NoBlockAssumption
    <2>. QED
      BY <2>1, <2>2 DEF Loadable
  <1>. QED
    BY <1>1, FlushInit, FlushStep, PTL DEF Spec

\* Every block under the best block of the coins database can be disconnected
\* after a restart, or was pruned, unless an index batch failed or the machine
\* lost power.
THEOREM RollbackIsPossible == Spec => []RollbackPossible
  <1>1. FlushInv => RollbackPossible
    <2>. SUFFICES ASSUME FlushInv, "index" \notin failures, ~powerLost,
                         NEW d \in {db, dbSynced}, NEW b \in Path[d.best] \ {Genesis}, b \notin pruned
                  PROVE  diskIndex[b].undo # NoPos /\ rev[diskIndex[b].undo] = b
      BY DEF RollbackPossible
    <2>1. b \in Block
      BY PathParent DEF FlushInv, TypeOK, CoinsState
    <2>2. diskIndex[b].undo # NoPos
      BY DEF FlushInv, BatchInv, HasBest, Undoable
    <2>. QED
      BY <2>1, <2>2 DEF FlushInv, RecordInv, RecordOf, UndoOf
  <1>. QED
    BY <1>1, FlushInit, FlushStep, PTL DEF Spec
=============================================================================
