-------------------------- MODULE ChainActivation --------------------------
(***************************************************************************)
(* The heart of a node: which headers and blocks it takes into its block   *)
(* index, which of them are candidates for the tip, how ActivateBestChain  *)
(* moves the active chain towards the candidate with the most work, and    *)
(* how the notarisations carried by connected blocks hold the chain back   *)
(* from reorganising below the last notarised block.                       *)
(*                                                                         *)
(* Several threads (message handler, miner, RPC) submit blocks and run     *)
(* ActivateBestChain.  cs_main is held for one AcceptBlock, one            *)
(* ActivateBestChainStep or one InvalidateBlock at a time and released in  *)
(* between; thread[t] holds what a step in progress remembers.             *)
(***************************************************************************)
EXTENDS Checkpoints

CONSTANTS
    Thread,         \* the threads that process blocks and serve RPCs
    BadContext,     \* blocks that fail ContextualCheckBlock
    BadConnect,     \* blocks that fail ConnectBlock
    FutureInit,     \* blocks stamped 60 to 300 seconds ahead of the clock
    Notarises,      \* the notarisation a block carries, or NoNotarisation
    MaxReorg,       \* MAX_REORG_LENGTH
    DownloadWindow, \* BLOCK_DOWNLOAD_WINDOW
    CC,             \* ASSETCHAINS_CC # 0
    NearSapling,    \* heights near the Sapling activation
    IsNotary,       \* IS_KOMODO_NOTARY
    InitialDownload,\* the node starts in initial block download
    AdminRPC        \* the operator uses invalidateblock and reconsiderblock

\* A block without a notarisation of this chain.
NoNotarisation == [hash |-> NoBlock, height |-> 0]

ASSUME ConstantsAssumption ==
    /\ BadContext \subseteq Block \ {Genesis}
    /\ BadConnect \subseteq Block \ {Genesis}
    /\ FutureInit \subseteq Block \ {Genesis}
    /\ MaxReorg \in Nat \ {0}
    /\ DownloadWindow \in Nat
    /\ {CC, NearSapling, IsNotary, InitialDownload, AdminRPC} \subseteq BOOLEAN

ASSUME NotarisesAssumption ==
    Notarises \in [Block -> [hash : Block \cup {NoBlock}, height : Nat]]

VARIABLES
    index,       \* mapBlockIndex
    data,        \* entries with BLOCK_HAVE_DATA (nTx # 0)
    linked,      \* entries with nChainTx # 0
    older,       \* nSequenceId: <<a, b>> when a and b have equal work and
                 \* a has the smaller id
    unlinked,    \* mapBlocksUnlinked, each block under the key of its pprev
    inserted,    \* the order of equal keys in it: <<a, b>> when a and b have
                 \* the same parent and a was inserted first
    failedValid, \* entries with BLOCK_FAILED_VALID
    failedChild, \* entries with BLOCK_FAILED_CHILD
    candidates,  \* setBlockIndexCandidates
    tip,         \* chainActive.Tip(); chainActive is Path[tip]
    last,        \* komodo_state::last
    npoints,     \* komodo_state::NPOINTS
    lastIndex,   \* komodo_state::NPOINTS_last_index
    ibd,         \* IsInitialBlockDownload has not latched to false
    future,      \* blocks still ahead of the clock
    thread       \* what each thread is doing

treeVars   == <<index, data, linked, older, unlinked, inserted>>
failVars   == <<failedValid, failedChild>>
notaryVars == <<last, npoints, lastIndex>>
envVars    == <<ibd, future>>
vars == <<treeVars, failVars, candidates, tip, notaryVars, envVars, thread>>

failed == failedValid \cup failedChild

----------------------------------------------------------------------------
(***************************************************************************)
(* Threads and the lock.                                                   *)
(***************************************************************************)
\* skip is fSkipdpow, target pindexMostWork (or the block to invalidate) and
\* oldTip pindexOldTip.
At(pc, skip, target, oldTip) ==
    [pc |-> pc, skip |-> skip, target |-> target, oldTip |-> oldTip]

Idle == At("idle", FALSE, Genesis, Genesis)

\* Idle too, and the last ActivateBestChain of the thread has returned false.
Refused == At("refused", FALSE, Genesis, Genesis)

Resting == {"idle", "refused"}

\* Inside ActivateBestChain(fSkipdpow), about to take cs_main.
Activating(skip) == At("activate", skip, Genesis, Genesis)

\* After a step towards `target', cs_main released, about to compare it with
\* the tip.
Checking(skip, target) == At("check", skip, target, Genesis)

\* Inside a step, with cs_main held.
Holding == {"disconnect", "connect", "invalidate"}

CsMainFree == \A t \in Thread : thread[t].pc \notin Holding

ThreadState ==
    [pc : Resting \cup {"activate", "check"} \cup Holding,
     skip : BOOLEAN, target : Block, oldTip : Block]

----------------------------------------------------------------------------
(***************************************************************************)
(* The order of the candidates.                                            *)
(***************************************************************************)
\* CBlockIndexWorkComparator: a sorts before (is worse than) b, where `ids'
\* is the order of the sequence ids.
WorseBy(ids, a, b) ==
    \/ ChainWork[a] < ChainWork[b]
    \/ ChainWork[a] = ChainWork[b] /\ <<b, a>> \in ids

Worse(a, b) == WorseBy(older, a, b)

\* PruneBlockIndexCandidates with tip t.
PruneBlockIndexCandidates(t) == {c \in candidates : ~Worse(c, t)}

\* The entries InvalidateBlock puts back among the candidates, where bad is
\* the set of failed entries: IsValid(BLOCK_VALID_TRANSACTIONS), nChainTx # 0
\* and not worse than the tip.
Reinserted(bad) == {c \in linked \ bad : ~Worse(c, tip)}

\* The blocks FindMostWorkChain walks over for candidate c.
OffChain(c) == Path[c] \ Path[tip]

Usable(c) == OffChain(c) \cap failed = {}

\* A slip in FindMostWorkChain: the best candidate is taken unchecked.
MostWorkUnchecked(c) == \A d \in candidates : ~Worse(c, d)

\* FindMostWorkChain takes candidates from the best one down until one is
\* usable: that one is returned (NoBlock stands for NULL) ...
IsMostWork(c) == Usable(c) /\ \A d \in candidates : Usable(d) => ~Worse(c, d)

MostWork ==
    IF \E c \in candidates : IsMostWork(c)
    THEN CHOOSE c \in candidates : IsMostWork(c)
    ELSE NoBlock

\* ... and the better ones, which are not usable, are dropped.
Dropped == {c \in candidates : ~Usable(c) /\ (MostWork = NoBlock \/ ~Worse(c, MostWork))}

\* Of a dropped chain the blocks above its highest failed block are marked
\* BLOCK_FAILED_CHILD ...
MarkedChild ==
    UNION {{b \in OffChain(d) : ((Path[d] \ Path[b]) \cup {b}) \cap failed = {}} : d \in Dropped}

\* ... and those from the failed block up leave the candidate set.
ErasedChain ==
    UNION {{b \in OffChain(d) : (Path[d] \ Path[b]) \cap failed = {}} : d \in Dropped}

Remaining == candidates \ ErasedChain

----------------------------------------------------------------------------
(***************************************************************************)
(* Notarisations.                                                          *)
(***************************************************************************)
\* komodo_state::NotarizedHeight drops a notarisation whose block is not in
\* the block index.  Every caller sees `last' after that.
NotarizedHeight ==
    IF last.hash \in index THEN last ELSE [last EXCEPT !.hash = NoBlock, !.height = 0]

\* komodo_validate_chain: taken on trust during the initial download.
komodo_validate_chain(n) ==
    ibd \/ (n.hash \in index /\ Height[n.hash] = n.height)

\* komodo_voutupdate for the notarisation of block b: accepted when it is
\* valid, above the last one, and of a block below b.
Accepted(b) ==
    /\ Notarises[b] # NoNotarisation
    /\ komodo_validate_chain(Notarises[b])
    /\ Notarises[b].height > last.height
    /\ Notarises[b].height < Height[b]

\* A slip in komodo_connectblock: the checkpoint names the carrying block.
ConnectNotarisingCarrier(b, verified) ==
    /\ last' = IF Accepted(b) THEN Notarises[b] ELSE last
    /\ npoints' = IF Accepted(b) /\ verified
                  THEN Append(npoints, [nHeight |-> Height[b],
                                        notarized_height |-> Height[b],
                                        notarized_hash |-> b])
                  ELSE npoints
    /\ UNCHANGED lastIndex

\* komodo_connectblock: `last' moves first; the checkpoint is added by the
\* event handler, which on a notary node asks the other chain first
\* (`verified' is the answer of komodo_verifynotarization).
komodo_connectblock(b, verified) ==
    /\ last' = IF Accepted(b) THEN Notarises[b] ELSE last
    /\ npoints' = IF Accepted(b) /\ verified
                  THEN Append(npoints, [nHeight |-> Height[b],
                                        notarized_height |-> Notarises[b].height,
                                        notarized_hash |-> Notarises[b].hash])
                  ELSE npoints
    /\ UNCHANGED lastIndex

\* The checkpoint komodo_checkpoint consults: the search is for the height of
\* the tip.
Consulted == NotarizedData(npoints, lastIndex, Height[tip])

\* komodo_checkpoint for a header b.
komodo_checkpoint(b) ==
    LET np == Consulted.np
    IN  (/\ np.notarized_height <= Height[tip]
         /\ np.notarized_hash \in index
         /\ Height[np.notarized_hash] = np.notarized_height)
        => /\ Height[b] >= np.notarized_height
           /\ Height[b] = np.notarized_height => b = np.notarized_hash
----------------------------------------------------------------------------
(***************************************************************************)
(* Receiving headers and blocks.                                           *)
(***************************************************************************)
\* The checks of a header that come before the notarised checkpoint is
\* consulted: its parent is known and not failed, and it does not compete
\* with block 1 of a chain that is past it.
HeaderInContext(b) ==
    /\ b \notin index
    /\ Parent[b] \in index \ failed
    /\ Height[b] = 1 => Height[tip] <= 1

\* AcceptBlockHeader returns true.  A known block that failed is refused,
\* unless the chain has CC, where the header clears the failure.
HeaderAccepted(b) ==
    \/ b \in index /\ (CC \/ b \notin failed)
    \/ HeaderInContext(b) /\ komodo_checkpoint(b)

AcceptBlockHeader(b) ==
    /\ index' = index \cup {b}
    /\ lastIndex' = IF HeaderInContext(b) THEN Consulted.last_index ELSE lastIndex
    /\ UNCHANGED <<last, npoints>>

\* The failure that the header of b clears.
Cleared(b) == IF CC THEN {b} ELSE {}

\* A header of a "headers" message.
ReceiveHeader(b) ==
    /\ CsMainFree
    /\ b # Genesis
    /\ HeaderAccepted(b)
    /\ AcceptBlockHeader(b)
    /\ failedValid' = failedValid \ Cleared(b)
    /\ failedChild' = failedChild \ Cleared(b)
    /\ UNCHANGED <<data, linked, older, unlinked, inserted, candidates, tip, envVars, thread>>

\* A header, or a block with such a header, that the notarised checkpoint
\* refuses: only the cached search index moves.
RefuseHeader(b) ==
    /\ CsMainFree
    /\ HeaderInContext(b)
    /\ ~HeaderAccepted(b)
    /\ lastIndex' = Consulted.last_index
    /\ UNCHANGED <<treeVars, failVars, candidates, tip, last, npoints, envVars, thread>>

\* AcceptBlock leaves a block alone that it has, or that it did not ask for
\* and that does not beat the tip or is too far ahead.
Uninteresting(b, requested) ==
    \/ b \in data
    \/ /\ ~requested
       /\ \/ ChainWork[b] <= ChainWork[tip]
          \/ Height[b] > Height[tip] + DownloadWindow

\* ProcessNewBlock: the part every outcome with an accepted header shares.
\* AcceptBlock overlooks that a known block from the future is failed.
ProcessNewBlock(t, b) ==
    /\ CsMainFree
    /\ thread[t].pc \in Resting
    /\ b # Genesis
    /\ HeaderAccepted(b) \/ b \in index \cap future
    /\ AcceptBlockHeader(b)
    /\ failedChild' = failedChild \ Cleared(b)
    /\ UNCHANGED <<tip, envVars>>

IgnoreBlock(t, b, requested) ==
    /\ ProcessNewBlock(t, b)
    /\ Uninteresting(b, requested)
    /\ failedValid' = failedValid \ Cleared(b)
    /\ thread' = [thread EXCEPT ![t] = IF b \in future THEN @ ELSE Activating(FALSE)]
    /\ UNCHANGED <<data, linked, older, unlinked, inserted, candidates>>

\* The block fails ContextualCheckBlock.  A block from the future, or any
\* block near the Sapling activation, is stored all the same.
RejectBlock(t, b, requested) ==
    /\ ProcessNewBlock(t, b)
    /\ ~Uninteresting(b, requested)
    /\ b \in BadContext \ future
    /\ ~NearSapling
    /\ failedValid' = failedValid \cup {b}
    /\ UNCHANGED <<data, linked, older, unlinked, inserted, candidates, thread>>

\* Slips in ReceivedBlockTransactions: the parent's nChainTx is not looked at,
\* and the blocks that wait for b are forgotten.
LinkedTooEarly(b) ==
    {b} \cup {d \in unlinked : b \in Path[d] /\ (Path[d] \ Path[b]) \subseteq unlinked}

LinkedAlone(b) == IF Parent[b] \in linked THEN {b} ELSE {}

\* ReceivedBlockTransactions for b: the entries whose nChainTx becomes known,
\* b and what waits for it in mapBlocksUnlinked, directly or not.
NowLinked(b) ==
    IF Parent[b] \in linked
    THEN {b} \cup {d \in unlinked : b \in Path[d] /\ (Path[d] \ Path[b]) \subseteq unlinked}
    ELSE {}

\* The queue takes them by height and, below a common parent, in the order
\* in which they were put into mapBlocksUnlinked.
QueuedBefore(a, c) ==
    \/ Height[a] < Height[c]
    \/ /\ Height[a] = Height[c]
       /\ \E p \in inserted : p[1] \in Path[a] \ Path[c] /\ p[2] \in Path[c] \ Path[a]

\* The sequence ids handed out to them.
WithSequenceIds(new) ==
    older \cup {p \in (linked \cup new) \X new :
                  /\ ChainWork[p[1]] = ChainWork[p[2]]
                  /\ p[1] \in linked \/ QueuedBefore(p[1], p[2])}

\* Slips in ReceivedBlockTransactions: only b itself becomes a candidate, and
\* a block without its parent is not remembered.
ReceivedOneCandidate(b) ==
    LET new == NowLinked(b)
    IN  /\ data' = data \cup {b}
        /\ linked' = linked \cup new
        /\ older' = WithSequenceIds(new)
        /\ candidates' = candidates \cup {c \in new \cap {b} : ~WorseBy(older', c, tip)}
        /\ unlinked' = IF new = {} /\ Parent[b] \notin failed
                       THEN unlinked \cup {b} ELSE unlinked \ new
        /\ inserted' = (inserted \cup {<<a, b>> : a \in {u \in unlinked : Parent[u] = Parent[b]}})
                       \cap (unlinked' \X unlinked')

ReceivedForgotten(b) ==
    LET new == NowLinked(b)
    IN  /\ data' = data \cup {b}
        /\ linked' = linked \cup new
        /\ older' = WithSequenceIds(new)
        /\ candidates' = candidates \cup {c \in new : ~WorseBy(older', c, tip)}
        /\ unlinked' = unlinked \ new
        /\ inserted' = inserted \cap (unlinked' \X unlinked')

ReceivedBlockTransactions(b) ==
    LET new == NowLinked(b)
    IN  /\ data' = data \cup {b}
        /\ linked' = linked \cup new
        /\ older' = WithSequenceIds(new)
        /\ candidates' = candidates \cup {c \in new : ~WorseBy(older', c, tip)}
        /\ unlinked' = IF new = {} /\ Parent[b] \notin failed
                       THEN unlinked \cup {b} ELSE unlinked \ new
        /\ inserted' = (inserted \cup {<<a, b>> : a \in {u \in unlinked : Parent[u] = Parent[b]}})
                       \cap (unlinked' \X unlinked')

StoreBlock(t, b, requested) ==
    /\ ProcessNewBlock(t, b)
    /\ ~Uninteresting(b, requested)
    /\ b \in BadContext => b \in future \/ NearSapling
    /\ failedValid' = failedValid \ Cleared(b)
    /\ ReceivedBlockTransactions(b)
    /\ thread' = [thread EXCEPT ![t] =
                     IF b \in future \cup BadContext THEN @ ELSE Activating(FALSE)]

----------------------------------------------------------------------------
(***************************************************************************)
(* ActivateBestChain and ActivateBestChainStep.                            *)
(***************************************************************************)
\* Thread t holds cs_main inside a step of the given kind.
InStep(t, pc) == thread[t].pc = pc

Goto(t, state) == thread' = [thread EXCEPT ![t] = state]

\* Thread t takes cs_main at the top of the loop and calls FindMostWorkChain.
TakeMostWork(t) ==
    /\ CsMainFree
    /\ thread[t].pc = "activate"
    /\ failedChild' = failedChild \cup MarkedChild
    /\ UNCHANGED <<treeVars, tip, npoints, lastIndex, envVars>>

NothingToDo == MostWork \in {NoBlock, tip}

Fork == FindFork(tip, MostWork)

\* The reorganisation would go below the last notarised block.
PastNotarised(t) ==
    /\ ~thread[t].skip
    /\ Height[tip] > NotarizedHeight.height
    /\ Height[Fork] < NotarizedHeight.height

\* A slip in the reorganisation limit: one block more.
TooDeepByOne == Height[tip] - Height[Fork] > MaxReorg + 1

TooDeep == Height[tip] - Height[Fork] > MaxReorg

\* A slip: with nothing to do the loop goes on.
NothingRetries(t) ==
    /\ TakeMostWork(t)
    /\ NothingToDo
    /\ candidates' = Remaining
    /\ UNCHANGED <<failedValid, last, thread>>

\* There is no candidate better than the tip: return true.
ActivateNothing(t) ==
    /\ TakeMostWork(t)
    /\ NothingToDo
    /\ candidates' = Remaining
    /\ Goto(t, Idle)
    /\ UNCHANGED <<failedValid, last>>

\* "past-notarized-height": the candidate is invalidated, return false.
ActivateRefuse(t) ==
    /\ TakeMostWork(t)
    /\ ~NothingToDo
    /\ PastNotarised(t)
    /\ last' = NotarizedHeight
    /\ failedValid' = failedValid \cup {MostWork}
    /\ candidates' = (Remaining \ {MostWork})
                       \cup Reinserted(failedValid' \cup failedChild')
    /\ Goto(t, Refused)

\* The reorganisation is too long: the node asks to be shut down, return
\* false.
ActivateTooDeep(t) ==
    /\ TakeMostWork(t)
    /\ ~NothingToDo
    /\ ~PastNotarised(t)
    /\ TooDeep
    /\ last' = NotarizedHeight
    /\ candidates' = Remaining
    /\ Goto(t, Refused)
    /\ UNCHANGED failedValid

\* Otherwise the step starts.
ActivateBegin(t) ==
    /\ TakeMostWork(t)
    /\ ~NothingToDo
    /\ ~PastNotarised(t)
    /\ ~TooDeep
    /\ last' = NotarizedHeight
    /\ candidates' = Remaining
    /\ Goto(t, At("disconnect", thread[t].skip, MostWork, tip))
    /\ UNCHANGED failedValid

\* Slips in DisconnectTip: the notarised tip is not refused, and a
\* disconnected block takes the last notarisation with it.
DisconnectUnchecked ==
    /\ tip # Genesis
    /\ last' = NotarizedHeight
    /\ tip' = Parent[tip]

DisconnectForgetting ==
    /\ tip # Genesis
    /\ NotarizedHeight.hash # tip
    /\ last' = NoNotarisation
    /\ tip' = Parent[tip]

\* DisconnectTip succeeds unless the tip is the last notarised block.
\* komodo_disconnect takes nothing back.
DisconnectTip ==
    /\ tip # Genesis
    /\ NotarizedHeight.hash # tip
    /\ last' = NotarizedHeight
    /\ tip' = Parent[tip]

StepDisconnect(t) ==
    /\ InStep(t, "disconnect")
    /\ tip \notin Path[thread[t].target]
    /\ DisconnectTip
    /\ UNCHANGED <<treeVars, failVars, candidates, npoints, lastIndex, envVars, thread>>

\* DisconnectTip refuses: return false.
StepDisconnectRefused(t) ==
    /\ InStep(t, "disconnect")
    /\ tip \notin Path[thread[t].target]
    /\ NotarizedHeight.hash = tip
    /\ last' = NotarizedHeight
    /\ Goto(t, Refused)
    /\ UNCHANGED <<treeVars, failVars, candidates, tip, npoints, lastIndex, envVars>>

\* The fork is reached; the blocks towards the target, if any, are connected
\* next.
StepForkReached(t) ==
    /\ InStep(t, "disconnect")
    /\ tip \in Path[thread[t].target]
    /\ Goto(t, IF tip = thread[t].target THEN Checking(thread[t].skip, tip)
               ELSE [thread[t] EXCEPT !.pc = "connect"])
    /\ UNCHANGED <<treeVars, failVars, candidates, tip, notaryVars, envVars>>

\* The next block to connect.
NextBlock(t) == GetAncestor(thread[t].target, Height[tip] + 1)

\* ConnectTip succeeds.  The step ends when the tip has more work than at its
\* start (the target has, so it does at the latest there).
StepConnect(t) ==
    /\ InStep(t, "connect")
    /\ LET b == NextBlock(t)
       IN  /\ b \notin BadConnect \cup BadContext \cup future
           /\ \E verified \in IF IsNotary THEN BOOLEAN ELSE {TRUE} :
                  komodo_connectblock(b, verified)
           /\ tip' = b
           /\ candidates' = PruneBlockIndexCandidates(b)
           /\ IF b = thread[t].target \/ ChainWork[b] > ChainWork[thread[t].oldTip]
              THEN Goto(t, Checking(thread[t].skip, thread[t].target))
              ELSE UNCHANGED thread
    /\ UNCHANGED <<treeVars, failVars, envVars>>

\* Slips in the handling of an invalid block: it stays the tip, the loop ends.
InvalidConnected(t) ==
    /\ InStep(t, "connect")
    /\ LET b == NextBlock(t)
       IN  /\ b \in (BadConnect \cup BadContext) \ future
           /\ failedValid' = failedValid \cup {b}
           /\ candidates' = candidates \ {b}
           /\ tip' = b
    /\ Goto(t, Checking(thread[t].skip, thread[t].target))
    /\ UNCHANGED <<treeVars, failedChild, notaryVars, envVars>>

InvalidGivesUp(t) ==
    /\ InStep(t, "connect")
    /\ LET b == NextBlock(t)
       IN  /\ b \in (BadConnect \cup BadContext) \ future
           /\ failedValid' = failedValid \cup {b}
           /\ candidates' = candidates \ {b}
    /\ Goto(t, Idle)
    /\ UNCHANGED <<treeVars, failedChild, tip, notaryVars, envVars>>

\* ConnectBlock finds the block invalid: it is marked, the step ends early
\* and the loop goes on.
StepConnectInvalid(t) ==
    /\ InStep(t, "connect")
    /\ LET b == NextBlock(t)
       IN  /\ b \in (BadConnect \cup BadContext) \ future
           /\ failedValid' = failedValid \cup {b}
           /\ candidates' = candidates \ {b}
    /\ Goto(t, Checking(thread[t].skip, thread[t].target))
    /\ UNCHANGED <<treeVars, failedChild, tip, notaryVars, envVars>>

\* ConnectBlock fails without finding the block invalid (it is from the
\* future): return false, the tip stays where the step brought it.
StepConnectFuture(t) ==
    /\ InStep(t, "connect")
    /\ NextBlock(t) \in future
    /\ Goto(t, Refused)
    /\ UNCHANGED <<treeVars, failVars, candidates, tip, notaryVars, envVars>>

\* The loop condition, read without cs_main.
CheckTip(t) ==
    /\ thread[t].pc = "check"
    /\ Goto(t, IF tip = thread[t].target THEN Idle ELSE Activating(thread[t].skip))
    /\ UNCHANGED <<treeVars, failVars, candidates, tip, notaryVars, envVars>>

----------------------------------------------------------------------------
(***************************************************************************)
(* The RPCs invalidateblock and reconsiderblock.                           *)
(***************************************************************************)
\* InvalidateBlock starts by marking the block itself.
InvalidateRPC(t, b) ==
    /\ AdminRPC
    /\ CsMainFree
    /\ thread[t].pc \in Resting
    /\ b \in index \ {Genesis}
    /\ failedValid' = failedValid \cup {b}
    /\ candidates' = candidates \ {b}
    /\ Goto(t, At("invalidate", TRUE, b, Genesis))
    /\ UNCHANGED <<treeVars, failedChild, tip, notaryVars, envVars>>

\* While the block is on the active chain the tip is marked, erased and
\* disconnected ...
MarkTip ==
    /\ failedChild' = failedChild \cup {tip}
    /\ candidates' = candidates \ {tip}

InvalidateDisconnect(t) ==
    /\ InStep(t, "invalidate")
    /\ thread[t].target \in Path[tip]
    /\ MarkTip
    /\ DisconnectTip
    /\ UNCHANGED <<treeVars, failedValid, npoints, lastIndex, envVars, thread>>

\* ... and if that is refused InvalidateBlock returns at once, the state is
\* invalid and the best chain is not activated.
InvalidateRefused(t) ==
    /\ InStep(t, "invalidate")
    /\ thread[t].target \in Path[tip]
    /\ MarkTip
    /\ NotarizedHeight.hash = tip
    /\ last' = NotarizedHeight
    /\ Goto(t, Idle)
    /\ UNCHANGED <<treeVars, failedValid, tip, npoints, lastIndex, envVars>>

\* The block is off the active chain: the entries that are now at least as
\* good as the tip become candidates, and ActivateBestChain(true) follows.
InvalidateDone(t) ==
    /\ InStep(t, "invalidate")
    /\ thread[t].target \notin Path[tip]
    /\ candidates' = candidates \cup Reinserted(failed)
    /\ Goto(t, Activating(TRUE))
    /\ UNCHANGED <<treeVars, failVars, tip, notaryVars, envVars>>

\* ReconsiderBlock clears the failure of the block, its descendants and its
\* ancestors; the first two become candidates if they beat the tip.
ReconsiderRPC(t, b) ==
    /\ AdminRPC
    /\ CsMainFree
    /\ thread[t].pc \in Resting
    /\ b \in index
    /\ failedValid' = failedValid \ (Descendants(b) \cup Path[b])
    /\ failedChild' = failedChild \ (Descendants(b) \cup Path[b])
    /\ candidates' = candidates \cup
           {d \in Descendants(b) \cap failed \cap linked : Worse(tip, d)}
    /\ Goto(t, Activating(TRUE))
    /\ UNCHANGED <<treeVars, tip, notaryVars, envVars>>

----------------------------------------------------------------------------
(***************************************************************************)
(* The rest of the program and the clock.                                  *)
(***************************************************************************)
\* Any other caller of komodo_notarized_height (getinfo, the miner, ...).
QueryNotarized ==
    /\ last # NotarizedHeight
    /\ last' = NotarizedHeight
    /\ UNCHANGED <<treeVars, failVars, candidates, tip, npoints, lastIndex, envVars, thread>>

\* IsInitialBlockDownload latches to false.
LeaveInitialDownload ==
    /\ ibd
    /\ ibd' = FALSE
    /\ UNCHANGED <<treeVars, failVars, candidates, tip, notaryVars, future, thread>>

TimePasses(b) ==
    /\ b \in future
    /\ future' = future \ {b}
    /\ UNCHANGED <<treeVars, failVars, candidates, tip, notaryVars, ibd, thread>>

----------------------------------------------------------------------------
\* A new node: the genesis block is stored and active, komodo_state is empty.
Init ==
    /\ index = {Genesis}
    /\ data = {Genesis}
    /\ linked = {Genesis}
    /\ older = {}
    /\ unlinked = {}
    /\ inserted = {}
    /\ failedValid = {}
    /\ failedChild = {}
    /\ candidates = {Genesis}
    /\ tip = Genesis
    /\ last = NoNotarisation
    /\ npoints = <<>>
    /\ lastIndex = 0
    /\ ibd = InitialDownload
    /\ future = FutureInit
    /\ thread = [t \in Thread |-> Idle]

\* What thread t does once it is inside ActivateBestChain or InvalidateBlock.
Proceed(t) ==
    \/ ActivateNothing(t)
    \/ ActivateRefuse(t)
    \/ ActivateTooDeep(t)
    \/ ActivateBegin(t)
    \/ StepDisconnect(t)
    \/ StepDisconnectRefused(t)
    \/ StepForkReached(t)
    \/ StepConnect(t)
    \/ StepConnectInvalid(t)
    \/ StepConnectFuture(t)
    \/ CheckTip(t)
    \/ InvalidateDisconnect(t)
    \/ InvalidateRefused(t)
    \/ InvalidateDone(t)

\* What peers, the miner and the operator ask of thread t.
Request(t) ==
    \/ \E b \in Block, requested \in BOOLEAN :
          \/ IgnoreBlock(t, b, requested)
          \/ RejectBlock(t, b, requested)
          \/ StoreBlock(t, b, requested)
    \/ \E b \in Block : InvalidateRPC(t, b) \/ ReconsiderRPC(t, b)

Environment ==
    \/ \E b \in Block : ReceiveHeader(b) \/ RefuseHeader(b) \/ TimePasses(b)
    \/ QueryNotarized
    \/ LeaveInitialDownload

Next == Environment \/ \E t \in Thread : Proceed(t) \/ Request(t)

\* A thread that has entered ActivateBestChain or InvalidateBlock is not
\* suspended forever.
Fairness == \A t \in Thread : WF_vars(Proceed(t))

Spec == Init /\ [][Next]_vars

FairSpec == Spec /\ Fairness

----------------------------------------------------------------------------
(***************************************************************************)
(* Properties.                                                             *)
(***************************************************************************)
Checkpoint == [nHeight : Nat, notarized_height : Nat, notarized_hash : Block \cup {NoBlock}]

\* Type invariant of the chain state (main.cpp globals and komodo_state).
TypeOK ==
    /\ index \subseteq Block
    /\ data \subseteq index
    /\ linked \subseteq index
    /\ older \subseteq Block \X Block
    /\ unlinked \subseteq data
    /\ inserted \subseteq unlinked \X unlinked
    /\ failedValid \subseteq index
    /\ failedChild \subseteq index
    /\ candidates \subseteq linked
    /\ tip \in linked
    /\ last \in [hash : Block \cup {NoBlock}, height : Nat]
    /\ npoints \in Seq(Checkpoint)
    /\ lastIndex \in Nat
    /\ ibd \in BOOLEAN
    /\ future \subseteq Block
    /\ thread \in [Thread -> ThreadState]

\* Notaries sign blocks of the chain their notarisation is mined in, with
\* their right height: what the dPoW protocol promises about its input.
HonestNotaries ==
    \A b \in Block : Notarises[b] # NoNotarisation =>
        /\ Notarises[b].hash \in Path[b]
        /\ Notarises[b].height = Height[Notarises[b].hash]
        /\ Notarises[b].height > 0

\* With honest notaries no notarised block ever leaves the active chain: not
\* by a reorganisation, an invalid block on the way, invalidateblock, or
\* ActivateBestChain with fSkipdpow (DisconnectTip, ActivateBestChainStep).
NotarisedInActiveChain ==
    /\ last.hash \in Path[tip] \cup {NoBlock}
    /\ \A i \in DOMAIN npoints : npoints[i].notarized_hash \in Path[tip]

\* What makes them inductive.  One thread at a time holds cs_main; every
\* ancestor of a linked block is linked; a step works towards a linked block;
\* and while it connects blocks the tip is a proper ancestor of its target.
OneHolder ==
    \A t, u \in Thread :
        thread[t].pc \in Holding /\ thread[u].pc \in Holding => t = u

AncestorsLinked == \A b \in linked : Path[b] \subseteq linked

TargetLinked ==
    \A t \in Thread : thread[t].pc \in {"disconnect", "connect"} => thread[t].target \in linked

TipBelowTarget ==
    \A t \in Thread : thread[t].pc = "connect" =>
        tip \in Path[thread[t].target] \ {thread[t].target}

ChainInv ==
    /\ TypeOK
    /\ OneHolder
    /\ AncestorsLinked
    /\ TargetLinked
    /\ TipBelowTarget

\* The last notarised block is on the active chain, at the recorded height,
\* and every checkpoint lies on its path.
Anchor == IF last.hash = NoBlock THEN Genesis ELSE last.hash

NotaryInv ==
    /\ last.hash # NoBlock => last.hash \in Path[tip] /\ last.height = Height[last.hash]
    /\ last.hash = NoBlock => last.height = 0
    /\ \A i \in DOMAIN npoints : npoints[i].notarized_hash \in Path[Anchor]

\* The promise of delayed proof of work: with honest notaries the node
\* implements the abstract chain whose notarised prefix is final.
Ledger == INSTANCE NotarisedChain WITH anchor <- Anchor

ImplementsNotarisedChain == Ledger!Spec

\* What was notarised stays notarised and active.
NotarisedForever == Ledger!FinalForever

\* Whatever the notaries sign: once the recorded block is on the active chain
\* no step disconnects it (the notarised-tip check of DisconnectTip).
HeldWhileActive == [][last.hash \in Path[tip] => last.hash \in Path[tip']]_vars

\* The last notarised height never decreases (SetLastNotarizedHeight against
\* the resets in NotarizedHeight).
LastNotarisedGrows == [][last'.height >= last.height]_vars

\* No ActivateBestChainStep rolls back more than MAX_REORG_LENGTH blocks,
\* whatever happens on the new branch.
ReorgBounded ==
    \A t \in Thread : thread[t].pc \in {"disconnect", "connect"} =>
        Height[thread[t].oldTip] - Height[tip] <= MaxReorg

\* What makes it inductive: a step in state s goes down the old chain no
\* further than the fork with its target, and the fork is within the limit.
DownToFork(s, block) ==
    LET fork == FindFork(s.oldTip, s.target)
    IN  /\ Height[s.oldTip] - Height[fork] <= MaxReorg
        /\ Height[fork] <= Height[block]
        /\ s.pc = "disconnect" => block \in Path[s.oldTip]

ReorgInv ==
    \A t \in Thread : thread[t].pc \in {"disconnect", "connect"} => DownToFork(thread[t], tip)

\* ConnectTip's assertion pindexNew->pprev == chainActive.Tip(), with the
\* target of the step still ahead.
ConnectsToTip ==
    \A t \in Thread : thread[t].pc = "connect" =>
        /\ tip \in Path[thread[t].target] \ {thread[t].target}
        /\ Parent[NextBlock(t)] = tip

\* CheckBlockIndex (run under cs_main by every thread): nChainTx is known
\* exactly for the blocks all of whose ancestors have been received.
LinkedIffReceived ==
    CsMainFree => linked = {b \in index : Path[b] \subseteq data}

\* CheckBlockIndex: a block that is as good as the tip, not invalid and
\* completely received is a candidate.
CandidatesComplete ==
    CsMainFree => \A b \in linked :
        (~Worse(b, tip) /\ Path[b] \cap failedValid = {}) => b \in candidates

\* No thread is inside ActivateBestChain, nor has it given up there: a chain
\* beyond the last notarised block or the reorganisation limit was in the way.
AtRest == \A t \in Thread : thread[t].pc = "idle"

\* At every moment, also in the middle of a reorganisation, the best block
\* that is received and not invalid is a candidate: setBlockIndexCandidates
\* never loses the chain the node has to return to.
BestBlockIsCandidate ==
    LET valid == {b \in linked : Path[b] \cap failedValid = {}}
    IN  \A b \in valid : (\A d \in valid : ~Worse(b, d)) => b \in candidates

\* CheckBlockIndex: a block worse than the tip is not a candidate.
CandidatesNotWorse ==
    CsMainFree => \A c \in candidates : ~Worse(c, tip)

\* CheckBlockIndex: a block is marked failed only below a block that failed
\* itself.
FailedHasCause ==
    CsMainFree => \A b \in failed : Path[b] \cap failedValid # {}

\* CheckBlockIndex: mapBlocksUnlinked holds the received blocks that wait for
\* an ancestor, all of them unless an ancestor is invalid.
UnlinkedExact ==
    CsMainFree =>
        /\ \A b \in unlinked : ~(Path[b] \subseteq data)
        /\ \A b \in data : (~(Path[b] \subseteq data) /\ Path[b] \cap failedValid = {})
                             => b \in unlinked

\* What CheckBlockIndex asserts of the candidates, the failure marks and
\* mapBlocksUnlinked, after any interleaving of two threads: of the
\* candidates' completeness, what the call at the end of ActivateBestChain
\* sees when no other thread is inside it.
CheckBlockIndex ==
    /\ AtRest => CandidatesComplete
    /\ CandidatesNotWorse
    /\ FailedHasCause
    /\ UnlinkedExact

\* FindMostWorkChain walks only to the active chain, "as we know all blocks in
\* it are valid already".
ActiveChainValid == CsMainFree => Path[tip] \cap failed = {}

\* When every thread is done and its ActivateBestChain returned true, the active
\* chain is the best one: no received block beats the tip unless it is failed or
\* was stored without being activated (from the future, or near the Sapling
\* activation).
Activated(b) == Path[b] \cap (failedValid \cup FutureInit \cup BadContext) = {}

BestChainAtRest ==
    AtRest => \A b \in linked : Activated(b) => ~Worse(tip, b)

\* Every call of ActivateBestChain and InvalidateBlock returns.
ActivationEnds ==
    \A t \in Thread : thread[t].pc \notin Resting ~> thread[t].pc \in Resting

----------------------------------------------------------------------------
(***************************************************************************)
(* What makes the invariants of the block index inductive.                 *)
(***************************************************************************)
\* R orders the members of S that have the same value of f, strictly and
\* totally.
StrictOrder(R, S, f) ==
    /\ R \subseteq {p \in S \X S : f[p[1]] = f[p[2]]}
    /\ \A a, b \in S : <<a, b>> \in R => <<b, a>> \notin R
    /\ \A a, b \in S : a # b /\ f[a] = f[b] => <<a, b>> \in R \/ <<b, a>> \in R
    /\ \A a, b, c \in S : <<a, b>> \in R /\ <<b, c>> \in R => <<a, c>> \in R

\* Sequence ids order the linked blocks of equal work, mapBlocksUnlinked the
\* waiting blocks of one parent, and no candidate is worse than the tip, also
\* in the middle of a step.
OrderInv ==
    /\ linked \subseteq data
    /\ unlinked \cap linked = {}
    /\ StrictOrder(older, linked, ChainWork)
    /\ StrictOrder(inserted, unlinked, Parent)
    /\ \A c \in candidates : ~Worse(c, tip)

\* Blocks that AcceptBlock will never store.
Hopeless == IF NearSapling THEN {} ELSE BadContext \ (future \cup data)

\* Without the RPCs: what is failed is linked or will never be stored, and a
\* stored block is linked, waits, or waits in vain.
ReceivedInv ==
    /\ failedChild \subseteq linked
    /\ failedValid \subseteq linked \cup Hopeless
    /\ \A d \in data : Path[d] \subseteq data => d \in linked
    /\ \A d \in data : d \in linked \cup unlinked \/ Path[d] \cap Hopeless # {}

\* Without the RPCs: no failed block is on the active chain or on the way to
\* the target of a step.
UnfailedInv ==
    /\ Path[tip] \cap failed = {}
    /\ \A t \in Thread :
          /\ thread[t].pc # "invalidate"
          /\ thread[t].pc \in {"disconnect", "connect"} => Path[thread[t].target] \cap failed = {}

\* When failures are never cleared: every failure has its cause, and a stored
\* block that does not wait has a failed ancestor.
CauseInv ==
    /\ \A b \in failed : Path[b] \cap failedValid # {}
    /\ \A d \in data : d \in linked \cup unlinked \/ Path[d] \cap failedValid # {}

\* All blocks of b's chain can be connected.
Sound(b) == Path[b] \cap (BadConnect \cup BadContext \cup future) = {}

\* When failures are never cleared: some block that was connected is valid,
\* and the valid blocks that are not worse than it are all candidates.
BestInv ==
    /\ Sound(tip)
    /\ \E w \in linked :
          /\ Sound(w)
          /\ Path[w] \cap failedValid = {}
          /\ \A b \in linked : Path[b] \cap failedValid = {} /\ ~Worse(b, w) => b \in candidates
=============================================================================
