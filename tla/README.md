# A verification of the komodo node in TLA+

komodo is a Bitcoin/Zcash-derived node with *delayed proof of work* (dPoW):
notaries record a block of the chain on another chain and mine a
*notarisation* of it back; a node refuses to reorganise below its last
notarised block. This project models the part of the node that decides which
chain is active, and what lies under and beside it: the coins caches, the files
and databases, the memory pool, the script checks and the RPC services. It
shows what its users rely on: the node ends on the best chain it may switch to,
its bookkeeping stays consistent under every order of messages, threads and
operator commands, what is notarised stays, a restart finds a state that fits
together, the pool can be mined, and a shutdown completes.

Line numbers below refer to the files in `src/src/`.

## 1. Inventory

| Part | State | Operations | Talks to | What is hard |
|---|---|---|---|---|
| Block tree, active chain (`chain.*`) | `CBlockIndex` (`pprev`, `nHeight`, `nChainWork`, `nStatus`, `nSequenceId`, `nChainTx`), `chainActive` | `SetTip`, `FindFork`, `GetAncestor`, `GetLocator` | everything | skip pointers; validity levels packed with flags in `nStatus` |
| Acceptance (`main.cpp` 4723–5823) | `mapBlockIndex`, `mapBlocksUnlinked`, `setBlockIndexCandidates` | `AcceptBlockHeader`, `AcceptBlock`, `ReceivedBlockTransactions`, `ProcessNewBlock` | activation, dPoW | data before parents, duplicates, blocks from the future |
| Activation (`main.cpp` 4017–4647) | the same, `chainActive` | `FindMostWorkChain`, `ActivateBestChain(Step)`, `ConnectTip`, `DisconnectTip`, `PruneBlockIndexCandidates` | dPoW, coins, mempool, wallet | `cs_main` is released between steps; a step fails half-way; a depth limit |
| `invalidateblock`, `reconsiderblock` | failure bits | `InvalidateBlock`, `ReconsiderBlock` | activation (with `fSkipdpow`) | long legal sequences; refusal half-way |
| dPoW (`komodo*.cpp`) | `komodo_state::last`, `NPOINTS`, `NPOINTS_last_index` | `komodo_connectblock`, `komodo_voutupdate`, `NotarizedHeight`, `NotarizedData`, `komodo_checkpoint` | acceptance, activation | nothing is undone by a disconnect; cached search; two records of one fact |
| Komodo state file (`komodo_events.cpp`, `komodo_gateway.cpp`) | `events`, `SAVEDHEIGHT`, `CURRENT_HEIGHT` | add, undo, rewind, write, replay | dPoW | restart |
| Coins (`coins.*`, `txdb.*`) | cache of coins, anchors, nullifiers with DIRTY/FRESH | fetch, modify, spend, `Flush` | activation | flags across layers |
| Flush and restart (`main.cpp` 3908, 6097) | block files, index, chainstate | `FlushStateToDisk`, `LoadBlockIndexDB` | coins | a crash between writes |
| Memory pool (`txmempool.*`) | `mapTx`, `mapNextTx`, nullifiers | add, remove, `removeForReorg`, `removeForBlock` | activation | agreement of the maps |
| Script checks (`checkqueue.h`) | `queue`, `nIdle`, `nTodo`, `fAllOk` | `Loop`, `Add`, `Wait` | `ConnectBlock` | master and workers waiting on one another |
| RPC services (`httpserver.cpp`, `asyncrpcqueue.*`, `init.cpp`) | work queue, operations, threads | enqueue, run, reply, cancel, close, stop | wallet | cancel against start; everyone waiting at shutdown |
| Block download (`main.cpp` 300–640, `SendMessages`) | `mapBlocksInFlight`, per-peer state | request, receive, stall, time out | acceptance | counters per peer |
| Network, addrman, scheduler, wallet, miner, contracts, nSPV | | | | see section 6 and `PROJECT.json` |

The hazards of the code, each at its line and with the properties that would
catch it going wrong, are listed in `PROJECT.json`.

## 2. How the parts fit together

`BlockTree` is the common ground: `ChainActivation`, `KomodoState`,
`ChainFlush` and `Mempool` extend it or use trees of its shape. The other parts
are composed by abstraction:

- `ChainActivation` decides which chain is active, for any set of invalid
  blocks. Under it, `Mempool` and `ChainFlush` let *any* chain be activated that
  has more work (`Mempool`) or any child of the tip be connected (`ChainFlush`),
  so they cover what the core decides.
- `CoinsCache` shows that the stack of caches behaves as the plain maps of
  `CoinsView`. `Mempool` and `ChainFlush` then use the plain state: the coins
  are given by the best block.
- `CheckQueue` shows that `CCheckQueueControl::Wait` gives the verdict of the
  checks; in the core that verdict is the input `BadConnect`.
- `KomodoState` refines what `ChainActivation` says of `last` and `NPOINTS` over
  events, the state file and restarts. Both use `Checkpoints`.
- `Services` is where RPCs come from and how the node stops.

## 3. Modules

- **`BlockTree`** — the headers a node may ever hear of: a fixed tree given by
  `Parent`, `Height`, `ChainWork` and `Path` (the blocks from the genesis block
  to `b`), and `NoBlock`, the null hash. The assumptions say that these agree,
  as `AddToBlockIndex` makes them: every block but the first has a parent one
  lower, with less work, and its walk is that of the parent and itself. That
  walks are nested and have one block at each height is proved from this.
  `GetAncestor` and `FindFork` are defined by what they compute.
- **`Checkpoints`** — `komodo_state::NotarizedData` over `NPOINTS`, with the
  search index it caches.
- **`ChainActivation`** — the core, below.
- **`MCChainActivation`** — small trees, and `FindMostWorkChain` written as the
  loop it is, against which the closed form used by the actions is checked.
- **`NotarisedChain`** — the abstract specification: a chain whose prefix up to
  an anchor is final.
- **`KomodoState`** — `komodo_state` over reorganisations and restarts, below;
  **`MCKomodoState`** — its trees and an old state file.
- **`CoinsView`** — the abstract specification of the coins: three plain maps
  (the view of a block, `pcoinsTip`, the database); **`CoinsCache`** — the
  caches of `coins.cpp`, below.
- **`ChainFlush`** — files, databases, flush, pruning and restart, below;
  **`MCChainFlush`** — its tree.
- **`Mempool`** — the pool and the orphan transactions, below;
  **`MCMempool`** — a tree with transactions.
- **`CheckQueue`** — the script check threads, below.
- **`Services`** — the RPC threads and the shutdown, below; **`MCServices`** —
  its requests.
- **`BlockTreeProofs`** — lemmas about walks along `pprev` and about the search;
  **`ChainActivationProofs`**, **`ChainFlushProofs`**, **`KomodoStateProofs`**,
  **`CoinsCacheProofs`**, **`CheckQueueProofs`**, **`MempoolProofs`** and
  **`ServicesProofs`** — the theorems (section 5).

Operators introduced as a *slip* are plausible mistakes in the definition that
follows them. No specification uses them; `mutants` in `PROJECT.json` names the
property that notices each.

### State of `ChainActivation` and the code

| Variable | Code |
|---|---|
| `index` | keys of `mapBlockIndex` |
| `data` | entries with `BLOCK_HAVE_DATA` (`nTx # 0`; nothing is pruned) |
| `linked` | entries with `nChainTx # 0` |
| `older` | `nSequenceId`, as an order between blocks of equal work (all that `CBlockIndexWorkComparator` sees of it) |
| `unlinked`, `inserted` | `mapBlocksUnlinked` and the insertion order of equal keys in it |
| `failedValid`, `failedChild` | `BLOCK_FAILED_VALID`, `BLOCK_FAILED_CHILD` |
| `candidates` | `setBlockIndexCandidates` |
| `tip` | `chainActive.Tip()`; `chainActive` is `Path[tip]` |
| `last`, `npoints`, `lastIndex` | `komodo_state::last`, `NPOINTS`, `NPOINTS_last_index` |
| `ibd` | `IsInitialBlockDownload()` has not latched |
| `future` | blocks stamped 60 to 300 seconds ahead of the clock |
| `thread` | where each thread is, with `fSkipdpow`, `pindexMostWork` and `pindexOldTip` |

An action is the code between two points at which another thread can take
`cs_main`, or one `ConnectTip`/`DisconnectTip` of a step (the lock is held in
between, `CsMainFree` keeps the others out; the finer grain lets the properties
see the middle of a reorganisation). Each thread is idle, inside
`ActivateBestChain` before a step or at the loop condition (both without the
lock), or inside a step. An idle thread whose last `ActivateBestChain` returned
false is `refused`, which only `BestChainAtRest` tells from idle.

| Action | Code |
|---|---|
| `ReceiveHeader`, `RefuseHeader` | `headers` message, `AcceptBlockHeader`, `komodo_checkpoint` |
| `IgnoreBlock`, `RejectBlock`, `StoreBlock` | the outcomes of `AcceptBlock` inside `ProcessNewBlock`; the thread goes on to `ActivateBestChain` unless the block is refused or from the future |
| `ActivateNothing/Refuse/TooDeep/Begin` | `FindMostWorkChain` and the head of `ActivateBestChainStep` |
| `StepDisconnect`, `StepDisconnectRefused`, `StepForkReached` | the disconnect loop |
| `StepConnect`, `StepConnectInvalid`, `StepConnectFuture` | the connect loop: success, an invalid block, a failure that is not the block's |
| `CheckTip` | the loop condition, read without the lock |
| `InvalidateRPC/Disconnect/Refused/Done`, `ReconsiderRPC` | the two RPCs |
| `QueryNotarized` | any other caller of `komodo_notarized_height`, which resets `last` when its block is unknown |
| `LeaveInitialDownload`, `TimePasses` | environment |

Which blocks are invalid is an input: `BadContext` fail
`ContextualCheckBlock`, `BadConnect` fail `ConnectBlock`. A block that fails
the context-free checks never enters. `Notarises[b]` is the notarisation
carried by `b`; the theorems about notarised blocks assume `HonestNotaries`
(a notarisation is of an ancestor, with its height); the run `deferred` does not.

### `KomodoState`

`sp` is the `komodo_state`: `events`, `SAVEDHEIGHT`, `CURRENT_HEIGHT`,
`NPOINTS`, `NPOINTS_last_index` and `last`. Beside it are the tip, the static
`hwmheight` of `komodo_connectblock`, the records of the file `komodostate`,
those that a start in progress has still to read (`unread`) and the number of
starts; whether the node is a notary is chosen at each start. `stopped` is a
history variable, `last` at the time of the stop. Until the file is read nothing
but `komodo_faststateinit` and another stop happens.
`Inherited` are the tips and files a first start may find: none, or those an
earlier release left, whose records could be read. The functions of `komodo_events.cpp` are operators
from a state to a state, so that connecting a block and reading the file back
apply the same ones, as in the code. An event carries the block during whose
connection it arose; only the properties look at that.

| Action | Code |
|---|---|
| `ConnectTip` | `ConnectBlock` with `komodo_connectblock(true)` on chains that pay notaries, then `komodo_connectblock(false)`: the high water mark, the rewind and its record, the notarisation, the height event |
| `RefuseBlock` | a block that fails after `komodo_connectblock(true)`, or `TestBlockValidity` |
| `DisconnectTip` | the refusal at the last notarised block; `komodo_disconnect` does nothing |
| `ProcessNewBlock` | the `komodo_currentheight_set` at its start |
| `CheckHeader` | `komodo_checkpoint`, which moves the cached index |
| `Restart` | the node stops at any moment and starts; the statics and the state are gone |
| `komodo_faststateinit` | one turn of its loop over the file: `komodo_parsestatefiledata` for one record |

`write_event` is modelled by what it does: streaming a `shared_ptr` writes the
address it holds, and the parser skips what begins with no known letter. An
event's type is the number of its enumerator, and `komodo_event_undo` compares
it with character codes, as the code does. The chain moves one block at a time
at the tip as `ActivateBestChain` may move it; the choice of the chain, an
incomplete block index and the initial download are in `ChainActivation`. Two
abstractions: the events of ratified notaries, prices and op_returns are left
out, and so is `KOMODO_LASTMINED`.

### `CoinsCache`

The view of a block (`view...`) over `pcoinsTip` (`tip...`) over the database
(`db...`): for each transaction an entry with its unspent outputs and the flags
FRESH and DIRTY, for each nullifier and anchor an entry with `entered` and
DIRTY, the lazily read `hashBlock` and anchor, and `cachedCoinsUsage`. One
shielded pool; the other runs the same templates. `phase` follows `ConnectTip`
and `DisconnectTip`: a view is opened, used, finished by `Connected` or
`Disconnected`, and flushed or dropped. Reads (`GetCoins`, `GetNullifier`,
`GetAnchorAt`, `ReadRoots`) are actions because they fill the caches of both
levels. `FlushTip` writes `pcoinsTip` to the database, only between two blocks;
`Crash` loses everything above the database.

### `ChainFlush`

`AcceptBlock` and `FindBlockPos` place a block in a file and enter it in the
index; `ConnectTip` writes the undo record, `DisconnectTip` reads it;
`FlushStateToDisk` runs through its stages one action at a time (commit of the
block files, index batch, unlinking of pruned files, coins batch);
`FindFilesToPrune` and `PruneOneBlockFile` prune. `Crash` keeps every completed
write, `PowerLoss` any part of what was not synced; `LoadBlockIndexDB` is the
restart. `Faults` are the writes that may fail, each with what the code does
then: a block, an undo record, the index batch, the coins batch, or no space.

### `Mempool`

`pool` is `mapTx`, `mapNextTx`, the nullifier map, `mapRecentlyAddedTx` and the
size; `tmp` is `tmpmempool`; `orphans` and `byPrev` are the orphan maps. A call
(`op`) that holds `cs_main` takes several steps where other threads can see the
pool in between: `DisconnectTip` puts the transactions of the block back one by
one (`Resurrect`), the `tx` message works through its orphans (`VisitOrphan`,
`NextInWorkQueue`). `ConnectTip` and `ConnectTipInvalid` include `CheckBlock`,
which on chains with crypto conditions (`cc`) moves the pool into `tmpmempool`,
adds the block's transactions and swaps back, or returns in the middle.
`StepEnd`, `StepFails` and `InvalidateEnd` are the exits of the callers, with
`removeForReorg`, `removeWithoutBranchId` and `removeExpired` where the code
has them. `StepFails` covers a `ConnectTip` that fails without an invalid block:
its file cannot be read, `komodo_check_deposit` refuses it, or it is from the
future. In the last two cases (`Deferred`, the blocks they may happen to)
`CheckBlock` has swapped the pool by then, and with the deposit not back. A
recursive `remove` is the smallest set closed under spending.

### `CheckQueue`

One action per critical section of `Loop`: enter, take a batch, work without
the lock, report, sleep, wake up (also without a reason). Masters take the
`ControlMutex`, add checks, wait, and may leave early (`Leave`, the destructor).
`InterruptAll` is the shutdown: an interrupted thread leaves `cond.wait` by an
exception, and a master thrown out waits again in its destructor.

### `Services`

The event thread (`http_request_cb`, `http_reject_request_cb`, replies,
`ThreadHTTP`), the HTTP workers (`Run`, the handlers of `z_sendmany`,
`z_getoperationresult` and `stop`, `WriteReply`, `ThreadCounterGone`), the async worker
(`AsyncRun`, `isCancelled`, `Executing`, `Finished`) and the main thread from
`WaitForShutdown` through `Interrupt` and `Shutdown` until the event thread is
joined. `cancel()` and `main()` of an operation read the state and store it in
separate steps, as the code does. `HTTPReq_JSONRPC` replies after
`tableRPC.execute` has returned, in a step of its own: the operation a
`z_sendmany` added may be run, and reported to another request, before the reply
with its id is written. `told` and `outcome` record what was reported
and what happened. Two things are taken as they normally are, and listed as
hazards: every worker has entered `Run`, and a callback is not suspended across
the whole shutdown.

## 4. Runs

Tree used unless said otherwise (`Fork`): `0-1-2-3` and `0-1-4-5-6`; 3
notarises 2 and 5 notarises 4, so each branch is notarised above the fork.

| Run | Setting | Shows |
|---|---|---|
| `network` | two threads, block 5 fails to connect, reorganisation limit 2, fairness | `ChainInv` (the inductive invariant of the proofs), `CheckBlockIndex` (what that function asserts of candidates, failure marks and `mapBlocksUnlinked`), the loop of `FindMostWorkChain` against its closed form, `BestBlockIsCandidate` in the middle of a reorganisation too, `BestChainAtRest`, `ActivationEnds` |
| `deferred` | a notary node in the initial download, 5 from the future and failing its contextual check later, 3 carries a notarisation of the other branch, limit 1 | `ReorgBounded` |
| `cc` | crypto conditions, near Sapling, 3 fails its contextual check | `LinkedIffReceived`, `ActiveChainValid` |
| `rpc` | small tree `0-1-2-3`, `0-1-4` with heavy 4, both RPCs, two threads | dPoW: `NotarisedInActiveChain`, `HeldWhileActive`, and the refinement `ImplementsNotarisedChain` |
| `state` | an asset chain that pays notaries, `0-1-2-3` and `0-1-4-5-6-7` with five carriers, two starts, each as a notary or not, the first with no state file or with one of an earlier release | `StateInv` (the inductive invariant of the proofs), `EventsOfActiveChain`, `HeightsCoverTip`, `LastIsNewestPoint`, `SearchExact`, `CheckpointsNested` |
| `checks` | two masters, one worker, four checks of which one fails, batches of at most two, a shutdown at any moment, fairness | `VerdictExact`, `CleanBetweenBlocks`, `QueueInv` (every check is counted once; `nIdle` and `nTotal`), `WaitReturns` |
| `coins` | a transaction, a nullifier, two anchors, two blocks; crashes at any moment | `CoinsInv` (FRESH hides nothing, the assertion of `BatchWrite`, the current anchor is readable), `UsageExact`, the refinement `ImplementsCoinsView` |
| `flush` | two branches, three block files, pruning, one stop, one failed write | `FlushInv` (the inductive invariant of the proofs), `DatabaseExact` (the coins are those of the best block), `RestartPossible`, `DataBacked` (what the index refers to is there), `RollbackPossible` |
| `mempool` | the tree and transactions described in `MCMempool`, with and without crypto conditions | `MempoolInv` (the types and the inductive invariants of the orphans and of mining), `PoolInv` (what `CTxMemPool::check` asserts, at every point another thread can see), `PoolMinable`, `OrphansIndexed`, `OrphansResolved`, `RefusedBlockLosesNothing` |
| `services` | two HTTP workers, one async worker, a work queue of one place, `z_sendmany`, two `z_getoperationresult`, `stop` and a signal, fairness | `ServicesInv` (the inductive invariant of the proofs; the queue is deleted after its threads have left), `ResultOnce`, `NothingLeft`, `ShutdownCompletes` |
| `v_persist`, `v_mature` | | disagreements, below |

Each module has one type invariant, `TypeOK`, checked as a conjunct of
`ChainInv`, `StateInv`, `QueueInv`, `CoinsInv`, `FlushInv`, `MempoolInv` and
`ServicesInv`.

**Bounds.** Two threads suffice for every interleaving of a step with another
one, since only one of them can hold the lock. Six blocks besides the genesis
block give a reorganisation of depth two in each direction, ties in work,
blocks that wait for a parent and for a grandparent, an invalid block in the
middle of the new branch, and a notarisation on each side of the fork. The RPC
run has four, because any block may be invalidated or reconsidered at any
moment. `MaxReorg` (the code has 1440 or less) is 1 or 2 so that it is met,
`DownloadWindow` 2 likewise. In the core the tree itself bounds everything: no
counter is cut off. `KomodoState` bounds the records of the file (`MaxFile`,
16: enough for two reorganisations and the longest branch) and the starts
(`MaxRuns`); its branch of six blocks carries three notarisations, so that a
search starts from a cached index. `PayAbove` is 1 where the code has 10.

In `checks` the queue of four checks and batches of two let a worker and the
master share a block, and one take over what the other left. In `coins` one
transaction and one nullifier suffice since entries are independent of each
other; the two anchors are the empty tree and another. In `flush` a file holds
two blocks and there are three files (`MaxFile`), so that files are left and
pruned, and both branches share one; `MaxStops` and `MaxFaults` are 1. The
constraint `FaultsOnOneBranch` keeps behaviours with a failed write or a loss of
power to the first branch and the first files, and ends those with a failed
write at the next start (what happens after it is covered by the proofs only).
In `mempool`
the orphan limit is 2, so that eviction happens, `COINBASE_MATURITY` is 2, and
the pool holds an orphan of an orphan, two double spends, three reveals of a
nullifier, and a transaction of the next branch id; block 5 is the one in
`Deferred`. The constraint `LittleSwapped` stops after an early return of
`CheckBlock` that left two transactions or more in `tmpmempool` (that step is
still checked). In `services` the work queue
has one place, so that its limit is met while both workers are busy; the client
sends its four requests in a fixed order (`InTurn`) and waits for a reply only
before `stop`; a signal stops the node at any time.

Deadlock is checked where the system may not stop (`network`, `deferred`,
`cc`, `rpc`, `state`, `coins`); `checks`, `flush`, `mempool` and `services` may
stop: after a shutdown, at a bound, or when there is nothing left to do.

**Fairness.** `network` assumes weak fairness of each thread's own steps
(`Proceed`): a thread inside `ActivateBestChain` or `InvalidateBlock` runs
unless it waits for the lock, and while it waits the holder is itself inside a
step that ends. Nothing is assumed of peers, miner, operator or clock. Weak
fairness suffices although the lock comes and goes because the tree bounds how
often the others can change anything. `checks` assumes it of each master and
of each worker that has entered `Loop`; script checks end. `services`
assumes it of each worker, of the event thread as far as it ends what was begun,
and of the main thread; handlers and operations end. No notification, request,
signal or spurious wake-up is assumed to come, nor that the two seconds given to
the event loop run out.

**Disagreements found.** Two runs show that the code departs from what it says
(`findings` in `PROJECT.json`):

| Run | What happens |
|---|---|
| `v_persist` | a restart reads back no notarisation, because `write_event` wrote addresses; until the next notarisation the node may disconnect what was notarised |
| `v_mature` | `removeForReorg` keeps the spend of a coinbase that a reorganisation made immature |

With `write_event` writing the event TLC finds `NotarisationPersisted` to hold;
`EventsOfActiveChain` would then fail after a restart, because `hwmheight`
starts at 0 and the first reorganisation is not recognised. It is therefore
stated for files that give no event back, as today's do. `CheckpointsNested` is
lost where an earlier release left a notarisation of a fork, a notary disputes
it, reorganises below it, and takes it from the file at the next start; the old
file of `state` has none of a fork. The theorems of `ChainActivationProofs` about
notarised blocks are about one start.

Others were met while modelling and are not kept as runs; the properties are
stated so as to leave them out, and where `PROJECT.json` has the hazard it has a note.

- `main.cpp:4562` — a block from the future ends a reorganisation half-way, with
  a tip that is not a candidate.
- `main.cpp:4612` — an `ActivateBestChain` that has disconnected blocks, meets an
  invalid one and is then refused the next best chain returns with a tip below
  the chain it came from, which the next call restores. `BestChainAtRest` is
  therefore about calls that returned true.
- `main.cpp:4856` — a block received while its parent is invalid is not put into
  `mapBlocksUnlinked`, and is never linked after `reconsiderblock`.
- `main.cpp:4713` — `reconsiderblock` leaves `BLOCK_FAILED_CHILD` on other
  descendants of the ancestors it clears.
- `main.cpp:4659` — an `invalidateblock` refused at the notarised block leaves
  the active chain marked failed.
- `main.cpp:5484` — on a chain with crypto conditions a header clears a failure
  without restoring the candidate.
- After an invalid block `cs_main` is released with a shortened chain, and
  blocks now as good as the tip are not candidates until the loop continues:
  `CheckBlockIndex` asks for complete candidates only at rest.
- `komodo_bitcoind.cpp:1040` — a checkpoint whose carrier was disconnected hides
  newer ones from `komodo_checkpoint`. `last`, which guards `DisconnectTip`, is
  not affected.
- `komodo_event_undo` compares with letters where the events carry enumerators,
  so `SAVEDHEIGHT` is not taken back.
- `main.cpp:3989` — after a failed coins batch the cache has been emptied and
  keeps its best block; the next flush writes a best block whose coins were lost.
- `main.cpp:3979` — after a failed index batch the dirty sets are empty.
- `main.cpp:3953` — an undo record goes to the file of its block, which may be
  older than the last one and is then not committed before the index is.
- `main.cpp:5661` — `AcceptBlock` goes on after `WriteBlockToDisk` failed.
- `main.cpp:4510` — a step that fails after a disconnect leaves the pool without
  `removeForReorg`; `PoolMinable` leaves such a pool out until it is
  cleaned.
- `main.cpp:5262` — on chains with crypto conditions an early return of
  `CheckBlock`, also one that does not make the block invalid, leaves the pool in
  `tmpmempool` and the unchecked transactions of the refused block in the pool.
- An orphan transaction whose parent arrives in a block stays an orphan, and
  `removeExpired` keeps a transaction that expires at the height of the tip.
- `asyncrpcoperation.cpp:81` — during a shutdown an operation may be reported as
  cancelled and be executed all the same. An operation added to the closed queue
  gets an id that nobody knows.

`CheckBlockIndex` runs only with `-checkblockindex` (the default on regtest).

## 5. Proofs

All theorems hold for every tree, every set of threads and every setting of the
constants that satisfies the assumptions.

`BlockTreeProofs` rests on well-founded induction over the heights: a walk
contains the walk of each of its blocks (`EveryWalk`, `Ancestry`), two blocks of
one walk are ordered by their heights (`PathOrder`), the fork of two blocks is
the highest common one (`ForkFacts`), and two walks of which neither holds the
other part in exactly one pair of siblings (`PartExists`, `PartUnique`).

`ChainActivationProofs`: `ChainInv` is inductive. It joins the types with four
facts: one thread at a time holds `cs_main` (`OneHolder`); the ancestors of a
linked block are linked (`AncestorsLinked`); a step works towards a linked
block (`TargetLinked`); while it connects, the tip is a proper ancestor of its
target (`TipBelowTarget`). The types alone are not inductive: that the new tip
is linked needs `TargetLinked` and `AncestorsLinked`, that nobody else moves
the tip during a step needs `OneHolder`. From it: `TypeCorrect` and
`ConnectsToTipAlways`.

Then, assuming `HonestNotaries`: `NotaryInv` is inductive relative to
`ChainInv`: the last notarised block is on the active chain at its recorded
height, and all checkpoints lie on its path. The argument: `last`
changes only when its carrier is connected, and moves forward along the new
active chain because two ancestors of one block are ordered by their heights;
the tip is disconnected only when it is not that block. From it:
`NotarisedStays`, `LastNotarisedHeightGrows`, `Refinement` (every step is an
`Extend`, a `Retreat` or a stutter of `NotarisedChain`) and `NotarisedIsFinal`.
`RecordedBlockHeld` needs no honesty: once the recorded block is active, no
step removes it.

`ReorgsAreBounded` needs neither: the limit is tested once, at the head of a
step, for the fork of the old tip and the target, so the invariant (`ReorgInv`)
says that the step stays above that fork (`DownToFork`): a block that is not on
the target's walk is above it, and whatever is connected is higher still.

The second half of the module is about the flags and sets of `CheckBlockIndex`,
one inductive invariant on top of the other:

| Invariant | Says | Gives | Holds |
|---|---|---|---|
| `OrderInv` | sequence ids and `mapBlocksUnlinked` order their blocks strictly, no candidate is worse than the tip | `CandidatesOrdered` | always |
| `ReceivedInv` | a stored block is linked, waits, or has an ancestor that will never be stored; what is failed is linked or will never be stored | `LinkedWhenReceived` | without the two RPCs |
| `UnfailedInv` | nothing failed on the active chain or on the way to a target | `ActiveChainIsValid` | without the two RPCs |
| `CauseInv` | each failure has a failed ancestor | `FailuresHaveCauses`, `UnlinkedIsExact` | and without crypto conditions |
| `BestInv` | some connected block is valid and all valid blocks that are not worse are candidates | `BestBlockStaysCandidate` | and without crypto conditions |

The first needs the most room: one arrival may link a whole subtree, in the
order of the walk over `mapBlocksUnlinked`, and the order that results has to be
strict and total again. The hypotheses are those of the code: after
`reconsiderblock` a block may be left out of `mapBlocksUnlinked` for good
(`main.cpp:4856`), and on a chain with crypto conditions a header clears a
failure (`main.cpp:5484`). Of `CheckBlockIndex` one conjunct is left to TLC, on
`network`: at rest the candidates are complete. It is not an invariant of every
instance: with a block from the future the tip may stay low (`main.cpp:4562`),
and so it fails on the setting of `deferred`. `BestChainAtRest` is left to TLC
for the same reason.

`KomodoStateProofs`, for every tree, every placement of notarisations, every
inherited file and any number of starts, each of which may be cut short:
`StateInv` is inductive. Its parts beside the types:

- while a start reads, the high water mark is 0, and what is left to read is of
  the file;
- `EventsInv`, for files that give no event back: an event has the height of its
  block, and one above the high water mark implies that notaries are paid and
  the mark is above `PayAbove`. That is why a mark that moved *down* with a
  block that was looked over does no harm: from that height on every block is
  looked over before it is connected, the mark is then its own height, and the
  rewind happens. Where it does not happen all events are below the block;
- `PointsInv`, for files that give no notarisation back: `last` is on the active
  chain at its recorded height, and every checkpoint is of a block on the path of
  `last`. It needs both guards, of `komodo_voutupdate` (a notarisation above
  `last`) and of `DisconnectTip` (never `last` itself).

The rewind takes events from the back of the list, so that what is kept is below
the height only because the list is in order, which is therefore proved along
with it; a rewind that is recorded undoes its own record (`RewoundFacts`); and
`komodo_event_undo` never meets a type it knows (`RewindFacts`). The theorems:
`EventsStayOfActiveChain`, `HeightsStayAboveTip`, `LastStaysNewestPoint`,
`CheckpointsStayNested` (where no notarisation is inherited, for the reason
given in section 4), and `SearchStaysExact`, from the lemmas of
`BlockTreeProofs`: for any number of checkpoints whose carriers are in the order
of their heights, and any index an earlier search left behind, `NotarizedData`
gives the newest checkpoint carried below the height. A search that has only
lower carriers behind it stops just behind the last lower one (`StopIsNewest`);
the test of the cached index establishes exactly that (`NotarizedDataExact`).
The order is needed: after a reorganisation it may be lost, and the search then
stops early (section 4).

`ChainFlushProofs`, for every block tree, any coins, any number and size of
files and chunks, any set of writes that may fail and any number of stops:
`FlushInv` is inductive. Its parts:

- `LayoutInv` — what the index and the file informations say of each other, in
  memory and on disk: positions lie below the recorded ends, an entry to be
  written has its file's information written in the same batch, and an entry on
  disk that memory has given up refers to a pruned file (`Gone`) whose entry the
  next batch replaces or whose information it leaves alone (`Left`). Without the
  last part a crash between two batches could hand out a position again that
  the index on disk still uses.
- `RecordInv` — what the files hold there: the block's own records, committed
  for all that is on disk, and uncommitted only in the last file.
- `BatchInv` — as long as no index batch fails, what is not dirty is on disk, and
  the index on disk has the headers and undo records of every chain the coins
  database may be found at. It is what the order of the stages is for.
- `CoinsInv` and `RunningInv` — the coins are those of the best block; the node
  comes up again.

`DatabaseIsExact`, `DataIsBacked`, `RestartIsPossible` and `RollbackIsPossible`
follow, each with the failures it excepts and no others. The assumptions on the
constants are their types, that blocks are valid (`ValidBlocks`: a block spends
coins that are there and creates new ones) and that nothing is pruned below
`MIN_BLOCKS_TO_KEEP` (`PruneLate`; the code subtracts unsigned).

`CheckQueueProofs`, for any finite sets of masters, workers and checks and any
batch size: `QueueInv` is inductive. `TodoExact` and `CountersCover` alone are not: a
batch is taken out of the queue and counted until it is reported, so the
invariant also says where each check is (`Batches`: in one place only), whose it
is (`Ownership`: all that is outstanding was added by the one master that holds
the mutex) and what the partial results mean (`Results`). From it:
`VerdictIsExact`, `CleanAlways` and `CountersMeaning`.

`CoinsCacheProofs`, for any transactions, nullifiers, anchors and blocks:
`CoinsInv` is inductive. Its parts say, for each level, what an entry tells of
the level below: a clean entry agrees with it, a FRESH one has nothing unspent
under it, and an entry of the view that is not FRESH has one in `pcoinsTip`. From it:
`FreshAssertionHolds`, `FreshEntriesHideNothing`, `CurrentAnchorIsKnown`, and
`CachesImplementView`. Its lemmas say more than the refinement, which does not
name steps: every call is the step of `CoinsView` of the same name
(`ModifyIsPlain` and so on), and reads are stutters (`ReadsAreSilent`).

`MempoolProofs`, for every block tree and any transactions: `PoolInv` is
inductive. It states what `CTxMemPool::check` asserts in the form that holds
between any two steps: an input of a pooled transaction is an output of another
one, unspent, or an output of a transaction that `DisconnectTip` has still to put
back or remove (`StillToUndo`), and correspondingly for nullifiers and anchors.
`ChainSound` and that only transparent transactions lie in `tmpmempool` make it
inductive. The argument:
whatever is removed is removed with all that spends it (the closure in `remove`),
and the unspent outputs of a block are those of its parent less its inputs and
plus its outputs. From it: `PoolAlwaysChecks`, and `RefusedLosesNothing`: a
block that `ConnectTip` does not connect, invalid or not, takes nothing out of
the pool and `tmpmempool` together. About
inputs and `mapNextTx` it is stated for chains without crypto conditions, for the
reason given in section 4.

Two more invariants are inductive on top of it. `OrphansInv` joins the exact
index of the orphans with what the loop of the `tx` message has achieved so far:
an orphan of a peer in good standing that has a parent among the entries of the
work queue already looked at, and none among those still to come, lacks an
input. It is kept because an orphan that becomes acceptable does so through a
transaction that was accepted just now, which is put at the end of the queue. It
gives `OrphansAlwaysIndexed` and, when the queue is worked off,
`OrphansAlwaysResolved`. `MinableInv` gives `PoolAlwaysMinable`: an entry was
checked when it came in, against the tip of that time, so the invariant says of
each entry what every connected block keeps (`MinableEntry`), and of a step that
it disconnects something, after which the pool is cleaned, or ends on a better
tip having disconnected nothing (`StepMoves`): then heights only grew.

`ServicesProofs`, for any requests, any finite number of HTTP workers, any
async workers and any depth of the queue: `ServicesInv` is inductive. Its parts
beside the types:

- `WorkersInv` — `cs_main` has one holder, and `numThreads` is the number of the
  workers that are inside `Run`. `WaitExit` waits for zero, so that the queue is
  deleted when nobody can touch it any more;
- `RequestsInv` — an accepted request is in the queue, once, or with one worker;
- `OperationsInv` — an operation is known only when the handler of its
  `z_sendmany` has returned, whether or not the reply is written (`Answering`); it
  is told of once and only while the thread that reports it has still to pop it,
  which `cs_main` keeps all others from; what is told is how it ended;
- `StoppingInv` — the order of the shutdown. An operation that is ready when
  `cancelAllOperations` begins is one that it will visit (`cancelling`), because
  the queue was closed before and every later one is not accepted; when the
  async workers have left, the queue of ids is empty; when the workers have
  left, so is the queue of requests; the event loop outlives both.

`ResultsAreOnce` and `NothingIsLeft` follow. The types and the parts depend on
each other: that nobody tells of an operation twice needs the lock, that nothing
is ready after the cancelling needs that operations are known, that nobody
replies after the loop has ended needs the count of the workers.

Assumed in these proofs: that the tree is one (`BlockTree`), that `Calls`, sizes
and sets have their types (for `Services` also that there is an async worker), and for `Mempool` that blocks are valid as the
consensus rules make them (the assumptions of that module; TLC evaluates them on
the instance used).

In every module of proofs Zenon is the default prover, and the steps that need
arithmetic, records or functions name the SMT solver.

Only model-checked: liveness
(`ActivationEnds`, `WaitReturns`, `ShutdownCompletes`), which
is out of the prover's reach, as is the agreement of the recursive
`FindMostWorkChain` with its closed form; `UsageExact` (a sum over a set, by
induction); the completeness of the candidates and `BestChainAtRest`, for the
reason above; and the types of `Mempool`, of which the proofs need only those
that `PoolInv`, `OrphansInv` and `MinableInv` state themselves.

## 6. Not modelled

In the core: `pindexBestInvalid` and fork warnings; the batches of 32 blocks;
hard-coded checkpoints; `KOMODO_REWIND`; the dPoW simulation of regtest;
`Queued_reconsiderblock`; MoM data; the actual shutdown after a too deep
reorganisation (the call ends; the node is asked to stop); skip pointers and
validity levels of `CBlockIndex`, which are modelled by what they compute.

In the other modules: `-reindex`, the notarisation database and the address
indexes (`ChainFlush`); fee estimation, priorities, the rate limiter, import
transactions and the interest rule (`Mempool`); statistics and the contents of
coins beyond their unspent outputs (`CoinsCache`); `finish()` of the async queue,
which only tests call, HTTP parsing and authorisation (`Services`).

Left out as parts: block download scheduling and peer connections, because the
core already takes headers and blocks in every order, duplicated and delayed;
the address manager, scheduler, wallet and nSPV, on which nothing modelled
depends; the consensus rules for scripts, proofs and difficulty, which are
arithmetic and cryptography out of a model checker's reach and enter as sets of
invalid blocks and transactions; the contracts, each a system of its own.
Everything that is left out is listed as a component in `PROJECT.json`, with the
reason.
