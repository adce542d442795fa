----------------------- MODULE ChainActivationProofs -----------------------
(***************************************************************************)
(* Proofs about ChainActivation, for every block tree, every set of        *)
(* threads and every choice of invalid, early and notarising blocks.       *)
(***************************************************************************)
EXTENDS ChainActivation, BlockTreeProofs, TLAPS

\* Zenon is the default; the steps that need arithmetic, records or functions name SMT.
USE ZenonT(40)

----------------------------------------------------------------------------
(***************************************************************************)
(* The inductive invariant ChainInv.                                       *)
(***************************************************************************)
\* FindMostWorkChain returns a candidate or NULL.
LEMMA MostWorkIsCandidate == MostWork \in candidates \cup {NoBlock}
  <1>1. CASE \E c \in candidates : IsMostWork(c)
    BY <1>1 DEF MostWork
  <1>2. CASE ~ \E c \in candidates : IsMostWork(c)
    BY <1>2 DEF MostWork
  <1>. QED
    BY <1>1, <1>2

\* The entries FindMostWorkChain marks BLOCK_FAILED_CHILD are linked.
LEMMA MarkedIsLinked ==
    ASSUME TypeOK, AncestorsLinked
    PROVE  MarkedChild \subseteq linked
  <1>1. \A d \in Dropped : Path[d] \subseteq linked
    BY DEF Dropped, TypeOK, AncestorsLinked
  <1>. QED
    BY <1>1 DEF MarkedChild, OffChain

\* What the conjuncts about threads need: at most one thread t moves, to state
\* s, it may take cs_main only when the lock is free, and the tip changes only
\* when t holds the lock.
LEMMA OneThreadMoves ==
    ASSUME ChainInv, NEW t \in Thread, NEW s \in ThreadState,
           thread' = [thread EXCEPT ![t] = s],
           linked \subseteq linked',
           tip' = tip \/ thread[t].pc \in Holding,
           s.pc \in Holding => CsMainFree \/ thread[t].pc \in Holding,
           s.pc \in {"disconnect", "connect"} => s.target \in linked',
           s.pc = "connect" => tip' \in Path[s.target] \ {s.target}
    PROVE  /\ thread' \in [Thread -> ThreadState]
           /\ OneHolder'
           /\ TargetLinked'
           /\ TipBelowTarget'
  <1>1. thread \in [Thread -> ThreadState]
    BY DEF ChainInv, TypeOK
  <1>2. /\ thread' \in [Thread -> ThreadState]
        /\ thread'[t] = s
        /\ \A u \in Thread \ {t} : thread'[u] = thread[u]
    BY <1>1
  <1>3. OneHolder'
    BY <1>2 DEF ChainInv, OneHolder, CsMainFree
  <1>4. TargetLinked'
    BY <1>2 DEF ChainInv, TargetLinked
  <1>5. ASSUME NEW u \in Thread, thread'[u].pc = "connect"
        PROVE  tip' \in Path[thread'[u].target] \ {thread'[u].target}
    <2>1. CASE u = t
      BY <2>1, <1>2, <1>5
    <2>2. CASE u # t
      <3>1. thread'[u] = thread[u] /\ thread[u].pc \in Holding
        BY <2>2, <1>2, <1>5 DEF Holding
      <3>2. tip' = tip
        BY <2>2, <3>1 DEF ChainInv, OneHolder
      <3>. QED
        BY <3>1, <3>2, <1>5 DEF ChainInv, TipBelowTarget
    <2>. QED
      BY <2>1, <2>2
  <1>. QED
    BY <1>2, <1>3, <1>4, <1>5 DEF TipBelowTarget

\* The states a thread can move to are thread states.
LEMMA ThreadStateTypes ==
    ASSUME NEW skip \in BOOLEAN, NEW b \in Block, NEW c \in Block
    PROVE  /\ Idle \in ThreadState /\ Idle.pc = "idle"
           /\ Refused \in ThreadState /\ Refused.pc = "refused"
           /\ Activating(skip) \in ThreadState /\ Activating(skip).pc = "activate"
           /\ Checking(skip, b) \in ThreadState /\ Checking(skip, b).pc = "check"
           /\ \A pc \in Holding :
                 /\ At(pc, skip, b, c) \in ThreadState
                 /\ At(pc, skip, b, c).pc = pc
                 /\ At(pc, skip, b, c).target = b
  BY GenesisAssumption DEF Idle, Refused, Resting, Activating, Checking, At, ThreadState, Holding

\* A new node satisfies the invariant (InitBlockIndex).
LEMMA ChainInvInit == Init => ChainInv
  <1>. SUFFICES ASSUME Init PROVE ChainInv
    OBVIOUS
  <1>1. TypeOK
    <2>1. npoints \in Seq(Checkpoint)
      BY SMT DEF Init
    <2>2. last \in [hash : Block \cup {NoBlock}, height : Nat]
      BY DEF Init, NoNotarisation
    <2>3. thread \in [Thread -> ThreadState]
      BY ThreadStateTypes, GenesisAssumption, ZenonT(60) DEF Init
    <2>4. ibd \in BOOLEAN /\ future \subseteq Block
      BY ConstantsAssumption DEF Init
    <2>. QED
      BY <2>1, <2>2, <2>3, <2>4, GenesisAssumption DEF Init, TypeOK
  <1>2. \A t \in Thread : thread[t].pc = "idle"
    BY ThreadStateTypes, GenesisAssumption, ZenonT(60) DEF Init
  <1>3. AncestorsLinked
    BY PathAssumption DEF Init, AncestorsLinked
  <1>. QED
    BY <1>1, <1>2, <1>3 DEF ChainInv, OneHolder, TargetLinked, TipBelowTarget, Holding

\* The search that komodo_checkpoint makes leaves an index behind.
LEMMA ConsultedType ==
    ASSUME TypeOK
    PROVE  Consulted.last_index \in Nat
  <1>1. tip \in Block /\ Height[tip] \in Nat
    BY TypeAssumption DEF TypeOK
  <1>2. Heights(Checkpoint)
    BY DEF Heights, Checkpoint
  <1>3. npoints \in Seq(Checkpoint) /\ lastIndex \in Nat
    BY DEF TypeOK
  <1>. QED
    BY <1>1, <1>2, <1>3, CachedIndexType DEF Consulted

\* What AcceptBlockHeader does keeps the types it touches.
LEMMA AcceptedHeaderTypes ==
    ASSUME TypeOK, NEW b \in Block, AcceptBlockHeader(b)
    PROVE  /\ index' \subseteq Block /\ index \subseteq index' /\ b \in index'
           /\ last' \in [hash : Block \cup {NoBlock}, height : Nat]
           /\ npoints' \in Seq(Checkpoint)
           /\ lastIndex' \in Nat
  BY ConsultedType DEF AcceptBlockHeader, TypeOK

\* Headers, refused blocks and blocks left alone (AcceptBlockHeader and the
\* early returns of AcceptBlock).
LEMMA ChainInvHeaders ==
    ASSUME ChainInv, NEW b \in Block
    PROVE  /\ ReceiveHeader(b) => ChainInv'
           /\ RefuseHeader(b) => ChainInv'
           /\ \A t \in Thread, requested \in BOOLEAN :
                 /\ IgnoreBlock(t, b, requested) => ChainInv'
                 /\ RejectBlock(t, b, requested) => ChainInv'
  <1>. USE DEF ChainInv
  <1>1. ASSUME ReceiveHeader(b) PROVE ChainInv'
    <2>1. TypeOK'
      BY <1>1, AcceptedHeaderTypes, ZenonT(60) DEF ReceiveHeader, TypeOK, envVars
    <2>. QED
      BY <1>1, <2>1 DEF ReceiveHeader, OneHolder, AncestorsLinked, TargetLinked, TipBelowTarget
  <1>2. ASSUME RefuseHeader(b) PROVE ChainInv'
    <2>1. TypeOK'
      BY <1>2, ConsultedType DEF RefuseHeader, TypeOK, envVars, treeVars, failVars
    <2>. QED
      BY <1>2, <2>1 DEF RefuseHeader, OneHolder, AncestorsLinked, TargetLinked, TipBelowTarget, treeVars
  <1>3. ASSUME NEW t \in Thread, NEW requested \in BOOLEAN, IgnoreBlock(t, b, requested)
        PROVE  ChainInv'
    <2>1. PICK s \in {thread[t], Activating(FALSE)} : thread' = [thread EXCEPT ![t] = s]
      BY <1>3, ZenonT(60) DEF IgnoreBlock
    <2>2. s \in ThreadState /\ s.pc \in {"idle", "refused", "activate"}
      <3>1. thread[t] \in ThreadState /\ thread[t].pc \in Resting
        BY <1>3 DEF IgnoreBlock, ProcessNewBlock, TypeOK
      <3>2. Activating(FALSE) \in ThreadState /\ Activating(FALSE).pc = "activate"
        BY ThreadStateTypes, GenesisAssumption
      <3>. QED
        BY <2>1, <3>1, <3>2 DEF Resting
    <2>3. linked' = linked /\ tip' = tip
      BY <1>3 DEF IgnoreBlock, ProcessNewBlock
    <2>4. thread' \in [Thread -> ThreadState] /\ OneHolder' /\ TargetLinked' /\ TipBelowTarget'
      BY <2>1, <2>2, <2>3, OneThreadMoves, ZenonT(60) DEF Holding
    <2>5. TypeOK'
      BY <1>3, <2>4, AcceptedHeaderTypes, ZenonT(60) DEF IgnoreBlock, ProcessNewBlock, TypeOK, envVars
    <2>. QED
      BY <2>3, <2>4, <2>5 DEF AncestorsLinked
  <1>4. ASSUME NEW t \in Thread, NEW requested \in BOOLEAN, RejectBlock(t, b, requested)
        PROVE  ChainInv'
    <2>1. TypeOK'
      BY <1>4, AcceptedHeaderTypes DEF RejectBlock, ProcessNewBlock, TypeOK, envVars
    <2>. QED
      BY <1>4, <2>1 DEF RejectBlock, ProcessNewBlock, OneHolder, AncestorsLinked, TargetLinked,
                        TipBelowTarget
  <1>. QED
    BY <1>1, <1>2, <1>3, <1>4

\* ReceivedBlockTransactions links a block only after all its ancestors.
LEMMA NowLinkedClosed ==
    ASSUME TypeOK, AncestorsLinked, NEW b \in Block \ {Genesis}, NEW d \in NowLinked(b)
    PROVE  /\ d \in unlinked \cup {b}
           /\ Path[d] \subseteq linked \cup NowLinked(b)
  <1>1. Parent[b] \in linked /\ d \in Block /\ b \in Path[d] /\ d \in unlinked \cup {b}
    BY PathParent DEF NowLinked, TypeOK
  <1>2. Path[b] \subseteq linked \cup {b}
    BY SMT, <1>1, PathParent DEF AncestorsLinked
  <1>3. ASSUME NEW a \in Path[d], a \notin Path[b]
        PROVE  a \in NowLinked(b)
    <2>1. (Path[d] \ Path[b]) \subseteq unlinked
      <3>1. CASE d = b
        BY <3>1
      <3>2. CASE d # b
        BY <3>2, <1>1 DEF NowLinked
      <3>. QED
        BY <3>1, <3>2
    <2>2. a \in unlinked /\ a \in Block
      BY <1>3, <2>1 DEF TypeOK
    <2>3. b \in Path[a]
      <3>1. Height[a] \in Nat /\ Height[b] \in Nat
        BY <2>2, TypeAssumption
      <3>2. ~ (Height[a] <= Height[b])
        BY <1>1, <1>3, PathOrder
      <3>3. Height[b] <= Height[a]
        BY SMT, <3>1, <3>2
      <3>. QED
        BY <1>1, <1>3, <3>3, PathOrder, ZenonT(60)
    <2>4. Path[a] \subseteq Path[d]
      BY <1>1, Ancestry
    <2>. QED
      BY <1>1, <2>1, <2>2, <2>3, <2>4 DEF NowLinked
  <1>4. b \in NowLinked(b)
    BY <1>1 DEF NowLinked
  <1>. QED
    BY <1>1, <1>2, <1>3, <1>4

\* A stored block (AcceptBlock with ReceivedBlockTransactions).
LEMMA ChainInvStore ==
    ASSUME ChainInv, NEW t \in Thread, NEW b \in Block, NEW requested \in BOOLEAN,
           StoreBlock(t, b, requested)
    PROVE  ChainInv'
  <1>. USE DEF ChainInv
  <1>. DEFINE new == NowLinked(b)
  <1>1. b \in Block \ {Genesis} /\ tip' = tip /\ AcceptBlockHeader(b)
    BY DEF StoreBlock, ProcessNewBlock
  <1>2. /\ linked' = linked \cup new
        /\ data' = data \cup {b}
        /\ older' = WithSequenceIds(new)
        /\ candidates' \subseteq candidates \cup new
        /\ unlinked' \subseteq unlinked \cup {b}
        /\ inserted' \subseteq unlinked' \X unlinked'
    BY DEF StoreBlock, ReceivedBlockTransactions
  <1>3. new \subseteq unlinked \cup {b}
    BY <1>1, NowLinkedClosed
  <1>4. PICK s \in {thread[t], Activating(FALSE)} : thread' = [thread EXCEPT ![t] = s]
    BY ZenonT(60) DEF StoreBlock
  <1>5. s \in ThreadState /\ s.pc \in {"idle", "refused", "activate"}
    <2>1. thread[t] \in ThreadState /\ thread[t].pc \in Resting
      BY DEF StoreBlock, ProcessNewBlock, TypeOK
    <2>2. Activating(FALSE) \in ThreadState /\ Activating(FALSE).pc = "activate"
      BY ThreadStateTypes, GenesisAssumption
    <2>. QED
      BY <1>4, <2>1, <2>2 DEF Resting
  <1>6. thread' \in [Thread -> ThreadState] /\ OneHolder' /\ TargetLinked' /\ TipBelowTarget'
    BY <1>1, <1>2, <1>4, <1>5, OneThreadMoves, ZenonT(60) DEF Holding
  <1>7. TypeOK'
    <2>1. /\ index' \subseteq Block /\ index \subseteq index' /\ b \in index'
          /\ last' \in [hash : Block \cup {NoBlock}, height : Nat]
          /\ npoints' \in Seq(Checkpoint)
          /\ lastIndex' \in Nat
      BY <1>1, AcceptedHeaderTypes
    <2>2. new \subseteq index' /\ new \subseteq Block
      BY <1>3, <2>1 DEF TypeOK
    <2>3. older' \subseteq Block \X Block
      BY <1>2, <2>2 DEF WithSequenceIds, TypeOK
    <2>4. /\ data' \subseteq index' /\ linked' \subseteq index' /\ unlinked' \subseteq data'
          /\ candidates' \subseteq linked' /\ tip' \in linked'
      BY <1>1, <1>2, <2>1, <2>2 DEF TypeOK
    <2>5. failedValid' \subseteq index' /\ failedChild' \subseteq index'
      BY <2>1 DEF StoreBlock, ProcessNewBlock, TypeOK
    <2>6. ibd' \in BOOLEAN /\ future' \subseteq Block
      BY ZenonT(60) DEF StoreBlock, ProcessNewBlock, TypeOK, envVars
    <2>. QED
      BY <1>2, <1>6, <2>1, <2>3, <2>4, <2>5, <2>6 DEF TypeOK
  <1>8. AncestorsLinked'
    <2>1. \A d \in linked : Path[d] \subseteq linked \cup new
      BY DEF AncestorsLinked
    <2>2. \A d \in new : Path[d] \subseteq linked \cup new
      BY <1>1, NowLinkedClosed
    <2>. QED
      BY <1>2, <2>1, <2>2, ZenonT(60) DEF AncestorsLinked
  <1>. QED
    BY <1>6, <1>7, <1>8

\* NotarizedHeight gives a notarisation or none.
LEMMA NotarizedHeightType ==
    ASSUME TypeOK
    PROVE  NotarizedHeight \in [hash : Block \cup {NoBlock}, height : Nat]
  <1>1. CASE last.hash \in index
    BY <1>1 DEF NotarizedHeight, TypeOK
  <1>2. CASE last.hash \notin index
    BY <1>2, ZenonT(60) DEF NotarizedHeight, TypeOK
  <1>. QED
    BY <1>1, <1>2

\* The call of FindMostWorkChain and the guards of ActivateBestChainStep.
LEMMA ChainInvActivate ==
    ASSUME ChainInv, NEW t \in Thread,
           ActivateNothing(t) \/ ActivateRefuse(t) \/ ActivateTooDeep(t) \/ ActivateBegin(t)
    PROVE  ChainInv'
  <1>. USE DEF ChainInv
  <1>1. /\ CsMainFree /\ failedChild' = failedChild \cup MarkedChild
        /\ UNCHANGED <<treeVars, tip, npoints, lastIndex, envVars>>
    BY DEF ActivateNothing, ActivateRefuse, ActivateTooDeep, ActivateBegin, TakeMostWork
  <1>2. last' \in [hash : Block \cup {NoBlock}, height : Nat]
    BY NotarizedHeightType
       DEF ActivateNothing, ActivateRefuse, ActivateTooDeep, ActivateBegin, TypeOK
  <1>3. candidates' \subseteq linked
    BY DEF ActivateNothing, ActivateRefuse, ActivateTooDeep, ActivateBegin, Remaining, Reinserted,
           TypeOK
  <1>4. MostWork \in linked \/ NothingToDo
    BY MostWorkIsCandidate DEF NothingToDo, TypeOK
  <1>5. failedValid' \subseteq index
    <2>1. MostWork \in linked => MostWork \in index
      BY ZenonT(60) DEF TypeOK
    <2>. QED
      BY SMTT(30), <1>4, <2>1 DEF ActivateNothing, ActivateRefuse, ActivateTooDeep, ActivateBegin, TypeOK
  <1>6. thread[t].skip \in BOOLEAN
    BY DEF TypeOK, ThreadState
  <1>7. PICK s \in ThreadState :
            /\ thread' = [thread EXCEPT ![t] = s]
            /\ s.pc \in {"idle", "refused"} \/ (s.pc = "disconnect" /\ s.target \in linked)
    <2>1. CASE ActivateBegin(t)
      <3>1. MostWork \in linked /\ MostWork \in Block /\ tip \in Block
        BY <2>1, <1>4 DEF ActivateBegin, TypeOK
      <3>. DEFINE s == At("disconnect", thread[t].skip, MostWork, tip)
      <3>2. s \in ThreadState /\ s.pc = "disconnect" /\ s.target = MostWork
        BY <3>1, <1>6 DEF At, ThreadState, Holding
      <3>. QED
        BY <2>1, <3>1, <3>2, ZenonT(60) DEF ActivateBegin, Goto
    <2>2. CASE ActivateNothing(t) \/ ActivateRefuse(t) \/ ActivateTooDeep(t)
      BY <2>2, ThreadStateTypes, GenesisAssumption, ZenonT(60)
         DEF ActivateNothing, ActivateRefuse, ActivateTooDeep, Goto
    <2>. QED
      BY <2>1, <2>2, ZenonT(60)
  <1>8. linked' = linked /\ tip' = tip /\ index' = index
    BY <1>1 DEF treeVars
  <1>9. thread' \in [Thread -> ThreadState] /\ OneHolder' /\ TargetLinked' /\ TipBelowTarget'
    BY <1>1, <1>7, <1>8, OneThreadMoves, ZenonT(60) DEF Holding
  <1>10. TypeOK'
    <2>1. failedChild' \subseteq index
      BY <1>1, MarkedIsLinked, ZenonT(60) DEF TypeOK
    <2>. QED
      BY <1>1, <1>2, <1>3, <1>5, <1>9, <2>1 DEF TypeOK, treeVars, envVars
  <1>11. AncestorsLinked'
    BY <1>8, <1>9, <1>10, Zenon DEF AncestorsLinked
  <1>. QED
    BY <1>8, <1>9, <1>10, <1>11, Zenon

\* Parents of linked blocks other than genesis are linked.
LEMMA ParentLinked ==
    ASSUME TypeOK, AncestorsLinked, NEW b \in linked, b # Genesis
    PROVE  Parent[b] \in linked
  <1>1. b \in Block
    BY DEF TypeOK
  <1>. QED
    BY <1>1, PathParent DEF AncestorsLinked

\* DisconnectTip inside a step, or inside InvalidateBlock, and its refusal.
LEMMA ChainInvDisconnect ==
    ASSUME ChainInv, NEW t \in Thread,
           \/ StepDisconnect(t) \/ StepDisconnectRefused(t)
           \/ InvalidateDisconnect(t) \/ InvalidateRefused(t)
    PROVE  ChainInv'
  <1>. USE DEF ChainInv
  <1>1. /\ UNCHANGED <<treeVars, npoints, lastIndex, envVars, failedValid>>
        /\ candidates' \subseteq candidates
        /\ failedChild' \subseteq failedChild \cup {tip}
        /\ last' = NotarizedHeight
    BY ZenonT(60) DEF StepDisconnect, StepDisconnectRefused, InvalidateDisconnect, InvalidateRefused,
           DisconnectTip, MarkTip, failVars
  <1>2. thread[t] \in ThreadState /\ thread[t].pc \in {"disconnect", "invalidate"}
    BY DEF StepDisconnect, StepDisconnectRefused, InvalidateDisconnect, InvalidateRefused, InStep,
           TypeOK
  <1>3. PICK s \in {Idle, Refused, thread[t]} : thread' = [thread EXCEPT ![t] = s]
    <2>1. CASE StepDisconnect(t) \/ InvalidateDisconnect(t)
      <3>1. thread' = [thread EXCEPT ![t] = thread[t]]
        BY <2>1, ZenonT(60) DEF StepDisconnect, InvalidateDisconnect, TypeOK
      <3>. QED
        BY <3>1, ZenonT(60)
    <2>2. CASE StepDisconnectRefused(t) \/ InvalidateRefused(t)
      BY <2>2, ZenonT(60) DEF StepDisconnectRefused, InvalidateRefused, Goto
    <2>. QED
      BY <2>1, <2>2
  <1>4. s \in ThreadState /\ s.pc \in {"idle", "refused", "disconnect", "invalidate"}
    BY <1>2, <1>3, ThreadStateTypes, GenesisAssumption, ZenonT(60)
  <1>5. s.pc = "disconnect" => s.target \in linked
    BY <1>3, ThreadStateTypes, GenesisAssumption, ZenonT(60) DEF TargetLinked
  <1>6. tip' \in linked
    BY ParentLinked, ZenonT(60)
       DEF StepDisconnect, StepDisconnectRefused, InvalidateDisconnect, InvalidateRefused,
           DisconnectTip, TypeOK
  <1>7. linked' = linked /\ index' = index
    BY <1>1 DEF treeVars
  <1>8. thread' \in [Thread -> ThreadState] /\ OneHolder' /\ TargetLinked' /\ TipBelowTarget'
    BY <1>2, <1>3, <1>4, <1>5, <1>7, OneThreadMoves, ZenonT(60) DEF Holding
  <1>9. TypeOK'
    <2>1. last' \in [hash : Block \cup {NoBlock}, height : Nat]
      BY <1>1, NotarizedHeightType
    <2>. QED
      BY <1>1, <1>6, <1>7, <1>8, <2>1 DEF TypeOK, treeVars, envVars
  <1>10. AncestorsLinked'
    BY <1>7, <1>8, <1>9, Zenon DEF AncestorsLinked
  <1>. QED
    BY <1>7, <1>8, <1>9, <1>10, Zenon

\* The end of the rollback, the loop condition and the end of InvalidateBlock.
LEMMA ChainInvMoves ==
    ASSUME ChainInv, NEW t \in Thread,
           StepForkReached(t) \/ StepConnectFuture(t) \/ CheckTip(t) \/ InvalidateDone(t)
    PROVE  ChainInv'
  <1>. USE DEF ChainInv
  <1>1. /\ UNCHANGED <<treeVars, failVars, tip, notaryVars, envVars>>
        /\ candidates' \subseteq linked
    BY ZenonT(60) DEF StepForkReached, StepConnectFuture, CheckTip, InvalidateDone, Reinserted, TypeOK
  <1>2. /\ thread[t] \in ThreadState /\ thread[t].skip \in BOOLEAN
        /\ thread[t].target \in Block /\ tip \in Block
    BY DEF TypeOK, ThreadState
  <1>3. PICK s \in ThreadState :
            /\ thread' = [thread EXCEPT ![t] = s]
            /\ s.pc \in {"idle", "refused", "activate", "check", "connect"}
            /\ s.pc = "connect" => /\ s.target \in linked
                                   /\ tip \in Path[s.target] \ {s.target}
                                   /\ thread[t].pc \in Holding
    <2>1. CASE StepForkReached(t) /\ tip # thread[t].target
      <3>. DEFINE s == [thread[t] EXCEPT !.pc = "connect"]
      <3>1. s \in ThreadState /\ s.pc = "connect" /\ s.target = thread[t].target
        BY <1>2 DEF ThreadState, Holding
      <3>2. thread[t].target \in linked /\ thread[t].pc \in Holding
        BY <2>1 DEF StepForkReached, InStep, TargetLinked, Holding
      <3>. QED
        BY <2>1, <3>1, <3>2, ZenonT(60) DEF StepForkReached, Goto
    <2>2. CASE StepForkReached(t) /\ tip = thread[t].target
      BY <2>2, <1>2, ThreadStateTypes, ZenonT(60) DEF StepForkReached, Goto
    <2>3. CASE StepConnectFuture(t)
      BY <2>3, <1>2, ThreadStateTypes, ZenonT(60) DEF StepConnectFuture, Goto
    <2>4. CASE CheckTip(t)
      BY <2>4, <1>2, ThreadStateTypes, ZenonT(60) DEF CheckTip, Goto
    <2>5. CASE InvalidateDone(t)
      BY <2>5, <1>2, ThreadStateTypes, ZenonT(60) DEF InvalidateDone, Goto
    <2>. QED
      BY <2>1, <2>2, <2>3, <2>4, <2>5
  <1>4. linked' = linked /\ tip' = tip
    BY <1>1 DEF treeVars
  <1>5. thread' \in [Thread -> ThreadState] /\ OneHolder' /\ TargetLinked' /\ TipBelowTarget'
    BY <1>3, <1>4, OneThreadMoves, ZenonT(60) DEF Holding
  <1>6. TypeOK'
    BY <1>1, <1>5, ZenonT(60) DEF TypeOK, treeVars, failVars, notaryVars, envVars
  <1>7. AncestorsLinked'
    BY <1>4, <1>5, <1>6, Zenon DEF AncestorsLinked
  <1>. QED
    BY <1>4, <1>5, <1>6, <1>7, Zenon

\* The block a step connects next: a linked child of the tip on the way to
\* the target.
LEMMA NextBlockFacts ==
    ASSUME ChainInv, NEW t \in Thread, thread[t].pc = "connect"
    PROVE  /\ NextBlock(t) \in Path[thread[t].target]
           /\ NextBlock(t) \in linked
           /\ NextBlock(t) \in Block \ {Genesis}
           /\ Parent[NextBlock(t)] = tip
  <1>. USE DEF ChainInv
  <1>1. thread[t].target \in linked /\ thread[t].target \in Block
    BY DEF TargetLinked, TypeOK
  <1>2. tip \in Path[thread[t].target] /\ tip # thread[t].target
    BY ZenonT(60) DEF TipBelowTarget
  <1>3. /\ NextBlock(t) \in Path[thread[t].target] /\ NextBlock(t) # Genesis
        /\ Parent[NextBlock(t)] = tip
    BY <1>1, <1>2, NextIsChild DEF NextBlock
  <1>. QED
    BY <1>1, <1>3, PathParent DEF AncestorsLinked

\* ConnectTip, successful or not.
LEMMA ChainInvConnect ==
    ASSUME ChainInv, NEW t \in Thread, StepConnect(t) \/ StepConnectInvalid(t)
    PROVE  ChainInv'
  <1>. USE DEF ChainInv
  <1>. DEFINE b == NextBlock(t)
  <1>1. thread[t].pc = "connect" /\ UNCHANGED <<treeVars, failedChild, envVars>>
    BY ZenonT(60) DEF StepConnect, StepConnectInvalid, InStep, failVars
  <1>2. b \in Path[thread[t].target] /\ b \in linked /\ b \in Block /\ b \in index
    BY <1>1, NextBlockFacts DEF TypeOK
  <1>3. /\ thread[t] \in ThreadState /\ thread[t].skip \in BOOLEAN
        /\ thread[t].target \in Block /\ thread[t].target \in linked
    BY <1>1 DEF TypeOK, ThreadState, TargetLinked
  <1>4. /\ failedValid' \subseteq index /\ candidates' \subseteq candidates
        /\ tip' = tip \/ tip' = b
    BY <1>2, ZenonT(60) DEF StepConnect, StepConnectInvalid, PruneBlockIndexCandidates, failVars, TypeOK
  <1>5. PICK s \in {Checking(thread[t].skip, thread[t].target), thread[t]} :
            /\ thread' = [thread EXCEPT ![t] = s]
            /\ s = thread[t] => tip' = b /\ b # thread[t].target
    <2>1. thread = [thread EXCEPT ![t] = thread[t]]
      BY DEF TypeOK
    <2>2. Checking(thread[t].skip, thread[t].target).pc = "check"
      BY DEF Checking, At
    <2>. QED
      BY <1>1, <2>1, <2>2, ZenonT(60) DEF StepConnect, StepConnectInvalid, Goto
  <1>6. s \in ThreadState /\ s.pc \in {"check", "connect"} /\ (s.pc = "connect" => s = thread[t])
    <2>1. Checking(thread[t].skip, thread[t].target) \in ThreadState
      BY <1>3, GenesisAssumption DEF Checking, At, ThreadState
    <2>2. Checking(thread[t].skip, thread[t].target).pc = "check"
      BY DEF Checking, At
    <2>. QED
      BY <1>1, <1>3, <1>5, <2>1, <2>2, ZenonT(60)
  <1>7. linked' = linked /\ index' = index
    BY <1>1, ZenonT(60) DEF treeVars
  <1>8. thread' \in [Thread -> ThreadState] /\ OneHolder' /\ TargetLinked' /\ TipBelowTarget'
    BY <1>1, <1>2, <1>3, <1>5, <1>6, <1>7, OneThreadMoves, ZenonT(60) DEF Holding
  <1>9. TypeOK'
    <2>. DEFINE point == [nHeight |-> Height[b], notarized_height |-> Notarises[b].height,
                          notarized_hash |-> Notarises[b].hash]
    <2>1. /\ last' = last \/ last' = Notarises[b]
          /\ npoints' = npoints \/ npoints' = Append(npoints, point)
          /\ lastIndex' = lastIndex
      <3>1. CASE StepConnect(t)
        <4>1. PICK verified \in BOOLEAN : komodo_connectblock(b, verified)
          BY <3>1, ZenonT(60) DEF StepConnect
        <4>. QED
          BY <4>1 DEF komodo_connectblock
      <3>2. CASE StepConnectInvalid(t)
        BY <3>2, ZenonT(60) DEF StepConnectInvalid, notaryVars
      <3>. QED
        BY <3>1, <3>2
    <2>2. Notarises[b] \in [hash : Block \cup {NoBlock}, height : Nat]
      BY <1>2, NotarisesAssumption, ZenonT(60)
    <2>3. point \in Checkpoint
      BY <1>2, <2>2, TypeAssumption, ZenonT(60) DEF Checkpoint
    <2>4. last' \in [hash : Block \cup {NoBlock}, height : Nat]
      BY <2>1, <2>2, ZenonT(60) DEF TypeOK
    <2>5. npoints' \in Seq(Checkpoint)
      <3>. HIDE DEF point
      <3>1. npoints \in Seq(Checkpoint)
        BY DEF TypeOK
      <3>2. Append(npoints, point) \in Seq(Checkpoint)
        BY SMT, <2>3, <3>1
      <3>. QED
        BY <2>1, <3>1, <3>2
    <2>. QED
      BY <1>1, <1>2, <1>4, <1>7, <1>8, <2>1, <2>4, <2>5, ZenonT(60) DEF TypeOK, treeVars, envVars
  <1>10. AncestorsLinked'
    BY <1>7, <1>8, <1>9, Zenon DEF AncestorsLinked
  <1>. QED
    BY <1>7, <1>8, <1>9, <1>10, Zenon

\* The RPCs invalidateblock (its start) and reconsiderblock.
LEMMA ChainInvRPC ==
    ASSUME ChainInv, NEW t \in Thread, NEW b \in Block, InvalidateRPC(t, b) \/ ReconsiderRPC(t, b)
    PROVE  ChainInv'
  <1>. USE DEF ChainInv
  <1>1. /\ CsMainFree
        /\ UNCHANGED <<treeVars, tip, notaryVars, envVars>>
        /\ failedValid' \subseteq index /\ failedChild' \subseteq failedChild
        /\ candidates' \subseteq linked
    BY ZenonT(60) DEF InvalidateRPC, ReconsiderRPC, TypeOK
  <1>2. PICK s \in ThreadState :
            thread' = [thread EXCEPT ![t] = s] /\ s.pc \in {"invalidate", "activate"}
    <2>1. /\ At("invalidate", TRUE, b, Genesis) \in ThreadState
          /\ At("invalidate", TRUE, b, Genesis).pc = "invalidate"
          /\ Activating(TRUE) \in ThreadState /\ Activating(TRUE).pc = "activate"
      BY GenesisAssumption DEF Activating, At, ThreadState, Holding
    <2>2. CASE InvalidateRPC(t, b)
      <3>1. thread' = [thread EXCEPT ![t] = At("invalidate", TRUE, b, Genesis)]
        BY <2>2 DEF InvalidateRPC, Goto
      <3>. QED
        BY <2>1, <3>1, ZenonT(60)
    <2>3. CASE ReconsiderRPC(t, b)
      BY <2>1, <2>3, ZenonT(60) DEF ReconsiderRPC, Goto
    <2>. QED
      BY <2>2, <2>3
  <1>3. linked' = linked /\ tip' = tip
    BY <1>1, ZenonT(60) DEF treeVars
  <1>4. thread' \in [Thread -> ThreadState] /\ OneHolder' /\ TargetLinked' /\ TipBelowTarget'
    BY <1>1, <1>2, <1>3, OneThreadMoves, ZenonT(60) DEF Holding
  <1>5. TypeOK'
    BY <1>1, <1>4 DEF TypeOK, treeVars, notaryVars, envVars
  <1>6. AncestorsLinked'
    BY <1>3, <1>4, <1>5, Zenon DEF AncestorsLinked
  <1>. QED
    BY <1>3, <1>4, <1>5, <1>6, Zenon

\* Queries, the clock and the end of the initial download.
LEMMA ChainInvRest ==
    ASSUME ChainInv, NEW b \in Block,
           QueryNotarized \/ LeaveInitialDownload \/ TimePasses(b) \/ UNCHANGED vars
    PROVE  ChainInv'
  <1>. USE DEF ChainInv
  <1>1. UNCHANGED <<treeVars, failVars, candidates, tip, npoints, lastIndex, thread>>
    BY ZenonT(60) DEF QueryNotarized, LeaveInitialDownload, TimePasses, vars, notaryVars
  <1>2. /\ last' \in [hash : Block \cup {NoBlock}, height : Nat]
        /\ ibd' \in BOOLEAN /\ future' \subseteq Block
    BY NotarizedHeightType, ZenonT(60)
       DEF QueryNotarized, LeaveInitialDownload, TimePasses, vars, notaryVars, envVars, TypeOK
  <1>3. TypeOK'
    BY <1>1, <1>2 DEF TypeOK, treeVars, failVars
  <1>. QED
    BY <1>1, <1>3 DEF OneHolder, AncestorsLinked, TargetLinked, TipBelowTarget, treeVars

\* Every step of the node keeps the invariant.
LEMMA ChainInvNext == ChainInv /\ [Next]_vars => ChainInv'
  <1>. SUFFICES ASSUME ChainInv, [Next]_vars PROVE ChainInv'
    OBVIOUS
  <1>1. CASE Environment
    BY <1>1, ChainInvHeaders, ChainInvRest, GenesisAssumption DEF Environment
  <1>2. ASSUME NEW t \in Thread, Proceed(t) PROVE ChainInv'
    BY <1>2, ChainInvActivate, ChainInvDisconnect, ChainInvMoves, ChainInvConnect DEF Proceed
  <1>3. ASSUME NEW t \in Thread, Request(t) PROVE ChainInv'
    BY <1>3, ChainInvHeaders, ChainInvStore, ChainInvRPC DEF Request
  <1>4. CASE UNCHANGED vars
    BY <1>4, ChainInvRest, GenesisAssumption
  <1>. QED
    BY <1>1, <1>2, <1>3, <1>4 DEF Next

\* ChainInv holds in every state: chain state and komodo_state keep their
\* types, cs_main has one holder, and no block is linked before its ancestors.
THEOREM ChainInvariant == Spec => []ChainInv
  BY ChainInvInit, ChainInvNext, PTL DEF Spec

\* The type invariant of the chain state.
THEOREM TypeCorrect == Spec => []TypeOK
  <1>1. ChainInv => TypeOK
    BY DEF ChainInv
  <1>. QED
    BY <1>1, ChainInvariant, PTL

\* ConnectTip's assertion pindexNew->pprev == chainActive.Tip() never fails,
\* whatever blocks and reorganisations the threads interleave.
THEOREM ConnectsToTipAlways == Spec => []ConnectsToTip
  <1>1. ChainInv => ConnectsToTip
    BY NextBlockFacts DEF ChainInv, ConnectsToTip, TipBelowTarget
  <1>. QED
    BY <1>1, ChainInvariant, PTL

----------------------------------------------------------------------------
(***************************************************************************)
(* Delayed proof of work holds: with honest notaries the detailed node     *)
(* implements the abstract chain of NotarisedChain, for every block tree,  *)
(* every interleaving of threads, invalid blocks, invalidateblock and      *)
(* reconsiderblock included.                                               *)
(***************************************************************************)
\* As long as the last notarised block is on the active chain, NotarizedHeight
\* finds it in the block index and changes nothing.
LEMMA NotarizedHeightIsLast ==
    ASSUME ChainInv, NotaryInv
    PROVE  NotarizedHeight = last
  <1>. USE DEF ChainInv
  <1>1. last = [hash |-> last.hash, height |-> last.height]
    BY DEF TypeOK
  <1>2. CASE last.hash = NoBlock
    BY <1>1, <1>2, ZenonT(60) DEF NotarizedHeight, NotaryInv
  <1>3. CASE last.hash # NoBlock
    <2>1. last.hash \in index
      BY <1>3 DEF NotaryInv, AncestorsLinked, TypeOK
    <2>. QED
      BY <2>1 DEF NotarizedHeight
  <1>. QED
    BY <1>2, <1>3

\* The anchor is on the active chain, at the recorded height.
LEMMA AnchorFacts ==
    ASSUME ChainInv, NotaryInv
    PROVE  /\ tip \in Block
           /\ Anchor \in Path[tip] /\ Anchor \in Block
           /\ Height[Anchor] = last.height
  <1>. USE DEF ChainInv
  <1>1. tip \in Block
    BY DEF TypeOK
  <1>2. Genesis \in Path[tip]
    <2>1. PICK a \in Path[tip] : Height[a] = 0
      <3>1. 0 \in 0 .. Height[tip]
        BY SMT, <1>1, TypeAssumption
      <3>. QED
        BY <1>1, <3>1, Ancestry
    <2>2. a \in Block
      BY <1>1, <2>1, PathParent
    <2>3. a = Genesis
      <3>1. a # Genesis => Height[Parent[a]] \in Nat /\ Height[a] = Height[Parent[a]] + 1
        BY <2>2, TreeAssumption, TypeAssumption
      <3>. QED
        BY SMT, <2>1, <3>1
    <2>. QED
      BY <2>1, <2>3
  <1>3. Anchor \in Path[tip] /\ Height[Anchor] = last.height
    BY <1>2, TreeAssumption DEF NotaryInv, Anchor
  <1>. QED
    BY <1>1, <1>3, PathParent

----------------------------------------------------------------------------
(***************************************************************************)
(* What each kind of step does to the tip and the anchor.                  *)
(***************************************************************************)
\* Steps that neither connect nor disconnect a block leave both alone: no
\* caller of NotarizedHeight resets `last'.
LEMMA QuietSteps ==
    ASSUME ChainInv, NotaryInv, [Next]_vars,
           \A t \in Thread : ~StepConnect(t) /\ ~StepDisconnect(t) /\ ~InvalidateDisconnect(t)
    PROVE  UNCHANGED <<tip, last, npoints>>
  <1>. USE NotarizedHeightIsLast
  <1>1. CASE Environment
    BY <1>1
       DEF Environment, ReceiveHeader, RefuseHeader, AcceptBlockHeader, TimePasses, QueryNotarized,
           LeaveInitialDownload, notaryVars
  <1>2. ASSUME NEW t \in Thread, Proceed(t)
        PROVE  UNCHANGED <<tip, last, npoints>>
    <2>1. CASE ActivateNothing(t) \/ ActivateRefuse(t) \/ ActivateTooDeep(t) \/ ActivateBegin(t)
      BY <2>1 DEF ActivateNothing, ActivateRefuse, ActivateTooDeep, ActivateBegin, TakeMostWork
    <2>2. CASE StepDisconnectRefused(t) \/ InvalidateRefused(t)
      BY <2>2 DEF StepDisconnectRefused, InvalidateRefused
    <2>3. CASE \/ StepForkReached(t) \/ StepConnectInvalid(t) \/ StepConnectFuture(t)
               \/ CheckTip(t) \/ InvalidateDone(t)
      BY <2>3, ZenonT(60) DEF StepForkReached, StepConnectInvalid, StepConnectFuture, CheckTip, InvalidateDone,
                  notaryVars
    <2>. QED
      BY <1>2, <2>1, <2>2, <2>3 DEF Proceed
  <1>3. ASSUME NEW t \in Thread, Request(t)
        PROVE  UNCHANGED <<tip, last, npoints>>
    BY <1>3, ZenonT(60)
       DEF Request, IgnoreBlock, RejectBlock, StoreBlock, ProcessNewBlock, AcceptBlockHeader,
           InvalidateRPC, ReconsiderRPC, notaryVars
  <1>4. CASE UNCHANGED vars
    BY <1>4 DEF vars, notaryVars
  <1>. QED
    BY <1>1, <1>2, <1>3, <1>4 DEF Next

\* DisconnectTip takes one block off the chain, never the anchor.
LEMMA DisconnectSteps ==
    ASSUME ChainInv, NotaryInv, NEW t \in Thread, StepDisconnect(t) \/ InvalidateDisconnect(t)
    PROVE  /\ tip # Anchor /\ tip' = Parent[tip] /\ UNCHANGED <<last, npoints>>
           /\ Anchor \in Path[tip']
  <1>1. /\ tip # Genesis /\ NotarizedHeight.hash # tip /\ last' = NotarizedHeight
        /\ tip' = Parent[tip] /\ npoints' = npoints
    BY DEF StepDisconnect, InvalidateDisconnect, DisconnectTip
  <1>2. last' = last /\ last.hash # tip
    BY <1>1, NotarizedHeightIsLast
  <1>3. tip # Anchor
    BY <1>1, <1>2 DEF Anchor
  <1>4. Anchor \in Path[Parent[tip]]
    BY <1>3, AnchorFacts, ProperAncestor
  <1>. QED
    BY <1>1, <1>2, <1>3, <1>4

\* ConnectTip puts a child of the tip on the chain; komodo_connectblock leaves
\* the notarisation alone or moves it to a higher block of the new chain.
LEMMA ConnectSteps ==
    ASSUME HonestNotaries, ChainInv, NotaryInv, NEW t \in Thread, StepConnect(t)
    PROVE  /\ NextBlock(t) \in Block \ {Genesis}
           /\ Parent[NextBlock(t)] = tip
           /\ tip' = NextBlock(t)
           /\ Anchor' \in Path[tip'] /\ Anchor \in Path[Anchor']
           /\ last'.height >= last.height
           /\ NotaryInv'
  <1>. DEFINE b == NextBlock(t)
  <1>. DEFINE n == Notarises[b]
  <1>1. b \in Block \ {Genesis} /\ Parent[b] = tip
    BY NextBlockFacts DEF StepConnect, InStep
  <1>2. tip' = b
    BY DEF StepConnect
  <1>3. Path[tip] \subseteq Path[b] /\ b \in Path[b]
    BY <1>1, PathParent
  <1>4. PICK verified \in BOOLEAN : komodo_connectblock(b, verified)
    BY ZenonT(60) DEF StepConnect
  <1>5. /\ last.height \in Nat /\ last \in [hash : Block \cup {NoBlock}, height : Nat]
        /\ npoints \in Seq(Checkpoint)
    BY DEF ChainInv, TypeOK
  <1>6. Anchor \in Path[b] /\ Anchor \in Block /\ Height[Anchor] = last.height
    BY <1>3, AnchorFacts
  <1>7. CASE ~Accepted(b)
    <2>1. last' = last /\ npoints' = npoints
      BY <1>4, <1>7 DEF komodo_connectblock
    <2>2. Anchor' = Anchor
      BY <2>1 DEF Anchor
    <2>3. NotaryInv'
      BY <1>2, <1>3, <2>1, <2>2 DEF NotaryInv
    <2>. QED
      BY SMTT(30), <1>1, <1>2, <1>5, <1>6, <2>1, <2>2, <2>3, PathParent
  <1>8. CASE Accepted(b)
    <2>1. last' = n /\ n # NoNotarisation /\ n.height > last.height
      BY <1>4, <1>8 DEF komodo_connectblock, Accepted
    <2>2. n.hash \in Path[b] /\ n.height = Height[n.hash]
      BY <1>1, <2>1 DEF HonestNotaries
    <2>3. n.hash \in Block /\ n.hash # NoBlock /\ n.height \in Nat
      BY SMTT(30), <1>1, <2>2, PathParent, NoBlockAssumption, TypeAssumption
    <2>4. Anchor' = n.hash
      BY <2>1, <2>3 DEF Anchor
    <2>5. Anchor \in Path[n.hash]
      <3>1. Height[Anchor] <= Height[n.hash]
        BY SMTT(30), <1>5, <1>6, <2>1, <2>2, <2>3
      <3>. QED
        BY SMTT(30), <1>1, <1>6, <2>2, <3>1, PathOrder
    <2>6. Path[Anchor] \subseteq Path[n.hash] /\ n.hash \in Path[n.hash]
      BY <2>3, <2>5, PathParent, Ancestry, ZenonT(60)
    <2>7. \A i \in DOMAIN npoints' : npoints'[i].notarized_hash \in Path[n.hash]
      <3>. DEFINE point == [nHeight |-> Height[b], notarized_height |-> n.height,
                            notarized_hash |-> n.hash]
      <3>1. \A i \in DOMAIN npoints : npoints[i].notarized_hash \in Path[n.hash]
        BY <2>6 DEF NotaryInv
      <3>2. CASE npoints' = npoints
        BY <3>1, <3>2
      <3>3. CASE npoints' = Append(npoints, point)
        <4>1. point.notarized_hash \in Path[n.hash]
          BY <2>6
        <4>. HIDE DEF point
        <4>2. /\ DOMAIN npoints' = 1 .. Len(npoints) + 1
              /\ \A i \in 1 .. Len(npoints) : npoints'[i] = npoints[i]
              /\ npoints'[Len(npoints) + 1] = point
              /\ DOMAIN npoints = 1 .. Len(npoints) /\ Len(npoints) \in Nat
          BY <1>5, <3>3, SMTT(60)
        <4>. QED
          BY SMT, <3>1, <4>1, <4>2
      <3>. QED
        BY <1>4, <3>2, <3>3 DEF komodo_connectblock
    <2>8. NotaryInv'
      BY <1>2, <2>1, <2>2, <2>3, <2>4, <2>7 DEF NotaryInv
    <2>. QED
      BY SMTT(30), <1>1, <1>2, <1>5, <2>1, <2>2, <2>3, <2>4, <2>5, <2>8
  <1>. QED
    BY <1>7, <1>8

----------------------------------------------------------------------------
\* A new node has no notarisation (komodo_state is empty).
LEMMA NotaryInvInit == Init => NotaryInv
  BY SMT DEF Init, NotaryInv, NoNotarisation

\* Every step keeps the notarised blocks on the active chain.
LEMMA NotaryInvNext ==
    ASSUME HonestNotaries
    PROVE  ChainInv /\ NotaryInv /\ [Next]_vars => NotaryInv'
  <1>. SUFFICES ASSUME ChainInv, NotaryInv, [Next]_vars PROVE NotaryInv'
    OBVIOUS
  <1>1. ASSUME NEW t \in Thread, StepConnect(t) PROVE NotaryInv'
    BY <1>1, ConnectSteps
  <1>2. ASSUME NEW t \in Thread, StepDisconnect(t) \/ InvalidateDisconnect(t) PROVE NotaryInv'
    <2>1. /\ UNCHANGED <<last, npoints>> /\ Anchor \in Path[tip']
      BY <1>2, DisconnectSteps
    <2>. QED
      BY <2>1 DEF NotaryInv, Anchor
  <1>3. CASE \A t \in Thread : ~StepConnect(t) /\ ~StepDisconnect(t) /\ ~InvalidateDisconnect(t)
    <2>1. UNCHANGED <<tip, last, npoints>>
      BY <1>3, QuietSteps
    <2>. QED
      BY <2>1 DEF NotaryInv, Anchor
  <1>. QED
    BY <1>1, <1>2, <1>3

\* With honest notaries NotaryInv holds in every state.
THEOREM NotaryInvariant ==
    ASSUME HonestNotaries
    PROVE  Spec => [](ChainInv /\ NotaryInv)
  <1>1. Init => ChainInv /\ NotaryInv
    BY ChainInvInit, NotaryInvInit
  <1>2. ChainInv /\ NotaryInv /\ [Next]_vars => (ChainInv /\ NotaryInv)'
    BY ChainInvNext, NotaryInvNext
  <1>. QED
    BY <1>1, <1>2, PTL DEF Spec

\* With honest notaries no notarised block ever leaves the active chain:
\* neither ActivateBestChainStep, nor InvalidateBlock, nor a call with
\* fSkipdpow disconnects it, in any interleaving.
THEOREM NotarisedStays ==
    ASSUME HonestNotaries
    PROVE  Spec => []NotarisedInActiveChain
  <1>1. ChainInv /\ NotaryInv => NotarisedInActiveChain
    <2>. SUFFICES ASSUME ChainInv, NotaryInv PROVE NotarisedInActiveChain
      OBVIOUS
    <2>1. Path[Anchor] \subseteq Path[tip]
      BY AnchorFacts, Ancestry
    <2>. QED
      BY <2>1 DEF NotaryInv, NotarisedInActiveChain
  <1>. QED
    BY <1>1, NotaryInvariant, PTL

\* With honest notaries the last notarised height never decreases: the reset
\* in NotarizedHeight is never taken.
THEOREM LastNotarisedHeightGrows ==
    ASSUME HonestNotaries
    PROVE  Spec => LastNotarisedGrows
  <1>1. ChainInv /\ NotaryInv /\ [Next]_vars => [last'.height >= last.height]_vars
    <2>. SUFFICES ASSUME ChainInv, NotaryInv, [Next]_vars PROVE last'.height >= last.height
      OBVIOUS
    <2>1. last.height >= last.height
      BY SMT DEF ChainInv, TypeOK
    <2>2. ASSUME NEW t \in Thread, StepConnect(t) PROVE last'.height >= last.height
      BY <2>2, ConnectSteps
    <2>3. ASSUME NEW t \in Thread, StepDisconnect(t) \/ InvalidateDisconnect(t)
          PROVE  last' = last
      BY <2>3, DisconnectSteps
    <2>4. CASE \A t \in Thread :
                   ~StepConnect(t) /\ ~StepDisconnect(t) /\ ~InvalidateDisconnect(t)
      BY <2>1, <2>4, QuietSteps
    <2>. QED
      BY <2>1, <2>2, <2>3, <2>4
  <1>. QED
    BY <1>1, NotaryInvariant, PTL DEF Spec, LastNotarisedGrows

----------------------------------------------------------------------------
(***************************************************************************)
(* The refinement.                                                         *)
(***************************************************************************)
\* A new node is an initial state of the abstract chain.
LEMMA RefinesInit == Init => Ledger!Init
  BY SMT DEF Init, Ledger!Init, Anchor, NoNotarisation

\* Connecting a block extends the abstract chain, disconnecting one retreats,
\* and everything else the node does is invisible.
LEMMA RefinesNext ==
    ASSUME HonestNotaries
    PROVE  ChainInv /\ NotaryInv /\ [Next]_vars => [Ledger!Next]_(Ledger!ledger)
  <1>. SUFFICES ASSUME ChainInv, NotaryInv, [Next]_vars
                PROVE  Ledger!Next \/ UNCHANGED <<tip, Anchor>>
    BY DEF Ledger!ledger
  <1>1. ASSUME NEW t \in Thread, StepConnect(t) PROVE Ledger!Next
    <2>1. Ledger!Extend(NextBlock(t)) /\ NextBlock(t) \in Block
      BY <1>1, ConnectSteps DEF Ledger!Extend
    <2>. QED
      BY <2>1 DEF Ledger!Next
  <1>2. ASSUME NEW t \in Thread, StepDisconnect(t) \/ InvalidateDisconnect(t) PROVE Ledger!Next
    <2>1. /\ tip # Anchor /\ tip' = Parent[tip] /\ last' = last
      BY <1>2, DisconnectSteps
    <2>2. Anchor' = Anchor
      BY <2>1 DEF Anchor
    <2>. QED
      BY <2>1, <2>2 DEF Ledger!Next, Ledger!Retreat
  <1>3. CASE \A t \in Thread : ~StepConnect(t) /\ ~StepDisconnect(t) /\ ~InvalidateDisconnect(t)
    <2>1. UNCHANGED <<tip, last, npoints>>
      BY <1>3, QuietSteps
    <2>. QED
      BY <2>1 DEF Anchor
  <1>. QED
    BY <1>1, <1>2, <1>3

\* With honest notaries the node implements the abstract chain whose notarised
\* prefix is final.
THEOREM Refinement ==
    ASSUME HonestNotaries
    PROVE  Spec => ImplementsNotarisedChain
  BY RefinesInit, RefinesNext, NotaryInvariant, PTL
     DEF Spec, ImplementsNotarisedChain, Ledger!Spec

\* With honest notaries what was notarised stays notarised and active.
THEOREM NotarisedIsFinal ==
    ASSUME HonestNotaries
    PROVE  Spec => NotarisedForever
  <1>1. ChainInv /\ NotaryInv /\ [Next]_vars =>
            [Path[Anchor] \subseteq Path[Anchor'] /\ Anchor \in Path[tip']]_<<tip, Anchor>>
    <2>. SUFFICES ASSUME ChainInv, NotaryInv, [Next]_vars, ~ UNCHANGED <<tip, Anchor>>
                  PROVE  Path[Anchor] \subseteq Path[Anchor'] /\ Anchor \in Path[tip']
      OBVIOUS
    <2>1. ASSUME NEW t \in Thread, StepConnect(t)
          PROVE  Path[Anchor] \subseteq Path[Anchor'] /\ Anchor \in Path[tip']
      <3>1. tip' \in Block /\ Anchor' \in Path[tip'] /\ Anchor \in Path[Anchor']
        BY <2>1, ConnectSteps
      <3>2. Anchor' \in Block
        BY <3>1, PathParent
      <3>. QED
        BY <3>1, <3>2, Ancestry
    <2>2. ASSUME NEW t \in Thread, StepDisconnect(t) \/ InvalidateDisconnect(t)
          PROVE  Path[Anchor] \subseteq Path[Anchor'] /\ Anchor \in Path[tip']
      <3>1. last' = last /\ Anchor \in Path[tip']
        BY <2>2, DisconnectSteps
      <3>2. Anchor' = Anchor
        BY <3>1 DEF Anchor
      <3>. QED
        BY <3>1, <3>2
    <2>3. CASE \A t \in Thread :
                   ~StepConnect(t) /\ ~StepDisconnect(t) /\ ~InvalidateDisconnect(t)
      <3>1. UNCHANGED <<tip, last, npoints>>
        BY <2>3, QuietSteps
      <3>. QED
        BY <3>1 DEF Anchor
    <2>. QED
      BY <2>1, <2>2, <2>3
  <1>. QED
    BY <1>1, NotaryInvariant, PTL DEF Spec, NotarisedForever, Ledger!FinalForever, Ledger!ledger

----------------------------------------------------------------------------
(***************************************************************************)
(* Without any assumption on the notaries.                                 *)
(***************************************************************************)
\* Only ConnectTip and DisconnectTip move the tip (UpdateTip has no other
\* caller).
LEMMA TipSteps ==
    ASSUME [Next]_vars,
           \A t \in Thread : ~StepConnect(t) /\ ~StepDisconnect(t) /\ ~InvalidateDisconnect(t)
    PROVE  tip' = tip
  <1>1. CASE Environment
    BY <1>1, ZenonT(60)
       DEF Environment, ReceiveHeader, RefuseHeader, TimePasses, QueryNotarized,
           LeaveInitialDownload
  <1>2. ASSUME NEW t \in Thread, Proceed(t) PROVE tip' = tip
    BY <1>2, ZenonT(60)
       DEF Proceed, ActivateNothing, ActivateRefuse, ActivateTooDeep, ActivateBegin, TakeMostWork,
           StepDisconnectRefused, InvalidateRefused, StepForkReached, StepConnectInvalid,
           StepConnectFuture, CheckTip, InvalidateDone
  <1>3. ASSUME NEW t \in Thread, Request(t) PROVE tip' = tip
    BY <1>3, ZenonT(60)
       DEF Request, IgnoreBlock, RejectBlock, StoreBlock, ProcessNewBlock, InvalidateRPC,
           ReconsiderRPC
  <1>4. CASE UNCHANGED vars
    BY <1>4 DEF vars
  <1>. QED
    BY <1>1, <1>2, <1>3, <1>4 DEF Next

\* Whatever the notaries sign, DisconnectTip never takes the recorded block
\* off the active chain.
THEOREM RecordedBlockHeld == Spec => HeldWhileActive
  <1>1. ChainInv /\ [Next]_vars => [last.hash \in Path[tip] => last.hash \in Path[tip']]_vars
    <2>. SUFFICES ASSUME ChainInv, [Next]_vars, last.hash \in Path[tip]
                  PROVE  last.hash \in Path[tip']
      BY ZenonT(60)
    <2>1. ASSUME NEW t \in Thread, StepConnect(t) PROVE last.hash \in Path[tip']
      <3>1. /\ NextBlock(t) \in Block \ {Genesis} /\ Parent[NextBlock(t)] = tip
            /\ tip' = NextBlock(t)
        BY <2>1, NextBlockFacts DEF StepConnect, InStep
      <3>. QED
        BY <3>1, PathParent, ZenonT(60)
    <2>2. ASSUME NEW t \in Thread, StepDisconnect(t) \/ InvalidateDisconnect(t)
          PROVE  last.hash \in Path[tip']
      <3>1. last.hash \in index /\ tip \in Block
        BY DEF ChainInv, AncestorsLinked, TypeOK
      <3>2. NotarizedHeight = last
        BY <3>1 DEF NotarizedHeight
      <3>3. last.hash # tip /\ tip' = Parent[tip]
        BY <2>2, <3>2 DEF StepDisconnect, InvalidateDisconnect, DisconnectTip
      <3>. QED
        BY <3>1, <3>3, ProperAncestor, ZenonT(60)
    <2>3. CASE \A t \in Thread :
                   ~StepConnect(t) /\ ~StepDisconnect(t) /\ ~InvalidateDisconnect(t)
      BY <2>3, TipSteps
    <2>. QED
      BY <2>1, <2>2, <2>3
  <1>. QED
    BY <1>1, ChainInvariant, PTL DEF Spec, HeldWhileActive

----------------------------------------------------------------------------
(***************************************************************************)
(* The limit on reorganisations.                                           *)
(***************************************************************************)
\* One thread moves, or none; the tip moves only while the thread holds
\* cs_main, and a step in progress stays above the fork.
LEMMA ReorgOneMoves ==
    ASSUME ChainInv, ReorgInv, NEW t \in Thread,
           \A u \in Thread \ {t} : thread'[u] = thread[u],
           tip' = tip \/ thread[t].pc \in Holding,
           thread'[t].pc \in {"disconnect", "connect"} => DownToFork(thread'[t], tip')
    PROVE  ReorgInv'
  <1>. SUFFICES ASSUME NEW u \in Thread, thread'[u].pc \in {"disconnect", "connect"}, u # t
                PROVE  DownToFork(thread'[u], tip')
    BY ZenonT(60) DEF ReorgInv, DownToFork
  <1>1. thread'[u] = thread[u] /\ thread[u].pc \in Holding
    BY DEF Holding
  <1>2. tip' = tip
    BY <1>1 DEF ChainInv, OneHolder
  <1>. QED
    BY <1>1, <1>2, ZenonT(60) DEF ReorgInv

\* The start of a step: the fork with the candidate is within the limit.
LEMMA ReorgBegin ==
    ASSUME ChainInv, ReorgInv, NEW t \in Thread, ActivateBegin(t)
    PROVE  ReorgInv'
  <1>. DEFINE s == At("disconnect", thread[t].skip, MostWork, tip)
  <1>1. tip \in Block /\ MostWork \in Block /\ thread \in [Thread -> ThreadState]
    BY MostWorkIsCandidate DEF ChainInv, TypeOK, ActivateBegin, NothingToDo
  <1>2. thread' = [thread EXCEPT ![t] = s] /\ tip' = tip /\ ~TooDeep
    BY DEF ActivateBegin, Goto, TakeMostWork
  <1>3. s.oldTip = tip /\ s.target = MostWork
    BY DEF At
  <1>4. Fork \in Path[tip] /\ tip \in Path[tip] /\ Fork \in Block
    BY <1>1, ForkFacts, PathParent DEF Fork
  <1>5. Height[Fork] \in Nat /\ Height[tip] \in Nat /\ MaxReorg \in Nat /\ Height[Fork] <= Height[tip]
    BY <1>1, <1>4, TypeAssumption, ConstantsAssumption, Ancestry
  <1>6. Height[tip] - Height[Fork] <= MaxReorg
    BY SMTT(30), <1>2, <1>5 DEF TooDeep
  <1>7. DownToFork(s, tip')
    BY <1>2, <1>3, <1>4, <1>5, <1>6 DEF DownToFork, Fork
  <1>8. thread'[t] = s /\ \A u \in Thread \ {t} : thread'[u] = thread[u]
    BY <1>1, <1>2
  <1>. HIDE DEF s
  <1>. QED
    BY <1>2, <1>7, <1>8, ReorgOneMoves

\* A step disconnects only blocks above the fork.
LEMMA ReorgDisconnect ==
    ASSUME ChainInv, ReorgInv, NEW t \in Thread, StepDisconnect(t)
    PROVE  ReorgInv'
  <1>. DEFINE s == thread[t]
              fork == FindFork(s.oldTip, s.target)
  <1>1. s.oldTip \in Block /\ s.target \in Block /\ tip \in Block
    BY DEF ChainInv, TypeOK, ThreadState
  <1>2. /\ s.pc = "disconnect" /\ tip \notin Path[s.target] /\ tip # Genesis
        /\ tip' = Parent[tip] /\ thread' = thread
    BY DEF StepDisconnect, InStep, DisconnectTip
  <1>3. /\ Height[s.oldTip] - Height[fork] <= MaxReorg
        /\ Height[fork] <= Height[tip]
        /\ tip \in Path[s.oldTip]
    BY <1>2 DEF ReorgInv, DownToFork
  <1>4. fork \in Path[s.target] /\ fork \in Path[s.oldTip]
    BY <1>1, ForkFacts
  <1>5. Height[fork] # Height[tip]
    BY SMTT(30), <1>1, <1>2, <1>3, <1>4, Ancestry
  <1>6. Height[tip] = Height[tip'] + 1 /\ tip' \in Path[tip] /\ tip' \in Block
    BY <1>1, <1>2, PathParent
  <1>7. Height[fork] \in Nat /\ Height[tip] \in Nat /\ Height[tip'] \in Nat
    BY <1>1, <1>4, <1>6, PathParent, TypeAssumption
  <1>8. Height[fork] <= Height[tip']
    BY SMTT(30), <1>3, <1>5, <1>6, <1>7
  <1>9. tip' \in Path[s.oldTip]
    BY <1>1, <1>3, <1>6, Ancestry
  <1>10. DownToFork(thread'[t], tip')
    BY <1>2, <1>3, <1>8, <1>9 DEF DownToFork
  <1>. QED
    BY <1>2, <1>10, ReorgOneMoves DEF Holding

\* At the fork the step turns to connecting, or ends.
LEMMA ReorgForkReached ==
    ASSUME ChainInv, ReorgInv, NEW t \in Thread, StepForkReached(t)
    PROVE  ReorgInv'
  <1>. DEFINE s == thread[t]
  <1>1. thread \in [Thread -> ThreadState] /\ s \in ThreadState
    BY DEF ChainInv, TypeOK
  <1>2. /\ s.pc = "disconnect" /\ tip' = tip
        /\ thread' = [thread EXCEPT ![t] = IF tip = s.target THEN Checking(s.skip, tip)
                                           ELSE [s EXCEPT !.pc = "connect"]]
    BY DEF StepForkReached, InStep, Goto
  <1>3. \A u \in Thread \ {t} : thread'[u] = thread[u]
    BY <1>1, <1>2
  <1>4. DownToFork(s, tip)
    BY <1>2 DEF ReorgInv
  <1>5. CASE tip = s.target
    <2>1. thread'[t] = Checking(s.skip, tip)
      BY <1>1, <1>2, <1>5
    <2>2. thread'[t].pc = "check"
      BY SMT, <2>1 DEF Checking, At
    <2>. QED
      BY <1>2, <1>3, <2>2, ReorgOneMoves
  <1>6. CASE tip # s.target
    <2>1. thread'[t] = [s EXCEPT !.pc = "connect"]
      BY <1>1, <1>2, <1>6
    <2>2. /\ thread'[t].pc = "connect" /\ thread'[t].oldTip = s.oldTip
          /\ thread'[t].target = s.target
      BY <1>1, <2>1 DEF ThreadState
    <2>3. DownToFork(thread'[t], tip')
      BY <1>2, <1>4, <2>2 DEF DownToFork
    <2>. QED
      BY <1>2, <1>3, <2>3, ReorgOneMoves
  <1>. QED
    BY <1>5, <1>6

\* Connecting a block raises the tip.
LEMMA ReorgConnect ==
    ASSUME ChainInv, ReorgInv, NEW t \in Thread, StepConnect(t)
    PROVE  ReorgInv'
  <1>. DEFINE s == thread[t]
              b == NextBlock(t)
              fork == FindFork(s.oldTip, s.target)
              check == Checking(s.skip, s.target)
  <1>1. thread \in [Thread -> ThreadState] /\ s.oldTip \in Block /\ s.target \in Block /\ tip \in Block
    BY DEF ChainInv, TypeOK, ThreadState
  <1>2. s.pc = "connect" /\ tip' = b /\ (thread' = thread \/ thread' = [thread EXCEPT ![t] = check])
    BY DEF StepConnect, InStep, Goto
  <1>3. Parent[b] = tip /\ b \in Block \ {Genesis}
    BY <1>2, NextBlockFacts
  <1>4. Height[b] = Height[tip] + 1 /\ Height[tip] \in Nat /\ Height[fork] \in Nat
    <2>1. fork \in Block
      BY SMTT(30), <1>1, ForkFacts, PathParent
    <2>2. Height[tip] \in Nat /\ Height[fork] \in Nat
      BY <1>1, <2>1, TypeAssumption
    <2>. HIDE DEF b, fork
    <2>. QED
      BY <1>3, <2>2, PathParent
  <1>5. /\ Height[s.oldTip] - Height[fork] <= MaxReorg
        /\ Height[fork] <= Height[tip]
    BY <1>2 DEF ReorgInv, DownToFork
  <1>6. Height[fork] <= Height[b]
    BY SMTT(30), <1>4, <1>5
  <1>7. check.pc = "check"
    BY DEF Checking, At
  <1>8. /\ \A u \in Thread \ {t} : thread'[u] = thread[u]
        /\ thread'[t] = s \/ thread'[t] = check
    BY <1>1, <1>2
  <1>9. thread'[t].pc \in {"disconnect", "connect"} => DownToFork(thread'[t], tip')
    <2>1. CASE thread'[t] = s
      BY <1>2, <1>5, <1>6, <2>1 DEF DownToFork
    <2>2. CASE thread'[t] = check
      BY <1>7, <2>2
    <2>. QED
      BY <1>8, <2>1, <2>2
  <1>10. s.pc \in Holding
    BY <1>2 DEF Holding
  <1>. QED
    BY <1>8, <1>9, <1>10, ReorgOneMoves

\* The actions that leave the tip alone, or move it under InvalidateBlock, and
\* put no thread inside a step.
LEMMA ReorgOthers ==
    ASSUME ChainInv, ReorgInv, NEW t \in Thread,
           \/ ActivateNothing(t) \/ ActivateRefuse(t) \/ ActivateTooDeep(t)
           \/ StepDisconnectRefused(t) \/ StepConnectInvalid(t) \/ StepConnectFuture(t)
           \/ CheckTip(t) \/ InvalidateDisconnect(t) \/ InvalidateRefused(t) \/ InvalidateDone(t)
           \/ Request(t)
    PROVE  ReorgInv'
  <1>. DEFINE out(s) == s.pc \notin {"disconnect", "connect"}
  <1>1. thread \in [Thread -> ThreadState]
    BY DEF ChainInv, TypeOK
  <1>2. /\ out(Idle) /\ out(Refused) /\ \A skip \in BOOLEAN : out(Activating(skip))
        /\ \A skip \in BOOLEAN, b \in Block : out(Checking(skip, b))
        /\ \A b \in Block : out(At("invalidate", TRUE, b, Genesis))
    BY DEF Idle, Refused, Activating, Checking, At
  <1>3. tip' = tip \/ thread[t].pc \in Holding
    <2>1. CASE InvalidateDisconnect(t)
      BY <2>1 DEF InvalidateDisconnect, InStep, Holding
    <2>2. CASE Request(t)
      BY <2>2 DEF Request, IgnoreBlock, RejectBlock, StoreBlock, ProcessNewBlock, InvalidateRPC,
                  ReconsiderRPC
    <2>. QED
      BY <2>1, <2>2
         DEF ActivateNothing, ActivateRefuse, ActivateTooDeep, TakeMostWork, StepDisconnectRefused,
             StepConnectInvalid, StepConnectFuture, CheckTip, InvalidateRefused, InvalidateDone
  <1>4. thread[t].skip \in BOOLEAN /\ thread[t].target \in Block
    BY <1>1 DEF ThreadState
  <1>5. \/ thread' = thread /\ out(thread[t])
        \/ \E s : out(s) /\ thread' = [thread EXCEPT ![t] = s]
    <2>. HIDE DEF out
    <2>1. CASE InvalidateDisconnect(t)
      BY <2>1 DEF InvalidateDisconnect, InStep, out
    <2>2. ASSUME NEW b \in Block, NEW requested \in BOOLEAN,
                 \/ IgnoreBlock(t, b, requested) \/ RejectBlock(t, b, requested)
                 \/ StoreBlock(t, b, requested)
          PROVE  \/ thread' = thread /\ out(thread[t])
                 \/ \E s : out(s) /\ thread' = [thread EXCEPT ![t] = s]
      <3>1. out(thread[t])
        BY <2>2 DEF IgnoreBlock, RejectBlock, StoreBlock, ProcessNewBlock, Resting, out
      <3>2. \/ thread' = thread \/ thread' = [thread EXCEPT ![t] = thread[t]]
            \/ thread' = [thread EXCEPT ![t] = Activating(FALSE)]
        BY <2>2, ZenonT(60) DEF IgnoreBlock, RejectBlock, StoreBlock
      <3>. QED
        BY <1>2, <3>1, <3>2, ZenonT(60)
    <2>3. ASSUME NEW b \in Block, InvalidateRPC(t, b) \/ ReconsiderRPC(t, b)
          PROVE  \E s : out(s) /\ thread' = [thread EXCEPT ![t] = s]
      BY <2>3, <1>2, ZenonT(60) DEF InvalidateRPC, ReconsiderRPC, Goto
    <2>4. CASE Request(t)
      BY <2>2, <2>3, <2>4 DEF Request
    <2>5. CASE \/ ActivateNothing(t) \/ ActivateRefuse(t) \/ ActivateTooDeep(t)
               \/ StepDisconnectRefused(t) \/ StepConnectFuture(t) \/ InvalidateRefused(t)
      BY <2>5, <1>2, ZenonT(60)
         DEF ActivateNothing, ActivateRefuse, ActivateTooDeep, StepDisconnectRefused,
             StepConnectFuture, InvalidateRefused, Goto
    <2>6. CASE StepConnectInvalid(t) \/ CheckTip(t) \/ InvalidateDone(t)
      BY <2>6, <1>2, <1>4, ZenonT(60) DEF StepConnectInvalid, CheckTip, InvalidateDone, Goto
    <2>. QED
      BY <2>1, <2>4, <2>5, <2>6
  <1>6. out(thread'[t]) /\ \A u \in Thread \ {t} : thread'[u] = thread[u]
    <2>1. CASE thread' = thread /\ out(thread[t])
      BY <2>1
    <2>2. ASSUME NEW s, out(s), thread' = [thread EXCEPT ![t] = s]
          PROVE  out(thread'[t]) /\ \A u \in Thread \ {t} : thread'[u] = thread[u]
      <3>1. thread'[t] = s
        BY <1>1, <2>2
      <3>. QED
        BY <1>1, <2>2, <3>1
    <2>. QED
      BY <1>5, <2>1, <2>2
  <1>. QED
    BY <1>3, <1>6, ReorgOneMoves

\* ReorgInv holds in every state, together with ChainInv.
LEMMA ReorgInvariant == Spec => []ReorgInv
  <1>1. Init => ReorgInv
    BY ThreadStateTypes, GenesisAssumption, ZenonT(60) DEF Init, ReorgInv, Idle, At
  <1>2. ChainInv /\ ReorgInv /\ [Next]_vars => ReorgInv'
    <2>. SUFFICES ASSUME ChainInv, ReorgInv, [Next]_vars PROVE ReorgInv'
      OBVIOUS
    <2>1. CASE Environment \/ UNCHANGED vars
      <3>1. tip' = tip /\ thread' = thread
        BY <2>1 DEF Environment, ReceiveHeader, RefuseHeader, TimePasses, QueryNotarized,
                    LeaveInitialDownload, vars
      <3>. QED
        BY <3>1 DEF ReorgInv
    <2>2. ASSUME NEW t \in Thread, Proceed(t) \/ Request(t) PROVE ReorgInv'
      BY <2>2, ReorgBegin, ReorgDisconnect, ReorgForkReached, ReorgConnect, ReorgOthers DEF Proceed
    <2>. QED
      BY <2>1, <2>2 DEF Next
  <1>. QED
    BY <1>1, <1>2, ChainInvariant, PTL DEF Spec

\* No ActivateBestChainStep rolls back more than MAX_REORG_LENGTH blocks, for
\* any tree and whatever the candidate's blocks, the clock and the other
\* threads do while it runs.
THEOREM ReorgsAreBounded == Spec => []ReorgBounded
  <1>1. ChainInv /\ ReorgInv => ReorgBounded
    <2>. SUFFICES ASSUME ChainInv, ReorgInv, NEW t \in Thread,
                         thread[t].pc \in {"disconnect", "connect"}
                  PROVE  Height[thread[t].oldTip] - Height[tip] <= MaxReorg
      BY DEF ReorgBounded
    <2>. DEFINE fork == FindFork(thread[t].oldTip, thread[t].target)
    <2>1. thread[t].oldTip \in Block /\ thread[t].target \in Block /\ tip \in Block
      BY DEF ChainInv, TypeOK, ThreadState
    <2>2. /\ Height[thread[t].oldTip] \in Nat /\ Height[tip] \in Nat /\ Height[fork] \in Nat
          /\ MaxReorg \in Nat
      <3>0. fork \in Path[thread[t].target]
        BY <2>1, ForkFacts
      <3>1. fork \in Block
        <4>. HIDE DEF fork
        <4>. QED
          BY <2>1, <3>0, PathParent
      <3>. QED
        BY <2>1, <3>1, TypeAssumption, ConstantsAssumption
    <2>3. Height[thread[t].oldTip] - Height[fork] <= MaxReorg /\ Height[fork] <= Height[tip]
      BY DEF ReorgInv, DownToFork
    <2>. QED
      BY SMTT(30), <2>2, <2>3
  <1>. QED
    BY <1>1, ChainInvariant, ReorgInvariant, PTL

----------------------------------------------------------------------------
(***************************************************************************)
(* The order of the candidates.                                            *)
(***************************************************************************)
\* CBlockIndexWorkComparator is a strict total order of linked blocks S whose
\* sequence ids order those of equal work.
LEMMA WorseOrder ==
    ASSUME NEW S \in SUBSET Block, NEW ids, StrictOrder(ids, S, ChainWork)
    PROVE  /\ \A a \in S : ~WorseBy(ids, a, a)
           /\ \A a, b \in S : WorseBy(ids, a, b) => ~WorseBy(ids, b, a)
           /\ \A a, b \in S : a # b => WorseBy(ids, a, b) \/ WorseBy(ids, b, a)
           /\ \A a, b, c \in S : WorseBy(ids, a, b) /\ WorseBy(ids, b, c) => WorseBy(ids, a, c)
  <1>1. \A a \in S : ChainWork[a] \in Nat
    BY TypeAssumption
  <1>2. \A a, b \in S : <<a, b>> \in ids => <<b, a>> \notin ids
    BY DEF StrictOrder
  <1>3. \A a, b \in S : a # b /\ ChainWork[a] = ChainWork[b] => <<a, b>> \in ids \/ <<b, a>> \in ids
    BY DEF StrictOrder
  <1>4. \A a, b, c \in S : <<a, b>> \in ids /\ <<b, c>> \in ids => <<a, c>> \in ids
    BY DEF StrictOrder
  <1>5. \A a \in S : ~WorseBy(ids, a, a)
    BY SMTT(30), <1>1, <1>2 DEF WorseBy
  <1>6. \A a, b \in S : WorseBy(ids, a, b) => ~WorseBy(ids, b, a)
    BY SMT, <1>1, <1>2 DEF WorseBy
  <1>7. \A a, b \in S : a # b => WorseBy(ids, a, b) \/ WorseBy(ids, b, a)
    BY SMT, <1>1, <1>3 DEF WorseBy
  <1>8. \A a, b, c \in S : WorseBy(ids, a, b) /\ WorseBy(ids, b, c) => WorseBy(ids, a, c)
    BY SMT, <1>1, <1>4 DEF WorseBy
  <1>. QED
    BY <1>5, <1>6, <1>7, <1>8

\* A strict order of a set orders every part of it.
LEMMA StrictOrderPart ==
    ASSUME NEW R, NEW S, NEW f, NEW T, T \subseteq S, StrictOrder(R, S, f)
    PROVE  StrictOrder(R \cap (T \X T), T, f)
  BY DEF StrictOrder

\* What ReceivedBlockTransactions links for a block b that it did not have.
LEMMA NowLinkedFacts ==
    ASSUME TypeOK, AncestorsLinked, linked \subseteq data, unlinked \cap linked = {},
           NEW b \in Block \ {Genesis}, b \notin data
    PROVE  /\ NowLinked(b) \subseteq unlinked \cup {b} /\ NowLinked(b) \subseteq Block
           /\ NowLinked(b) \cap linked = {}
           /\ \A d \in NowLinked(b) : b \in Path[d] /\ Path[d] \ Path[b] \subseteq unlinked
  <1>1. b \in Path[b]
    BY PathParent
  <1>2. \A d \in NowLinked(b) : /\ d \in unlinked \cup {b}
                                /\ b \in Path[d] /\ Path[d] \ Path[b] \subseteq unlinked
    BY <1>1 DEF NowLinked
  <1>3. unlinked \subseteq Block
    BY DEF TypeOK
  <1>. QED
    BY <1>2, <1>3

\* The queue of ReceivedBlockTransactions, at equal heights, follows the order
\* of mapBlocksUnlinked where the walks part.
LEMMA QueuedBeforePart ==
    ASSUME StrictOrder(inserted, unlinked, Parent), NEW a, NEW c
    PROVE  QueuedBefore(a, c) <=>
              \/ Height[a] < Height[c]
              \/ Height[a] = Height[c] /\ \E p, q \in unlinked : <<p, q>> \in inserted /\ Part(a, c, p, q)
  <1>1. \A p \in inserted : /\ p[1] \in unlinked /\ p[2] \in unlinked /\ p = <<p[1], p[2]>>
                            /\ Parent[p[1]] = Parent[p[2]]
    BY SMT DEF StrictOrder
  <1>2. ASSUME NEW p \in inserted, p[1] \in Path[a] \ Path[c], p[2] \in Path[c] \ Path[a]
        PROVE  \E u, v \in unlinked : <<u, v>> \in inserted /\ Part(a, c, u, v)
    <2>1. <<p[1], p[2]>> \in inserted /\ Part(a, c, p[1], p[2])
      BY <1>1, <1>2 DEF Part
    <2>. QED
      BY <1>1, <2>1
  <1>3. ASSUME NEW u \in unlinked, NEW v \in unlinked, <<u, v>> \in inserted, Part(a, c, u, v)
        PROVE  \E p \in inserted : p[1] \in Path[a] \ Path[c] /\ p[2] \in Path[c] \ Path[a]
    <2>1. <<u, v>>[1] = u /\ <<u, v>>[2] = v
      OBVIOUS
    <2>. QED
      BY <1>3, <2>1 DEF Part
  <1>. QED
    BY <1>2, <1>3 DEF QueuedBefore

\* The queue handles the blocks it links in a strict total order.
LEMMA QueueOrder ==
    ASSUME TypeOK, AncestorsLinked, linked \subseteq data, unlinked \cap linked = {},
           StrictOrder(inserted, unlinked, Parent),
           NEW b \in Block \ {Genesis}, b \notin data
    PROVE  /\ \A a, c \in NowLinked(b) : QueuedBefore(a, c) => ~QueuedBefore(c, a)
           /\ \A a, c \in NowLinked(b) : a # c => QueuedBefore(a, c) \/ QueuedBefore(c, a)
           /\ \A a, c, d \in NowLinked(b) :
                 QueuedBefore(a, c) /\ QueuedBefore(c, d) => QueuedBefore(a, d)
  <1>. DEFINE new == NowLinked(b)
              tie(a, c) == \E p, q \in unlinked : <<p, q>> \in inserted /\ Part(a, c, p, q)
  <1>1. /\ new \subseteq Block
        /\ \A d \in new : b \in Path[d] /\ Path[d] \ Path[b] \subseteq unlinked
    BY NowLinkedFacts, ZenonT(60)
  <1>2. \A a \in new : Height[a] \in Nat
    BY <1>1, TypeAssumption
  <1>3. \A a, c : QueuedBefore(a, c) <=> Height[a] < Height[c] \/ (Height[a] = Height[c] /\ tie(a, c))
    BY QueuedBeforePart, ZenonT(60)
  <1>4. /\ \A p, q \in unlinked : <<p, q>> \in inserted => <<q, p>> \notin inserted
        /\ \A p, q \in unlinked : p # q /\ Parent[p] = Parent[q] => <<p, q>> \in inserted \/ <<q, p>> \in inserted
        /\ \A p, q, r \in unlinked : <<p, q>> \in inserted /\ <<q, r>> \in inserted => <<p, r>> \in inserted
    BY DEF StrictOrder
  <1>. HIDE DEF new
  <1>5. ASSUME NEW a \in new, NEW c \in new, tie(a, c) PROVE ~tie(c, a)
    <2>1. PICK p \in unlinked, q \in unlinked : <<p, q>> \in inserted /\ Part(a, c, p, q)
      BY <1>5
    <2>2. ASSUME NEW r \in unlinked, NEW s \in unlinked, <<r, s>> \in inserted, Part(c, a, r, s)
          PROVE  FALSE
      <3>1. Part(a, c, s, r)
        BY <2>2 DEF Part
      <3>2. p = s /\ q = r
        BY <1>1, <2>1, <3>1, PartUnique
      <3>. QED
        BY <1>4, <2>1, <2>2, <3>2
    <2>. QED
      BY <2>2
  <1>6. ASSUME NEW a \in new, NEW c \in new, a # c, Height[a] = Height[c] PROVE tie(a, c) \/ tie(c, a)
    <2>1. a \in Path[a] /\ c \in Path[c] /\ a \in Block /\ c \in Block
      BY <1>1, PathParent
    <2>2. a \notin Path[c] /\ c \notin Path[a]
      BY <1>6, <2>1, Ancestry
    <2>3. PICK p \in Path[a], q \in Path[c] : Part(a, c, p, q)
      BY <2>1, <2>2, PartExists
    <2>4. Path[b] \subseteq Path[a] /\ Path[b] \subseteq Path[c]
      BY <1>1, <2>1, Ancestry
    <2>5. p \in unlinked /\ q \in unlinked /\ p # q
      BY <1>1, <2>3, <2>4 DEF Part
    <2>6. Part(c, a, q, p)
      BY <2>3 DEF Part
    <2>7. <<p, q>> \in inserted \/ <<q, p>> \in inserted
      BY <1>4, <2>3, <2>5 DEF Part
    <2>. QED
      BY <2>3, <2>5, <2>6, <2>7
  <1>7. ASSUME NEW a \in new, NEW c \in new, NEW d \in new, tie(a, c), tie(c, d) PROVE tie(a, d)
    <2>1. PICK p \in unlinked, q \in unlinked : <<p, q>> \in inserted /\ Part(a, c, p, q)
      BY <1>7
    <2>2. PICK r \in unlinked, s \in unlinked : <<r, s>> \in inserted /\ Part(c, d, r, s)
      BY <1>7
    <2>3. \/ Part(a, d, p, q) \/ Part(a, d, r, s)
          \/ q = r /\ (p = s \/ Part(a, d, p, s))
      BY SMTT(30), <1>1, <2>1, <2>2, PartTrans
    <2>4. CASE q = r
      <3>1. <<p, s>> \in inserted /\ p # s
        BY <1>4, <2>1, <2>2, <2>4
      <3>. QED
        BY <2>1, <2>2, <2>3, <3>1
    <2>. QED
      BY <2>1, <2>2, <2>3, <2>4
  <1>. HIDE DEF tie
  <1>8. \A a, c \in new : QueuedBefore(a, c) => ~QueuedBefore(c, a)
    BY SMTT(30), <1>2, <1>3, <1>5
  <1>9. \A a, c \in new : a # c => QueuedBefore(a, c) \/ QueuedBefore(c, a)
    <2>. SUFFICES ASSUME NEW a \in new, NEW c \in new, a # c
                  PROVE  \/ Height[a] < Height[c] \/ Height[c] < Height[a]
                         \/ Height[a] = Height[c] /\ (tie(a, c) \/ tie(c, a))
      BY <1>3
    <2>. QED
      BY SMT, <1>2, <1>6
  <1>10. \A a, c, d \in new : QueuedBefore(a, c) /\ QueuedBefore(c, d) => QueuedBefore(a, d)
    <2>. SUFFICES ASSUME NEW a \in new, NEW c \in new, NEW d \in new,
                         QueuedBefore(a, c), QueuedBefore(c, d)
                  PROVE  Height[a] < Height[d] \/ (Height[a] = Height[d] /\ tie(a, d))
      BY <1>3
    <2>1. Height[a] < Height[c] \/ (Height[a] = Height[c] /\ tie(a, c))
      BY <1>3
    <2>2. Height[c] < Height[d] \/ (Height[c] = Height[d] /\ tie(c, d))
      BY <1>3
    <2>. QED
      BY SMTT(30), <1>2, <1>7, <2>1, <2>2
  <1>. QED
    BY <1>8, <1>9, <1>10 DEF new

\* The sequence ids handed out keep the linked blocks in a strict order.
LEMMA SequenceIdsOrder ==
    ASSUME TypeOK, AncestorsLinked, OrderInv, NEW b \in Block \ {Genesis}, b \notin data
    PROVE  /\ StrictOrder(WithSequenceIds(NowLinked(b)), linked \cup NowLinked(b), ChainWork)
           /\ WithSequenceIds(NowLinked(b)) \cap (linked \X linked) = older
  <1>. DEFINE new == NowLinked(b)
              S == linked \cup new
              R == WithSequenceIds(new)
  <1>1. new \cap linked = {} /\ new \subseteq Block
    BY NowLinkedFacts DEF OrderInv
  <1>2. /\ older \subseteq linked \X linked
        /\ \A p \in older : ChainWork[p[1]] = ChainWork[p[2]]
        /\ \A a, c \in linked : <<a, c>> \in older => <<c, a>> \notin older
        /\ \A a, c \in linked : a # c /\ ChainWork[a] = ChainWork[c] => <<a, c>> \in older \/ <<c, a>> \in older
        /\ \A a, c, d \in linked : <<a, c>> \in older /\ <<c, d>> \in older => <<a, d>> \in older
    BY DEF OrderInv, StrictOrder
  <1>3. /\ \A a, c \in new : QueuedBefore(a, c) => ~QueuedBefore(c, a)
        /\ \A a, c \in new : a # c => QueuedBefore(a, c) \/ QueuedBefore(c, a)
        /\ \A a, c, d \in new : QueuedBefore(a, c) /\ QueuedBefore(c, d) => QueuedBefore(a, d)
    BY QueueOrder DEF OrderInv
  <1>4. ASSUME NEW a \in S, NEW c \in S
        PROVE  <<a, c>> \in R <=> \/ a \in linked /\ c \in linked /\ <<a, c>> \in older
                                  \/ /\ c \in new /\ ChainWork[a] = ChainWork[c]
                                     /\ a \in linked \/ QueuedBefore(a, c)
    <2>1. <<a, c>>[1] = a /\ <<a, c>>[2] = c
      OBVIOUS
    <2>2. <<a, c>> \in S \X new <=> c \in new
      OBVIOUS
    <2>3. <<a, c>> \in older => a \in linked /\ c \in linked
      BY <1>2
    <2>. HIDE DEF new
    <2>. QED
      BY <2>1, <2>2, <2>3 DEF WithSequenceIds
  <1>5. R \subseteq {p \in S \X S : ChainWork[p[1]] = ChainWork[p[2]]}
    <2>. HIDE DEF new
    <2>. QED
      BY <1>2 DEF WithSequenceIds
  <1>. HIDE DEF new, S, R
  <1>6. \A a, c \in S : <<a, c>> \in R => <<c, a>> \notin R
    BY <1>1, <1>2, <1>3, <1>4 DEF S
  <1>7. \A a, c \in S : a # c /\ ChainWork[a] = ChainWork[c] => <<a, c>> \in R \/ <<c, a>> \in R
    BY <1>1, <1>2, <1>3, <1>4 DEF S
  <1>8. ASSUME NEW a \in S, NEW c \in S, NEW d \in S, <<a, c>> \in R, <<c, d>> \in R
        PROVE  <<a, d>> \in R
    <2>1. CASE d \in linked
      <3>1. c \in linked /\ a \in linked /\ <<a, c>> \in older /\ <<c, d>> \in older
        BY <1>1, <1>4, <1>8, <2>1
      <3>. QED
        BY <1>2, <1>4, <2>1, <3>1
    <2>2. CASE d \in new
      <3>1. ChainWork[c] = ChainWork[d] /\ (c \in linked \/ QueuedBefore(c, d)) /\ d \notin linked
        BY <1>1, <1>4, <1>8, <2>2
      <3>2. ChainWork[a] = ChainWork[c]
        BY <1>5, <1>8
      <3>3. CASE a \in linked
        BY <1>4, <2>2, <3>1, <3>2, <3>3
      <3>4. CASE a \notin linked
        <4>1. a \in new /\ c \in new /\ c \notin linked
          BY <1>1, <1>4, <1>8, <3>4 DEF S
        <4>2. QueuedBefore(a, c) /\ QueuedBefore(c, d)
          BY <1>4, <1>8, <3>1, <3>4, <4>1
        <4>. QED
          BY <1>3, <1>4, <2>2, <3>1, <3>2, <4>1, <4>2
      <3>. QED
        BY <3>3, <3>4
    <2>. QED
      BY <2>1, <2>2 DEF S
  <1>9. R \cap (linked \X linked) = older
    <2>1. \A a, c \in linked : <<a, c>> \in R <=> <<a, c>> \in older
      BY <1>1, <1>4 DEF S
    <2>. QED
      BY SMT, <1>2, <2>1
  <1>. QED
    BY <1>5, <1>6, <1>7, <1>8, <1>9 DEF StrictOrder, S, R, new

\* mapBlocksUnlinked keeps the blocks of one parent in the order of insertion.
LEMMA InsertedOrder ==
    ASSUME TypeOK, OrderInv, NEW b \in Block, b \notin data, ReceivedBlockTransactions(b)
    PROVE  StrictOrder(inserted', unlinked', Parent)
  <1>. DEFINE sib == {u \in unlinked : Parent[u] = Parent[b]}
              J == inserted \cup {<<a, b>> : a \in sib}
              U == unlinked \cup {b}
  <1>1. unlinked' \subseteq U /\ inserted' = J \cap (unlinked' \X unlinked')
    BY DEF ReceivedBlockTransactions
  <1>2. b \notin unlinked
    BY DEF TypeOK
  <1>3. /\ inserted \subseteq unlinked \X unlinked
        /\ \A p \in inserted : Parent[p[1]] = Parent[p[2]]
        /\ \A p, q \in unlinked : <<p, q>> \in inserted => <<q, p>> \notin inserted
        /\ \A p, q \in unlinked : p # q /\ Parent[p] = Parent[q] => <<p, q>> \in inserted \/ <<q, p>> \in inserted
        /\ \A p, q, r \in unlinked : <<p, q>> \in inserted /\ <<q, r>> \in inserted => <<p, r>> \in inserted
    BY DEF OrderInv, StrictOrder
  <1>4. ASSUME NEW p \in U, NEW q \in U
        PROVE  <<p, q>> \in J <=> \/ p \in unlinked /\ q \in unlinked /\ <<p, q>> \in inserted
                                  \/ q = b /\ p \in unlinked /\ Parent[p] = Parent[b]
    <2>1. <<p, q>> \in inserted => p \in unlinked /\ q \in unlinked
      BY <1>3
    <2>2. <<p, q>> \in {<<a, b>> : a \in sib} <=> q = b /\ p \in sib
      OBVIOUS
    <2>. QED
      BY <2>1, <2>2
  <1>5. J \subseteq {p \in U \X U : Parent[p[1]] = Parent[p[2]]}
    <2>1. \A p \in inserted : p \in U \X U
      BY <1>3
    <2>2. ASSUME NEW a \in sib PROVE <<a, b>> \in U \X U /\ Parent[<<a, b>>[1]] = Parent[<<a, b>>[2]]
      OBVIOUS
    <2>. QED
      BY SMTT(30), <1>3, <2>1, <2>2
  <1>. HIDE DEF J
  <1>6. \A p, q \in U : <<p, q>> \in J => <<q, p>> \notin J
    BY SMTT(30), <1>2, <1>3, <1>4
  <1>7. \A p, q \in U : p # q /\ Parent[p] = Parent[q] => <<p, q>> \in J \/ <<q, p>> \in J
    BY <1>3, <1>4
  <1>8. ASSUME NEW p \in U, NEW q \in U, NEW r \in U, <<p, q>> \in J, <<q, r>> \in J PROVE <<p, r>> \in J
    <2>1. q # b /\ p # b /\ p \in unlinked /\ q \in unlinked /\ <<p, q>> \in inserted
      BY SMTT(30), <1>2, <1>3, <1>4, <1>8
    <2>2. Parent[p] = Parent[q]
      BY <1>5, <1>8
    <2>. QED
      BY SMTT(30), <1>3, <1>4, <1>8, <2>1, <2>2
  <1>9. StrictOrder(J, U, Parent)
    BY <1>5, <1>6, <1>7, <1>8 DEF StrictOrder
  <1>. HIDE DEF U
  <1>. QED
    BY <1>1, <1>9, StrictOrderPart

\* The block index and the sequence ids stay: only the candidates and the tip
\* are left to look at.
LEMMA OrderKept ==
    ASSUME OrderInv, UNCHANGED <<data, linked, older, unlinked, inserted>>,
           \A c \in candidates' : ~Worse(c, tip')
    PROVE  OrderInv'
  <1>1. /\ data' = data /\ linked' = linked /\ older' = older /\ unlinked' = unlinked
        /\ inserted' = inserted
    OBVIOUS
  <1>2. StrictOrder(older', linked', ChainWork) /\ StrictOrder(inserted', unlinked', Parent)
    BY <1>1 DEF OrderInv
  <1>3. \A c \in candidates' : ~Worse(c, tip)'
    BY <1>1 DEF Worse
  <1>. QED
    BY <1>1, <1>2, <1>3 DEF OrderInv

\* A stored block (ReceivedBlockTransactions): what it links gets later
\* sequence ids than what is linked, so no candidate falls behind the tip.
LEMMA OrderStore ==
    ASSUME ChainInv, OrderInv, NEW t \in Thread, NEW b \in Block, NEW requested \in BOOLEAN,
           StoreBlock(t, b, requested)
    PROVE  OrderInv'
  <1>. USE DEF ChainInv
  <1>. DEFINE new == NowLinked(b)
  <1>1. b # Genesis /\ tip' = tip /\ b \notin data /\ ReceivedBlockTransactions(b)
    BY DEF StoreBlock, ProcessNewBlock, Uninteresting
  <1>2. /\ linked' = linked \cup new
        /\ data' = data \cup {b}
        /\ older' = WithSequenceIds(new)
        /\ candidates' = candidates \cup {c \in new : ~WorseBy(older', c, tip)}
        /\ unlinked' = IF new = {} /\ Parent[b] \notin failed THEN unlinked \cup {b} ELSE unlinked \ new
    BY <1>1 DEF ReceivedBlockTransactions
  <1>3. new \subseteq unlinked \cup {b} /\ new \cap linked = {}
    BY <1>1, NowLinkedFacts DEF OrderInv
  <1>4. linked' \subseteq data'
    BY <1>2, <1>3 DEF OrderInv, TypeOK
  <1>5. unlinked' \cap linked' = {}
    <2>1. unlinked \cap linked = {} /\ b \notin linked
      BY <1>1 DEF OrderInv
    <2>. HIDE DEF new
    <2>2. CASE new = {} /\ Parent[b] \notin failed
      BY <1>2, <2>1, <2>2
    <2>3. CASE ~(new = {} /\ Parent[b] \notin failed)
      BY <1>2, <2>1, <2>3
    <2>. QED
      BY <2>2, <2>3
  <1>6. StrictOrder(older', linked', ChainWork) /\ older' \cap (linked \X linked) = older
    BY <1>1, <1>2, SequenceIdsOrder
  <1>7. StrictOrder(inserted', unlinked', Parent)
    BY <1>1, InsertedOrder
  <1>8. ASSUME NEW c \in candidates' PROVE ~WorseBy(older', c, tip)
    <2>1. CASE c \in candidates
      <3>1. ~WorseBy(older, c, tip) /\ c \in linked /\ tip \in linked
        BY <2>1 DEF OrderInv, Worse, TypeOK
      <3>2. <<tip, c>> \in older' => <<tip, c>> \in older
        BY <1>6, <3>1
      <3>. QED
        BY <3>1, <3>2 DEF WorseBy
    <2>2. CASE c \notin candidates
      BY <1>2, <1>8, <2>2
    <2>. QED
      BY <2>1, <2>2
  <1>. QED
    BY <1>1, <1>4, <1>5, <1>6, <1>7, <1>8 DEF OrderInv, Worse

\* A candidate not worse than the tip is not worse than the tip's parent.
LEMMA NotWorseThanParent ==
    ASSUME ChainInv, OrderInv, tip # Genesis, NEW c \in candidates
    PROVE  ~Worse(c, Parent[tip])
  <1>1. tip \in Block /\ c \in Block /\ Parent[tip] \in Block
    BY PathParent DEF ChainInv, TypeOK
  <1>2. ChainWork[tip] > ChainWork[Parent[tip]]
    BY <1>1, TreeAssumption
  <1>3. ChainWork[tip] \in Nat /\ ChainWork[c] \in Nat /\ ChainWork[Parent[tip]] \in Nat
    BY <1>1, TypeAssumption
  <1>4. ~(ChainWork[c] < ChainWork[tip])
    BY DEF OrderInv, Worse, WorseBy
  <1>. QED
    BY SMTT(30), <1>2, <1>3, <1>4 DEF Worse, WorseBy

\* Every step of the node keeps the order.
LEMMA OrderNext ==
    ASSUME ChainInv, OrderInv, [Next]_vars
    PROVE  OrderInv'
  <1>. USE DEF ChainInv
  <1>1. \A c \in candidates : ~Worse(c, tip)
    BY DEF OrderInv
  <1>2. CASE Environment \/ UNCHANGED vars
    <2>1. UNCHANGED <<data, linked, older, unlinked, inserted, candidates, tip>>
      BY <1>2 DEF Environment, ReceiveHeader, RefuseHeader, TimePasses, QueryNotarized,
                  LeaveInitialDownload, vars, treeVars
    <2>. QED
      BY <1>1, <2>1, OrderKept
  <1>3. ASSUME NEW t \in Thread, NEW b \in Block, NEW requested \in BOOLEAN,
               IgnoreBlock(t, b, requested) \/ RejectBlock(t, b, requested)
        PROVE  OrderInv'
    <2>1. UNCHANGED <<data, linked, older, unlinked, inserted, candidates, tip>>
      BY <1>3 DEF IgnoreBlock, RejectBlock, ProcessNewBlock
    <2>. QED
      BY <1>1, <2>1, OrderKept
  <1>4. ASSUME NEW t \in Thread, NEW b \in Block, InvalidateRPC(t, b) \/ ReconsiderRPC(t, b)
        PROVE  OrderInv'
    <2>1. UNCHANGED <<data, linked, older, unlinked, inserted, tip>>
      BY <1>4 DEF InvalidateRPC, ReconsiderRPC, treeVars
    <2>2. ASSUME NEW c \in candidates' PROVE c \in candidates \/ (c \in linked /\ Worse(tip, c))
      BY <1>4, <2>2 DEF InvalidateRPC, ReconsiderRPC
    <2>3. tip \in linked /\ linked \subseteq Block
      BY DEF TypeOK
    <2>4. \A c \in linked : Worse(tip, c) => ~Worse(c, tip)
      BY <2>3, WorseOrder DEF OrderInv, Worse
    <2>. QED
      BY <1>1, <2>1, <2>2, <2>4, OrderKept
  <1>5. ASSUME NEW t \in Thread,
               \/ ActivateNothing(t) \/ ActivateRefuse(t) \/ ActivateTooDeep(t) \/ ActivateBegin(t)
               \/ InvalidateDone(t)
        PROVE  OrderInv'
    <2>1. UNCHANGED <<data, linked, older, unlinked, inserted, tip>>
      BY <1>5 DEF ActivateNothing, ActivateRefuse, ActivateTooDeep, ActivateBegin, InvalidateDone,
                  TakeMostWork, treeVars
    <2>2. \A c \in candidates' : c \in candidates \/ ~Worse(c, tip)
      BY <1>5 DEF ActivateNothing, ActivateRefuse, ActivateTooDeep, ActivateBegin, InvalidateDone,
                  Remaining, Reinserted
    <2>. QED
      BY <1>1, <2>1, <2>2, OrderKept
  <1>6. ASSUME NEW t \in Thread,
               \/ StepDisconnectRefused(t) \/ StepForkReached(t) \/ StepConnectInvalid(t)
               \/ StepConnectFuture(t) \/ CheckTip(t) \/ InvalidateRefused(t)
        PROVE  OrderInv'
    <2>1. UNCHANGED <<data, linked, older, unlinked, inserted, tip>>
      BY <1>6 DEF StepDisconnectRefused, StepForkReached, StepConnectInvalid, StepConnectFuture,
                  CheckTip, InvalidateRefused, treeVars
    <2>2. candidates' \subseteq candidates
      BY <1>6 DEF StepDisconnectRefused, StepForkReached, StepConnectInvalid, StepConnectFuture,
                  CheckTip, InvalidateRefused, MarkTip
    <2>. QED
      BY <1>1, <2>1, <2>2, OrderKept
  <1>7. ASSUME NEW t \in Thread, StepDisconnect(t) \/ InvalidateDisconnect(t)
        PROVE  OrderInv'
    <2>1. /\ UNCHANGED <<data, linked, older, unlinked, inserted>>
          /\ tip # Genesis /\ tip' = Parent[tip]
      BY <1>7 DEF StepDisconnect, InvalidateDisconnect, DisconnectTip, treeVars
    <2>2. candidates' \subseteq candidates
      BY <1>7 DEF StepDisconnect, InvalidateDisconnect, MarkTip
    <2>3. \A c \in candidates : ~Worse(c, Parent[tip])
      BY <2>1, NotWorseThanParent
    <2>. QED
      BY <2>1, <2>2, <2>3, OrderKept
  <1>8. ASSUME NEW t \in Thread, StepConnect(t) PROVE OrderInv'
    <2>1. /\ UNCHANGED <<data, linked, older, unlinked, inserted>>
          /\ candidates' = PruneBlockIndexCandidates(tip')
      BY <1>8 DEF StepConnect, treeVars
    <2>2. \A c \in candidates' : ~Worse(c, tip')
      BY <2>1 DEF PruneBlockIndexCandidates
    <2>. QED
      BY <2>1, <2>2, OrderKept
  <1>9. ASSUME NEW t \in Thread, Proceed(t) PROVE OrderInv'
    BY <1>5, <1>6, <1>7, <1>8, <1>9 DEF Proceed
  <1>10. ASSUME NEW t \in Thread, Request(t) PROVE OrderInv'
    BY <1>3, <1>4, <1>10, OrderStore DEF Request
  <1>. QED
    BY <1>2, <1>9, <1>10 DEF Next

\* The order of the candidates holds in every state, for every block tree and
\* every use of the RPCs: sequence ids break ties between chains of equal work
\* strictly and totally, and no candidate is worse than the tip
\* (CBlockIndexWorkComparator, PruneBlockIndexCandidates).
THEOREM CandidatesOrdered == Spec => [](OrderInv /\ CandidatesNotWorse)
  <1>1. Init => OrderInv
    <2>. SUFFICES ASSUME Init PROVE OrderInv
      OBVIOUS
    <2>1. /\ linked = {Genesis} /\ data = {Genesis} /\ unlinked = {} /\ older = {} /\ inserted = {}
          /\ candidates = {Genesis} /\ tip = Genesis
      BY DEF Init
    <2>2. StrictOrder(older, linked, ChainWork) /\ StrictOrder(inserted, unlinked, Parent)
      BY <2>1 DEF StrictOrder
    <2>3. ChainWork[Genesis] \in Nat
      BY GenesisAssumption, TypeAssumption
    <2>4. ~Worse(Genesis, tip)
      BY SMTT(30), <2>1, <2>3 DEF Worse, WorseBy
    <2>. QED
      BY <2>1, <2>2, <2>4 DEF OrderInv
  <1>2. OrderInv => CandidatesNotWorse
    BY DEF OrderInv, CandidatesNotWorse
  <1>. QED
    BY <1>1, <1>2, OrderNext, ChainInvariant, PTL DEF Spec

----------------------------------------------------------------------------
(***************************************************************************)
(* Received blocks are linked.                                             *)
(***************************************************************************)
\* A step that stores no block: what it marks as failed is linked or will
\* never be stored.
LEMMA ReceivedKept ==
    ASSUME ReceivedInv, UNCHANGED <<data, linked, unlinked>>, future' \subseteq future,
           failedChild' \subseteq failedChild \cup linked,
           failedValid' \subseteq failedValid \cup linked \cup Hopeless
    PROVE  ReceivedInv'
  <1>1. Hopeless \subseteq Hopeless'
    BY DEF Hopeless
  <1>. QED
    BY <1>1, ZenonT(60) DEF ReceivedInv

\* ReceivedBlockTransactions links every block whose ancestors have all been
\* received, and remembers the others unless they wait in vain.
LEMMA ReceivedStore ==
    ASSUME ChainInv, OrderInv, ReceivedInv, NEW t \in Thread, NEW b \in Block,
           NEW requested \in BOOLEAN, StoreBlock(t, b, requested)
    PROVE  ReceivedInv'
  <1>. USE DEF ChainInv
  <1>. DEFINE new == NowLinked(b)
  <1>1. /\ b # Genesis /\ b \notin data /\ (b \in BadContext => b \in future \/ NearSapling)
        /\ future' = future /\ failedChild' \subseteq failedChild /\ failedValid' \subseteq failedValid
    BY DEF StoreBlock, ProcessNewBlock, Uninteresting, envVars
  <1>2. /\ linked' = linked \cup new
        /\ data' = data \cup {b}
        /\ unlinked' = IF new = {} /\ Parent[b] \notin failed THEN unlinked \cup {b} ELSE unlinked \ new
    BY DEF StoreBlock, ReceivedBlockTransactions
  <1>3. b \notin Hopeless /\ Hopeless' = Hopeless /\ Hopeless \cap data' = {}
    BY <1>1, <1>2 DEF Hopeless
  <1>4. /\ Parent[b] \in Block /\ Path[b] = Path[Parent[b]] \cup {b} /\ b \in Path[b]
        /\ Parent[b] \in Path[b] /\ Parent[b] \in Path[Parent[b]]
    BY <1>1, PathParent
  <1>5. b \notin Path[Parent[b]]
    <2>1. ~(Height[b] <= Height[Parent[b]])
      <3>1. Height[b] = Height[Parent[b]] + 1 /\ Height[Parent[b]] \in Nat
        BY <1>1, <1>4, TreeAssumption, TypeAssumption
      <3>. QED
        BY SMTT(30), <3>1
    <2>. QED
      BY <1>4, <2>1, Ancestry
  <1>6. b \in new \/ new = {}
    BY DEF NowLinked
  <1>7. ASSUME NEW d \in data', Path[d] \subseteq data' PROVE d \in linked'
    <2>1. d \in Block /\ d \in Path[d]
      BY <1>2, PathParent DEF TypeOK
    <2>2. CASE b \notin Path[d]
      <3>1. Path[d] \subseteq data /\ d \in data
        BY <1>2, <1>7, <2>1, <2>2
      <3>. QED
        BY <1>2, <3>1 DEF ReceivedInv
    <2>3. CASE b \in Path[d]
      <3>1. Path[b] \subseteq Path[d]
        BY <2>1, <2>3, Ancestry
      <3>2. Path[Parent[b]] \subseteq data
        BY <1>2, <1>4, <1>5, <1>7, <3>1
      <3>3. Parent[b] \in linked
        BY <1>4, <3>2 DEF ReceivedInv
      <3>4. ASSUME NEW e \in Path[d] \ Path[b] PROVE e \in unlinked
        <4>1. e \in Block /\ e \in data /\ Path[e] \subseteq Path[d]
          BY <1>2, <1>4, <1>7, <2>1, <3>4, PathParent, Ancestry
        <4>2. b \in Path[e]
          <5>1. Height[e] \in Nat /\ Height[b] \in Nat
            BY <4>1, TypeAssumption
          <5>2. ~(Height[e] <= Height[b])
            BY <2>1, <2>3, <3>4, PathOrder
          <5>3. Height[b] <= Height[e]
            BY SMTT(30), <5>1, <5>2
          <5>. QED
            BY <2>1, <2>3, <3>4, <5>3, PathOrder
        <4>3. e \notin linked
          BY <1>1, <4>2 DEF AncestorsLinked, OrderInv
        <4>4. Path[e] \cap Hopeless = {}
          BY <1>3, <1>7, <4>1
        <4>. QED
          BY <4>1, <4>3, <4>4 DEF ReceivedInv
      <3>5. d = b \/ d \in unlinked
        <4>1. ASSUME d # b PROVE d \notin Path[b]
          <5>1. b \in Path[d] /\ d \in Block
            BY <2>1, <2>3
          <5>2. Height[b] <= Height[d] /\ Height[b] # Height[d]
            BY <2>1, <2>3, <4>1, Ancestry
          <5>3. Height[b] \in Nat /\ Height[d] \in Nat
            BY <2>1, TypeAssumption
          <5>4. ~(Height[d] <= Height[b])
            BY SMTT(30), <5>2, <5>3
          <5>. QED
            BY <5>4, Ancestry
        <4>. QED
          BY <2>1, <3>4, <4>1
      <3>6. d \in new
        BY <2>3, <3>3, <3>4, <3>5 DEF NowLinked
      <3>. QED
        BY <1>2, <3>6
    <2>. QED
      BY <2>2, <2>3
  <1>. HIDE DEF new
  <1>8. ASSUME NEW d \in data' PROVE d \in linked' \cup unlinked' \/ Path[d] \cap Hopeless' # {}
    <2>1. CASE d \in data
      <3>1. d \in linked \cup unlinked \/ Path[d] \cap Hopeless # {}
        BY <2>1 DEF ReceivedInv
      <3>. QED
        BY <1>2, <1>3, <3>1
    <2>2. CASE d = b /\ (b \in new \/ Parent[b] \notin failed)
      BY <1>2, <1>6, <2>2
    <2>3. CASE d = b /\ b \notin new /\ Parent[b] \in failed
      <3>1. new = {}
        BY <1>6, <2>3
      <3>2. Parent[b] \notin linked
        BY <3>1 DEF NowLinked, new
      <3>3. Parent[b] \in Hopeless
        BY <2>3, <3>2 DEF ReceivedInv, failed
      <3>. QED
        BY <1>3, <1>4, <2>3, <3>3
    <2>. QED
      BY <1>2, <2>1, <2>2, <2>3
  <1>9. failedChild' \subseteq linked' /\ failedValid' \subseteq linked' \cup Hopeless'
    BY <1>1, <1>2, <1>3 DEF ReceivedInv
  <1>. QED
    BY <1>7, <1>8, <1>9 DEF ReceivedInv

\* Without the RPCs every step keeps it.
LEMMA ReceivedNext ==
    ASSUME ~AdminRPC, ChainInv, OrderInv, ReceivedInv, [Next]_vars
    PROVE  ReceivedInv'
  <1>. USE DEF ChainInv
  <1>1. CASE Environment \/ UNCHANGED vars
    <2>1. /\ UNCHANGED <<data, linked, unlinked>> /\ future' \subseteq future
          /\ failedChild' \subseteq failedChild /\ failedValid' \subseteq failedValid
      BY <1>1 DEF Environment, ReceiveHeader, RefuseHeader, TimePasses, QueryNotarized,
                  LeaveInitialDownload, vars, treeVars, failVars, envVars
    <2>. QED
      BY <2>1, ReceivedKept
  <1>2. ASSUME NEW t \in Thread, NEW b \in Block, NEW requested \in BOOLEAN, IgnoreBlock(t, b, requested)
        PROVE  ReceivedInv'
    <2>1. /\ UNCHANGED <<data, linked, unlinked>> /\ future' \subseteq future
          /\ failedChild' \subseteq failedChild /\ failedValid' \subseteq failedValid
      BY <1>2 DEF IgnoreBlock, ProcessNewBlock, envVars
    <2>. QED
      BY <2>1, ReceivedKept
  <1>3. ASSUME NEW t \in Thread, NEW b \in Block, NEW requested \in BOOLEAN, RejectBlock(t, b, requested)
        PROVE  ReceivedInv'
    <2>1. /\ UNCHANGED <<data, linked, unlinked>> /\ future' \subseteq future
          /\ failedChild' \subseteq failedChild /\ failedValid' = failedValid \cup {b}
      BY <1>3 DEF RejectBlock, ProcessNewBlock, envVars
    <2>2. b \in Hopeless
      BY <1>3 DEF RejectBlock, Uninteresting, Hopeless
    <2>. QED
      BY <2>1, <2>2, ReceivedKept
  <1>4. ASSUME NEW t \in Thread,
               ActivateNothing(t) \/ ActivateRefuse(t) \/ ActivateTooDeep(t) \/ ActivateBegin(t)
        PROVE  ReceivedInv'
    <2>1. /\ UNCHANGED <<data, linked, unlinked>> /\ future' \subseteq future
          /\ failedChild' = failedChild \cup MarkedChild
      BY <1>4 DEF ActivateNothing, ActivateRefuse, ActivateTooDeep, ActivateBegin, TakeMostWork,
                  treeVars, envVars
    <2>2. MarkedChild \subseteq linked
      BY MarkedIsLinked
    <2>3. failedValid' \subseteq failedValid \cup linked
      BY SMTT(30), <1>4, MostWorkIsCandidate
         DEF ActivateNothing, ActivateRefuse, ActivateTooDeep, ActivateBegin, NothingToDo, TypeOK
    <2>. QED
      BY <2>1, <2>2, <2>3, ReceivedKept
  <1>5. ASSUME NEW t \in Thread,
               \/ StepDisconnect(t) \/ StepDisconnectRefused(t) \/ StepForkReached(t)
               \/ StepConnect(t) \/ StepConnectFuture(t) \/ CheckTip(t)
               \/ InvalidateDisconnect(t) \/ InvalidateRefused(t) \/ InvalidateDone(t)
        PROVE  ReceivedInv'
    <2>1. /\ UNCHANGED <<data, linked, unlinked>> /\ future' = future /\ failedValid' = failedValid
          /\ failedChild' \subseteq failedChild \cup {tip}
      BY <1>5 DEF StepDisconnect, StepDisconnectRefused, StepForkReached, StepConnect,
                  StepConnectFuture, CheckTip, InvalidateDisconnect, InvalidateRefused,
                  InvalidateDone, MarkTip, treeVars, envVars, failVars
    <2>2. tip \in linked
      BY DEF TypeOK
    <2>. QED
      BY <2>1, <2>2, ReceivedKept
  <1>6. ASSUME NEW t \in Thread, StepConnectInvalid(t) PROVE ReceivedInv'
    <2>1. /\ UNCHANGED <<data, linked, unlinked>> /\ future' = future /\ failedChild' = failedChild
          /\ failedValid' = failedValid \cup {NextBlock(t)}
      BY <1>6 DEF StepConnectInvalid, treeVars, envVars
    <2>2. NextBlock(t) \in linked
      BY <1>6, NextBlockFacts DEF StepConnectInvalid, InStep
    <2>. QED
      BY <2>1, <2>2, ReceivedKept
  <1>7. ASSUME NEW t \in Thread, Proceed(t) PROVE ReceivedInv'
    BY <1>4, <1>5, <1>6, <1>7 DEF Proceed
  <1>8. ASSUME NEW t \in Thread, Request(t) PROVE ReceivedInv'
    BY <1>2, <1>3, <1>8, ReceivedStore DEF Request, InvalidateRPC, ReconsiderRPC
  <1>. QED
    BY <1>1, <1>7, <1>8 DEF Next

\* As long as invalidateblock and reconsiderblock are not used, nChainTx is
\* known exactly for the blocks all of whose ancestors have been received, in
\* whatever order they arrive (ReceivedBlockTransactions, CheckBlockIndex).
THEOREM LinkedWhenReceived ==
    ASSUME ~AdminRPC
    PROVE  Spec => [](ReceivedInv /\ LinkedIffReceived)
  <1>1. Init => ReceivedInv
    BY PathAssumption, ZenonT(60) DEF Init, ReceivedInv
  <1>2. ChainInv /\ OrderInv /\ ReceivedInv => LinkedIffReceived
    <2>. SUFFICES ASSUME ChainInv, OrderInv, ReceivedInv
                  PROVE  linked = {b \in index : Path[b] \subseteq data}
      BY DEF LinkedIffReceived
    <2>1. ASSUME NEW b \in linked PROVE b \in index /\ Path[b] \subseteq data
      BY <2>1 DEF ChainInv, TypeOK, AncestorsLinked, OrderInv
    <2>2. ASSUME NEW b \in index, Path[b] \subseteq data PROVE b \in linked
      <3>1. b \in Path[b]
        BY <2>2, PathParent DEF ChainInv, TypeOK
      <3>. QED
        BY <2>2, <3>1 DEF ReceivedInv
    <2>. QED
      BY <2>1, <2>2
  <1>. QED
    BY <1>1, <1>2, ReceivedNext, ChainInvariant, CandidatesOrdered, PTL DEF Spec

----------------------------------------------------------------------------
(***************************************************************************)
(* No failed block on the active chain.                                    *)
(***************************************************************************)
\* What FindMostWorkChain returns, if anything, is a best usable candidate.
LEMMA MostWorkFacts ==
    ASSUME MostWork # NoBlock
    PROVE  MostWork \in candidates /\ Usable(MostWork)
  <1>1. PICK c \in candidates : IsMostWork(c)
    BY DEF MostWork
  <1>2. MostWork \in candidates /\ IsMostWork(MostWork)
    BY <1>1, ZenonT(60) DEF MostWork
  <1>. QED
    BY <1>2 DEF IsMostWork

\* The blocks FindMostWorkChain marks BLOCK_FAILED_CHILD lie above a failed
\* block and off the active chain.
LEMMA MarkedFacts ==
    ASSUME TypeOK, NEW b \in MarkedChild
    PROVE  b \in Block /\ b \notin Path[tip] /\ Path[b] \cap failed # {}
  <1>1. PICK d \in Dropped : b \in OffChain(d) /\ ((Path[d] \ Path[b]) \cup {b}) \cap failed = {}
    BY DEF MarkedChild
  <1>2. d \in Block /\ OffChain(d) \cap failed # {}
    BY <1>1 DEF Dropped, Usable, TypeOK
  <1>. QED
    BY <1>1, <1>2, PathParent DEF OffChain

\* The target of a step has no failed block on its chain, before and after the
\* marks of FindMostWorkChain.
LEMMA TargetUnfailed ==
    ASSUME TypeOK, Path[tip] \cap failed = {}, MostWork # NoBlock
    PROVE  Path[MostWork] \cap (failed \cup MarkedChild) = {}
  <1>1. MostWork \in Block /\ Usable(MostWork)
    BY MostWorkFacts DEF TypeOK
  <1>2. Path[MostWork] \cap failed = {}
    BY <1>1 DEF Usable, OffChain
  <1>3. ASSUME NEW b \in MarkedChild, b \in Path[MostWork] PROVE FALSE
    <2>1. Path[b] \cap failed # {} /\ Path[b] \subseteq Path[MostWork]
      BY <1>1, <1>3, MarkedFacts, Ancestry
    <2>. QED
      BY <1>2, <2>1
  <1>. QED
    BY <1>2, <1>3

\* One thread moves, or none, and what it marks as failed concerns no other.
LEMMA UnfailedOneMoves ==
    ASSUME ChainInv, UnfailedInv, NEW t \in Thread,
           \A u \in Thread \ {t} : thread'[u] = thread[u],
           \/ failed' \subseteq failed \/ CsMainFree \/ thread[t].pc \in Holding,
           Path[tip'] \cap failed' = {},
           thread'[t].pc # "invalidate",
           thread'[t].pc \in {"disconnect", "connect"} => Path[thread'[t].target] \cap failed' = {}
    PROVE  UnfailedInv'
  <1>. SUFFICES ASSUME NEW u \in Thread \ {t}
                PROVE  /\ thread'[u].pc # "invalidate"
                       /\ thread'[u].pc \in {"disconnect", "connect"} =>
                             Path[thread'[u].target] \cap failed' = {}
    BY ZenonT(60) DEF UnfailedInv
  <1>1. thread'[u] = thread[u] /\ thread[u].pc # "invalidate"
    BY DEF UnfailedInv
  <1>2. ASSUME thread[u].pc \in {"disconnect", "connect"} PROVE failed' \subseteq failed
    <2>1. thread[u].pc \in Holding
      BY <1>2 DEF Holding
    <2>. QED
      BY <2>1 DEF ChainInv, OneHolder, CsMainFree
  <1>. QED
    BY <1>1, <1>2 DEF UnfailedInv

\* Blocks, headers and the RPCs that are not there.
LEMMA UnfailedRequests ==
    ASSUME ~AdminRPC, ChainInv, OrderInv, UnfailedInv, NEW t \in Thread, Request(t)
    PROVE  UnfailedInv'
  <1>. USE DEF ChainInv
  <1>1. PICK b \in Block, requested \in BOOLEAN :
            \/ IgnoreBlock(t, b, requested) \/ RejectBlock(t, b, requested)
            \/ StoreBlock(t, b, requested)
    BY DEF Request, InvalidateRPC, ReconsiderRPC
  <1>2. CsMainFree /\ tip' = tip /\ thread[t].pc \in Resting
    BY <1>1 DEF IgnoreBlock, RejectBlock, StoreBlock, ProcessNewBlock
  <1>3. Path[tip] \subseteq data
    BY DEF AncestorsLinked, OrderInv, TypeOK
  <1>4. failed' \subseteq failed \/ (failed' \subseteq failed \cup {b} /\ b \notin data)
    BY <1>1 DEF IgnoreBlock, RejectBlock, StoreBlock, ProcessNewBlock, Uninteresting, failed
  <1>5. Path[tip'] \cap failed' = {}
    BY <1>2, <1>3, <1>4 DEF UnfailedInv
  <1>6. thread \in [Thread -> ThreadState]
    BY DEF TypeOK
  <1>7. \/ thread' = thread \/ thread' = [thread EXCEPT ![t] = thread[t]]
        \/ thread' = [thread EXCEPT ![t] = Activating(FALSE)]
    BY <1>1, ZenonT(60) DEF IgnoreBlock, RejectBlock, StoreBlock
  <1>8. /\ \A u \in Thread \ {t} : thread'[u] = thread[u]
        /\ thread'[t] \in {thread[t], Activating(FALSE)}
    BY <1>6, <1>7
  <1>9. thread'[t].pc \in {"idle", "refused", "activate"}
    BY SMTT(30), <1>2, <1>8 DEF Resting, Activating, At
  <1>. QED
    BY <1>2, <1>5, <1>8, <1>9, UnfailedOneMoves

\* FindMostWorkChain and the start, or the refusal, of a step.  A refused
\* candidate is not on the active chain: it would be worse than the tip.
LEMMA UnfailedActivate ==
    ASSUME ChainInv, OrderInv, UnfailedInv, NEW t \in Thread,
           ActivateNothing(t) \/ ActivateRefuse(t) \/ ActivateTooDeep(t) \/ ActivateBegin(t)
    PROVE  UnfailedInv'
  <1>. USE DEF ChainInv
  <1>1. CsMainFree /\ tip' = tip /\ failedChild' = failedChild \cup MarkedChild
    BY DEF ActivateNothing, ActivateRefuse, ActivateTooDeep, ActivateBegin, TakeMostWork
  <1>2. thread \in [Thread -> ThreadState] /\ tip \in Block
    BY DEF TypeOK
  <1>3. MarkedChild \cap Path[tip] = {}
    BY MarkedFacts
  <1>4. CASE ActivateRefuse(t)
    <2>1. /\ failedValid' = failedValid \cup {MostWork} /\ thread' = [thread EXCEPT ![t] = Refused]
          /\ MostWork # NoBlock /\ MostWork # tip
      BY <1>4 DEF ActivateRefuse, Goto, NothingToDo
    <2>2. MostWork \in candidates /\ MostWork \in Block
      BY <2>1, MostWorkFacts DEF TypeOK
    <2>3. ~(ChainWork[MostWork] < ChainWork[tip])
      BY <2>2 DEF OrderInv, Worse, WorseBy
    <2>4. MostWork \notin Path[tip]
      BY <1>2, <2>1, <2>3, WorkGrows
    <2>5. Path[tip'] \cap failed' = {}
      BY <1>1, <1>3, <2>1, <2>4 DEF UnfailedInv, failed
    <2>6. thread'[t] = Refused /\ \A u \in Thread \ {t} : thread'[u] = thread[u]
      BY <1>2, <2>1
    <2>7. thread'[t].pc = "refused"
      BY SMTT(30), <2>6 DEF Refused, At
    <2>. QED
      BY <1>1, <2>5, <2>6, <2>7, UnfailedOneMoves
  <1>5. CASE ActivateNothing(t) \/ ActivateTooDeep(t)
    <2>1. PICK s \in {Idle, Refused} : failedValid' = failedValid /\ thread' = [thread EXCEPT ![t] = s]
      BY <1>5 DEF ActivateNothing, ActivateTooDeep, Goto
    <2>2. Path[tip'] \cap failed' = {}
      BY <1>1, <1>3, <2>1 DEF UnfailedInv, failed
    <2>3. thread'[t] = s /\ \A u \in Thread \ {t} : thread'[u] = thread[u]
      BY <1>2, <2>1
    <2>4. thread'[t].pc \in {"idle", "refused"}
      BY SMTT(30), <2>3 DEF Idle, Refused, At
    <2>. QED
      BY <1>1, <2>2, <2>3, <2>4, UnfailedOneMoves
  <1>6. CASE ActivateBegin(t)
    <2>. DEFINE s == At("disconnect", thread[t].skip, MostWork, tip)
    <2>1. failedValid' = failedValid /\ thread' = [thread EXCEPT ![t] = s] /\ MostWork # NoBlock
      BY <1>6 DEF ActivateBegin, Goto, NothingToDo
    <2>2. Path[tip'] \cap failed' = {}
      BY <1>1, <1>3, <2>1 DEF UnfailedInv, failed
    <2>3. Path[MostWork] \cap failed' = {}
      BY <1>1, <2>1, TargetUnfailed DEF UnfailedInv, failed
    <2>4. thread'[t] = s /\ \A u \in Thread \ {t} : thread'[u] = thread[u]
      BY <1>2, <2>1
    <2>5. thread'[t].pc = "disconnect" /\ thread'[t].target = MostWork
      BY SMTT(30), <2>4 DEF At
    <2>. HIDE DEF s
    <2>. QED
      BY <1>1, <2>2, <2>3, <2>4, <2>5, UnfailedOneMoves
  <1>. QED
    BY <1>4, <1>5, <1>6

\* The steps under cs_main: the tip moves down, or up towards the target.
LEMMA UnfailedSteps ==
    ASSUME ChainInv, UnfailedInv, NEW t \in Thread,
           \/ StepDisconnect(t) \/ StepDisconnectRefused(t) \/ StepForkReached(t)
           \/ StepConnect(t) \/ StepConnectInvalid(t) \/ StepConnectFuture(t) \/ CheckTip(t)
    PROVE  UnfailedInv'
  <1>. USE DEF ChainInv
  <1>1. thread \in [Thread -> ThreadState] /\ thread[t] \in ThreadState /\ tip \in Block
    BY DEF TypeOK
  <1>2. Path[tip'] \cap failed' = {}
    <2>1. CASE StepDisconnect(t)
      <3>1. tip # Genesis /\ tip' = Parent[tip] /\ failed' = failed
        BY <2>1 DEF StepDisconnect, DisconnectTip, failVars, failed
      <3>2. Path[tip'] \subseteq Path[tip]
        BY <1>1, <3>1, PathParent
      <3>. QED
        BY <3>1, <3>2 DEF UnfailedInv
    <2>2. CASE StepDisconnectRefused(t) \/ StepForkReached(t) \/ StepConnectFuture(t) \/ CheckTip(t)
      <3>1. tip' = tip /\ failed' = failed
        BY <2>2 DEF StepDisconnectRefused, StepForkReached, StepConnectFuture, CheckTip, failVars, failed
      <3>. QED
        BY <3>1 DEF UnfailedInv
    <2>3. CASE StepConnect(t)
      <3>1. tip' = NextBlock(t) /\ failed' = failed /\ thread[t].pc = "connect"
        BY <2>3 DEF StepConnect, InStep, failVars, failed
      <3>2. NextBlock(t) \in Path[thread[t].target] /\ thread[t].target \in Block
        BY <1>1, <3>1, NextBlockFacts DEF ThreadState
      <3>3. Path[NextBlock(t)] \subseteq Path[thread[t].target]
        BY <3>2, Ancestry
      <3>. QED
        BY <3>1, <3>3 DEF UnfailedInv
    <2>4. CASE StepConnectInvalid(t)
      <3>1. tip' = tip /\ failed' = failed \cup {NextBlock(t)} /\ thread[t].pc = "connect"
        BY <2>4 DEF StepConnectInvalid, InStep, failed
      <3>2. NextBlock(t) \in Block \ {Genesis} /\ Parent[NextBlock(t)] = tip
        BY <3>1, NextBlockFacts
      <3>3. Height[NextBlock(t)] = Height[tip] + 1 /\ Height[tip] \in Nat
        BY <1>1, <3>2, PathParent, TypeAssumption
      <3>4. ~(Height[NextBlock(t)] <= Height[tip])
        BY SMTT(30), <3>3
      <3>5. NextBlock(t) \notin Path[tip]
        BY <1>1, <3>4, Ancestry
      <3>. QED
        BY <3>1, <3>5 DEF UnfailedInv
    <2>. QED
      BY <2>1, <2>2, <2>3, <2>4
  <1>3. failed' \subseteq failed \/ thread[t].pc \in Holding
    BY DEF StepDisconnect, StepDisconnectRefused, StepForkReached, StepConnect, StepConnectInvalid,
           StepConnectFuture, CheckTip, InStep, Holding, failVars, failed
  <1>4. PICK s : /\ thread' = [thread EXCEPT ![t] = s]
                 /\ \/ s.pc \in {"idle", "refused", "activate", "check"}
                    \/ /\ thread[t].pc \in {"disconnect", "connect"} /\ s.pc \in {"disconnect", "connect"}
                       /\ s.target = thread[t].target /\ failed' = failed
    <2>1. CASE StepDisconnect(t) \/ (StepConnect(t) /\ thread' = thread)
      <3>1. thread' = [thread EXCEPT ![t] = thread[t]] /\ failed' = failed
        BY <1>1, <2>1 DEF StepDisconnect, StepConnect, failVars, failed
      <3>2. thread[t].pc \in {"disconnect", "connect"}
        BY <2>1 DEF StepDisconnect, StepConnect, InStep
      <3>. QED
        BY <3>1, <3>2
    <2>2. CASE \/ StepConnect(t) /\ thread' # thread
               \/ StepConnectInvalid(t)
               \/ StepForkReached(t) /\ tip = thread[t].target
      <3>1. PICK b : thread' = [thread EXCEPT ![t] = Checking(thread[t].skip, b)]
        BY <2>2, ZenonT(60) DEF StepConnect, StepConnectInvalid, StepForkReached, Goto
      <3>2. Checking(thread[t].skip, b).pc = "check"
        BY DEF Checking, At
      <3>. QED
        BY <3>1, <3>2
    <2>3. CASE StepForkReached(t) /\ tip # thread[t].target
      <3>. DEFINE s == [thread[t] EXCEPT !.pc = "connect"]
      <3>1. thread' = [thread EXCEPT ![t] = s] /\ failed' = failed /\ thread[t].pc = "disconnect"
        BY <2>3 DEF StepForkReached, Goto, InStep, failVars, failed
      <3>2. s.pc = "connect" /\ s.target = thread[t].target
        BY <1>1 DEF ThreadState
      <3>. HIDE DEF s
      <3>. QED
        BY <3>1, <3>2
    <2>4. CASE StepDisconnectRefused(t) \/ StepConnectFuture(t) \/ CheckTip(t)
      <3>1. \/ thread' = [thread EXCEPT ![t] = Idle]
            \/ thread' = [thread EXCEPT ![t] = Refused]
            \/ thread' = [thread EXCEPT ![t] = Activating(thread[t].skip)]
        BY <2>4, ZenonT(60) DEF StepDisconnectRefused, StepConnectFuture, CheckTip, Goto
      <3>2. Idle.pc = "idle" /\ Refused.pc = "refused" /\ Activating(thread[t].skip).pc = "activate"
        BY DEF Idle, Refused, Activating, At
      <3>. QED
        BY <3>1, <3>2
    <2>. QED
      BY <2>1, <2>2, <2>3, <2>4
  <1>5. thread'[t] = s /\ \A u \in Thread \ {t} : thread'[u] = thread[u]
    BY <1>1, <1>4
  <1>6. s.pc # "invalidate"
    BY <1>4
  <1>7. s.pc \in {"disconnect", "connect"} => Path[s.target] \cap failed' = {}
    BY <1>4 DEF UnfailedInv
  <1>. QED
    BY <1>2, <1>3, <1>5, <1>6, <1>7, UnfailedOneMoves

\* Without the RPCs every step keeps it.
LEMMA UnfailedNext ==
    ASSUME ~AdminRPC, ChainInv, OrderInv, UnfailedInv, [Next]_vars
    PROVE  UnfailedInv'
  <1>1. CASE Environment \/ UNCHANGED vars
    <2>1. tip' = tip /\ thread' = thread /\ failed' \subseteq failed
      BY <1>1 DEF Environment, ReceiveHeader, RefuseHeader, TimePasses, QueryNotarized,
                  LeaveInitialDownload, vars, failVars, failed
    <2>. QED
      BY <2>1 DEF UnfailedInv
  <1>2. ASSUME NEW t \in Thread, Proceed(t) PROVE UnfailedInv'
    <2>1. ~InvalidateDisconnect(t) /\ ~InvalidateRefused(t) /\ ~InvalidateDone(t)
      BY DEF UnfailedInv, InvalidateDisconnect, InvalidateRefused, InvalidateDone, InStep
    <2>. QED
      BY <1>2, <2>1, UnfailedActivate, UnfailedSteps DEF Proceed
  <1>3. ASSUME NEW t \in Thread, Request(t) PROVE UnfailedInv'
    BY <1>3, UnfailedRequests
  <1>. QED
    BY <1>1, <1>2, <1>3 DEF Next

\* As long as invalidateblock is not used, no block of the active chain is
\* marked failed, also with CC chains, early blocks and in the middle of a step:
\* FindMostWorkChain may stop at the active chain.
THEOREM ActiveChainIsValid ==
    ASSUME ~AdminRPC
    PROVE  Spec => [](UnfailedInv /\ ActiveChainValid)
  <1>1. Init => UnfailedInv
    BY ThreadStateTypes, GenesisAssumption, ZenonT(60) DEF Init, UnfailedInv, failed
  <1>2. UnfailedInv => ActiveChainValid
    BY DEF UnfailedInv, ActiveChainValid
  <1>. QED
    BY <1>1, <1>2, UnfailedNext, ChainInvariant, CandidatesOrdered, PTL DEF Spec

----------------------------------------------------------------------------
(***************************************************************************)
(* Failures have causes; mapBlocksUnlinked.                                *)
(***************************************************************************)
\* A step that stores no block and clears no failure: what it marks failed has
\* its cause.
LEMMA CauseKept ==
    ASSUME CauseInv, UNCHANGED <<data, linked, unlinked>>, failedValid \subseteq failedValid',
           \A b \in failed' : b \in failed \/ Path[b] \cap failedValid' # {}
    PROVE  CauseInv'
  <1>1. ASSUME NEW b \in failed' PROVE Path[b] \cap failedValid' # {}
    BY <1>1 DEF CauseInv
  <1>2. ASSUME NEW d \in data' PROVE d \in linked' \cup unlinked' \/ Path[d] \cap failedValid' # {}
    BY <1>2 DEF CauseInv
  <1>. QED
    BY <1>1, <1>2, ZenonT(60) DEF CauseInv

\* What lies above a failed block has a cause to be failed.
LEMMA CauseAbove ==
    ASSUME CauseInv, NEW b \in Block, NEW f \in Path[b], f \in failed
    PROVE  Path[b] \cap failedValid # {}
  <1>1. Path[f] \subseteq Path[b]
    BY Ancestry
  <1>2. Path[f] \cap failedValid # {}
    BY DEF CauseInv
  <1>. QED
    BY <1>1, <1>2

\* ReceivedBlockTransactions forgets a block only above a failed one.
LEMMA CauseStore ==
    ASSUME ~CC, ChainInv, CauseInv, NEW t \in Thread, NEW b \in Block,
           NEW requested \in BOOLEAN, StoreBlock(t, b, requested)
    PROVE  CauseInv'
  <1>. DEFINE new == NowLinked(b)
  <1>1. b # Genesis /\ failedChild' = failedChild /\ failedValid' = failedValid
    BY DEF StoreBlock, ProcessNewBlock, Cleared
  <1>2. /\ linked' = linked \cup new
        /\ data' = data \cup {b}
        /\ unlinked' = IF new = {} /\ Parent[b] \notin failed THEN unlinked \cup {b} ELSE unlinked \ new
    BY DEF StoreBlock, ReceivedBlockTransactions
  <1>3. b \in new \/ new = {}
    BY DEF NowLinked
  <1>4. Parent[b] \in Path[b]
    BY <1>1, PathParent
  <1>. HIDE DEF new
  <1>5. ASSUME NEW d \in data' PROVE d \in linked' \cup unlinked' \/ Path[d] \cap failedValid' # {}
    <2>1. CASE d \in data
      <3>1. d \in linked \cup unlinked \/ Path[d] \cap failedValid # {}
        BY <2>1 DEF CauseInv
      <3>. QED
        BY <1>1, <1>2, <3>1
    <2>2. CASE d = b /\ (b \in new \/ Parent[b] \notin failed)
      BY <1>2, <1>3, <2>2
    <2>3. CASE d = b /\ Parent[b] \in failed
      BY <1>1, <1>4, <2>3, CauseAbove
    <2>. QED
      BY <1>2, <2>1, <2>2, <2>3
  <1>6. \A c \in failed' : Path[c] \cap failedValid' # {}
    BY <1>1 DEF CauseInv, failed
  <1>. QED
    BY <1>5, <1>6, ZenonT(60) DEF CauseInv

\* Without the RPCs and CC every step keeps it.
LEMMA CauseNext ==
    ASSUME ~AdminRPC, ~CC, ChainInv, UnfailedInv, CauseInv, [Next]_vars
    PROVE  CauseInv'
  <1>. USE DEF ChainInv
  <1>1. CASE Environment \/ UNCHANGED vars
    <2>1. UNCHANGED <<data, linked, unlinked, failedValid, failedChild>>
      BY <1>1 DEF Environment, ReceiveHeader, RefuseHeader, TimePasses, QueryNotarized,
                  LeaveInitialDownload, Cleared, vars, treeVars, failVars
    <2>. QED
      BY <2>1, CauseKept DEF failed
  <1>2. ASSUME NEW t \in Thread, NEW b \in Block, NEW requested \in BOOLEAN,
               IgnoreBlock(t, b, requested) \/ RejectBlock(t, b, requested)
        PROVE  CauseInv'
    <2>1. /\ UNCHANGED <<data, linked, unlinked, failedChild>>
          /\ failedValid' = failedValid \/ failedValid' = failedValid \cup {b}
      BY <1>2 DEF IgnoreBlock, RejectBlock, ProcessNewBlock, Cleared
    <2>2. b \in Path[b]
      BY PathParent
    <2>. QED
      BY <2>1, <2>2, CauseKept DEF failed
  <1>3. ASSUME NEW t \in Thread,
               ActivateNothing(t) \/ ActivateRefuse(t) \/ ActivateTooDeep(t) \/ ActivateBegin(t)
        PROVE  CauseInv'
    <2>1. /\ UNCHANGED <<data, linked, unlinked>>
          /\ failedChild' = failedChild \cup MarkedChild
      BY <1>3 DEF ActivateNothing, ActivateRefuse, ActivateTooDeep, ActivateBegin, TakeMostWork,
                  treeVars
    <2>2. \/ failedValid' = failedValid
          \/ failedValid' = failedValid \cup {MostWork} /\ MostWork # NoBlock
      BY <1>3 DEF ActivateNothing, ActivateRefuse, ActivateTooDeep, ActivateBegin, NothingToDo
    <2>3. MostWork # NoBlock => MostWork \in Path[MostWork]
      BY MostWorkFacts, PathParent DEF TypeOK
    <2>4. \A b \in MarkedChild : Path[b] \cap failedValid # {}
      BY MarkedFacts, CauseAbove
    <2>. QED
      BY <2>1, <2>2, <2>3, <2>4, CauseKept DEF failed
  <1>4. ASSUME NEW t \in Thread,
               \/ StepDisconnect(t) \/ StepDisconnectRefused(t) \/ StepForkReached(t)
               \/ StepConnect(t) \/ StepConnectFuture(t) \/ CheckTip(t)
        PROVE  CauseInv'
    <2>1. UNCHANGED <<data, linked, unlinked, failedValid, failedChild>>
      BY <1>4 DEF StepDisconnect, StepDisconnectRefused, StepForkReached, StepConnect,
                  StepConnectFuture, CheckTip, treeVars, failVars
    <2>. QED
      BY <2>1, CauseKept DEF failed
  <1>5. ASSUME NEW t \in Thread, StepConnectInvalid(t) PROVE CauseInv'
    <2>1. /\ UNCHANGED <<data, linked, unlinked, failedChild>>
          /\ failedValid' = failedValid \cup {NextBlock(t)}
      BY <1>5 DEF StepConnectInvalid, treeVars
    <2>2. NextBlock(t) \in Path[NextBlock(t)]
      BY <1>5, NextBlockFacts, PathParent DEF StepConnectInvalid, InStep
    <2>. QED
      BY <2>1, <2>2, CauseKept DEF failed
  <1>6. ASSUME NEW t \in Thread, Proceed(t) PROVE CauseInv'
    <2>1. ~InvalidateDisconnect(t) /\ ~InvalidateRefused(t) /\ ~InvalidateDone(t)
      BY DEF UnfailedInv, InvalidateDisconnect, InvalidateRefused, InvalidateDone, InStep
    <2>. QED
      BY <1>3, <1>4, <1>5, <1>6, <2>1 DEF Proceed
  <1>7. ASSUME NEW t \in Thread, Request(t) PROVE CauseInv'
    BY <1>2, <1>7, CauseStore DEF Request, InvalidateRPC, ReconsiderRPC
  <1>. QED
    BY <1>1, <1>6, <1>7 DEF Next

\* As long as no failure is cleared (no CC header, no RPC), a block is marked
\* failed only below one that failed itself.
THEOREM FailuresHaveCauses ==
    ASSUME ~AdminRPC, ~CC
    PROVE  Spec => [](CauseInv /\ FailedHasCause)
  <1>1. Init => CauseInv
    BY DEF Init, CauseInv, failed
  <1>2. CauseInv => FailedHasCause
    BY DEF CauseInv, FailedHasCause
  <1>. QED
    BY <1>1, <1>2, CauseNext, ChainInvariant, ActiveChainIsValid, PTL DEF Spec

\* Under the same conditions mapBlocksUnlinked holds exactly the received
\* blocks that wait for an ancestor, those above an invalid block excepted
\* (AcceptBlock, ReceivedBlockTransactions, CheckBlockIndex).
THEOREM UnlinkedIsExact ==
    ASSUME ~AdminRPC, ~CC
    PROVE  Spec => []UnlinkedExact
  <1>1. ChainInv /\ OrderInv /\ ReceivedInv /\ CauseInv => UnlinkedExact
    <2>. SUFFICES ASSUME ChainInv, OrderInv, ReceivedInv, CauseInv PROVE UnlinkedExact
      OBVIOUS
    <2>1. ASSUME NEW b \in unlinked, Path[b] \subseteq data PROVE FALSE
      BY <2>1 DEF ReceivedInv, OrderInv, ChainInv, TypeOK
    <2>2. ASSUME NEW b \in data, ~(Path[b] \subseteq data), Path[b] \cap failedValid = {}
          PROVE  b \in unlinked
      <3>1. b \notin linked
        BY <2>2 DEF ChainInv, AncestorsLinked, OrderInv
      <3>. QED
        BY <2>2, <3>1 DEF CauseInv
    <2>. QED
      BY <2>1, <2>2, ZenonT(60) DEF UnlinkedExact
  <1>. QED
    BY <1>1, ChainInvariant, CandidatesOrdered, LinkedWhenReceived, FailuresHaveCauses, PTL

----------------------------------------------------------------------------
(***************************************************************************)
(* The best block stays a candidate.                                       *)
(***************************************************************************)
\* w is a block that BestInv speaks of.
BestWitness(w) ==
    /\ w \in linked
    /\ Sound(w)
    /\ Path[w] \cap failedValid = {}
    /\ \A b \in linked : (Path[b] \cap failedValid = {} /\ ~Worse(b, w)) => b \in candidates

\* BestInv in terms of such a block.
LEMMA BestInvWitness == BestInv <=> Sound(tip) /\ \E w : BestWitness(w)
  BY ZenonT(60) DEF BestInv, BestWitness

\* The order, the tip and the failures stay sound, and only candidates above an
\* invalid block go.
LEMMA BestKept ==
    ASSUME NEW w, BestWitness(w), UNCHANGED <<linked, older>>, future' \subseteq future,
           failedValid \subseteq failedValid', Path[w] \cap (failedValid' \ failedValid) = {},
           \A c \in candidates \ candidates' : Path[c] \cap failedValid' # {}
    PROVE  BestWitness(w)'
  <1>1. w \in linked' /\ Sound(w)' /\ Path[w] \cap failedValid' = {}
    BY DEF BestWitness, Sound
  <1>2. ASSUME NEW b \in linked', Path[b] \cap failedValid' = {}, ~WorseBy(older', b, w)
        PROVE  b \in candidates'
    <2>1. b \in candidates
      BY <1>2 DEF BestWitness, Worse
    <2>. QED
      BY <1>2, <2>1
  <1>. QED
    BY <1>1, <1>2, ZenonT(60) DEF BestWitness, Worse

\* FindMostWorkChain erases candidates above a failed block only.
LEMMA ErasedFacts ==
    ASSUME ChainInv, CauseInv, NEW c \in candidates \ Remaining
    PROVE  Path[c] \cap failedValid # {}
  <1>. USE DEF ChainInv
  <1>1. PICK d \in Dropped : c \in OffChain(d) /\ (Path[d] \ Path[c]) \cap failed = {}
    BY DEF Remaining, ErasedChain
  <1>2. OffChain(d) \cap failed # {}
    BY DEF Dropped, Usable
  <1>3. PICK f \in OffChain(d) : f \in failed
    BY <1>2
  <1>4. f \in Path[c] /\ c \in Block
    BY <1>1, <1>3 DEF OffChain, TypeOK
  <1>. QED
    BY <1>3, <1>4, CauseAbove

\* A stored block: what it links is a candidate if it is not worse than the
\* tip, so one of the old block and the tip is the new one.
LEMMA BestStore ==
    ASSUME ~CC, ChainInv, OrderInv, OrderInv', linked' \subseteq Block, UnfailedInv, BestInv,
           NEW t \in Thread, NEW b \in Block, NEW requested \in BOOLEAN,
           StoreBlock(t, b, requested)
    PROVE  BestInv'
  <1>. USE DEF ChainInv
  <1>. DEFINE new == NowLinked(b)
              R == older'
              L == linked'
  <1>1. /\ b # Genesis /\ b \notin data /\ tip' = tip /\ failedValid' = failedValid /\ future' = future
        /\ ReceivedBlockTransactions(b)
    BY DEF StoreBlock, ProcessNewBlock, Uninteresting, Cleared, envVars
  <1>2. /\ L = linked \cup new
        /\ R = WithSequenceIds(new)
        /\ candidates' = candidates \cup {c \in new : ~WorseBy(R, c, tip)}
    BY <1>1 DEF ReceivedBlockTransactions
  <1>3. R \cap (linked \X linked) = older
    BY <1>1, <1>2, SequenceIdsOrder
  <1>. HIDE DEF new
  <1>4. \A a, c \in linked : WorseBy(R, a, c) <=> Worse(a, c)
    <2>1. \A a, c \in linked : <<c, a>> \in R <=> <<c, a>> \in older
      BY <1>3
    <2>. QED
      BY <2>1 DEF Worse, WorseBy
  <1>5. /\ \A a \in L : ~WorseBy(R, a, a)
        /\ \A a, c \in L : a # c => WorseBy(R, a, c) \/ WorseBy(R, c, a)
        /\ \A a, c, d \in L : WorseBy(R, a, c) /\ WorseBy(R, c, d) => WorseBy(R, a, d)
    <2>1. L \in SUBSET Block /\ StrictOrder(R, L, ChainWork)
      BY DEF OrderInv
    <2>. QED
      BY <2>1, WorseOrder
  <1>. HIDE DEF R, L
  <1>6. PICK w : BestWitness(w)
    BY BestInvWitness
  <1>7. /\ w \in linked /\ w \in L /\ tip \in linked /\ tip \in L /\ Sound(w) /\ Sound(tip)
        /\ Path[w] \cap failedValid = {} /\ Path[tip] \cap failedValid = {}
    BY <1>2, <1>6 DEF BestWitness, BestInv, TypeOK, UnfailedInv, failed
  <1>8. PICK v \in {w, tip} : \A c \in L : (WorseBy(R, c, w) \/ WorseBy(R, c, tip)) => WorseBy(R, c, v)
    <2>1. CASE WorseBy(R, w, tip) \/ w = tip
      <3>1. \A c \in L : (WorseBy(R, c, w) \/ WorseBy(R, c, tip)) => WorseBy(R, c, tip)
        BY <1>5, <1>7, <2>1
      <3>. QED
        BY <3>1
    <2>2. CASE WorseBy(R, tip, w)
      <3>1. \A c \in L : (WorseBy(R, c, w) \/ WorseBy(R, c, tip)) => WorseBy(R, c, w)
        BY <1>5, <1>7, <2>2
      <3>. QED
        BY <3>1
    <2>. QED
      BY <1>5, <1>7, <2>1, <2>2
  <1>9. ASSUME NEW c \in L, Path[c] \cap failedValid = {}, ~WorseBy(R, c, v) PROVE c \in candidates'
    <2>1. ~WorseBy(R, c, w) /\ ~WorseBy(R, c, tip)
      BY <1>8, <1>9
    <2>2. CASE c \in linked
      <3>1. ~Worse(c, w)
        BY <1>4, <1>7, <2>1, <2>2
      <3>2. c \in candidates
        BY <1>6, <1>9, <2>2, <3>1 DEF BestWitness
      <3>. QED
        BY <1>2, <3>2
    <2>3. CASE c \in new
      BY <1>2, <2>1, <2>3
    <2>. QED
      BY <1>2, <1>9, <2>2, <2>3
  <1>10. v \in linked' /\ Sound(v)' /\ Path[v] \cap failedValid' = {}
    BY <1>1, <1>7, <1>8 DEF Sound, L
  <1>11. \A c \in linked' : (Path[c] \cap failedValid' = {} /\ ~WorseBy(older', c, v)) => c \in candidates'
    BY <1>1, <1>9 DEF L, R
  <1>12. BestWitness(v)'
    BY <1>10, <1>11, ZenonT(60) DEF BestWitness, Worse
  <1>13. Sound(tip)'
    BY <1>1, <1>7 DEF Sound
  <1>. QED
    BY <1>12, <1>13, ZenonT(60) DEF BestInv, BestWitness

\* A connected block: PruneBlockIndexCandidates drops what is worse than it,
\* and one of the old block and the new tip is the new one.
LEMMA BestConnect ==
    ASSUME ChainInv, OrderInv, UnfailedInv', BestInv, NEW t \in Thread, StepConnect(t)
    PROVE  BestInv'
  <1>. USE DEF ChainInv
  <1>. DEFINE n == NextBlock(t)
  <1>1. /\ thread[t].pc = "connect" /\ tip' = n /\ n \notin BadConnect \cup BadContext \cup future
        /\ candidates' = PruneBlockIndexCandidates(n)
        /\ linked' = linked /\ older' = older /\ failedValid' = failedValid /\ future' = future
    BY DEF StepConnect, InStep, treeVars, failVars, envVars
  <1>2. n \in linked /\ n \in Block \ {Genesis} /\ Parent[n] = tip
    BY <1>1, NextBlockFacts
  <1>3. Path[n] = Path[tip] \cup {n}
    BY <1>2, PathParent
  <1>. HIDE DEF n
  <1>4. Sound(n)
    BY <1>1, <1>3 DEF BestInv, Sound
  <1>5. Path[n] \cap failedValid = {}
    BY <1>1 DEF UnfailedInv, failed
  <1>6. /\ \A a \in linked : ~Worse(a, a)
        /\ \A a, c \in linked : a # c => Worse(a, c) \/ Worse(c, a)
        /\ \A a, c, d \in linked : Worse(a, c) /\ Worse(c, d) => Worse(a, d)
    <2>1. linked \in SUBSET Block /\ StrictOrder(older, linked, ChainWork)
      BY DEF OrderInv, TypeOK
    <2>. QED
      BY <2>1, WorseOrder DEF Worse
  <1>7. PICK w : BestWitness(w)
    BY BestInvWitness
  <1>8. w \in linked /\ Sound(w) /\ Path[w] \cap failedValid = {}
    BY <1>7 DEF BestWitness
  <1>9. PICK v \in {w, n} : \A c \in linked : (Worse(c, w) \/ Worse(c, n)) => Worse(c, v)
    <2>1. CASE Worse(w, n) \/ w = n
      <3>1. \A c \in linked : (Worse(c, w) \/ Worse(c, n)) => Worse(c, n)
        BY <1>2, <1>6, <1>8, <2>1
      <3>. QED
        BY <3>1
    <2>2. CASE Worse(n, w)
      <3>1. \A c \in linked : (Worse(c, w) \/ Worse(c, n)) => Worse(c, w)
        BY <1>2, <1>6, <1>8, <2>2
      <3>. QED
        BY <3>1
    <2>. QED
      BY <1>2, <1>6, <1>8, <2>1, <2>2
  <1>10. ASSUME NEW c \in linked, Path[c] \cap failedValid = {}, ~Worse(c, v) PROVE c \in candidates'
    <2>1. ~Worse(c, w) /\ ~Worse(c, n)
      BY <1>9, <1>10
    <2>2. c \in candidates
      BY <1>7, <1>10, <2>1 DEF BestWitness
    <2>. QED
      BY <1>1, <2>1, <2>2 DEF PruneBlockIndexCandidates
  <1>11. v \in linked' /\ Sound(v)' /\ Path[v] \cap failedValid' = {}
    BY <1>1, <1>2, <1>4, <1>5, <1>8, <1>9 DEF Sound
  <1>12. \A c \in linked' : (Path[c] \cap failedValid' = {} /\ ~WorseBy(older', c, v)) => c \in candidates'
    BY <1>1, <1>10 DEF Worse
  <1>13. BestWitness(v)'
    BY <1>11, <1>12, ZenonT(60) DEF BestWitness, Worse
  <1>14. Sound(tip)'
    BY <1>1, <1>4 DEF Sound
  <1>. QED
    BY <1>13, <1>14, ZenonT(60) DEF BestInv, BestWitness

\* A refused candidate: InvalidateBlock puts every valid block back that is not
\* worse than the tip.
LEMMA BestRefuse ==
    ASSUME ChainInv, UnfailedInv', CauseInv', BestInv, NEW t \in Thread, ActivateRefuse(t)
    PROVE  BestInv'
  <1>. USE DEF ChainInv
  <1>1. /\ linked' = linked /\ older' = older /\ tip' = tip /\ future' = future
        /\ Reinserted(failed') \subseteq candidates'
    BY DEF ActivateRefuse, TakeMostWork, treeVars, envVars, failed
  <1>2. Sound(tip)' /\ tip \in linked'
    BY <1>1 DEF Sound, BestInv, TypeOK
  <1>3. Path[tip] \cap failedValid' = {}
    BY <1>1 DEF UnfailedInv, failed
  <1>4. ASSUME NEW c \in linked', Path[c] \cap failedValid' = {}, ~WorseBy(older', c, tip)
        PROVE  c \in candidates'
    <2>1. c \notin failed'
      BY <1>4 DEF CauseInv
    <2>2. c \in Reinserted(failed')
      BY <1>1, <1>4, <2>1 DEF Reinserted, Worse
    <2>. QED
      BY <1>1, <2>2
  <1>5. BestWitness(tip)'
    BY <1>1, <1>2, <1>3, <1>4, ZenonT(60) DEF BestWitness, Worse
  <1>. QED
    BY <1>2, <1>5, ZenonT(60) DEF BestInv, BestWitness

\* Without the RPCs and CC every step keeps it.
LEMMA BestNext ==
    ASSUME ~AdminRPC, ~CC, ChainInv, ChainInv', OrderInv, OrderInv', UnfailedInv, UnfailedInv',
           CauseInv, CauseInv', BestInv, [Next]_vars
    PROVE  BestInv'
  <1>. USE DEF ChainInv
  <1>1. PICK w : BestWitness(w)
    BY BestInvWitness
  <1>2. tip \in Block /\ Sound(tip)
    BY DEF TypeOK, BestInv
  <1>3. ASSUME BestWitness(w)', Path[tip'] \subseteq Path[tip], future' \subseteq future PROVE BestInv'
    BY <1>2, <1>3, ZenonT(60) DEF BestInv, BestWitness, Sound
  <1>4. Path[w] \subseteq data /\ Sound(w)
    BY <1>1 DEF BestWitness, AncestorsLinked, OrderInv
  <1>5. CASE Environment \/ UNCHANGED vars
    <2>1. /\ UNCHANGED <<linked, older, candidates, tip, failedValid>> /\ future' \subseteq future
      BY <1>5 DEF Environment, ReceiveHeader, RefuseHeader, TimePasses, QueryNotarized,
                  LeaveInitialDownload, Cleared, vars, treeVars, failVars, envVars
    <2>2. BestWitness(w)'
      BY <1>1, <2>1, BestKept
    <2>. QED
      BY <1>3, <2>1, <2>2
  <1>6. ASSUME NEW t \in Thread, NEW b \in Block, NEW requested \in BOOLEAN,
               IgnoreBlock(t, b, requested) \/ RejectBlock(t, b, requested)
        PROVE  BestInv'
    <2>1. /\ UNCHANGED <<linked, older, candidates, tip>> /\ future' = future
          /\ failedValid' = failedValid \/ (failedValid' = failedValid \cup {b} /\ b \notin data)
      BY <1>6 DEF IgnoreBlock, RejectBlock, ProcessNewBlock, Uninteresting, Cleared, envVars
    <2>2. BestWitness(w)'
      BY <1>1, <1>4, <2>1, BestKept
    <2>. QED
      BY <1>3, <2>1, <2>2
  <1>7. ASSUME NEW t \in Thread, ActivateNothing(t) \/ ActivateTooDeep(t) \/ ActivateBegin(t)
        PROVE  BestInv'
    <2>1. /\ UNCHANGED <<linked, older, tip, failedValid>> /\ future' = future
          /\ candidates' = Remaining
      BY <1>7 DEF ActivateNothing, ActivateTooDeep, ActivateBegin, TakeMostWork, treeVars, envVars
    <2>2. \A c \in candidates \ candidates' : Path[c] \cap failedValid' # {}
      BY <2>1, ErasedFacts
    <2>3. BestWitness(w)'
      BY <1>1, <2>1, <2>2, BestKept
    <2>. QED
      BY <1>3, <2>1, <2>3
  <1>8. ASSUME NEW t \in Thread,
               \/ StepDisconnect(t) \/ StepDisconnectRefused(t) \/ StepForkReached(t)
               \/ StepConnectFuture(t) \/ CheckTip(t)
        PROVE  BestInv'
    <2>1. /\ UNCHANGED <<linked, older, candidates, failedValid>> /\ future' = future
          /\ tip' = tip \/ (tip # Genesis /\ tip' = Parent[tip])
      BY <1>8 DEF StepDisconnect, DisconnectTip, StepDisconnectRefused, StepForkReached,
                  StepConnectFuture, CheckTip, treeVars, failVars, envVars
    <2>2. Path[tip'] \subseteq Path[tip]
      BY <1>2, <2>1, PathParent
    <2>3. BestWitness(w)'
      BY <1>1, <2>1, BestKept
    <2>. QED
      BY <1>3, <2>1, <2>2, <2>3
  <1>9. ASSUME NEW t \in Thread, StepConnectInvalid(t) PROVE BestInv'
    <2>. DEFINE n == NextBlock(t)
    <2>1. /\ UNCHANGED <<linked, older, tip>> /\ future' = future
          /\ failedValid' = failedValid \cup {n} /\ candidates' = candidates \ {n}
          /\ n \in BadConnect \cup BadContext /\ thread[t].pc = "connect"
      BY <1>9 DEF StepConnectInvalid, InStep, treeVars, envVars
    <2>2. n \in Path[n]
      BY <2>1, NextBlockFacts, PathParent
    <2>. HIDE DEF n
    <2>3. n \notin Path[w]
      BY <1>4, <2>1 DEF Sound
    <2>4. BestWitness(w)'
      BY <1>1, <2>1, <2>2, <2>3, BestKept
    <2>. QED
      BY <1>3, <2>1, <2>4
  <1>10. ASSUME NEW t \in Thread, Proceed(t) PROVE BestInv'
    <2>1. ~InvalidateDisconnect(t) /\ ~InvalidateRefused(t) /\ ~InvalidateDone(t)
      BY DEF UnfailedInv, InvalidateDisconnect, InvalidateRefused, InvalidateDone, InStep
    <2>. QED
      BY <1>7, <1>8, <1>9, <1>10, <2>1, BestConnect, BestRefuse DEF Proceed
  <1>11. ASSUME NEW t \in Thread, Request(t) PROVE BestInv'
    <2>1. linked' \subseteq Block
      BY DEF TypeOK
    <2>. QED
      BY <1>6, <1>11, <2>1, BestStore DEF Request, InvalidateRPC, ReconsiderRPC
  <1>. QED
    BY <1>5, <1>10, <1>11 DEF Next

\* As long as no failure is cleared (no CC header, no RPC), the best block that
\* is received and not invalid is a candidate at every moment, whatever two
\* threads do to setBlockIndexCandidates between them, and in the middle of a
\* reorganisation (FindMostWorkChain, PruneBlockIndexCandidates,
\* InvalidateBlock).
THEOREM BestBlockStaysCandidate ==
    ASSUME ~AdminRPC, ~CC
    PROVE  Spec => [](BestInv /\ BestBlockIsCandidate)
  <1>1. Init => BestInv
    <2>. SUFFICES ASSUME Init PROVE BestInv
      OBVIOUS
    <2>1. Sound(Genesis)
      BY PathAssumption, ConstantsAssumption DEF Init, Sound
    <2>2. linked = {Genesis} /\ candidates = {Genesis} /\ tip = Genesis /\ failedValid = {}
      BY DEF Init
    <2>. QED
      BY <2>1, <2>2 DEF BestInv
  <1>2. BestInv => BestBlockIsCandidate
    BY DEF BestInv, BestBlockIsCandidate
  <1>. QED
    BY <1>1, <1>2, BestNext, ChainInvariant, CandidatesOrdered, ActiveChainIsValid,
       FailuresHaveCauses, PTL DEF Spec

\* Of CheckBlockIndex, what it asserts of the order of the candidates, of the
\* failure marks and of mapBlocksUnlinked holds whenever cs_main is free.
THEOREM BlockIndexConsistent ==
    ASSUME ~AdminRPC, ~CC
    PROVE  Spec => [](CandidatesNotWorse /\ FailedHasCause /\ UnlinkedExact)
  BY CandidatesOrdered, FailuresHaveCauses, UnlinkedIsExact, PTL
=============================================================================
