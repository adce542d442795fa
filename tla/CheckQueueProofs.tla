-------------------------- MODULE CheckQueueProofs --------------------------
(***************************************************************************)
(* For any number of workers, masters and checks and any batch size:       *)
(* QueueInv is inductive, so the verdict of Wait is exact, nTodo counts    *)
(* the checks not completed, and the queue is unused between two blocks.   *)
(***************************************************************************)
EXTENDS CheckQueue, FiniteSetTheorems, TLAPS

\* Zenon is the default; the steps that need arithmetic, records or functions name SMT.
USE ZenonT(40)

\* Subsets of Check and of Thread are finite and have a natural cardinality.
LEMMA FiniteSubsets ==
    /\ \A S \in SUBSET Check : IsFiniteSet(S) /\ Cardinality(S) \in Nat
    /\ \A S \in SUBSET Thread : IsFiniteSet(S) /\ Cardinality(S) \in Nat
<1>1. ASSUME NEW S \in SUBSET Check PROVE IsFiniteSet(S) /\ Cardinality(S) \in Nat
  <2>1. IsFiniteSet(S)
    BY FiniteAssumption, FS_Subset
  <2>2. QED
    BY <2>1, FS_CardinalityType
<1>2. ASSUME NEW S \in SUBSET Thread PROVE IsFiniteSet(S) /\ Cardinality(S) \in Nat
  <2>1. IsFiniteSet(S)
    BY FiniteAssumption, FS_Subset
  <2>2. QED
    BY <2>1, FS_CardinalityType
<1>3. QED
  BY <1>1, <1>2

\* The batch taken in Loop is not empty: nNow is at least 1.
LEMMA BatchNotEmpty ==
    ASSUME NEW idle \in Nat, NEW total \in Nat, NEW batch,
           queue \subseteq Check, Cardinality(batch) = nNow(idle, total)
    PROVE  batch # {}
<1>1. Cardinality(queue) \in Nat
  BY FiniteSubsets
<1>2. nNow(idle, total) >= 1
  <2>1. Cardinality(queue) \div (total + idle + 1) \in Int
    BY SMT, <1>1
  <2>2. AtMost(Cardinality(queue) \div (total + idle + 1), nBatchSize) \in Int
    BY SMT, <2>1, BatchAssumption DEF AtMost
  <2>3. QED
    BY SMT, <2>2 DEF nNow, AtLeastOne
<1>3. QED
  BY SMT, <1>2, FS_EmptySet

\* The checks that remain outstanding when t has completed its batch.
Rest(t) == queue \cup {c \in Check : \E u \in Thread \ {t} : c \in vChecks[u]}

\* Completing a batch takes it, and nothing else, out of what is outstanding.
LEMMA RestCounts ==
    ASSUME QueueInv, NEW t \in Thread
    PROVE  /\ Cardinality(Rest(t)) = nTodo - Cardinality(vChecks[t])
           /\ Cardinality(Rest(t)) \in Nat
           /\ Rest(t) \subseteq Outstanding
           /\ Outstanding = Rest(t) \cup vChecks[t]
<1>1. Outstanding \subseteq Check /\ Rest(t) \subseteq Check /\ vChecks[t] \subseteq Check
  BY DEF QueueInv, TypeOK, Outstanding, Rest
<1>2. Outstanding = Rest(t) \cup vChecks[t]
  BY <1>1 DEF Outstanding, Rest
<1>3. Rest(t) \cap vChecks[t] = {}
  BY DEF QueueInv, Batches, Rest
<1>4. Rest(t) = Outstanding \ vChecks[t] /\ Outstanding \cap vChecks[t] = vChecks[t]
  BY <1>2, <1>3
<1>5. IsFiniteSet(Outstanding) /\ IsFiniteSet(vChecks[t])
  BY <1>1, FiniteSubsets
<1>6. Cardinality(Outstanding \ vChecks[t])
        = Cardinality(Outstanding) - Cardinality(Outstanding \cap vChecks[t])
  BY ZenonT(60), <1>5, FS_Difference
<1>7. QED
  BY ZenonT(60), <1>1, <1>2, <1>4, <1>6, FiniteSubsets DEF QueueInv, TodoExact

\* What the rest of a critical section relies on: the counters idle, total
\* and todo and the result ok are right for the threads other than t, and in
\* p some waiting threads were woken.
Ready(t, p, idle, total, todo, ok) ==
    /\ pc[t] \in {"start", "woken", "report"} /\ p[t] = pc[t]
    /\ p \in [Thread -> Place]
    /\ \A u \in Thread : p[u] = pc[u] \/ (pc[u] = "waiting" /\ p[u] = "woken")
    /\ idle \in Nat /\ total \in Nat /\ todo \in Nat /\ ok \in BOOLEAN
    /\ todo = Cardinality(Rest(t))
    /\ ~ok => added \cap Bad # {}
    /\ NoneReturned /\ ok => (added \ Rest(t)) \cap Bad = {}
    /\ ~NoneReturned => ok
    /\ ControlMutex = NoThread => ok
    /\ total >= Cardinality(Counted \ {t}) + 1 /\ idle >= Cardinality(Idle \ {t})
    /\ ~shutdown => total = Cardinality(Counted \ {t}) + 1 /\ idle = Cardinality(Idle \ {t})

\* The sizes of Counted and Idle when t joins them or leaves them.
LEMMA JoinLeave ==
    ASSUME NEW t \in Thread
    PROVE  /\ Cardinality(Counted \ {t}) \in Nat /\ Cardinality(Idle \ {t}) \in Nat
           /\ t \in Counted => Cardinality(Counted) = Cardinality(Counted \ {t}) + 1
           /\ t \notin Counted => Cardinality(Counted) = Cardinality(Counted \ {t})
           /\ t \in Idle => Cardinality(Idle) = Cardinality(Idle \ {t}) + 1
           /\ t \notin Idle => Cardinality(Idle) = Cardinality(Idle \ {t})
           /\ Cardinality((Counted \ {t}) \cup {t}) = Cardinality(Counted \ {t}) + 1
           /\ Cardinality((Idle \ {t}) \cup {t}) = Cardinality(Idle \ {t}) + 1
<1>1. Counted \subseteq Thread /\ Idle \subseteq Thread
  BY DEF Counted, Idle
<1>2. /\ IsFiniteSet(Counted) /\ IsFiniteSet(Idle)
      /\ IsFiniteSet(Counted \ {t}) /\ IsFiniteSet(Idle \ {t})
  BY <1>1, FiniteSubsets
<1>3. /\ Cardinality(Counted) \in Nat /\ Cardinality(Idle) \in Nat
      /\ Cardinality(Counted \ {t}) \in Nat /\ Cardinality(Idle \ {t}) \in Nat
  BY <1>1, FiniteSubsets
<1>4. /\ Cardinality(Counted \ {t}) = IF t \in Counted THEN Cardinality(Counted) - 1 ELSE Cardinality(Counted)
      /\ Cardinality(Idle \ {t}) = IF t \in Idle THEN Cardinality(Idle) - 1 ELSE Cardinality(Idle)
  BY <1>2, FS_RemoveElement
<1>5. /\ Cardinality((Counted \ {t}) \cup {t}) =
            IF t \in Counted \ {t} THEN Cardinality(Counted \ {t}) ELSE Cardinality(Counted \ {t}) + 1
      /\ Cardinality((Idle \ {t}) \cup {t}) =
            IF t \in Idle \ {t} THEN Cardinality(Idle \ {t}) ELSE Cardinality(Idle \ {t}) + 1
  BY ZenonT(60), <1>2, FS_AddElement
<1>6. t \notin Counted \ {t} /\ t \notin Idle \ {t}
  OBVIOUS
<1>7. /\ t \in Counted => Cardinality(Counted) = Cardinality(Counted \ {t}) + 1
      /\ t \notin Counted => Cardinality(Counted) = Cardinality(Counted \ {t})
  BY SMT, <1>3, <1>4
<1>8. /\ t \in Idle => Cardinality(Idle) = Cardinality(Idle \ {t}) + 1
      /\ t \notin Idle => Cardinality(Idle) = Cardinality(Idle \ {t})
  BY SMT, <1>3, <1>4
<1>9. QED
  BY <1>3, <1>5, <1>6, <1>7, <1>8

\* What the three ends of a critical section have in common.
Ended(t) ==
    /\ \A u \in Thread \ {t} :
          /\ pc'[u] = pc[u] \/ (pc[u] = "waiting" /\ pc'[u] = "woken")
          /\ vChecks'[u] = vChecks[u] /\ fOk'[u] = fOk[u]
    /\ TypeOK' /\ Batches' /\ Outstanding' = Rest(t)
    /\ UNCHANGED <<ControlMutex, added, unwinding, shutdown, interrupted>>

\* A critical section that ends leaves the places of the other threads.
LEMMA EndedCounts ==
    ASSUME NEW t \in Thread, Ended(t), pc \in [Thread -> Place]
    PROVE  /\ pc'[t] \in {"waiting", "woken", "work", "report"} => Counted' = (Counted \ {t}) \cup {t}
           /\ pc'[t] \notin {"waiting", "woken", "work", "report"} => Counted' = Counted \ {t}
           /\ pc'[t] \in {"waiting", "woken"} => Idle' = (Idle \ {t}) \cup {t}
           /\ pc'[t] \notin {"waiting", "woken"} => Idle' = Idle \ {t}
<1>1. ASSUME NEW u \in Thread \ {t}
      PROVE  (u \in Counted' <=> u \in Counted) /\ (u \in Idle' <=> u \in Idle)
  BY DEF Ended, Counted, Idle
<1>2. Counted' \subseteq Thread /\ Counted \subseteq Thread /\ Idle' \subseteq Thread /\ Idle \subseteq Thread
  BY DEF Counted, Idle
<1>3. /\ t \in Counted' <=> pc'[t] \in {"waiting", "woken", "work", "report"}
      /\ t \in Idle' <=> pc'[t] \in {"waiting", "woken"}
  BY DEF Counted, Idle
<1>4. QED
  BY <1>1, <1>2, <1>3

\* A critical section that ends inside Loop keeps what is known of the
\* masters and of the results.
LEMMA SameHolder ==
    ASSUME QueueInv, NEW t \in Thread, NEW p, NEW idle, NEW total, NEW todo, NEW ok,
           Ready(t, p, idle, total, todo, ok), Ended(t), CountersCover',
           pc'[t] \in {"waiting", "work"},
           pc'[t] = "work" => fOk'[t] = ok /\ NoneReturned,
           fAllOk' = ok, nTodo' = todo, fRet' = fRet
    PROVE  QueueInv'
<1>1. Rest(t) \subseteq Outstanding
  BY RestCounts
<1>2. /\ UNCHANGED <<ControlMutex, added, shutdown, interrupted>>
      /\ Outstanding' = Rest(t)
  BY DEF Ended
<1>3. Ownership'
  <2>1. ASSUME NEW m \in Master, pc'[m] \notin {"idle", "gone"} PROVE ControlMutex = m
    BY <2>1 DEF Ended, Ready, QueueInv, Ownership, Thread
  <2>2. QED
    BY <1>1, <1>2, <2>1 DEF Ready, QueueInv, Ownership
<1>4. NoneReturned' <=> NoneReturned
  BY DEF Ended, Ready, NoneReturned, Thread
<1>5. Results'
  <2>1. ~ok => added \cap Bad # {}
    BY DEF Ready
  <2>2. ASSUME NEW u \in Thread
        PROVE  /\ pc'[u] \in {"work", "report"} /\ ~fOk'[u] => added \cap Bad # {}
               /\ pc'[u] = "report" /\ fOk'[u] => vChecks'[u] \cap Bad = {}
    <3>1. CASE u = t
      BY <2>1, <3>1
    <3>2. CASE u # t
      BY <3>2 DEF Ended, QueueInv, Results
    <3>3. QED
      BY <3>1, <3>2
  <2>3. NoneReturned' /\ ok => (added \ Rest(t)) \cap Bad = {}
    BY <1>4 DEF Ready
  <2>4. ASSUME NEW m \in Master, pc'[m] = "returned"
        PROVE  Rest(t) = {} /\ ok /\ (fRet <=> added \cap Bad = {})
    <3>1. pc[m] = "returned"
      BY <2>4 DEF Ended, Thread
    <3>2. QED
      BY <3>1, <1>1 DEF QueueInv, Results, Ready, NoneReturned
  <2>5. QED
    BY <1>2, <2>1, <2>2, <2>3, <2>4 DEF Results
<1>6. QED
  BY <1>2, <1>3, <1>5 DEF QueueInv, TodoExact, Ended, Ready

\* The three ends of a critical section of Loop keep the invariant.
LEMMA ContinueKeeps ==
    ASSUME QueueInv,
           NEW t \in Thread, NEW p, NEW idle, NEW total, NEW todo, NEW ok,
           Ready(t, p, idle, total, todo, ok),
           Continue(t, p, idle, total, todo, ok),
           UNCHANGED <<controlVars, stopVars>>
    PROVE  QueueInv'
<1>0. /\ Rest(t) \subseteq Check /\ Rest(t) \subseteq Outstanding
      /\ IsFiniteSet(Rest(t)) /\ queue \subseteq Rest(t) /\ queue \subseteq Check
  BY ZenonT(60), RestCounts, FiniteSubsets DEF QueueInv, TypeOK, Rest
<1>u. UNCHANGED <<ControlMutex, added, unwinding, shutdown, interrupted>>
  BY DEF controlVars, stopVars
<1>n. /\ idle \in Nat /\ total \in Nat /\ todo \in Nat
      /\ total >= Cardinality(Counted \ {t}) + 1 /\ idle >= Cardinality(Idle \ {t})
      /\ ~shutdown => total = Cardinality(Counted \ {t}) + 1 /\ idle = Cardinality(Idle \ {t})
  BY DEF Ready
<1>1. CASE Return(t, p, idle, total, todo, ok)
  <2>1. Rest(t) = {} /\ queue = {}
    BY ZenonT(60), <1>1, <1>0, FS_EmptySet DEF Return, Ready
  <2>2. Ended(t)
    <3>1. TypeOK'
      <4>1. nTotal' \in Nat /\ nIdle' \in Nat /\ nTodo' \in Nat
        <5>1. nTotal' = total - 1 /\ nIdle' = idle /\ nTodo' = todo
          BY <1>1 DEF Return
        <5>2. Cardinality(Counted \ {t}) \in Nat
          BY ZenonT(60), JoinLeave
        <5>3. QED
          BY SMT, <5>1, <5>2, <1>n
      <4>2. pc' \in [Thread -> Place]
        BY <1>1 DEF Return, Ready, Place
      <4>3. QED
        BY <1>1, <1>u, <4>1, <4>2 DEF Return, Ready, QueueInv, TypeOK
    <3>2. \A u \in Thread \ {t} :
            /\ pc'[u] = pc[u] \/ (pc[u] = "waiting" /\ pc'[u] = "woken")
            /\ vChecks'[u] = vChecks[u] /\ fOk'[u] = fOk[u]
      BY <1>1 DEF Return, Ready, QueueInv, TypeOK
    <3>3. vChecks'[t] = {} /\ pc'[t] = "returned" /\ queue' = queue
      BY <1>1 DEF Return, Ready, QueueInv, TypeOK
    <3>4. Batches'
      BY <3>2, <3>3 DEF QueueInv, Batches
    <3>5. Outstanding' = Rest(t)
      BY <3>2, <3>3 DEF Outstanding, Rest
    <3>6. QED
      BY <1>u, <3>1, <3>2, <3>4, <3>5 DEF Ended
  <2>3. CountersCover'
    <3>1. Counted' = Counted \ {t} /\ Idle' = Idle \ {t}
      BY <1>1, <2>2, EndedCounts DEF Return, Ready, QueueInv, TypeOK
    <3>2. nTotal' = total - 1 /\ nIdle' = idle /\ shutdown' = shutdown
      BY <1>1, <1>u DEF Return
    <3>3. Cardinality(Counted \ {t}) \in Nat /\ Cardinality(Idle \ {t}) \in Nat
      BY ZenonT(60), JoinLeave
    <3>4. QED
      BY SMT, <1>n, <3>1, <3>2, <3>3 DEF CountersCover
  <2>4. ControlMutex = t /\ NoneReturned
    BY <1>1, ThreadAssumption DEF Return, Ready, QueueInv, Ownership, NoneReturned
  <2>5. Ownership'
    <3>1. \A m \in Master : pc'[m] \notin {"idle", "gone"} => ControlMutex = m
      BY <2>2, <2>4 DEF Ended, QueueInv, Ownership, Thread
    <3>2. QED
      BY SMT, <1>u, <2>1, <2>2, <2>4, <3>1, ThreadAssumption DEF Ended, QueueInv, Ownership
  <2>6. Results'
    <3>1. pc'[t] = "returned" /\ fAllOk' /\ fRet' = ok
      BY <1>1 DEF Return, Ready
    <3>2. \A u \in Thread : vChecks'[u] = {} /\ pc'[u] \notin {"work", "report"}
      BY <2>1, <2>2, <3>1 DEF Ended, Outstanding, Batches, TypeOK
    <3>3. ok <=> added \cap Bad = {}
      BY <2>1, <2>4 DEF Ready
    <3>4. QED
      BY <1>u, <2>1, <2>2, <3>1, <3>2, <3>3, <1>1 DEF Ended, Results, NoneReturned, Return
  <2>7. QED
    BY <2>1, <2>2, <2>3, <2>5, <2>6, FS_EmptySet, <1>1 DEF QueueInv, TodoExact, Ended, Return
<1>2. CASE Sleep(t, p, idle, total, todo, ok)
  <2>2. Ended(t)
    <3>1. TypeOK'
      <4>1. nTotal' \in Nat /\ nIdle' \in Nat /\ nTodo' \in Nat
        BY SMT, <1>2 DEF Sleep, Ready
      <4>2. pc' \in [Thread -> Place]
        BY <1>2 DEF Sleep, Ready, Place
      <4>3. QED
        BY <1>2, <1>u, <4>1, <4>2 DEF Sleep, Ready, QueueInv, TypeOK
    <3>2. \A u \in Thread \ {t} :
            /\ pc'[u] = pc[u] \/ (pc[u] = "waiting" /\ pc'[u] = "woken")
            /\ vChecks'[u] = vChecks[u] /\ fOk'[u] = fOk[u]
      BY <1>2 DEF Sleep, Ready, QueueInv, TypeOK
    <3>3. vChecks'[t] = {} /\ pc'[t] = "waiting" /\ queue' = queue
      BY <1>2 DEF Sleep, Ready, QueueInv, TypeOK
    <3>4. Batches'
      BY <3>2, <3>3 DEF QueueInv, Batches
    <3>5. Outstanding' = Rest(t)
      BY <3>2, <3>3 DEF Outstanding, Rest
    <3>6. QED
      BY <1>u, <3>1, <3>2, <3>4, <3>5 DEF Ended
  <2>3. CountersCover'
    <3>1. Counted' = (Counted \ {t}) \cup {t} /\ Idle' = (Idle \ {t}) \cup {t}
      BY <1>2, <2>2, EndedCounts DEF Sleep, Ready, QueueInv, TypeOK
    <3>2. nTotal' = total /\ nIdle' = idle + 1 /\ shutdown' = shutdown
      BY <1>2, <1>u DEF Sleep
    <3>3. /\ Cardinality(Counted \ {t}) \in Nat /\ Cardinality(Idle \ {t}) \in Nat
          /\ Cardinality((Counted \ {t}) \cup {t}) = Cardinality(Counted \ {t}) + 1
          /\ Cardinality((Idle \ {t}) \cup {t}) = Cardinality(Idle \ {t}) + 1
      BY JoinLeave
    <3>4. QED
      BY SMT, <1>n, <3>1, <3>2, <3>3 DEF CountersCover
  <2>4. pc'[t] = "waiting" /\ fAllOk' = ok /\ nTodo' = todo /\ fRet' = fRet
    BY <1>2 DEF Sleep, Ready
  <2>5. QED
    BY <1>0, <1>u, <2>2, <2>3, <2>4, SameHolder
<1>3. CASE Take(t, p, idle, total, todo, ok)
  <2>1. PICK batch \in SUBSET queue :
          /\ queue # {}
          /\ Cardinality(batch) = nNow(idle, total)
          /\ queue' = queue \ batch
          /\ vChecks' = [vChecks EXCEPT ![t] = batch]
          /\ fOk' = [fOk EXCEPT ![t] = ok]
          /\ nIdle' = idle /\ nTotal' = total /\ nTodo' = todo /\ fAllOk' = ok
          /\ pc' = [p EXCEPT ![t] = "work"]
          /\ UNCHANGED fRet
    BY ZenonT(60), <1>3 DEF Take
  <2>2. batch # {}
    BY <1>0, <1>n, <2>1, BatchNotEmpty
  <2>3. Ended(t)
    <3>1. TypeOK'
      <4>1. pc' \in [Thread -> Place]
        BY <2>1 DEF Ready, Place
      <4>2. vChecks' \in [Thread -> SUBSET Check] /\ fOk' \in [Thread -> BOOLEAN]
        BY <1>0, <2>1 DEF Ready, QueueInv, TypeOK
      <4>3. QED
        BY <1>0, <1>u, <1>n, <2>1, <4>1, <4>2 DEF Ready, QueueInv, TypeOK
    <3>2. \A u \in Thread \ {t} :
            /\ pc'[u] = pc[u] \/ (pc[u] = "waiting" /\ pc'[u] = "woken")
            /\ vChecks'[u] = vChecks[u] /\ fOk'[u] = fOk[u]
      BY <2>1 DEF Ready, QueueInv, TypeOK
    <3>3. vChecks'[t] = batch /\ pc'[t] = "work" /\ queue' = queue \ batch
      BY <2>1 DEF Ready, QueueInv, TypeOK
    <3>4. Batches'
      BY <2>2, <3>2, <3>3 DEF QueueInv, Batches
    <3>5. Outstanding' = Rest(t)
      BY <1>0, <3>2, <3>3 DEF Outstanding, Rest
    <3>6. QED
      BY <1>u, <3>1, <3>2, <3>4, <3>5 DEF Ended
  <2>4. CountersCover'
    <3>1. Counted' = (Counted \ {t}) \cup {t} /\ Idle' = Idle \ {t}
      BY <2>1, <2>3, EndedCounts DEF Ready, QueueInv, TypeOK
    <3>2. nTotal' = total /\ nIdle' = idle /\ shutdown' = shutdown
      BY <2>1, <1>u
    <3>3. /\ Cardinality(Counted \ {t}) \in Nat /\ Cardinality(Idle \ {t}) \in Nat
          /\ Cardinality((Counted \ {t}) \cup {t}) = Cardinality(Counted \ {t}) + 1
          /\ Cardinality((Idle \ {t}) \cup {t}) = Cardinality(Idle \ {t}) + 1
      BY ZenonT(60), JoinLeave
    <3>4. QED
      BY <1>n, <3>1, <3>2, <3>3 DEF CountersCover
  <2>5. pc'[t] = "work" /\ fOk'[t] = ok /\ fAllOk' = ok /\ nTodo' = todo /\ fRet' = fRet
    BY <2>1 DEF Ready, QueueInv, TypeOK
  <2>6. NoneReturned
    BY <2>1 DEF QueueInv, Results, NoneReturned, Outstanding
  <2>7. QED
    BY <2>3, <2>4, <2>5, <2>6, SameHolder
<1>4. QED
  BY <1>1, <1>2, <1>3 DEF Continue

\* Enter, Resume and Report reach the rest of their critical section ready.
LEMMA LoopKeeps ==
    ASSUME QueueInv, NEW t \in Thread, Enter(t) \/ Resume(t) \/ Report(t)
    PROVE  QueueInv'
<1>p. pc \in [Thread -> Place] /\ fAllOk \in BOOLEAN /\ fOk[t] \in BOOLEAN
  BY DEF QueueInv, TypeOK
<1>j. /\ Cardinality(Counted \ {t}) \in Nat /\ Cardinality(Idle \ {t}) \in Nat
      /\ t \in Counted => Cardinality(Counted) = Cardinality(Counted \ {t}) + 1
      /\ t \notin Counted => Cardinality(Counted) = Cardinality(Counted \ {t})
      /\ t \in Idle => Cardinality(Idle) = Cardinality(Idle \ {t}) + 1
      /\ t \notin Idle => Cardinality(Idle) = Cardinality(Idle \ {t})
  BY ZenonT(60), JoinLeave
<1>0. /\ nIdle \in Nat /\ nTotal \in Nat /\ nTodo \in Nat
      /\ nTotal >= Cardinality(Counted) /\ nIdle >= Cardinality(Idle)
      /\ ~shutdown => nTotal = Cardinality(Counted) /\ nIdle = Cardinality(Idle)
  BY DEF QueueInv, TypeOK, CountersCover
<1>1. /\ ~fAllOk => added \cap Bad # {}
      /\ NoneReturned /\ fAllOk => (added \ Outstanding) \cap Bad = {}
      /\ ~NoneReturned => fAllOk
      /\ ControlMutex = NoThread => fAllOk
  BY DEF QueueInv, Results, Ownership, NoneReturned
<1>2. CASE Enter(t) \/ Resume(t)
  <2>1. pc[t] \in {"start", "woken"} /\ vChecks[t] = {}
    BY <1>2 DEF Enter, Resume, QueueInv, Batches
  <2>2. Rest(t) = Outstanding /\ Cardinality(Rest(t)) = nTodo
    BY <2>1, RestCounts DEF QueueInv, TodoExact
  <2>3. CASE Enter(t)
    <3>1. t \notin Counted /\ t \notin Idle
      BY <2>3 DEF Enter, Counted, Idle
    <3>2. nTotal + 1 >= Cardinality(Counted \ {t}) + 1 /\ nIdle >= Cardinality(Idle \ {t})
      BY SMT, <1>0, <3>1, <1>j
    <3>3. ~shutdown => nTotal + 1 = Cardinality(Counted \ {t}) + 1 /\ nIdle = Cardinality(Idle \ {t})
      BY <1>0, <3>1, <1>j
    <3>4. nTotal + 1 \in Nat
      BY SMT, <1>0
    <3>5. Ready(t, pc, nIdle, nTotal + 1, nTodo, fAllOk)
      BY <1>0, <1>p, <1>1, <2>1, <2>2, <3>2, <3>3, <3>4 DEF Ready
    <3>6. Continue(t, pc, nIdle, nTotal + 1, nTodo, fAllOk) /\ UNCHANGED <<controlVars, stopVars>>
      BY <2>3 DEF Enter
    <3>7. QED
      BY <3>5, <3>6, ContinueKeeps
  <2>4. CASE Resume(t)
    <3>1. t \in Counted /\ t \in Idle
      BY <2>4 DEF Resume, Counted, Idle
    <3>2. nTotal >= Cardinality(Counted \ {t}) + 1 /\ nIdle - 1 >= Cardinality(Idle \ {t})
      BY SMT, <1>0, <3>1, <1>j
    <3>3. ~shutdown => nTotal = Cardinality(Counted \ {t}) + 1 /\ nIdle - 1 = Cardinality(Idle \ {t})
      BY SMT, <1>0, <3>1, <1>j
    <3>4. nIdle - 1 \in Nat
      BY SMT, <1>0, <3>2, <1>j
    <3>5. Ready(t, pc, nIdle - 1, nTotal, nTodo, fAllOk)
      BY <1>0, <1>p, <1>1, <2>1, <2>2, <3>2, <3>3, <3>4 DEF Ready
    <3>6. Continue(t, pc, nIdle - 1, nTotal, nTodo, fAllOk) /\ UNCHANGED <<controlVars, stopVars>>
      BY <2>4 DEF Resume
    <3>7. QED
      BY <3>5, <3>6, ContinueKeeps
  <2>5. QED
    BY <1>2, <2>3, <2>4
<1>3. CASE Report(t)
  <2> DEFINE todo == nTodo - Cardinality(vChecks[t])
             wake == IF todo = 0 /\ t \notin Master THEN Sleeping \cap Master ELSE {}
             p == [u \in Thread |-> IF u \in wake THEN "woken" ELSE pc[u]]
  <2>1. pc[t] = "report" /\ vChecks[t] # {}
    BY <1>3 DEF Report, QueueInv, Batches
  <2>2. /\ Cardinality(Rest(t)) = todo /\ todo \in Nat
        /\ Rest(t) \subseteq Outstanding /\ Outstanding = Rest(t) \cup vChecks[t]
    BY RestCounts
  <2>3. \A u \in Thread : u \in wake => pc[u] = "waiting"
    BY DEF Sleeping
  <2> HIDE DEF todo, wake
  <2>4. /\ p \in [Thread -> Place] /\ p[t] = pc[t]
        /\ \A u \in Thread : p[u] = pc[u] \/ (pc[u] = "waiting" /\ p[u] = "woken")
    BY <1>0, <1>p, <2>1, <2>3 DEF Place
  <2> HIDE DEF p
  <2>5. NoneReturned
    BY <2>1, <2>2 DEF QueueInv, Results, NoneReturned
  <2>6. /\ ~(fAllOk /\ fOk[t]) => added \cap Bad # {}
        /\ fAllOk /\ fOk[t] => (added \ Rest(t)) \cap Bad = {}
    BY <1>1, <2>1, <2>2, <2>5 DEF QueueInv, Results
  <2>7. ControlMutex # NoThread
    BY <2>1, <2>2 DEF QueueInv, Ownership
  <2>8. t \in Counted /\ t \notin Idle
    BY <2>1 DEF Counted, Idle
  <2>9. nTotal >= Cardinality(Counted \ {t}) + 1 /\ nIdle >= Cardinality(Idle \ {t})
    BY <1>0, <2>8, <1>j
  <2>10. ~shutdown => nTotal = Cardinality(Counted \ {t}) + 1 /\ nIdle = Cardinality(Idle \ {t})
    BY <1>0, <2>8, <1>j
  <2>11. Ready(t, p, nIdle, nTotal, todo, fAllOk /\ fOk[t])
    BY <1>0, <1>p, <2>1, <2>2, <2>4, <2>5, <2>6, <2>7, <2>9, <2>10 DEF Ready
  <2>12. Continue(t, p, nIdle, nTotal, todo, fAllOk /\ fOk[t]) /\ UNCHANGED <<controlVars, stopVars>>
    BY <1>3 DEF Report, p, wake, todo
  <2>13. QED
    BY <2>11, <2>12, ContinueKeeps
<1>4. QED
  BY <1>2, <1>3

\* Steps that leave the queue and the batches and keep every thread counted
\* as before keep the counters right.
LEMMA CountedKept ==
    ASSUME QueueInv, UNCHANGED <<nIdle, nTotal>>, shutdown => shutdown',
           pc' \in [Thread -> Place],
           \A t \in Thread : (t \in Counted' <=> t \in Counted) /\ (t \in Idle' <=> t \in Idle)
    PROVE  CountersCover'
<1>1. /\ Counted' \subseteq Thread /\ Counted \subseteq Thread
      /\ Idle' \subseteq Thread /\ Idle \subseteq Thread
  BY DEF Counted, Idle
<1>2. Counted' = Counted /\ Idle' = Idle
  BY <1>1
<1>3. QED
  BY <1>2 DEF QueueInv, CountersCover

\* The actions of CCheckQueueControl.
LEMMA ControlKeeps ==
    ASSUME QueueInv, NEW m \in Master,
           \/ Control(m) \/ Leave(m)
           \/ \E early \in BOOLEAN : Wait(m, early)
    PROVE  QueueInv'
<1>m. m \in Thread /\ m # NoThread
  BY ThreadAssumption DEF Thread
<1>1. /\ UNCHANGED <<queue, nIdle, nTotal, nTodo, fAllOk, fRet, vChecks, fOk, shutdown, interrupted>>
      /\ pc[m] \in {"idle", "adding", "returned"}
      /\ \A t \in Thread \ {m} : pc'[t] = pc[t]
      /\ pc'[m] \in {"adding", "start", "idle", "gone"}
      /\ unwinding' \subseteq Master
      /\ pc' \in [Thread -> Place]
  <2>p. pc \in [Thread -> Place] /\ unwinding \subseteq Master
    BY DEF QueueInv, TypeOK
  <2>1. CASE Control(m)
    BY <1>m, <2>p, <2>1 DEF Control, counters, stopVars, Place
  <2>2. CASE Leave(m)
    BY <1>m, <2>p, <2>2 DEF Leave, counters, Place
  <2>3. CASE \E early \in BOOLEAN : Wait(m, early)
    BY <1>m, <2>p, <2>3 DEF Wait, counters, Place
  <2>4. QED
    BY <2>1, <2>2, <2>3
<1>2. Outstanding' = Outstanding
  BY <1>1 DEF Outstanding
<1>3. vChecks[m] = {}
  BY <1>1, <1>m DEF QueueInv, Batches
<1>4. TypeOK'
  BY <1>1, <1>m DEF Control, Leave, Wait, controlVars, QueueInv, TypeOK
<1>5. Batches'
  BY <1>1, <1>3 DEF QueueInv, Batches
<1>6. CountersCover'
  <2>1. \A t \in Thread : (t \in Counted' <=> t \in Counted) /\ (t \in Idle' <=> t \in Idle)
    BY <1>1, <1>m DEF Counted, Idle
  <2>2. QED
    BY <1>1, <2>1, CountedKept
<1>7. Ownership' /\ Results'
  <2>1. CASE Control(m)
    <3>1. NoneReturned /\ NoneReturned' /\ added' = added /\ ControlMutex' = m /\ ControlMutex = NoThread
      BY <1>1, <1>m, <2>1, ThreadAssumption DEF Control, QueueInv, Ownership, NoneReturned, Thread
    <3>2. Ownership'
      BY <1>1, <1>2, <1>m, <2>1, <3>1, ThreadAssumption DEF Control, QueueInv, Ownership, Thread
    <3>3. Results'
      BY <1>1, <1>2, <3>1 DEF QueueInv, Results, NoneReturned
    <3>4. QED
      BY <3>2, <3>3
  <2>2. CASE Leave(m)
    <3>1. /\ pc[m] = "returned" /\ ControlMutex = m /\ ControlMutex' = NoThread /\ added' = {}
          /\ pc'[m] \in {"idle", "gone"}
      BY <1>m, <2>2 DEF Leave, QueueInv, TypeOK, Ownership
    <3>2. Outstanding = {} /\ fAllOk
      BY <3>1 DEF QueueInv, Results
    <3>3. \A t \in Thread : vChecks[t] = {}
      BY <3>2 DEF Outstanding, QueueInv, TypeOK
    <3>4. Ownership'
      BY <1>1, <1>2, <3>1, <3>2 DEF QueueInv, Ownership, Thread
    <3>5. NoneReturned'
      BY <1>1, <3>1 DEF QueueInv, Ownership, NoneReturned, Thread
    <3>6. \A t \in Thread : pc'[t] \notin {"work", "report"}
      BY ZenonT(60), <1>1, <3>1, <3>3 DEF QueueInv, Batches
    <3>7. Results'
      BY <1>1, <1>2, <3>1, <3>2, <3>5, <3>6 DEF Results, NoneReturned
    <3>8. QED
      BY <3>4, <3>7
  <2>3. CASE \E early \in BOOLEAN : Wait(m, early)
    <3>1. pc[m] = "adding" /\ pc'[m] = "start" /\ UNCHANGED <<ControlMutex, added>>
      BY <1>m, <2>3 DEF Wait, controlVars, QueueInv, TypeOK
    <3>2. NoneReturned' <=> NoneReturned
      BY <1>1, <3>1 DEF NoneReturned, Thread
    <3>3. Ownership'
      BY <1>1, <1>2, <3>1 DEF QueueInv, Ownership, Thread
    <3>4. Results'
      BY <1>1, <1>2, <3>1, <3>2 DEF QueueInv, Results, Thread
    <3>5. QED
      BY <3>3, <3>4
  <2>4. QED
    BY <2>1, <2>2, <2>3
<1>8. TodoExact'
  BY <1>1, <1>2 DEF QueueInv, TodoExact
<1>9. QED
  BY <1>4, <1>5, <1>6, <1>7, <1>8 DEF QueueInv

\* Adding checks counts each of them.
LEMMA AddKeeps ==
    ASSUME QueueInv, NEW m \in Master, NEW new \in SUBSET (Check \ added), Add(m, new)
    PROVE  QueueInv'
<1>1. /\ pc[m] = "adding" /\ m \in Thread
      /\ queue' = queue \cup new /\ added' = added \cup new
      /\ nTodo' = nTodo + Cardinality(new)
      /\ UNCHANGED <<nIdle, nTotal, fAllOk, ControlMutex, fRet, vChecks, fOk, unwinding, shutdown, interrupted>>
  BY DEF Add, stopVars, Thread
<1>2. /\ pc' \in [Thread -> Place]
      /\ \A t \in Thread : pc'[t] = pc[t] \/ (pc[t] = "waiting" /\ pc'[t] = "woken")
  BY DEF Add, NotifyWorkers, Sleeping, QueueInv, TypeOK, Place
<1>3. ControlMutex = m /\ NoneReturned
  BY <1>1 DEF QueueInv, Ownership, NoneReturned
<1>4. /\ Outstanding' = Outstanding \cup new /\ Outstanding \cap new = {}
      /\ Outstanding \subseteq Check /\ new \subseteq Check
  BY <1>1 DEF Outstanding, QueueInv, TypeOK, Ownership
<1>5. TodoExact'
  <2>1. IsFiniteSet(Outstanding) /\ IsFiniteSet(new) /\ Cardinality(Outstanding) \in Nat /\ Cardinality(new) \in Nat
    BY <1>4, FiniteSubsets
  <2>2. Cardinality(Outstanding \cup new)
          = Cardinality(Outstanding) + Cardinality(new) - Cardinality(Outstanding \cap new)
    BY <2>1, FS_Union
  <2>3. Cardinality(Outstanding \cap new) = 0
    BY <1>4, FS_EmptySet
  <2>4. QED
    BY SMT, <1>1, <1>4, <2>1, <2>2, <2>3 DEF QueueInv, TodoExact
<1>6. TypeOK'
  <2>1. Cardinality(new) \in Nat
    BY <1>4, FiniteSubsets
  <2>2. QED
    BY SMT, <1>1, <1>2, <1>4, <2>1 DEF QueueInv, TypeOK
<1>7. CountersCover'
  <2>1. \A t \in Thread : (t \in Counted' <=> t \in Counted) /\ (t \in Idle' <=> t \in Idle)
    BY <1>2 DEF Counted, Idle
  <2>2. QED
    BY <1>1, <1>2, <2>1, CountedKept
<1>8. Batches'
  <2>1. \A t \in Thread : vChecks[t] \subseteq Outstanding
    BY DEF Outstanding, QueueInv, TypeOK
  <2>2. QED
    BY ZenonT(60), <1>1, <1>2, <1>4, <2>1 DEF QueueInv, Batches
<1>9. NoneReturned'
  BY <1>2, <1>3 DEF NoneReturned, Thread
<1>10. Ownership'
  BY <1>1, <1>2, <1>3, <1>4, ThreadAssumption DEF QueueInv, Ownership, Thread
<1>11. Results'
  <2>1. (added' \ Outstanding') \subseteq (added \ Outstanding)
    BY <1>1, <1>4
  <2>2. added \cap Bad # {} => added' \cap Bad # {}
    BY <1>1
  <2>3. QED
    BY <1>1, <1>2, <1>3, <1>9, <2>1, <2>2 DEF QueueInv, Results, NoneReturned
<1>12. QED
  BY <1>5, <1>6, <1>7, <1>8, <1>10, <1>11 DEF QueueInv
\* The steps outside the lock and those of a shutdown.
LEMMA OtherKeeps ==
    ASSUME QueueInv, NEW t \in Thread,
           Work(t) \/ Spurious(t) \/ InterruptAll \/ Throw(t)
    PROVE  QueueInv'
<1>1. /\ UNCHANGED <<queue, nIdle, nTotal, nTodo, fAllOk, ControlMutex, added, fRet, vChecks>>
      /\ shutdown => shutdown'
      /\ ~shutdown' => interrupted' = {}
      /\ unwinding' \subseteq Master /\ shutdown' \in BOOLEAN /\ interrupted' \subseteq Thread
      /\ \A u \in Thread \ {t} : pc'[u] = pc[u] /\ fOk'[u] = fOk[u]
      /\ pc' \in [Thread -> Place] /\ fOk' \in [Thread -> BOOLEAN]
  <2>p. /\ pc \in [Thread -> Place] /\ fOk \in [Thread -> BOOLEAN] /\ unwinding \subseteq Master
        /\ shutdown \in BOOLEAN /\ interrupted \subseteq Thread
        /\ ~shutdown => interrupted = {}
    BY DEF QueueInv, TypeOK, Ownership
  <2>1. CASE Work(t)
    BY ZenonT(60), <2>p, <2>1 DEF Work, counters, controlVars, stopVars, Place
  <2>2. CASE Spurious(t)
    BY <2>p, <2>2 DEF Spurious, counters, controlVars, stopVars, Place
  <2>3. CASE InterruptAll
    BY <2>p, <2>3 DEF InterruptAll, counters, controlVars
  <2>4. CASE Throw(t)
    BY <2>p, <2>4 DEF Throw, counters, controlVars, Place
  <2>5. QED
    BY <2>1, <2>2, <2>3, <2>4
<1>2. \/ pc[t] = "work" /\ pc'[t] = "report" /\ fOk'[t] = (fOk[t] /\ vChecks[t] \cap Bad = {})
      \/ pc[t] = "waiting" /\ pc'[t] = "woken" /\ fOk' = fOk
      \/ pc' = pc /\ fOk' = fOk
      \/ pc[t] \in {"waiting", "woken"} /\ pc'[t] \in {"start", "gone"} /\ fOk' = fOk
         /\ interrupted # {} /\ (pc'[t] = "start" => t \in Master)
  <2>p. pc \in [Thread -> Place] /\ fOk \in [Thread -> BOOLEAN]
    BY DEF QueueInv, TypeOK
  <2>1. CASE Work(t)
    BY <2>p, <2>1 DEF Work
  <2>2. CASE Spurious(t)
    BY <2>p, <2>2 DEF Spurious
  <2>3. CASE InterruptAll
    BY <2>3 DEF InterruptAll
  <2>4. CASE Throw(t)
    BY <2>p, <2>4 DEF Throw
  <2>5. QED
    BY ZenonT(60), <2>1, <2>2, <2>3, <2>4
<1>3. Outstanding' = Outstanding
  BY <1>1 DEF Outstanding
<1>4. TypeOK' /\ TodoExact'
  BY <1>1, <1>3 DEF QueueInv, TypeOK, TodoExact
<1>5. Batches'
  BY <1>1, <1>2 DEF QueueInv, Batches
<1>6. CountersCover'
  <2>1. CASE pc[t] \in {"waiting", "woken"} /\ pc'[t] \in {"start", "gone"} /\ interrupted # {}
    <3>1. t \in Counted /\ t \in Idle /\ t \notin Counted' /\ t \notin Idle'
      BY <2>1 DEF Counted, Idle
    <3>2. \A u \in Thread \ {t} : (u \in Counted' <=> u \in Counted) /\ (u \in Idle' <=> u \in Idle)
      BY <1>1 DEF Counted, Idle
    <3>3. Counted' = Counted \ {t} /\ Idle' = Idle \ {t}
      BY <3>1, <3>2 DEF Counted, Idle
    <3>4. shutdown'
      BY <1>1, <2>1 DEF QueueInv, Ownership
    <3>5. /\ Cardinality(Counted \ {t}) \in Nat /\ Cardinality(Idle \ {t}) \in Nat
          /\ Cardinality(Counted) = Cardinality(Counted \ {t}) + 1
          /\ Cardinality(Idle) = Cardinality(Idle \ {t}) + 1
      BY ZenonT(60), <3>1, JoinLeave
    <3>6. nTotal \in Nat /\ nIdle \in Nat /\ nTotal >= Cardinality(Counted) /\ nIdle >= Cardinality(Idle)
      BY DEF QueueInv, TypeOK, CountersCover
    <3>7. nTotal >= Cardinality(Counted \ {t}) /\ nIdle >= Cardinality(Idle \ {t})
      BY SMT, <3>5, <3>6
    <3>8. QED
      BY <1>1, <3>3, <3>4, <3>7 DEF CountersCover
  <2>2. CASE ~(pc[t] \in {"waiting", "woken"} /\ pc'[t] \in {"start", "gone"} /\ interrupted # {})
    <3>1. \A u \in Thread : (u \in Counted' <=> u \in Counted) /\ (u \in Idle' <=> u \in Idle)
      BY <1>1, <1>2, <2>2 DEF Counted, Idle
    <3>2. QED
      BY <1>1, <3>1, CountedKept
  <2>3. QED
    BY <2>1, <2>2
<1>7. NoneReturned' <=> NoneReturned
  BY <1>1, <1>2 DEF NoneReturned, Thread
<1>8. Ownership'
  <2>1. ASSUME NEW m \in Master, pc'[m] \notin {"idle", "gone"} PROVE ControlMutex = m
    BY <1>1, <1>2, <2>1 DEF QueueInv, Ownership, Thread
  <2>2. QED
    BY <1>1, <1>3, <2>1 DEF QueueInv, Ownership
<1>9. Results'
  <2>1. ASSUME NEW u \in Thread
        PROVE  /\ pc'[u] \in {"work", "report"} /\ ~fOk'[u] => added \cap Bad # {}
               /\ pc'[u] = "report" /\ fOk'[u] => vChecks[u] \cap Bad = {}
    <3>1. CASE u # t
      BY ZenonT(60), <1>1, <3>1 DEF QueueInv, Results
    <3>2. CASE u = t /\ pc[t] = "work" /\ pc'[t] = "report" /\ fOk'[t] = (fOk[t] /\ vChecks[t] \cap Bad = {})
      <4>1. vChecks[t] \subseteq added
        BY DEF QueueInv, TypeOK, Ownership, Outstanding
      <4>2. ~fOk[t] => added \cap Bad # {}
        BY <3>2 DEF QueueInv, Results
      <4>3. QED
        BY ZenonT(60), <3>2, <4>1, <4>2
    <3>3. CASE u = t /\ fOk' = fOk
      BY ZenonT(60), <1>2, <3>3 DEF QueueInv, Results
    <3>4. QED
      BY ZenonT(60), <1>2, <3>1, <3>2, <3>3
  <2>2. ASSUME NEW m \in Master, pc'[m] = "returned" PROVE pc[m] = "returned"
    BY ZenonT(60), <1>1, <1>2, <2>2 DEF Thread
  <2>3. QED
    BY <1>1, <1>3, <1>7, <2>1, <2>2 DEF QueueInv, Results
<1>10. QED
  BY <1>4, <1>5, <1>6, <1>8, <1>9 DEF QueueInv

\* The end of the process.
LEMMA TerminateKeeps ==
    ASSUME QueueInv, NEW t \in Thread, Terminate(t)
    PROVE  QueueInv'
<1>1. /\ UNCHANGED <<queue, nIdle, nTotal, nTodo, fAllOk, ControlMutex, added, fRet, vChecks, fOk, unwinding, shutdown, interrupted>>
      /\ pc' = [u \in Thread |-> "gone"]
      /\ pc[t] \in {"waiting", "woken"} /\ interrupted # {} /\ t \in unwinding
  BY DEF Terminate, counters, controlVars, stopVars
<1>2. Outstanding' = Outstanding
  BY ZenonT(60), <1>1 DEF Outstanding
<1>3. NoneReturned
  BY <1>1 DEF QueueInv, TypeOK, Ownership, NoneReturned
<1>4. TypeOK' /\ TodoExact' /\ Batches'
  BY <1>1, <1>2 DEF QueueInv, TypeOK, TodoExact, Batches, Place
<1>5. CountersCover'
  <2>1. Counted' = {} /\ Idle' = {}
    BY <1>1 DEF Counted, Idle
  <2>2. shutdown' /\ nTotal' \in Nat /\ nIdle' \in Nat
    BY <1>1 DEF QueueInv, Ownership, TypeOK
  <2>3. QED
    BY SMT, <2>1, <2>2, FS_EmptySet DEF CountersCover
<1>6. Ownership' /\ Results'
  BY <1>1, <1>2, <1>3 DEF QueueInv, Ownership, Results, NoneReturned, Thread
<1>7. QED
  BY <1>4, <1>5, <1>6 DEF QueueInv

\* QueueInv holds at the start.
LEMMA InitQueueInv == Init => QueueInv
<1> SUFFICES ASSUME Init PROVE QueueInv
  OBVIOUS
<1>1. Outstanding = {} /\ Counted = {} /\ Idle = {}
  BY DEF Init, Outstanding, Counted, Idle
<1>2. TypeOK
  BY ZenonT(60) DEF Init, TypeOK, Place
<1>3. TodoExact /\ CountersCover
  BY SMT, <1>1, FS_EmptySet DEF Init, TodoExact, CountersCover
<1>4. Batches /\ Ownership /\ Results
  BY <1>1 DEF Init, Batches, Ownership, Results, NoneReturned, Thread
<1>5. QED
  BY <1>2, <1>3, <1>4 DEF QueueInv

\* Every step keeps QueueInv.
LEMMA NextQueueInv == QueueInv /\ [Next]_vars => QueueInv'
<1> SUFFICES ASSUME QueueInv, [Next]_vars PROVE QueueInv'
  OBVIOUS
<1>1. CASE UNCHANGED vars
  BY <1>1 DEF vars, counters, controlVars, stopVars, QueueInv, TypeOK, TodoExact, CountersCover,
              Batches, Ownership, Results, NoneReturned, Outstanding, Counted, Idle
<1>2. ASSUME NEW m \in Master, Control(m) \/ Leave(m) \/ \E early \in BOOLEAN : Wait(m, early)
      PROVE  QueueInv'
  BY <1>2, ControlKeeps
<1>3. ASSUME NEW m \in Master, NEW new \in SUBSET (Check \ added), Add(m, new)
      PROVE  QueueInv'
  BY <1>3, AddKeeps
<1>4. ASSUME NEW t \in Thread, LoopStep(t) \/ Spurious(t)
      PROVE  QueueInv'
  BY <1>4, LoopKeeps, OtherKeeps, TerminateKeeps DEF LoopStep
<1>5. CASE InterruptAll
  <2>1. CASE Thread = {}
    <3>1. UNCHANGED <<queue, nIdle, nTotal, nTodo, fAllOk, ControlMutex, added, fRet, pc, vChecks, fOk, unwinding>>
          /\ shutdown' = TRUE /\ interrupted' = Thread
      BY <1>5 DEF InterruptAll, counters, controlVars
    <3>2. Outstanding' = Outstanding /\ Counted' = Counted /\ Idle' = Idle
      BY <3>1 DEF Outstanding, Counted, Idle
    <3>3. QED
      BY ZenonT(60), <2>1, <3>1, <3>2 DEF QueueInv, TypeOK, TodoExact, CountersCover, Batches, Ownership, Results, NoneReturned
  <2>2. CASE Thread # {}
    BY <1>5, <2>2, OtherKeeps
  <2>3. QED
    BY <2>1, <2>2
<1>6. QED
  BY <1>1, <1>2, <1>3, <1>4, <1>5 DEF Next

\* QueueInv holds always: each check is counted once, from Add to the
\* clean-up of its batch in Loop, whoever runs it.
THEOREM QueueInvariant == Spec => []QueueInv
<1>1. QED
  BY InitQueueInv, NextQueueInv, PTL DEF Spec

\* The verdict of CCheckQueueControl::Wait is exact.
THEOREM VerdictIsExact == Spec => []VerdictExact
<1>1. QueueInv => VerdictExact
  BY DEF QueueInv, Results, VerdictExact
<1>2. QED
  BY <1>1, QueueInvariant, PTL

\* A CCheckQueueControl always finds the queue unused.
THEOREM CleanAlways == Spec => []CleanBetweenBlocks
<1>1. QueueInv => CleanBetweenBlocks
  <2> SUFFICES ASSUME QueueInv, ControlMutex = NoThread PROVE Outstanding = {} /\ nTodo = 0 /\ fAllOk
    BY DEF CleanBetweenBlocks
  <2>1. Outstanding = {} /\ fAllOk
    BY DEF QueueInv, Ownership
  <2>2. QED
    BY <2>1, FS_EmptySet DEF QueueInv, TodoExact
<1>2. QED
  BY <1>1, QueueInvariant, PTL

\* nTodo, nTotal and nIdle mean what their comments say.
THEOREM CountersMeaning == Spec => [](TodoExact /\ CountersCover)
<1>1. QueueInv => TodoExact /\ CountersCover
  BY DEF QueueInv
<1>2. QED
  BY <1>1, QueueInvariant, PTL
=============================================================================
