----------------------------- MODULE CheckQueue -----------------------------
(***************************************************************************)
(* CCheckQueue: the script checks of a block are handed to worker threads; *)
(* the thread that connects the block (the master) adds them, joins the    *)
(* workers, and learns whether all of them passed.  CCheckQueueControl     *)
(* gives the queue to one master at a time and waits in its destructor     *)
(* when ConnectBlock returns early.  At shutdown threads are interrupted,  *)
(* which throws them out of a wait.                                        *)
(*                                                                         *)
(* An action is a critical section of `mutex', from taking it to releasing *)
(* it or to cond.wait.  The queue is a set of checks: the order in which   *)
(* they are taken does not matter to the code either.                      *)
(***************************************************************************)
EXTENDS Integers, FiniteSets

CONSTANTS
    Worker,     \* threads that run CCheckQueue::Thread
    Master,     \* threads that connect blocks
    NoThread,
    Check,      \* the script checks
    Bad,        \* those that fail
    nBatchSize  \* the largest batch

Thread == Worker \cup Master

ASSUME ThreadAssumption == Worker \cap Master = {} /\ NoThread \notin Thread
ASSUME FiniteAssumption == IsFiniteSet(Thread) /\ IsFiniteSet(Check)
ASSUME CheckAssumption == Bad \subseteq Check
ASSUME BatchAssumption == nBatchSize \in Nat \ {0}

VARIABLES
    queue,       \* the checks not yet taken
    nIdle, nTotal, nTodo, fAllOk,
    ControlMutex,\* the master whose CCheckQueueControl exists, or NoThread
    added,       \* what that master has added
    fRet,        \* what its last Wait returned
    pc,          \* where each thread is
    vChecks,     \* the batch of each thread
    fOk,         \* its local result
    unwinding,   \* masters inside ~CCheckQueueControl
    shutdown,    \* interrupt_all was called
    interrupted  \* threads with an interruption pending

counters == <<nIdle, nTotal, nTodo, fAllOk>>
controlVars == <<ControlMutex, added>>
stopVars == <<unwinding, shutdown, interrupted>>
vars == <<queue, counters, controlVars, fRet, pc, vChecks, fOk, stopVars>>

\* The interruption of t has been thrown.
Thrown(t) == shutdown /\ t \notin interrupted

\* Threads inside cond.wait that have not been woken.
Sleeping == {t \in Thread : pc[t] = "waiting"}

Init ==
    /\ queue = {}
    /\ nIdle = 0 /\ nTotal = 0 /\ nTodo = 0 /\ fAllOk = TRUE
    /\ ControlMutex = NoThread
    /\ added = {}
    /\ fRet = TRUE
    /\ pc = [t \in Thread |-> IF t \in Master THEN "idle" ELSE "start"]
    /\ vChecks = [t \in Thread |-> {}]
    /\ fOk = [t \in Thread |-> TRUE]
    /\ unwinding = {} /\ shutdown = FALSE /\ interrupted = {}

----------------------------------------------------------------------------
(***************************************************************************)
(* CCheckQueueControl, as ConnectBlock uses it.                            *)
(***************************************************************************)
\* A slip: the constructor does not enter ControlMutex.
ControlUnlocked(m) ==
    /\ pc[m] = "idle"
    /\ ControlMutex' = m
    /\ pc' = [pc EXCEPT ![m] = "adding"]
    /\ UNCHANGED <<queue, counters, added, fRet, vChecks, fOk, stopVars>>

\* The constructor.
Control(m) ==
    /\ pc[m] = "idle"
    /\ ControlMutex = NoThread
    /\ ControlMutex' = m
    /\ pc' = [pc EXCEPT ![m] = "adding"]
    /\ UNCHANGED <<queue, counters, added, fRet, vChecks, fOk, stopVars>>

\* notify_one when one check was added (nobody may be waiting), notify_all
\* for more; workers wait on condWorker, a master on condMaster.
NotifyWorkers(n) ==
    LET w == Sleeping \cap Worker
    IN  IF n > 1 \/ w = {}
        THEN pc' = [t \in Thread |-> IF t \in w THEN "woken" ELSE pc[t]]
        ELSE \E t \in w : pc' = [pc EXCEPT ![t] = "woken"]

\* A slip in Add: nTodo is not raised.
AddUncounted(m, new) ==
    /\ pc[m] = "adding"
    /\ queue' = queue \cup new
    /\ added' = added \cup new
    /\ NotifyWorkers(Cardinality(new))
    /\ UNCHANGED <<counters, ControlMutex, fRet, vChecks, fOk, stopVars>>

\* The checks of one transaction.
Add(m, new) ==
    /\ pc[m] = "adding"
    /\ queue' = queue \cup new
    /\ added' = added \cup new
    /\ nTodo' = nTodo + Cardinality(new)
    /\ NotifyWorkers(Cardinality(new))
    /\ UNCHANGED <<nIdle, nTotal, fAllOk, ControlMutex, fRet, vChecks, fOk, stopVars>>

\* control.Wait() at the end of ConnectBlock, or the destructor's when
\* ConnectBlock returns before that.
Wait(m, early) ==
    /\ pc[m] = "adding"
    /\ pc' = [pc EXCEPT ![m] = "start"]
    /\ unwinding' = IF early THEN unwinding \cup {m} ELSE unwinding
    /\ UNCHANGED <<queue, counters, controlVars, fRet, vChecks, fOk, shutdown, interrupted>>

\* The end of the destructor.  The thread goes on to its next block, unless
\* an interruption is what brought it here.
Leave(m) ==
    /\ pc[m] = "returned"
    /\ ControlMutex' = NoThread
    /\ added' = {}
    /\ unwinding' = unwinding \ {m}
    /\ pc' = [pc EXCEPT ![m] = IF Thrown(m) THEN "gone" ELSE "idle"]
    /\ UNCHANGED <<queue, counters, fRet, vChecks, fOk, shutdown, interrupted>>

----------------------------------------------------------------------------
(***************************************************************************)
(* Loop.                                                                   *)
(***************************************************************************)
AtLeastOne(n) == IF n < 1 THEN 1 ELSE n
AtMost(n, k) == IF n > k THEN k ELSE n

\* How many checks to take at once.
nNow(idle, total) ==
    AtLeastOne(AtMost(Cardinality(queue) \div (total + idle + 1), nBatchSize))

\* A slip: fAllOk is not reset for the next block.
ReturnWithoutReset(t, p, idle, total, todo, ok) ==
    /\ queue = {} /\ t \in Master /\ todo = 0
    /\ nTotal' = total - 1
    /\ fRet' = ok
    /\ fAllOk' = ok
    /\ nIdle' = idle /\ nTodo' = todo
    /\ vChecks' = [vChecks EXCEPT ![t] = {}]
    /\ pc' = [p EXCEPT ![t] = "returned"]
    /\ UNCHANGED <<queue, fOk>>

\* The rest of the critical section from `while (queue.empty())' on, for
\* thread t that has found, or made, the counters `idle', `total', `todo',
\* `ok' and the threads' places p.  A master leaves when nothing is left to
\* do.
Return(t, p, idle, total, todo, ok) ==
    /\ queue = {} /\ t \in Master /\ todo = 0
    /\ nTotal' = total - 1
    /\ fRet' = ok
    /\ fAllOk' = TRUE
    /\ nIdle' = idle /\ nTodo' = todo
    /\ vChecks' = [vChecks EXCEPT ![t] = {}]
    /\ pc' = [p EXCEPT ![t] = "returned"]
    /\ UNCHANGED <<queue, fOk>>

Sleep(t, p, idle, total, todo, ok) ==
    /\ queue = {} /\ ~(t \in Master /\ todo = 0)
    /\ nIdle' = idle + 1
    /\ nTotal' = total /\ nTodo' = todo /\ fAllOk' = ok
    /\ vChecks' = [vChecks EXCEPT ![t] = {}]
    /\ pc' = [p EXCEPT ![t] = "waiting"]
    /\ UNCHANGED <<queue, fRet, fOk>>

Take(t, p, idle, total, todo, ok) ==
    \E batch \in SUBSET queue :
        /\ queue # {}
        /\ Cardinality(batch) = nNow(idle, total)
        /\ queue' = queue \ batch
        /\ vChecks' = [vChecks EXCEPT ![t] = batch]
        /\ fOk' = [fOk EXCEPT ![t] = ok]
        /\ nIdle' = idle /\ nTotal' = total /\ nTodo' = todo /\ fAllOk' = ok
        /\ pc' = [p EXCEPT ![t] = "work"]
        /\ UNCHANGED fRet

Continue(t, p, idle, total, todo, ok) ==
    \/ Return(t, p, idle, total, todo, ok)
    \/ Sleep(t, p, idle, total, todo, ok)
    \/ Take(t, p, idle, total, todo, ok)

\* The first iteration.
Enter(t) ==
    /\ pc[t] = "start"
    /\ Continue(t, pc, nIdle, nTotal + 1, nTodo, fAllOk)
    /\ UNCHANGED <<controlVars, stopVars>>

\* After cond.wait has returned.
Resume(t) ==
    /\ pc[t] = "woken"
    /\ t \notin interrupted
    /\ Continue(t, pc, nIdle - 1, nTotal, nTodo, fAllOk)
    /\ UNCHANGED <<controlVars, stopVars>>

\* The checks of the batch, outside the lock: none is run after a failure.
Work(t) ==
    /\ pc[t] = "work"
    /\ fOk' = [fOk EXCEPT ![t] = @ /\ vChecks[t] \cap Bad = {}]
    /\ pc' = [pc EXCEPT ![t] = "report"]
    /\ UNCHANGED <<queue, counters, controlVars, fRet, vChecks, stopVars>>

\* Slips in the clean-up: only a master is woken by a master; the result of
\* the batch replaces that of the others.
ReportSilently(t) ==
    /\ pc[t] = "report"
    /\ Continue(t, pc, nIdle, nTotal, nTodo - Cardinality(vChecks[t]), fAllOk /\ fOk[t])
    /\ UNCHANGED <<controlVars, stopVars>>

ReportOverwriting(t) ==
    LET todo == nTodo - Cardinality(vChecks[t])
        wake == IF todo = 0 /\ t \notin Master THEN Sleeping \cap Master ELSE {}
    IN  /\ pc[t] = "report"
        /\ Continue(t, [u \in Thread |-> IF u \in wake THEN "woken" ELSE pc[u]],
                    nIdle, nTotal, todo, fOk[t])
        /\ UNCHANGED <<controlVars, stopVars>>

\* A later iteration: the clean-up for the batch just done, which wakes the
\* master (at most one waits on condMaster) when it was the last.
Report(t) ==
    LET todo == nTodo - Cardinality(vChecks[t])
        wake == IF todo = 0 /\ t \notin Master THEN Sleeping \cap Master ELSE {}
    IN  /\ pc[t] = "report"
        /\ Continue(t, [u \in Thread |-> IF u \in wake THEN "woken" ELSE pc[u]],
                    nIdle, nTotal, todo, fAllOk /\ fOk[t])
        /\ UNCHANGED <<controlVars, stopVars>>

\* A wait may return without a notification.
Spurious(t) ==
    /\ pc[t] = "waiting"
    /\ pc' = [pc EXCEPT ![t] = "woken"]
    /\ UNCHANGED <<queue, counters, controlVars, fRet, vChecks, fOk, stopVars>>

----------------------------------------------------------------------------
(***************************************************************************)
(* Shutdown.                                                               *)
(***************************************************************************)
InterruptAll ==
    /\ ~shutdown
    /\ shutdown' = TRUE
    /\ interrupted' = Thread
    /\ UNCHANGED <<queue, counters, controlVars, fRet, pc, vChecks, fOk, unwinding>>

\* cond.wait throws, even when it was notified too, and nIdle and nTotal stay
\* as they are.  A worker ends; a master gets into the destructor, which
\* waits again ...
Throw(t) ==
    /\ pc[t] \in {"waiting", "woken"}
    /\ t \in interrupted \ unwinding
    /\ interrupted' = interrupted \ {t}
    /\ pc' = [pc EXCEPT ![t] = IF t \in Master THEN "start" ELSE "gone"]
    /\ unwinding' = IF t \in Master THEN unwinding \cup {t} ELSE unwinding
    /\ UNCHANGED <<queue, counters, controlVars, fRet, vChecks, fOk, shutdown>>

\* ... and an exception that leaves the destructor ends the process.
Terminate(t) ==
    /\ pc[t] \in {"waiting", "woken"}
    /\ t \in interrupted \cap unwinding
    /\ pc' = [u \in Thread |-> "gone"]
    /\ UNCHANGED <<queue, counters, controlVars, fRet, vChecks, fOk, stopVars>>

----------------------------------------------------------------------------
LoopStep(t) == Enter(t) \/ Resume(t) \/ Work(t) \/ Report(t) \/ Throw(t) \/ Terminate(t)

Next ==
    \/ \E m \in Master :
          \/ Control(m)
          \/ \E new \in SUBSET (Check \ added) : new # {} /\ Add(m, new)
          \/ \E early \in BOOLEAN : Wait(m, early)
          \/ Leave(m)
    \/ \E t \in Thread : LoopStep(t) \/ Spurious(t)
    \/ InterruptAll

Spec == Init /\ [][Next]_vars

\* A thread inside Loop runs on unless it waits.  That a worker thread has
\* been started at all is not assumed.
Fairness ==
    \A t \in Thread :
        /\ WF_vars((t \in Master \/ pc[t] # "start") /\ LoopStep(t))

FairSpec == Spec /\ Fairness

----------------------------------------------------------------------------
(***************************************************************************)
(* Properties.                                                             *)
(***************************************************************************)
Place == {"idle", "adding", "start", "waiting", "woken", "work", "report", "returned", "gone"}

\* The checks that are queued or in some thread's batch.
Outstanding == queue \cup {c \in Check : \E t \in Thread : c \in vChecks[t]}

\* The threads that Loop has counted, and those of them that wait.
Counted == {t \in Thread : pc[t] \in {"waiting", "woken", "work", "report"}}
Idle == {t \in Thread : pc[t] \in {"waiting", "woken"}}

\* The types of the queue, its counters and the threads.
TypeOK ==
    /\ queue \subseteq Check /\ added \subseteq Check
    /\ nIdle \in Nat /\ nTotal \in Nat /\ nTodo \in Nat
    /\ fAllOk \in BOOLEAN /\ fRet \in BOOLEAN
    /\ ControlMutex \in Master \cup {NoThread}
    /\ pc \in [Thread -> Place]
    /\ vChecks \in [Thread -> SUBSET Check]
    /\ fOk \in [Thread -> BOOLEAN]
    /\ unwinding \subseteq Master /\ shutdown \in BOOLEAN /\ interrupted \subseteq Thread

\* Wait returns true exactly when every check the master added passes, in
\* whatever batches the threads ran them (Loop, ConnectBlock's control.Wait).
VerdictExact ==
    \A m \in Master : pc[m] = "returned" => (fRet <=> added \cap Bad = {})

\* Between two blocks the queue is as a CCheckQueueControl supposes it to be:
\* unused.  Nothing is queued, in a batch or counted, and the result of the
\* last block is gone.
CleanBetweenBlocks ==
    ControlMutex = NoThread => Outstanding = {} /\ nTodo = 0 /\ fAllOk

\* nTodo counts exactly the checks that are not completed, including those
\* in the workers' batches (the comment on nTodo).
TodoExact == nTodo = Cardinality(Outstanding)

\* Until a shutdown nTotal and nIdle are the threads in Loop and those of
\* them that wait; after it they may only be too large, so that a batch is
\* smaller than it could be and never larger.
CountersCover ==
    /\ nTotal >= Cardinality(Counted) /\ nIdle >= Cardinality(Idle)
    /\ ~shutdown => nTotal = Cardinality(Counted) /\ nIdle = Cardinality(Idle)

\* Each check is in one place only, and a thread has a batch exactly while it
\* works on it.
Batches ==
    /\ \A t \in Thread : vChecks[t] \cap queue = {}
    /\ \A t, u \in Thread : t # u => vChecks[t] \cap vChecks[u] = {}
    /\ \A t \in Thread :
          /\ pc[t] \in {"work", "report"} => vChecks[t] # {}
          /\ pc[t] \notin {"work", "report", "gone"} => vChecks[t] = {}

\* One master at a time, and what is outstanding is its own.
Ownership ==
    /\ \A m \in Master : pc[m] \notin {"idle", "gone"} => ControlMutex = m
    /\ ControlMutex = NoThread => added = {} /\ fAllOk
    /\ Outstanding \subseteq added
    /\ ~shutdown => interrupted = {}

NoneReturned == \A m \in Master : pc[m] # "returned"

\* What the results obtained so far mean.
Results ==
    /\ ~fAllOk => added \cap Bad # {}
    /\ \A t \in Thread :
          /\ pc[t] \in {"work", "report"} /\ ~fOk[t] => added \cap Bad # {}
          /\ pc[t] = "report" /\ fOk[t] => vChecks[t] \cap Bad = {}
    /\ NoneReturned /\ fAllOk => (added \ Outstanding) \cap Bad = {}
    /\ \A m \in Master : pc[m] = "returned" =>
          Outstanding = {} /\ fAllOk /\ (fRet <=> added \cap Bad = {})

\* The inductive invariant behind the properties above: each check is counted
\* once from Add to the clean-up of its batch in Loop.
QueueInv == TypeOK /\ TodoExact /\ CountersCover /\ Batches /\ Ownership /\ Results

\* A master that waits for its checks gets an answer, or the process ends,
\* whether or not any worker was ever started and whenever the threads are
\* interrupted.
WaitReturns ==
    \A m \in Master : (pc[m] = "start") ~> (pc[m] \in {"returned", "gone"})
=============================================================================
