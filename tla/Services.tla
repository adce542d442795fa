------------------------------- MODULE Services -------------------------------
(***************************************************************************)
(* The threads that serve RPC and how they are stopped.                    *)
(*                                                                         *)
(* The event thread of libevent hands requests to a bounded WorkQueue and  *)
(* sends the replies (httpserver.cpp); HTTP workers run the handlers; a    *)
(* handler may add an operation to the AsyncRPCQueue, whose worker runs    *)
(* it, or collect the finished ones (asyncrpcqueue.cpp, rpcwallet.cpp);    *)
(* and the main thread, once a shutdown is requested, interrupts, cancels, *)
(* joins and deletes in the order of Interrupt and Shutdown (init.cpp).    *)
(* One action per critical section or atomic access; the callback of a     *)
(* request, which waits for nothing, is one step of the event thread, and  *)
(* the workers have all entered Run.                                       *)
(***************************************************************************)
EXTENDS Integers, Sequences, FiniteSets

CONSTANTS
    Request,       \* the requests of the clients
    Calls,         \* the RPC each one calls
    HttpWorker,    \* -rpcthreads
    AsyncWorker,   \* StartRPC adds one
    NoRequest,
    maxDepth       \* -rpcworkqueue

ASSUME CallsAssumption ==
    Calls \in [Request -> {"z_sendmany", "z_getoperationresult", "stop"}]
ASSUME DepthAssumption == maxDepth \in Nat \ {0}
ASSUME ThreadsAssumption ==
    NoRequest \notin Request /\ IsFiniteSet(HttpWorker) /\ AsyncWorker # {}

\* A z_sendmany request names the operation it creates.
Operation == {r \in Request : Calls[r] = "z_sendmany"}

VARIABLES
    reply,         \* what has become of each request
    queue,         \* WorkQueue::queue
    running,       \* WorkQueue::running
    numThreads,    \* WorkQueue::numThreads
    rejecting,     \* evhttp_set_gencb(http_reject_request_cb)
    loop,          \* the event loop: "runs", "exits", "breaks", "ended", "broken"
    worker,        \* the HTTP workers: [pc, job, ids, seen]
    csMain,        \* the worker that holds cs_main and cs_wallet
    operation_map, \* ids of operation_map_
    id_queue,      \* operation_id_queue_
    closed,        \* closed_
    state,         \* AsyncRPCOperation::state_ of each operation
    async,         \* the async workers: [pc, job]
    outcome,       \* history: how main() of an operation ended
    told,          \* history: the final statuses reported for an operation
    shutdown,      \* fRequestShutdown
    main,          \* where the main thread is
    cancelling     \* cancelAllOperations: [left, ready]

httpVars == <<reply, queue, running, numThreads, rejecting, loop>>
opVars == <<operation_map, id_queue, closed, state, outcome>>
mainVars == <<shutdown, main, cancelling>>
vars == <<httpVars, worker, csMain, opVars, async, told, mainVars>>

\* "ENDED" stands for SUCCESS and FAILED, which the code treats alike.
Final == {"ENDED", "CANCELLED"}

Init ==
    /\ reply = [r \in Request |-> "none"]
    /\ queue = <<>> /\ running = TRUE /\ rejecting = FALSE /\ loop = "runs"
    /\ numThreads = Cardinality(HttpWorker)
    /\ worker = [w \in HttpWorker |->
                   [pc |-> "fetch", job |-> NoRequest, ids |-> {}, seen |-> NoRequest]]
    /\ csMain = {}
    /\ operation_map = {} /\ id_queue = <<>> /\ closed = FALSE
    /\ state = [o \in Operation |-> "none"]
    /\ async = [a \in AsyncWorker |-> [pc |-> "fetch", job |-> NoRequest]]
    /\ outcome = [o \in Operation |-> "none"]
    /\ told = [o \in Operation |-> {}]
    /\ shutdown = FALSE /\ main = "wait"
    /\ cancelling = [left |-> {}, ready |-> {}]

\* A thread in cond.wait that is notified, or wakes up without a reason.
Woken(threads) == [t \in DOMAIN threads |->
                     IF threads[t].pc = "asleep" THEN [threads[t] EXCEPT !.pc = "fetch"]
                     ELSE threads[t]]

NotifyOne(threads) ==
    IF \E t \in DOMAIN threads : threads[t].pc = "asleep"
    THEN {[threads EXCEPT ![t].pc = "fetch"] : t \in {u \in DOMAIN threads : threads[u].pc = "asleep"}}
    ELSE {threads}

----------------------------------------------------------------------------
(***************************************************************************)
(* The event thread.                                                       *)
(***************************************************************************)
\* http_request_cb of a request with a known path: Enqueue, or an error at
\* the limit.
http_request_cb(r) ==
    /\ reply[r] = "none" /\ loop \in {"runs", "exits"} /\ ~rejecting
    /\ IF Len(queue) >= maxDepth
       THEN /\ reply' = [reply EXCEPT ![r] = "triggered"]
            /\ UNCHANGED <<queue, worker>>
       ELSE /\ reply' = [reply EXCEPT ![r] = "accepted"]
            /\ queue' = Append(queue, r)
            /\ worker' \in NotifyOne(worker)
    /\ UNCHANGED <<running, numThreads, rejecting, loop, csMain, opVars, async, told, mainVars>>

\* http_reject_request_cb, on connections that are still open.
http_reject_request_cb(r) ==
    /\ reply[r] = "none" /\ loop \in {"runs", "exits"} /\ rejecting
    /\ reply' = [reply EXCEPT ![r] = "sent"]
    /\ UNCHANGED <<queue, running, numThreads, rejecting, loop, worker, csMain, opVars, async,
                   told, mainVars>>

\* The HTTPEvent of WriteReply.
httpevent_callback_fn(r) ==
    /\ reply[r] = "triggered" /\ loop \notin {"ended", "broken"}
    /\ reply' = [reply EXCEPT ![r] = "sent"]
    /\ UNCHANGED <<queue, running, numThreads, rejecting, loop, worker, csMain, opVars, async,
                   told, mainVars>>

\* event_base_dispatch returns: after loopexit when no event is active, after
\* loopbreak whatever is left.
ThreadHTTP ==
    /\ \/ loop = "exits" /\ \A r \in Request : reply[r] # "triggered"
       \/ loop = "breaks"
    /\ loop' = IF loop = "exits" THEN "ended" ELSE "broken"
    /\ UNCHANGED <<reply, queue, running, numThreads, rejecting, worker, csMain, opVars, async,
                   told, mainVars>>

----------------------------------------------------------------------------
(***************************************************************************)
(* The HTTP workers.                                                       *)
(***************************************************************************)
\* WorkQueue::Run up to the handler.
Run(w) ==
    /\ worker[w].pc = "fetch"
    /\ IF ~running THEN worker' = [worker EXCEPT ![w].pc = "leave"] /\ UNCHANGED queue
       ELSE IF queue = <<>> THEN worker' = [worker EXCEPT ![w].pc = "asleep"] /\ UNCHANGED queue
       ELSE /\ worker' = [worker EXCEPT ![w].pc = "call", ![w].job = Head(queue)]
            /\ queue' = Tail(queue)
    /\ UNCHANGED <<reply, running, numThreads, rejecting, loop, csMain, opVars, async, told, mainVars>>

\* ~ThreadCounter: the main thread may wait for it.
ThreadCounterGone(w) ==
    /\ worker[w].pc = "leave"
    /\ numThreads' = numThreads - 1
    /\ worker' = [Woken(worker) EXCEPT ![w].pc = "gone"]
    /\ main' = IF main = "waitexit" THEN "exit" ELSE main
    /\ UNCHANGED <<reply, queue, running, rejecting, loop, csMain, opVars, async, told, shutdown,
                   cancelling>>

\* tableRPC.execute returns, its locks released ...
Returned(w) == worker' = [worker EXCEPT ![w].pc = "reply"]

\* ... and HTTPReq_JSONRPC replies; the item is deleted.
WriteReply(w) ==
    /\ worker[w].pc = "reply"
    /\ reply' = [reply EXCEPT ![worker[w].job] = "triggered"]
    /\ worker' = [worker EXCEPT ![w].pc = "fetch", ![w].job = NoRequest]
    /\ UNCHANGED <<queue, running, numThreads, rejecting, loop, csMain, opVars, async, told, mainVars>>

Calling(w, rpc) == worker[w].pc = "call" /\ Calls[worker[w].job] = rpc

\* No thread is inside a critical section of the async queue that takes more
\* than one step.
LockFree == main # "cancel"

\* A slip in addOperation: a closed queue takes operations.
addOperationAlways(o) ==
    /\ operation_map' = operation_map \cup {o}
    /\ id_queue' = Append(id_queue, o)
    /\ state' = [state EXCEPT ![o] = "READY"]
    /\ async' \in NotifyOne(async)

\* AsyncRPCQueue::addOperation.  On a closed queue the operation is dropped;
\* the caller returns its id all the same.
addOperation(o) ==
    IF closed THEN UNCHANGED <<operation_map, id_queue, state, async>>
    ELSE /\ operation_map' = operation_map \cup {o}
         /\ id_queue' = Append(id_queue, o)
         /\ state' = [state EXCEPT ![o] = "READY"]
         /\ async' \in NotifyOne(async)

z_sendmany(w) ==
    /\ Calling(w, "z_sendmany")
    /\ csMain = {} /\ LockFree
    /\ addOperation(worker[w].job)
    /\ Returned(w)
    /\ UNCHANGED <<httpVars, csMain, closed, outcome, told, mainVars>>

\* StartShutdown, by the RPC or by a signal.
stop(w) ==
    /\ Calling(w, "stop")
    /\ shutdown' = TRUE
    /\ Returned(w)
    /\ UNCHANGED <<httpVars, csMain, opVars, async, told, main, cancelling>>

HandleSIGTERM ==
    /\ ~shutdown
    /\ shutdown' = TRUE
    /\ UNCHANGED <<httpVars, worker, csMain, opVars, async, told, main, cancelling>>

\* A slip: cs_main is not taken.
getAllOperationIdsUnlocked(w) ==
    /\ Calling(w, "z_getoperationresult")
    /\ LockFree
    /\ worker' = [worker EXCEPT ![w].pc = "collect", ![w].ids = operation_map]
    /\ UNCHANGED <<httpVars, csMain, opVars, async, told, mainVars>>

\* z_getoperationresult: under cs_main and cs_wallet, the known ids ...
getAllOperationIds(w) ==
    /\ Calling(w, "z_getoperationresult")
    /\ csMain = {} /\ LockFree
    /\ csMain' = {w}
    /\ worker' = [worker EXCEPT ![w].pc = "collect", ![w].ids = operation_map]
    /\ UNCHANGED <<httpVars, opVars, async, told, mainVars>>

\* ... then for each that is still in the map ...
getOperationForId(w, o) ==
    /\ worker[w].pc = "collect" /\ o \in worker[w].ids /\ LockFree
    /\ worker' = IF o \in operation_map
                 THEN [worker EXCEPT ![w].pc = "status", ![w].ids = @ \ {o}, ![w].seen = o]
                 ELSE [worker EXCEPT ![w].ids = @ \ {o}]
    /\ UNCHANGED <<httpVars, csMain, opVars, async, told, mainVars>>

\* ... its status, read without the lock of the queue: a final one is
\* reported ...
getStatus(w) ==
    /\ worker[w].pc = "status"
    /\ IF state[worker[w].seen] \in Final
       THEN /\ told' = [told EXCEPT ![worker[w].seen] =
                          @ \cup {<<worker[w].job, state[worker[w].seen]>>}]
            /\ worker' = [worker EXCEPT ![w].pc = "pop"]
       ELSE /\ worker' = [worker EXCEPT ![w].pc = "collect", ![w].seen = NoRequest]
            /\ UNCHANGED told
    /\ UNCHANGED <<httpVars, csMain, opVars, async, mainVars>>

\* ... and forgotten.
popOperationForId(w) ==
    /\ worker[w].pc = "pop" /\ LockFree
    /\ operation_map' = operation_map \ {worker[w].seen}
    /\ worker' = [worker EXCEPT ![w].pc = "collect", ![w].seen = NoRequest]
    /\ UNCHANGED <<httpVars, csMain, id_queue, closed, state, outcome, async, told, mainVars>>

z_getoperationresult(w) ==
    /\ worker[w].pc = "collect" /\ worker[w].ids = {}
    /\ csMain' = csMain \ {w}
    /\ Returned(w)
    /\ UNCHANGED <<httpVars, opVars, async, told, mainVars>>

----------------------------------------------------------------------------
(***************************************************************************)
(* The async worker.                                                       *)
(***************************************************************************)
\* AsyncRPCQueue::run up to the operation.
AsyncRun(a) ==
    /\ async[a].pc = "fetch" /\ LockFree
    /\ IF closed THEN async' = [async EXCEPT ![a].pc = "gone"] /\ id_queue' = <<>>
       ELSE IF id_queue = <<>> THEN async' = [async EXCEPT ![a].pc = "asleep"] /\ UNCHANGED id_queue
       ELSE /\ id_queue' = Tail(id_queue)
            /\ async' = IF Head(id_queue) \in operation_map
                        THEN [async EXCEPT ![a].pc = "check", ![a].job = Head(id_queue)]
                        ELSE async
    /\ UNCHANGED <<httpVars, worker, csMain, operation_map, closed, state, outcome, told, mainVars>>

\* The test in main(), repeated from run().
isCancelled(a) ==
    /\ async[a].pc = "check"
    /\ async' = IF state[async[a].job] = "CANCELLED"
                THEN [async EXCEPT ![a].pc = "fetch", ![a].job = NoRequest]
                ELSE [async EXCEPT ![a].pc = "begin"]
    /\ UNCHANGED <<httpVars, worker, csMain, opVars, told, mainVars>>

\* The state is stored without looking at it again.
Executing(a) ==
    /\ async[a].pc = "begin"
    /\ state' = [state EXCEPT ![async[a].job] = "EXECUTING"]
    /\ async' = [async EXCEPT ![a].pc = "execute"]
    /\ UNCHANGED <<httpVars, worker, csMain, operation_map, id_queue, closed, outcome, told, mainVars>>

Finished(a) ==
    /\ async[a].pc = "execute"
    /\ state' = [state EXCEPT ![async[a].job] = "ENDED"]
    /\ outcome' = [outcome EXCEPT ![async[a].job] = "ENDED"]
    /\ async' = [async EXCEPT ![a].pc = "fetch", ![a].job = NoRequest]
    /\ UNCHANGED <<httpVars, worker, csMain, operation_map, id_queue, closed, told, mainVars>>

----------------------------------------------------------------------------
(***************************************************************************)
(* The main thread: WaitForShutdown, Interrupt, Shutdown.                  *)
(***************************************************************************)
MainStep(from, to) == main = from /\ main' = to

\* InterruptHTTPServer: new requests are rejected first ...
RejectRequests ==
    /\ shutdown
    /\ MainStep("wait", "interrupt")
    /\ rejecting' = TRUE
    /\ UNCHANGED <<reply, queue, running, numThreads, loop, worker, csMain, opVars, async, told,
                   shutdown, cancelling>>

\* A slip: the workers are not notified.
InterruptSilently ==
    /\ MainStep("interrupt", "close")
    /\ running' = FALSE
    /\ UNCHANGED <<reply, queue, numThreads, rejecting, loop, worker, csMain, opVars, async, told,
                   shutdown, cancelling>>

\* ... then the workers are told to leave (WorkQueue::Interrupt).
InterruptWorkQueue ==
    /\ MainStep("interrupt", "close")
    /\ running' = FALSE
    /\ worker' = Woken(worker)
    /\ UNCHANGED <<reply, queue, numThreads, rejecting, loop, csMain, opVars, async, told,
                   shutdown, cancelling>>

\* AsyncRPCQueue::close: closed_ is stored without the lock, then
\* cancelAllOperations takes it.
close ==
    /\ MainStep("close", "lock")
    /\ closed' = TRUE
    /\ UNCHANGED <<httpVars, worker, csMain, operation_map, id_queue, state, outcome, async, told,
                   shutdown, cancelling>>

cancelAllOperations ==
    /\ MainStep("lock", "cancel")
    /\ cancelling' = [left |-> operation_map, ready |-> {}]
    /\ UNCHANGED <<httpVars, worker, csMain, opVars, async, told, shutdown>>

\* AsyncRPCOperation::cancel: the state is read, and stored a moment later.
isReady(o) ==
    /\ main = "cancel" /\ cancelling.ready = {} /\ o \in cancelling.left
    /\ cancelling' = [left |-> cancelling.left \ {o},
                      ready |-> IF state[o] = "READY" THEN {o} ELSE {}]
    /\ UNCHANGED <<httpVars, worker, csMain, opVars, async, told, shutdown, main>>

cancel(o) ==
    /\ main = "cancel" /\ o \in cancelling.ready
    /\ state' = [state EXCEPT ![o] = "CANCELLED"]
    /\ cancelling' = [cancelling EXCEPT !.ready = {}]
    /\ UNCHANGED <<httpVars, worker, csMain, operation_map, id_queue, closed, outcome, async, told,
                   shutdown, main>>

\* The notify_all at the end of cancelAllOperations, and the one of
\* wait_for_worker_threads.
cancelled ==
    /\ cancelling = [left |-> {}, ready |-> {}]
    /\ MainStep("cancel", "notify")
    /\ async' = Woken(async)
    /\ UNCHANGED <<httpVars, worker, csMain, opVars, told, shutdown, cancelling>>

wait_for_worker_threads ==
    /\ MainStep("notify", "join")
    /\ async' = Woken(async)
    /\ UNCHANGED <<httpVars, worker, csMain, opVars, told, shutdown, cancelling>>

Join ==
    /\ \A a \in AsyncWorker : async[a].pc = "gone"
    /\ MainStep("join", "exit")
    /\ UNCHANGED <<httpVars, worker, csMain, opVars, async, told, shutdown, cancelling>>

\* A slip in WaitExit: what is counted is not looked at.
WaitExitUncounted ==
    /\ MainStep("exit", "delete")
    /\ UNCHANGED <<httpVars, worker, csMain, opVars, async, told, shutdown, cancelling>>

\* StopHTTPServer: WorkQueue::WaitExit ...
WaitExit ==
    /\ MainStep("exit", IF numThreads > 0 THEN "waitexit" ELSE "delete")
    /\ UNCHANGED <<httpVars, worker, csMain, opVars, async, told, shutdown, cancelling>>

\* ... ~WorkQueue, which deletes the items nobody took: ~HTTPRequest replies
\* "Unhandled request" ...
DeleteWorkQueue ==
    /\ MainStep("delete", "loopexit")
    /\ queue' = <<>>
    /\ reply' = [r \in Request |-> IF \E i \in DOMAIN queue : queue[i] = r THEN "triggered"
                                   ELSE reply[r]]
    /\ UNCHANGED <<running, numThreads, rejecting, loop, worker, csMain, opVars, async, told,
                   shutdown, cancelling>>

\* ... event_base_loopexit, and after two seconds event_base_loopbreak ...
LoopExit ==
    /\ MainStep("loopexit", "joinhttp")
    /\ loop' = "exits"
    /\ UNCHANGED <<reply, queue, running, numThreads, rejecting, worker, csMain, opVars, async,
                   told, shutdown, cancelling>>

LoopBreak ==
    /\ main = "joinhttp" /\ loop = "exits"
    /\ loop' = "breaks"
    /\ UNCHANGED <<reply, queue, running, numThreads, rejecting, worker, csMain, opVars, async,
                   told, mainVars>>

\* ... and the event thread is joined.
StopHTTPServer ==
    /\ loop \in {"ended", "broken"}
    /\ MainStep("joinhttp", "stopped")
    /\ UNCHANGED <<httpVars, worker, csMain, opVars, async, told, shutdown, cancelling>>

----------------------------------------------------------------------------
\* cond.wait may return without a notification.
SpuriousHttp(w) ==
    /\ worker[w].pc = "asleep"
    /\ worker' = [worker EXCEPT ![w].pc = "fetch"]
    /\ UNCHANGED <<httpVars, csMain, opVars, async, told, mainVars>>

SpuriousAsync(a) ==
    /\ async[a].pc = "asleep"
    /\ async' = [async EXCEPT ![a].pc = "fetch"]
    /\ UNCHANGED <<httpVars, worker, csMain, opVars, told, mainVars>>

EventStep ==
    \/ \E r \in Request : http_reject_request_cb(r) \/ httpevent_callback_fn(r)
    \/ ThreadHTTP

HttpStep(w) ==
    \/ Run(w) \/ ThreadCounterGone(w) \/ z_sendmany(w) \/ stop(w) \/ WriteReply(w)
    \/ getAllOperationIds(w) \/ getStatus(w) \/ popOperationForId(w) \/ z_getoperationresult(w)
    \/ \E o \in Operation : getOperationForId(w, o)

AsyncStep(a) ==
    AsyncRun(a) \/ isCancelled(a) \/ Executing(a) \/ Finished(a)

Shutdown ==
    \/ RejectRequests \/ InterruptWorkQueue \/ close \/ cancelAllOperations
    \/ \E o \in Operation : isReady(o) \/ cancel(o)
    \/ cancelled \/ wait_for_worker_threads \/ Join
    \/ WaitExit \/ DeleteWorkQueue \/ LoopExit \/ StopHTTPServer

Next ==
    \/ \E r \in Request : http_request_cb(r)
    \/ EventStep
    \/ \E w \in HttpWorker : HttpStep(w) \/ SpuriousHttp(w)
    \/ \E a \in AsyncWorker : AsyncStep(a) \/ SpuriousAsync(a)
    \/ HandleSIGTERM
    \/ Shutdown
    \/ LoopBreak

Spec == Init /\ [][Next]_vars

\* Every thread goes on while it can; requests, signals, spurious wake-ups and
\* the two seconds need not come.
FairSpec ==
    /\ Spec
    /\ WF_vars(EventStep) /\ WF_vars(Shutdown)
    /\ \A w \in HttpWorker : WF_vars(HttpStep(w))
    /\ \A a \in AsyncWorker : WF_vars(AsyncStep(a))

----------------------------------------------------------------------------
\* The values of the variables.
Collecting == {"collect", "status", "pop"}
Serving == Collecting \cup {"call", "reply"}
Working == {"check", "begin", "execute"}
WorkerState == [pc : {"fetch", "asleep", "leave", "gone"} \cup Serving,
                job : Request \cup {NoRequest}, ids : SUBSET Operation,
                seen : Operation \cup {NoRequest}]
AsyncState == [pc : {"fetch", "asleep", "gone"} \cup Working, job : Operation \cup {NoRequest}]
TypeOK ==
    /\ reply \in [Request -> {"none", "accepted", "triggered", "sent"}]
    /\ queue \in Seq(Request) /\ Len(queue) <= maxDepth
    /\ running \in BOOLEAN /\ rejecting \in BOOLEAN
    /\ loop \in {"runs", "exits", "breaks", "ended", "broken"}
    /\ worker \in [HttpWorker -> WorkerState] /\ async \in [AsyncWorker -> AsyncState]
    /\ operation_map \subseteq Operation /\ id_queue \in Seq(Operation)
    /\ closed \in BOOLEAN /\ shutdown \in BOOLEAN
    /\ state \in [Operation -> {"none", "READY", "EXECUTING"} \cup Final]
    /\ outcome \in [Operation -> {"none", "ENDED"}]
    /\ told \in [Operation -> SUBSET (Request \X Final)]
    /\ cancelling \in [left : SUBSET Operation, ready : SUBSET Operation]

\* cs_main is held exactly by the thread that collects results; numThreads
\* counts the threads inside Run.
WorkersInv ==
    /\ csMain = {w \in HttpWorker : worker[w].pc \in Collecting}
    /\ \A v, w \in csMain : v = w
    /\ numThreads = Cardinality({w \in HttpWorker : worker[w].pc # "gone"})

\* An accepted request is in the queue, once, or with one worker, never in both.
Queued == {queue[i] : i \in DOMAIN queue}
RequestsInv ==
    /\ \A i, j \in DOMAIN queue : queue[i] = queue[j] => i = j
    /\ \A w \in HttpWorker :
          /\ (worker[w].job # NoRequest) <=> (worker[w].pc \in Serving)
          /\ worker[w].job \notin Queued
          /\ \A v \in HttpWorker : (worker[v].job = worker[w].job) => (worker[w].job = NoRequest \/ v = w)
    /\ \A r \in Request :
          (reply[r] = "accepted") <=> (r \in Queued \/ \E w \in HttpWorker : worker[w].job = r)

\* The handler of request r has returned, the reply may still be to come.
Answering(r) ==
    \/ reply[r] \in {"triggered", "sent"}
    \/ \E w \in HttpWorker : worker[w].pc = "reply" /\ worker[w].job = r

\* An operation is known once its z_sendmany has added it, before the caller
\* learns its id, until its end is reported, once, and the thread that reports
\* it has forgotten it.
OperationInv(o) ==
    /\ (o \in operation_map \/ told[o] # {}) => Answering(o)
    /\ state[o] = "READY" => o \in operation_map
    /\ state[o] = "EXECUTING" => \E a \in AsyncWorker : async[a].pc = "execute" /\ async[a].job = o
    /\ state[o] = "ENDED" => outcome[o] = "ENDED"
    /\ state[o] = "CANCELLED" => closed
    /\ told[o] # {} =>
          /\ \E r \in Request : \/ told[o] = {<<r, "ENDED">>} /\ outcome[o] = "ENDED"
                                \/ told[o] = {<<r, "CANCELLED">>} /\ closed
          /\ o \in operation_map => \E w \in HttpWorker : worker[w].pc = "pop" /\ worker[w].seen = o
OperationsInv ==
    /\ \A o \in Operation : OperationInv(o)
    /\ \A w \in HttpWorker :
          /\ worker[w].pc \in {"status", "pop"} => worker[w].seen \in operation_map
          /\ worker[w].pc = "pop" => state[worker[w].seen] # "READY"
    /\ \A a \in AsyncWorker : (async[a].job # NoRequest) <=> (async[a].pc \in Working)

\* The order of Interrupt and Shutdown.  The async workers are joined before
\* the queue is deleted, and it is deleted when the last worker has left
\* ("Precondition: worker threads have all stopped", ~WorkQueue) and not a
\* moment before; after it was closed no operation is ready to start.
Stopping == {"delete", "loopexit", "joinhttp", "stopped"}
Joined == {"exit", "waitexit"} \cup Stopping
StoppingInv ==
    /\ main \in {"wait", "interrupt", "close", "lock", "cancel", "notify", "join"} \cup Joined
    /\ main # "wait" => rejecting
    /\ main \notin {"wait", "interrupt", "close"} => closed
    /\ main = "cancel" =>
          \A o \in Operation : state[o] = "READY" => o \in cancelling.left \cup cancelling.ready
    /\ \A o, p \in cancelling.ready : o = p
    /\ main \in ({"notify", "join"} \cup Joined) => \A o \in Operation : state[o] # "READY"
    /\ main \in Joined => \A a \in AsyncWorker : async[a].pc = "gone"
    /\ \A a \in AsyncWorker : async[a].pc = "gone" => closed /\ id_queue = <<>>
    /\ main \in Stopping => \A w \in HttpWorker : worker[w].pc = "gone"
    /\ main \in (Stopping \ {"delete"}) => queue = <<>>
    /\ loop # "runs" => main \in {"joinhttp", "stopped"}
    /\ main = "stopped" => loop \in {"ended", "broken"}
    /\ loop = "ended" => \A r \in Request : reply[r] # "triggered"

\* What the threads agree on at every moment: the types and the four above.
ServicesInv == TypeOK /\ WorkersInv /\ RequestsInv /\ OperationsInv /\ StoppingInv

\* z_getoperationresult reports the end of an operation once, to one caller,
\* although the status is read and the operation forgotten under different
\* locks; and what it reports is how main() ended, or that it was cancelled,
\* which only a shutdown does.
ResultOnce ==
    \A o \in Operation :
        /\ Cardinality(told[o]) <= 1
        /\ \A t \in told[o] : t[2] = outcome[o] \/ (t[2] = "CANCELLED" /\ closed)

\* When the server has stopped nobody is left without an answer: every request
\* that was taken has been replied to, unless the event loop had to be broken,
\* and every operation that was taken has ended or was cancelled, also those
\* that handlers added while the queue was being closed.
NothingLeft ==
    main = "stopped" =>
        /\ \A r \in Request : reply[r] # "accepted" /\ (reply[r] = "triggered" => loop = "broken")
        /\ \A o \in Operation : state[o] \in Final \cup {"none"}
        /\ id_queue = <<>>

\* A shutdown that is requested is completed, whatever the workers are doing
\* and however the wake-ups fall.
ShutdownCompletes == shutdown ~> main = "stopped"
=============================================================================
