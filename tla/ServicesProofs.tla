--------------------------- MODULE ServicesProofs ---------------------------
(***************************************************************************)
(* Proofs about Services, for any number of requests and of threads.       *)
(***************************************************************************)
EXTENDS Services, FiniteSetTheorems, TLAPS

\* Zenon is the default; the steps that need arithmetic, records or functions name SMT.
USE ZenonT(40)

----------------------------------------------------------------------------
(***************************************************************************)
(* The types, and what a step does to the threads.                         *)
(***************************************************************************)
\* A thread whose state is s, while others are notified.
Kept(s, t) == t = s \/ (s.pc = "asleep" /\ t = [s EXCEPT !.pc = "fetch"])

\* notify_one and notify_all wake sleeping threads and do nothing else.
LEMMA Notified ==
    ASSUME NEW T, NEW S, NEW f \in [T -> S], NEW g, g = Woken(f) \/ g \in NotifyOne(f)
    PROVE  g = [t \in T |-> g[t]] /\ \A t \in T : Kept(f[t], g[t])
  <1>0. f = [t \in T |-> f[t]] /\ DOMAIN f = T
    OBVIOUS
  <1>1. CASE g = Woken(f)
    BY <1>0, <1>1 DEF Woken, Kept
  <1>2. CASE g = f
    BY <1>0, <1>2 DEF Kept
  <1>3. CASE \E u \in T : f[u].pc = "asleep" /\ g = [f EXCEPT ![u].pc = "fetch"]
    BY SMT, <1>0, <1>3 DEF Kept
  <1>. QED
    BY <1>0, <1>1, <1>2, <1>3 DEF NotifyOne

\* Such a thread keeps its request, and is where it was or awake.
LEMMA KeptWorker ==
    ASSUME NEW s \in WorkerState, NEW t, Kept(s, t)
    PROVE  /\ t \in WorkerState /\ t.job = s.job /\ t.ids = s.ids /\ t.seen = s.seen
           /\ t.pc = s.pc \/ (s.pc = "asleep" /\ t.pc = "fetch")
  BY SMT DEF Kept, WorkerState

\* An async worker likewise keeps its operation.
LEMMA KeptAsync ==
    ASSUME NEW s \in AsyncState, NEW t, Kept(s, t)
    PROVE  /\ t \in AsyncState /\ t.job = s.job
           /\ t.pc = s.pc \/ (s.pc = "asleep" /\ t.pc = "fetch")
  BY SMT DEF Kept, AsyncState

Others(w) == \A v \in HttpWorker \ {w} : worker'[v] = worker[v]
WorkerTypes == worker \in [HttpWorker -> WorkerState] /\ NoRequest \notin Request

\* Assignments to two fields of a worker.
WorkerPc == {"fetch", "asleep", "leave", "gone"} \cup Serving

\* Its place and its request.
PcJob(f, w, p, x) == [f EXCEPT ![w].pc = p, ![w].job = x]
\* What PcJob(w, p, j) leaves: pc and job of w are set, the rest is kept.
LEMMA SetPcJob ==
    ASSUME NEW f \in [HttpWorker -> WorkerState], NEW w \in HttpWorker, NEW p \in WorkerPc,
           NEW x \in Request \cup {NoRequest}, NEW g, g = PcJob(f, w, p, x)
    PROVE  /\ g \in [HttpWorker -> WorkerState] /\ \A v \in HttpWorker \ {w} : g[v] = f[v]
           /\ g[w].pc = p /\ g[w].job = x /\ g[w].seen = f[w].seen
  <1>. DEFINE h == [f EXCEPT ![w].pc = p]
  <1>1. g = [h EXCEPT ![w].job = x]
    BY DEF PcJob
  <1>2. /\ h \in [HttpWorker -> WorkerState] /\ \A v \in HttpWorker \ {w} : h[v] = f[v]
        /\ h[w].pc = p /\ h[w].job = f[w].job /\ h[w].seen = f[w].seen
    BY SMT DEF WorkerState, WorkerPc
  <1>. HIDE DEF h
  <1>. QED
    BY SMT, <1>1, <1>2 DEF WorkerState

\* Its place and the ids to look at.
PcIds(f, w, p, x) == [f EXCEPT ![w].pc = p, ![w].ids = x]
\* What PcIds(w, p, i) leaves: pc and ids of w are set, the rest is kept.
LEMMA SetPcIds ==
    ASSUME NEW f \in [HttpWorker -> WorkerState], NEW w \in HttpWorker, NEW p \in WorkerPc,
           NEW x \in SUBSET Operation, NEW g, g = PcIds(f, w, p, x)
    PROVE  /\ g \in [HttpWorker -> WorkerState] /\ \A v \in HttpWorker \ {w} : g[v] = f[v]
           /\ g[w].pc = p /\ g[w].job = f[w].job /\ g[w].seen = f[w].seen
  <1>. DEFINE h == [f EXCEPT ![w].pc = p]
  <1>1. g = [h EXCEPT ![w].ids = x]
    BY DEF PcIds
  <1>2. /\ h \in [HttpWorker -> WorkerState] /\ \A v \in HttpWorker \ {w} : h[v] = f[v]
        /\ h[w].pc = p /\ h[w].job = f[w].job /\ h[w].seen = f[w].seen
    BY SMT DEF WorkerState, WorkerPc
  <1>. HIDE DEF h
  <1>. QED
    BY SMT, <1>1, <1>2 DEF WorkerState

\* Its place and the operation it looks at.
PcSeen(f, w, p, x) == [f EXCEPT ![w].pc = p, ![w].seen = x]
\* What PcSeen(w, p, s) leaves: pc and seen of w are set, the rest is kept.
LEMMA SetPcSeen ==
    ASSUME NEW f \in [HttpWorker -> WorkerState], NEW w \in HttpWorker, NEW p \in WorkerPc,
           NEW x \in Operation \cup {NoRequest}, NEW g, g = PcSeen(f, w, p, x)
    PROVE  /\ g \in [HttpWorker -> WorkerState] /\ \A v \in HttpWorker \ {w} : g[v] = f[v]
           /\ g[w].pc = p /\ g[w].job = f[w].job /\ g[w].seen = x
  <1>. DEFINE h == [f EXCEPT ![w].pc = p]
  <1>1. g = [h EXCEPT ![w].seen = x]
    BY DEF PcSeen
  <1>2. /\ h \in [HttpWorker -> WorkerState] /\ \A v \in HttpWorker \ {w} : h[v] = f[v]
        /\ h[w].pc = p /\ h[w].job = f[w].job /\ h[w].seen = f[w].seen
    BY SMT DEF WorkerState, WorkerPc
  <1>. HIDE DEF h
  <1>. QED
    BY SMT, <1>1, <1>2 DEF WorkerState

\* What the steps of a worker do to it; the other workers stay where they are.
LEMMA RunEffect ==
    ASSUME WorkerTypes, queue \in Seq(Request), NEW w \in HttpWorker, Run(w)
    PROVE  /\ worker' \in [HttpWorker -> WorkerState] /\ Others(w) /\ queue' \in Seq(Request)
           /\ worker'[w].seen = worker[w].seen
           /\ \/ worker'[w].pc \in {"leave", "asleep"} /\ worker'[w].job = worker[w].job /\ queue' = queue
              \/ /\ queue # <<>> /\ worker'[w].pc = "call"
                 /\ worker'[w].job = Head(queue) /\ queue' = Tail(queue)
  <1>1. CASE worker' = [worker EXCEPT ![w].pc = "leave"] /\ queue' = queue
    BY SMTT(30), <1>1 DEF Others, WorkerTypes, WorkerState
  <1>2. CASE worker' = [worker EXCEPT ![w].pc = "asleep"] /\ queue' = queue
    BY SMTT(30), <1>2 DEF Others, WorkerTypes, WorkerState
  <1>3. CASE queue # <<>> /\ worker' = [worker EXCEPT ![w].pc = "call", ![w].job = Head(queue)]
             /\ queue' = Tail(queue)
    <2>1. Head(queue) \in Request /\ queue' \in Seq(Request)
      BY SMT, <1>3
    <2>2. worker' = PcJob(worker, w, "call", Head(queue)) /\ "call" \in WorkerPc
      BY <1>3 DEF PcJob, WorkerPc, Serving
    <2>3. /\ worker' \in [HttpWorker -> WorkerState] /\ Others(w) /\ worker'[w].seen = worker[w].seen
          /\ worker'[w].pc = "call" /\ worker'[w].job = Head(queue)
      BY SMT, <2>1, <2>2, SetPcJob DEF Others, WorkerTypes
    <2>. QED
      BY <1>3, <2>1, <2>3
  <1>. QED
    BY <1>1, <1>2, <1>3 DEF Run

\* Returned: the worker keeps its request until it has replied.
LEMMA ReturnEffect ==
    ASSUME WorkerTypes, NEW w \in HttpWorker, Returned(w)
    PROVE  /\ worker' \in [HttpWorker -> WorkerState] /\ Others(w)
           /\ worker'[w].pc = "reply" /\ worker'[w].job = worker[w].job
  BY SMT DEF Returned, Others, WorkerTypes, WorkerState, Serving

\* WriteReply: the worker goes back to the queue and its request is answered.
LEMMA ReplyEffect ==
    ASSUME WorkerTypes, NEW w \in HttpWorker, WriteReply(w)
    PROVE  /\ worker' \in [HttpWorker -> WorkerState] /\ Others(w)
           /\ worker'[w].pc = "fetch" /\ worker'[w].job = NoRequest
  <1>1. worker' = PcJob(worker, w, "fetch", NoRequest) /\ "fetch" \in WorkerPc
    BY DEF WriteReply, PcJob, WorkerPc
  <1>. QED
    BY SMT, <1>1, SetPcJob DEF Others, WorkerTypes

\* ThreadCounterGone: the worker leaves Run and is never seen again.
LEMMA LeaveEffect ==
    ASSUME WorkerTypes, NEW w \in HttpWorker, ThreadCounterGone(w)
    PROVE  /\ worker' \in [HttpWorker -> WorkerState]
           /\ \A v \in HttpWorker \ {w} : Kept(worker[v], worker'[v])
           /\ worker'[w].pc = "gone" /\ worker'[w].job = worker[w].job
  <1>. DEFINE g == Woken(worker)
  <1>1. g = [v \in HttpWorker |-> g[v]] /\ \A v \in HttpWorker : Kept(worker[v], g[v])
    BY Notified DEF WorkerTypes
  <1>2. \A v \in HttpWorker : g[v] \in WorkerState /\ g[v].job = worker[v].job
    BY <1>1, KeptWorker DEF WorkerTypes
  <1>3. worker' = [g EXCEPT ![w].pc = "gone"]
    BY DEF ThreadCounterGone
  <1>. HIDE DEF g
  <1>4. worker' \in [HttpWorker -> WorkerState] /\ worker'[w].pc = "gone" /\ worker'[w].job = g[w].job
        /\ \A v \in HttpWorker \ {w} : worker'[v] = g[v]
    BY SMT, <1>1, <1>2, <1>3 DEF WorkerState
  <1>. QED
    BY <1>1, <1>2, <1>4

\* getAllOperationIds: the worker holds a copy of the keys.
LEMMA CollectEffect ==
    ASSUME WorkerTypes, operation_map \subseteq Operation, NEW w \in HttpWorker, getAllOperationIds(w)
    PROVE  /\ worker' \in [HttpWorker -> WorkerState] /\ Others(w)
           /\ worker'[w].pc = "collect" /\ worker'[w].job = worker[w].job
  <1>1. worker' = PcIds(worker, w, "collect", operation_map) /\ "collect" \in WorkerPc
    BY DEF getAllOperationIds, PcIds, WorkerPc, Serving, Collecting
  <1>. QED
    BY SMT, <1>1, SetPcIds DEF Others, WorkerTypes

\* getOperationForId: the worker holds an operation, or passes to the next id.
LEMMA LookEffect ==
    ASSUME WorkerTypes, NEW w \in HttpWorker, NEW o \in Operation, getOperationForId(w, o)
    PROVE  /\ worker' \in [HttpWorker -> WorkerState] /\ Others(w) /\ worker'[w].job = worker[w].job
           /\ \/ worker'[w].pc = "collect"
              \/ worker'[w].pc = "status" /\ worker'[w].seen = o /\ o \in operation_map
  <1>1. CASE worker' = [worker EXCEPT ![w].pc = "status", ![w].ids = @ \ {o}, ![w].seen = o]
             /\ o \in operation_map
    <2>. DEFINE h == [worker EXCEPT ![w].pc = "status", ![w].ids = @ \ {o}]
    <2>1. worker' = [h EXCEPT ![w].seen = o]
      BY <1>1 DEF WorkerTypes
    <2>2. h = PcIds(worker, w, "status", worker[w].ids \ {o}) /\ "status" \in WorkerPc
      BY DEF WorkerTypes, PcIds, WorkerPc, Serving, Collecting
    <2>3. worker[w].ids \ {o} \in SUBSET Operation
      BY SMT DEF WorkerTypes, WorkerState
    <2>. HIDE DEF h
    <2>4. /\ h \in [HttpWorker -> WorkerState] /\ \A v \in HttpWorker \ {w} : h[v] = worker[v]
          /\ h[w].pc = "status" /\ h[w].job = worker[w].job
      BY SMT, <2>2, <2>3, SetPcIds DEF WorkerTypes
    <2>5. /\ worker' \in [HttpWorker -> WorkerState] /\ Others(w) /\ worker'[w].job = worker[w].job
          /\ worker'[w].pc = "status" /\ worker'[w].seen = o
      BY SMT, <2>1, <2>4 DEF Others, WorkerState
    <2>. QED
      BY <1>1, <2>5
  <1>2. CASE worker' = [worker EXCEPT ![w].ids = @ \ {o}] /\ worker[w].pc = "collect"
    BY SMT, <1>2 DEF Others, WorkerTypes, WorkerState, Serving, Collecting
  <1>. QED
    BY <1>1, <1>2 DEF getOperationForId

\* getStatus: the operation is to be popped, or skipped.
LEMMA StatusEffect ==
    ASSUME WorkerTypes, NEW w \in HttpWorker, getStatus(w)
    PROVE  /\ worker' \in [HttpWorker -> WorkerState] /\ Others(w) /\ worker'[w].job = worker[w].job
           /\ \/ worker'[w].pc = "collect" /\ told' = told
              \/ /\ worker'[w].pc = "pop" /\ worker'[w].seen = worker[w].seen
                 /\ state[worker[w].seen] \in Final
                 /\ told' = [told EXCEPT ![worker[w].seen] =
                               @ \cup {<<worker[w].job, state[worker[w].seen]>>}]
  <1>1. CASE worker' = [worker EXCEPT ![w].pc = "pop"]
    BY SMT, <1>1 DEF Others, WorkerTypes, WorkerState, Serving, Collecting, getStatus
  <1>2. CASE worker' = [worker EXCEPT ![w].pc = "collect", ![w].seen = NoRequest] /\ told' = told
    <2>1. worker' = PcSeen(worker, w, "collect", NoRequest) /\ "collect" \in WorkerPc
      BY <1>2 DEF PcSeen, WorkerPc, Serving, Collecting
    <2>2. /\ worker' \in [HttpWorker -> WorkerState] /\ Others(w) /\ worker'[w].job = worker[w].job
          /\ worker'[w].pc = "collect"
      BY SMT, <2>1, SetPcSeen DEF Others, WorkerTypes
    <2>. QED
      BY <1>2, <2>2
  <1>. QED
    BY <1>1, <1>2 DEF getStatus

\* popOperationForId: the operation leaves the map.
LEMMA PopEffect ==
    ASSUME WorkerTypes, NEW w \in HttpWorker, popOperationForId(w)
    PROVE  /\ worker' \in [HttpWorker -> WorkerState] /\ Others(w) /\ worker'[w].job = worker[w].job
           /\ worker'[w].pc = "collect"
  <1>1. worker' = PcSeen(worker, w, "collect", NoRequest) /\ "collect" \in WorkerPc
    BY DEF popOperationForId, PcSeen, WorkerPc, Serving, Collecting
  <1>. QED
    BY SMT, <1>1, SetPcSeen DEF Others, WorkerTypes

\* All the other steps only wake workers.
LEMMA WorkersKept ==
    ASSUME WorkerTypes, [Next]_vars, ~ \E w \in HttpWorker : HttpStep(w)
    PROVE  worker' \in [HttpWorker -> WorkerState] /\ \A v \in HttpWorker : Kept(worker[v], worker'[v])
  <1>1. CASE worker' = worker
    BY <1>1 DEF WorkerTypes, Kept
  <1>2. CASE worker' = Woken(worker) \/ worker' \in NotifyOne(worker)
    <2>1. worker' = [v \in HttpWorker |-> worker'[v]] /\ \A v \in HttpWorker : Kept(worker[v], worker'[v])
      BY <1>2, Notified DEF WorkerTypes
    <2>2. \A v \in HttpWorker : worker'[v] \in WorkerState
      BY <2>1, KeptWorker DEF WorkerTypes
    <2>. QED
      BY <2>1, <2>2
  <1>3. CASE \E w \in HttpWorker : SpuriousHttp(w)
    <2>1. PICK w \in HttpWorker : worker[w].pc = "asleep" /\ worker' = [worker EXCEPT ![w].pc = "fetch"]
      BY <1>3 DEF SpuriousHttp
    <2>. QED
      BY <1>2, <2>1 DEF NotifyOne, WorkerTypes
  <1>4. CASE \E r \in Request : http_request_cb(r)
    BY <1>1, <1>2, <1>4 DEF http_request_cb
  <1>5. CASE EventStep \/ HandleSIGTERM \/ LoopBreak \/ UNCHANGED vars
    BY <1>1, <1>5 DEF EventStep, HandleSIGTERM, LoopBreak, vars, http_reject_request_cb,
                      httpevent_callback_fn, ThreadHTTP
  <1>6. CASE \E a \in AsyncWorker : AsyncStep(a) \/ SpuriousAsync(a)
    BY <1>1, <1>6 DEF AsyncStep, SpuriousAsync, AsyncRun, isCancelled, Executing, Finished
  <1>7. CASE Shutdown
    BY <1>1, <1>2, <1>7 DEF Shutdown, RejectRequests, InterruptWorkQueue, close, cancelAllOperations,
          isReady, cancel, cancelled, wait_for_worker_threads, Join, WaitExit, DeleteWorkQueue,
          LoopExit, StopHTTPServer
  <1>. QED
    BY <1>3, <1>4, <1>5, <1>6, <1>7 DEF Next

\* The async worker.
AsyncTypes == async \in [AsyncWorker -> AsyncState]
AsyncOthers(a) == \A b \in AsyncWorker \ {a} : async'[b] = async[b]

\* The async worker that takes a step, and the others.
LEMMA SetAsync ==
    ASSUME AsyncTypes, NEW a \in AsyncWorker, NEW p \in {"check", "fetch"},
           NEW x \in Operation \cup {NoRequest}, async' = PcJob(async, a, p, x)
    PROVE  async' \in [AsyncWorker -> AsyncState] /\ AsyncOthers(a) /\ async'[a].pc = p /\ async'[a].job = x
  <1>. DEFINE h == [async EXCEPT ![a].pc = p]
  <1>1. async' = [h EXCEPT ![a].job = x]
    BY DEF PcJob
  <1>2. /\ h \in [AsyncWorker -> AsyncState] /\ \A b \in AsyncWorker \ {a} : h[b] = async[b]
        /\ h[a].pc = p
    BY SMT DEF AsyncTypes, AsyncState, Working
  <1>. HIDE DEF h
  <1>. QED
    BY SMT, <1>1, <1>2 DEF AsyncState, AsyncOthers

\* Such a step leaves the thread in one of these places.
LEMMA AsyncEffect ==
    ASSUME AsyncTypes, id_queue \in Seq(Operation), NEW a \in AsyncWorker, AsyncStep(a)
    PROVE  /\ async' \in [AsyncWorker -> AsyncState] /\ AsyncOthers(a)
           /\ \/ /\ AsyncRun(a) /\ closed /\ id_queue' = <<>>
                 /\ async'[a].pc = "gone" /\ async'[a].job = async[a].job
              \/ /\ AsyncRun(a) /\ ~closed /\ id_queue' \in Seq(Operation)
                 /\ \/ async'[a].pc \in {"asleep", "fetch"} /\ async'[a].job = async[a].job
                    \/ async'[a].pc = "check" /\ async'[a].job \in Operation
              \/ isCancelled(a) /\ async'[a].pc = "fetch" /\ async'[a].job = NoRequest
              \/ isCancelled(a) /\ async'[a].pc = "begin" /\ async'[a].job = async[a].job
              \/ Executing(a) /\ async'[a].pc = "execute" /\ async'[a].job = async[a].job
              \/ Finished(a) /\ async'[a].pc = "fetch" /\ async'[a].job = NoRequest
  <1>1. CASE AsyncRun(a)
    <2>1. CASE closed
      <3>1. async' = [async EXCEPT ![a].pc = "gone"] /\ id_queue' = <<>>
        BY <1>1, <2>1 DEF AsyncRun
      <3>2. async' \in [AsyncWorker -> AsyncState] /\ AsyncOthers(a)
            /\ async'[a].pc = "gone" /\ async'[a].job = async[a].job
        BY SMT, <3>1 DEF AsyncTypes, AsyncState, AsyncOthers, Working
      <3>. QED
        BY <1>1, <2>1, <3>1, <3>2
    <2>2. CASE ~closed /\ id_queue = <<>>
      <3>1. async' = [async EXCEPT ![a].pc = "asleep"] /\ id_queue' = id_queue
        BY <1>1, <2>2 DEF AsyncRun
      <3>2. async' \in [AsyncWorker -> AsyncState] /\ AsyncOthers(a)
            /\ async'[a].pc = "asleep" /\ async'[a].job = async[a].job
        BY SMT, <3>1 DEF AsyncTypes, AsyncState, AsyncOthers, Working
      <3>. QED
        BY <1>1, <2>2, <3>1, <3>2
    <2>3. CASE ~closed /\ id_queue # <<>>
      <3>1. Head(id_queue) \in Operation /\ Tail(id_queue) \in Seq(Operation)
        BY SMT, <2>3
      <3>2. CASE async' = async
        BY <1>1, <2>3, <3>1, <3>2 DEF AsyncRun, AsyncTypes, AsyncOthers
      <3>3. CASE async' = PcJob(async, a, "check", Head(id_queue))
        BY <1>1, <2>3, <3>1, <3>3, SetAsync DEF AsyncRun
      <3>. QED
        BY <1>1, <2>3, <3>2, <3>3 DEF AsyncRun, PcJob
    <2>. QED
      BY <2>1, <2>2, <2>3
  <1>2. CASE isCancelled(a)
    <2>1. CASE async' = PcJob(async, a, "fetch", NoRequest)
      BY <1>2, <2>1, SetAsync
    <2>2. CASE async' = [async EXCEPT ![a].pc = "begin"]
      <3>1. async' \in [AsyncWorker -> AsyncState] /\ AsyncOthers(a)
            /\ async'[a].pc = "begin" /\ async'[a].job = async[a].job
        BY SMT, <2>2 DEF AsyncTypes, AsyncState, AsyncOthers, Working
      <3>. QED
        BY <1>2, <3>1
    <2>. QED
      BY <1>2, <2>1, <2>2 DEF isCancelled, PcJob
  <1>3. CASE Executing(a)
    <2>1. async' = [async EXCEPT ![a].pc = "execute"]
      BY <1>3 DEF Executing
    <2>2. async' \in [AsyncWorker -> AsyncState] /\ AsyncOthers(a)
          /\ async'[a].pc = "execute" /\ async'[a].job = async[a].job
      BY SMTT(30), <2>1 DEF AsyncTypes, AsyncState, AsyncOthers, Working
    <2>. QED
      BY <1>3, <2>2
  <1>4. CASE Finished(a)
    <2>1. async' = PcJob(async, a, "fetch", NoRequest)
      BY <1>4 DEF Finished, PcJob
    <2>. QED
      BY <1>4, <2>1, SetAsync
  <1>. QED
    BY <1>1, <1>2, <1>3, <1>4 DEF AsyncStep

\* All the other steps only wake async workers.
LEMMA AsyncKept ==
    ASSUME AsyncTypes, [Next]_vars, ~ \E a \in AsyncWorker : AsyncStep(a)
    PROVE  async' \in [AsyncWorker -> AsyncState] /\ \A a \in AsyncWorker : Kept(async[a], async'[a])
  <1>1. CASE async' = async
    BY <1>1 DEF AsyncTypes, Kept
  <1>2. CASE async' = Woken(async) \/ async' \in NotifyOne(async)
    <2>1. async' = [a \in AsyncWorker |-> async'[a]] /\ \A a \in AsyncWorker : Kept(async[a], async'[a])
      BY <1>2, Notified DEF AsyncTypes
    <2>2. \A a \in AsyncWorker : async'[a] \in AsyncState
      BY <2>1, KeptAsync DEF AsyncTypes
    <2>. QED
      BY <2>1, <2>2
  <1>3. CASE \E a \in AsyncWorker : SpuriousAsync(a)
    <2>1. PICK a \in AsyncWorker : async[a].pc = "asleep" /\ async' = [async EXCEPT ![a].pc = "fetch"]
      BY <1>3 DEF SpuriousAsync
    <2>. QED
      BY <1>2, <2>1 DEF NotifyOne, AsyncTypes
  <1>4. CASE \E w \in HttpWorker : z_sendmany(w)
    BY <1>1, <1>2, <1>4 DEF z_sendmany, addOperation
  <1>5. CASE \E w \in HttpWorker : (HttpStep(w) /\ ~z_sendmany(w)) \/ SpuriousHttp(w)
    BY <1>1, <1>5 DEF HttpStep, SpuriousHttp, Run, ThreadCounterGone, stop, WriteReply, getAllOperationIds,
          getOperationForId, getStatus, popOperationForId, z_getoperationresult
  <1>6. CASE EventStep \/ HandleSIGTERM \/ LoopBreak \/ UNCHANGED vars \/ \E r \in Request : http_request_cb(r)
    BY <1>1, <1>6 DEF EventStep, HandleSIGTERM, LoopBreak, vars, http_request_cb, http_reject_request_cb,
                      httpevent_callback_fn, ThreadHTTP
  <1>7. CASE Shutdown
    BY <1>1, <1>2, <1>7 DEF Shutdown, RejectRequests, InterruptWorkQueue, close, cancelAllOperations,
          isReady, cancel, cancelled, wait_for_worker_threads, Join, WaitExit, DeleteWorkQueue,
          LoopExit, StopHTTPServer
  <1>. QED
    BY <1>3, <1>4, <1>5, <1>6, <1>7 DEF Next

\* Which steps write the other variables.
LEMMA Writers ==
    ASSUME [Next]_vars
    PROVE  /\ \/ reply' = reply \/ DeleteWorkQueue
              \/ \E r \in Request : \/ http_request_cb(r) \/ http_reject_request_cb(r)
                                    \/ httpevent_callback_fn(r)
              \/ \E w \in HttpWorker : WriteReply(w)
           /\ \/ queue' = queue \/ DeleteWorkQueue
              \/ (\E r \in Request : http_request_cb(r)) \/ (\E w \in HttpWorker : Run(w))
           /\ csMain' = csMain \/ \E w \in HttpWorker : getAllOperationIds(w) \/ z_getoperationresult(w)
           /\ numThreads' = numThreads \/ \E w \in HttpWorker : ThreadCounterGone(w)
           /\ operation_map' = operation_map \/ \E w \in HttpWorker : z_sendmany(w) \/ popOperationForId(w)
           /\ told' = told \/ \E w \in HttpWorker : getStatus(w)
           /\ \/ id_queue' = id_queue \/ (\E w \in HttpWorker : z_sendmany(w))
              \/ (\E a \in AsyncWorker : AsyncRun(a))
           /\ \/ state' = state \/ (\E w \in HttpWorker : z_sendmany(w)) \/ (\E o \in Operation : cancel(o))
              \/ (\E a \in AsyncWorker : Executing(a) \/ Finished(a))
           /\ outcome' = outcome \/ \E a \in AsyncWorker : Finished(a)
           /\ closed' = closed \/ close
           /\ loop' = loop \/ ThreadHTTP \/ LoopExit \/ LoopBreak
           /\ rejecting' = rejecting \/ RejectRequests
           /\ running' = running \/ InterruptWorkQueue
           /\ shutdown' = shutdown \/ HandleSIGTERM \/ \E w \in HttpWorker : stop(w)
           /\ cancelling' = cancelling \/ cancelAllOperations \/ \E o \in Operation : isReady(o) \/ cancel(o)
           /\ \/ main' = main
              \/ Shutdown
              \/ \E w \in HttpWorker : ThreadCounterGone(w)
  <1>. USE DEF httpVars, opVars, mainVars
  <1>1. CASE UNCHANGED vars
    BY <1>1 DEF vars
  <1>2. CASE EventStep \/ HandleSIGTERM \/ LoopBreak \/ \E r \in Request : http_request_cb(r)
    BY <1>2 DEF EventStep, HandleSIGTERM, LoopBreak, http_request_cb, http_reject_request_cb,
                httpevent_callback_fn, ThreadHTTP
  <1>3. CASE \E w \in HttpWorker : HttpStep(w) \/ SpuriousHttp(w)
    BY <1>3 DEF HttpStep, SpuriousHttp, Run, ThreadCounterGone, z_sendmany, stop, WriteReply,
                getAllOperationIds, getOperationForId, getStatus, popOperationForId, z_getoperationresult
  <1>4. CASE \E a \in AsyncWorker : AsyncStep(a) \/ SpuriousAsync(a)
    BY <1>4 DEF AsyncStep, SpuriousAsync, AsyncRun, isCancelled, Executing, Finished
  <1>5. CASE Shutdown
    BY <1>5 DEF Shutdown, RejectRequests, InterruptWorkQueue, close, cancelAllOperations,
          isReady, cancel, cancelled, wait_for_worker_threads, Join, WaitExit, DeleteWorkQueue,
          LoopExit, StopHTTPServer
  <1>. QED
    BY <1>1, <1>2, <1>3, <1>4, <1>5 DEF Next

\* The states of the threads are of their types.
LEMMA ThreadTypes ==
    ASSUME TypeOK, [Next]_vars
    PROVE  worker' \in [HttpWorker -> WorkerState] /\ async' \in [AsyncWorker -> AsyncState]
  <1>0. WorkerTypes /\ AsyncTypes
    BY ThreadsAssumption DEF TypeOK, WorkerTypes, AsyncTypes
  <1>1. ASSUME NEW w \in HttpWorker, HttpStep(w) PROVE worker' \in [HttpWorker -> WorkerState]
    <2>1. CASE Run(w)
      BY <1>0, <2>1, RunEffect DEF TypeOK
    <2>2. CASE ThreadCounterGone(w)
      BY <1>0, <2>2, LeaveEffect
    <2>3. CASE Returned(w)
      BY <1>0, <2>3, ReturnEffect
    <2>4. CASE getAllOperationIds(w)
      BY <1>0, <2>4, CollectEffect DEF TypeOK
    <2>5. CASE getStatus(w)
      BY <1>0, <2>5, StatusEffect
    <2>6. CASE popOperationForId(w)
      BY <1>0, <2>6, PopEffect
    <2>7. CASE \E o \in Operation : getOperationForId(w, o)
      BY <1>0, <2>7, LookEffect
    <2>8. CASE WriteReply(w)
      BY <1>0, <2>8, ReplyEffect
    <2>. QED
      BY <1>1, <2>1, <2>2, <2>3, <2>4, <2>5, <2>6, <2>7, <2>8 DEF HttpStep, z_sendmany, stop, z_getoperationresult
  <1>. QED
    BY <1>0, <1>1, WorkersKept, AsyncKept, AsyncEffect DEF TypeOK

\* TypeOK is preserved.
LEMMA TypeStep == TypeOK /\ RequestsInv /\ [Next]_vars => TypeOK'
  <1>. SUFFICES ASSUME TypeOK, RequestsInv, [Next]_vars PROVE TypeOK'
    OBVIOUS
  <1>0. WorkerTypes /\ AsyncTypes
    BY ThreadsAssumption DEF TypeOK, WorkerTypes, AsyncTypes
  <1>1. worker' \in [HttpWorker -> WorkerState] /\ async' \in [AsyncWorker -> AsyncState]
    BY ThreadTypes
  <1>2. reply' \in [Request -> {"none", "accepted", "triggered", "sent"}]
    <2>1. reply \in [Request -> {"none", "accepted", "triggered", "sent"}]
      BY DEF TypeOK
    <2>2. CASE \E r \in Request, s \in {"accepted", "triggered", "sent"} : reply' = [reply EXCEPT ![r] = s]
      BY <2>1, <2>2
    <2>3. CASE \E w \in HttpWorker : WriteReply(w)
      BY <2>1, <2>3 DEF WriteReply
    <2>4. CASE DeleteWorkQueue
      BY <2>1, <2>4 DEF DeleteWorkQueue
    <2>. QED
      BY <2>1, <2>2, <2>3, <2>4, Writers DEF http_request_cb, http_reject_request_cb, httpevent_callback_fn
  <1>3. queue' \in Seq(Request) /\ Len(queue') <= maxDepth
    <2>0. queue \in Seq(Request) /\ Len(queue) <= maxDepth /\ maxDepth \in Nat
      BY DepthAssumption DEF TypeOK
    <2>1. CASE \E r \in Request : http_request_cb(r)
      <3>1. PICK r \in Request : queue' = queue \/ (Len(queue) < maxDepth /\ queue' = Append(queue, r))
        BY SMT, <2>0, <2>1 DEF http_request_cb
      <3>. QED
        BY SMTT(30), <2>0, <3>1
    <2>2. CASE \E w \in HttpWorker : Run(w)
      <3>1. queue' = queue \/ (queue # <<>> /\ queue' = Tail(queue))
        BY <2>2 DEF Run
      <3>. QED
        BY SMT, <2>0, <3>1
    <2>3. CASE DeleteWorkQueue
      <3>1. queue' = <<>>
        BY <2>3 DEF DeleteWorkQueue
      <3>. QED
        BY SMTT(30), <2>0, <3>1
    <2>. QED
      BY <2>0, <2>1, <2>2, <2>3, Writers
  <1>4. running' \in BOOLEAN /\ rejecting' \in BOOLEAN /\ closed' \in BOOLEAN /\ shutdown' \in BOOLEAN
    BY Writers DEF TypeOK, InterruptWorkQueue, RejectRequests, close, stop, HandleSIGTERM
  <1>5. loop' \in {"runs", "exits", "breaks", "ended", "broken"}
    BY Writers DEF TypeOK, ThreadHTTP, LoopExit, LoopBreak
  <1>6. operation_map' \subseteq Operation /\ id_queue' \in Seq(Operation)
    <2>1. CASE \E w \in HttpWorker : z_sendmany(w)
      <3>1. PICK w \in HttpWorker : z_sendmany(w)
        BY <2>1
      <3>2. worker[w].job \in Request
        BY SMT, <1>0, <3>1 DEF WorkerTypes, WorkerState, RequestsInv, z_sendmany, Calling, Serving
      <3>3. worker[w].job \in Operation
        BY <3>1, <3>2 DEF z_sendmany, Calling, Operation
      <3>4. \/ operation_map' = operation_map /\ id_queue' = id_queue
            \/ /\ operation_map' = operation_map \cup {worker[w].job}
               /\ id_queue' = Append(id_queue, worker[w].job)
        BY <3>1 DEF z_sendmany, addOperation
      <3>5. Append(id_queue, worker[w].job) \in Seq(Operation)
        BY SMT, <3>3 DEF TypeOK
      <3>. QED
        BY <3>3, <3>4, <3>5 DEF TypeOK
    <2>2. CASE \E w \in HttpWorker : popOperationForId(w)
      BY <2>2 DEF TypeOK, popOperationForId
    <2>3. CASE \E a \in AsyncWorker : AsyncRun(a)
      <3>1. operation_map' = operation_map
        BY <2>3 DEF AsyncRun
      <3>2. \/ id_queue' = <<>> \/ id_queue' = id_queue
            \/ (id_queue # <<>> /\ id_queue' = Tail(id_queue))
        BY <2>3 DEF AsyncRun
      <3>3. id_queue \in Seq(Operation)
        BY DEF TypeOK
      <3>4. <<>> \in Seq(Operation) /\ (id_queue # <<>> => Tail(id_queue) \in Seq(Operation))
        BY SMT, <3>3
      <3>. QED
        BY <3>1, <3>2, <3>3, <3>4 DEF TypeOK
    <2>. QED
      BY <2>1, <2>2, <2>3, Writers DEF TypeOK
  <1>7. state' \in [Operation -> {"none", "READY", "EXECUTING"} \cup Final]
    <2>1. state \in [Operation -> {"none", "READY", "EXECUTING"} \cup Final]
      BY DEF TypeOK
    <2>2. ASSUME NEW x, NEW s \in {"READY", "EXECUTING"} \cup Final, state' = [state EXCEPT ![x] = s]
          PROVE  state' \in [Operation -> {"none", "READY", "EXECUTING"} \cup Final]
      BY <2>1, <2>2
    <2>3. CASE \E w \in HttpWorker : z_sendmany(w)
      BY <2>1, <2>2, <2>3 DEF z_sendmany, addOperation
    <2>4. CASE \E o \in Operation : cancel(o)
      BY <2>2, <2>4 DEF cancel, Final
    <2>5. CASE \E a \in AsyncWorker : Executing(a) \/ Finished(a)
      BY <2>2, <2>5 DEF Executing, Finished, Final
    <2>. QED
      BY <2>1, <2>3, <2>4, <2>5, Writers
  <1>8. outcome' \in [Operation -> {"none", "ENDED"}]
    BY Writers DEF TypeOK, Finished
  <1>9. told' \in [Operation -> SUBSET (Request \X Final)]
    <2>1. CASE \E w \in HttpWorker : getStatus(w)
      <3>1. PICK w \in HttpWorker : getStatus(w)
        BY <2>1
      <3>2. worker[w].job \in Request
        BY SMTT(30), <1>0, <3>1 DEF WorkerTypes, WorkerState, RequestsInv, getStatus, Serving, Collecting
      <3>3. told' = told \/ \E s \in Final :
              told' = [told EXCEPT ![worker[w].seen] = @ \cup {<<worker[w].job, s>>}]
        BY <3>1 DEF getStatus
      <3>4. told \in [Operation -> SUBSET (Request \X Final)]
        BY DEF TypeOK
      <3>5. ASSUME NEW s \in Final, NEW x, told' = [told EXCEPT ![x] = @ \cup {<<worker[w].job, s>>}]
            PROVE  told' \in [Operation -> SUBSET (Request \X Final)]
        <4>1. <<worker[w].job, s>> \in Request \X Final
          BY <3>2
        <4>. QED
          BY <3>4, <3>5, <4>1
      <3>. QED
        BY <3>3, <3>4, <3>5
    <2>. QED
      BY <2>1, Writers DEF TypeOK
  <1>10. cancelling' \in [left : SUBSET Operation, ready : SUBSET Operation]
    <2>1. cancelling \in [left : SUBSET Operation, ready : SUBSET Operation] /\ operation_map \subseteq Operation
      BY DEF TypeOK
    <2>2. CASE cancelAllOperations
      BY SMT, <2>1, <2>2 DEF cancelAllOperations
    <2>3. CASE \E o \in Operation : isReady(o)
      BY SMT, <2>1, <2>3 DEF isReady
    <2>4. CASE \E o \in Operation : cancel(o)
      BY SMT, <2>1, <2>4 DEF cancel
    <2>. QED
      BY <2>1, <2>2, <2>3, <2>4, Writers
  <1>. QED
    BY <1>1, <1>2, <1>3, <1>4, <1>5, <1>6, <1>7, <1>8, <1>9, <1>10 DEF TypeOK

----------------------------------------------------------------------------
(***************************************************************************)
(* The requests and the workers that serve them.                           *)
(***************************************************************************)
\* A step that takes no worker in or out of the handler of
\* z_getoperationresult, or out of Run, touches neither the lock nor the count.
LEMMA WorkersStay ==
    ASSUME WorkersInv, csMain' = csMain, numThreads' = numThreads,
           \A v \in HttpWorker : /\ (worker'[v].pc \in Collecting) <=> (worker[v].pc \in Collecting)
                                 /\ (worker'[v].pc = "gone") <=> (worker[v].pc = "gone")
    PROVE  WorkersInv'
  <1>1. /\ {w \in HttpWorker : worker'[w].pc \in Collecting} = {w \in HttpWorker : worker[w].pc \in Collecting}
        /\ {w \in HttpWorker : worker'[w].pc # "gone"} = {w \in HttpWorker : worker[w].pc # "gone"}
    OBVIOUS
  <1>. QED
    BY <1>1 DEF WorkersInv

\* cs_main has one holder, and numThreads counts the workers inside Run.
LEMMA WorkersStep == TypeOK /\ WorkersInv /\ [Next]_vars => WorkersInv'
  <1>. SUFFICES ASSUME TypeOK, WorkersInv, [Next]_vars PROVE WorkersInv'
    OBVIOUS
  <1>0. WorkerTypes
    BY ThreadsAssumption DEF TypeOK, WorkerTypes
  <1>1. CASE ~ \E w \in HttpWorker : HttpStep(w)
    <2>1. \A v \in HttpWorker : Kept(worker[v], worker'[v]) /\ worker[v] \in WorkerState
      BY <1>0, <1>1, WorkersKept DEF WorkerTypes
    <2>2. \A v \in HttpWorker :
             worker'[v].pc = worker[v].pc \/ (worker[v].pc = "asleep" /\ worker'[v].pc = "fetch")
      BY <2>1, KeptWorker
    <2>3. csMain' = csMain /\ numThreads' = numThreads
      BY <1>1, Writers DEF HttpStep
    <2>. QED
      BY <2>2, <2>3, WorkersStay DEF Collecting
  <1>2. ASSUME NEW w \in HttpWorker, HttpStep(w) PROVE WorkersInv'
    <2>1. CASE Run(w)
      <3>1. Others(w) /\ worker'[w].pc \in {"leave", "asleep", "call"}
        BY <1>0, <2>1, RunEffect DEF TypeOK
      <3>2. worker[w].pc = "fetch" /\ csMain' = csMain /\ numThreads' = numThreads
        BY <2>1 DEF Run
      <3>3. /\ worker[w].pc \notin Collecting /\ worker'[w].pc \notin Collecting
            /\ worker[w].pc # "gone" /\ worker'[w].pc # "gone"
        BY <3>1, <3>2 DEF Collecting
      <3>4. ASSUME NEW v \in HttpWorker
            PROVE  /\ (worker'[v].pc \in Collecting) <=> (worker[v].pc \in Collecting)
                   /\ (worker'[v].pc = "gone") <=> (worker[v].pc = "gone")
        BY <3>1, <3>3 DEF Others
      <3>. QED
        BY <3>2, <3>4, WorkersStay
    <2>2. CASE ThreadCounterGone(w)
      <3>1. /\ \A v \in HttpWorker \ {w} : Kept(worker[v], worker'[v])
            /\ worker'[w].pc = "gone" /\ worker[w].pc = "leave"
            /\ csMain' = csMain /\ numThreads' = numThreads - 1
        BY <1>0, <2>2, LeaveEffect DEF ThreadCounterGone
      <3>2. ASSUME NEW v \in HttpWorker \ {w}
            PROVE  worker'[v].pc = worker[v].pc \/ (worker[v].pc = "asleep" /\ worker'[v].pc = "fetch")
        <4>1. Kept(worker[v], worker'[v]) /\ worker[v] \in WorkerState
          BY <1>0, <3>1 DEF WorkerTypes
        <4>. QED
          BY <4>1, KeptWorker
      <3>. DEFINE in == {v \in HttpWorker : worker[v].pc # "gone"}
                  out == {v \in HttpWorker : worker'[v].pc # "gone"}
      <3>3. {v \in HttpWorker : worker'[v].pc \in Collecting} = {v \in HttpWorker : worker[v].pc \in Collecting}
        BY <3>1, <3>2 DEF Collecting
      <3>4. out = in \ {w} /\ w \in in /\ in \subseteq HttpWorker
        BY <3>1, <3>2
      <3>5. IsFiniteSet(in)
        BY <3>4, FS_Subset, ThreadsAssumption
      <3>6. Cardinality(out) = Cardinality(in) - 1
        BY <3>4, <3>5, FS_RemoveElement
      <3>. QED
        BY <3>1, <3>3, <3>6 DEF WorkersInv
    <2>3. CASE z_sendmany(w) \/ stop(w)
      <3>1. Others(w) /\ worker'[w].pc = "reply"
        BY <1>0, <2>3, ReturnEffect DEF z_sendmany, stop
      <3>2. worker[w].pc = "call" /\ csMain' = csMain /\ numThreads' = numThreads
        BY <2>3 DEF z_sendmany, stop, Calling, httpVars
      <3>. QED
        BY <3>1, <3>2, WorkersStay DEF Collecting, Others
    <2>4. CASE getAllOperationIds(w)
      <3>1. Others(w) /\ worker'[w].pc = "collect"
        BY <1>0, <2>4, CollectEffect DEF TypeOK
      <3>2. worker[w].pc = "call" /\ csMain = {} /\ csMain' = {w} /\ numThreads' = numThreads
        BY <2>4 DEF getAllOperationIds, Calling, httpVars
      <3>3. {v \in HttpWorker : worker'[v].pc # "gone"} = {v \in HttpWorker : worker[v].pc # "gone"}
        BY <3>1, <3>2 DEF Others
      <3>4. csMain' = {v \in HttpWorker : worker'[v].pc \in Collecting}
        BY <3>1, <3>2 DEF WorkersInv, Others, Collecting
      <3>5. \A u, v \in csMain' : u = v
        BY <3>2
      <3>. QED
        BY <3>2, <3>3, <3>4, <3>5 DEF WorkersInv
    <2>5. CASE getStatus(w) \/ popOperationForId(w) \/ \E o \in Operation : getOperationForId(w, o)
      <3>1. Others(w) /\ worker'[w].pc \in Collecting
        BY <1>0, <2>5, StatusEffect, PopEffect, LookEffect DEF Collecting
      <3>2. worker[w].pc \in Collecting /\ csMain' = csMain /\ numThreads' = numThreads
        BY <2>5 DEF getStatus, popOperationForId, getOperationForId, Collecting, httpVars
      <3>. QED
        BY <3>1, <3>2, WorkersStay DEF Collecting, Others
    <2>6. CASE z_getoperationresult(w)
      <3>1. Others(w) /\ worker'[w].pc = "reply"
        BY <1>0, <2>6, ReturnEffect DEF z_getoperationresult
      <3>2. worker[w].pc = "collect" /\ csMain' = csMain \ {w} /\ numThreads' = numThreads
        BY <2>6 DEF z_getoperationresult, httpVars
      <3>3. {v \in HttpWorker : worker'[v].pc # "gone"} = {v \in HttpWorker : worker[v].pc # "gone"}
        BY <3>1, <3>2 DEF Others
      <3>4. csMain' = {v \in HttpWorker : worker'[v].pc \in Collecting}
        BY <3>1, <3>2 DEF WorkersInv, Others, Collecting
      <3>5. \A u, v \in csMain' : u = v
        BY <3>2 DEF WorkersInv
      <3>. QED
        BY <3>2, <3>3, <3>4, <3>5 DEF WorkersInv
    <2>7. CASE WriteReply(w)
      <3>1. Others(w) /\ worker'[w].pc = "fetch"
        BY <1>0, <2>7, ReplyEffect
      <3>2. worker[w].pc = "reply" /\ csMain' = csMain /\ numThreads' = numThreads
        BY <2>7 DEF WriteReply
      <3>. QED
        BY <3>1, <3>2, WorkersStay DEF Collecting, Others
    <2>. QED
      BY <1>2, <2>1, <2>2, <2>3, <2>4, <2>5, <2>6, <2>7 DEF HttpStep
  <1>. QED
    BY <1>1, <1>2

\* The three parts of RequestsInv.
QueuedOnce == \A i, j \in DOMAIN queue : queue[i] = queue[j] => i = j
WorkerHas(v) ==
    /\ (worker[v].job # NoRequest) <=> (worker[v].pc \in Serving)
    /\ worker[v].job \notin Queued
    /\ \A u \in HttpWorker : (worker[u].job = worker[v].job) => (worker[v].job = NoRequest \/ u = v)
Accepted(r) == (reply[r] = "accepted") <=> (r \in Queued \/ \E w \in HttpWorker : worker[w].job = r)

\* RequestsInv by its parts, one for each place a request is in.
LEMMA RequestsParts ==
    RequestsInv <=> (QueuedOnce /\ (\A v \in HttpWorker : WorkerHas(v)) /\ \A r \in Request : Accepted(r))
  BY DEF RequestsInv, QueuedOnce, WorkerHas, Accepted

\* The requests stay where they are.
LEMMA RequestsStay ==
    ASSUME RequestsInv, queue' = queue,
           \A v \in HttpWorker : /\ worker'[v].job = worker[v].job
                                 /\ (worker'[v].pc \in Serving) <=> (worker[v].pc \in Serving),
           \A r \in Request : (reply'[r] = "accepted") <=> (reply[r] = "accepted")
    PROVE  RequestsInv'
  <1>1. Queued' = Queued /\ QueuedOnce'
    BY RequestsParts DEF Queued, QueuedOnce
  <1>2. ASSUME NEW v \in HttpWorker PROVE WorkerHas(v)'
    BY <1>1, RequestsParts DEF WorkerHas
  <1>3. ASSUME NEW r \in Request PROVE Accepted(r)'
    BY <1>1, RequestsParts DEF Accepted
  <1>. QED
    BY <1>1, <1>2, <1>3 DEF RequestsInv, QueuedOnce, WorkerHas, Accepted

\* A request is answered: its worker has none any more.
LEMMA RequestAnswered ==
    ASSUME WorkerTypes, reply \in [Request -> {"none", "accepted", "triggered", "sent"}],
           queue \in Seq(Request), RequestsInv,
           NEW w \in HttpWorker, WriteReply(w)
    PROVE  RequestsInv'
  <1>. DEFINE r == worker[w].job
  <1>0. Queued \subseteq Request
    BY SMT DEF Queued
  <1>1. Queued' = Queued /\ QueuedOnce'
    BY RequestsParts DEF Queued, QueuedOnce, WriteReply
  <1>2. r \in Request /\ reply' = [reply EXCEPT ![r] = "triggered"]
    BY SMT DEF RequestsInv, WorkerTypes, WorkerState, WriteReply, Serving
  <1>3. Others(w) /\ worker'[w].pc = "fetch" /\ worker'[w].job = NoRequest
    BY ReplyEffect
  <1>4. "fetch" \notin Serving /\ NoRequest \notin Request
    BY DEF Serving, Collecting, WorkerTypes
  <1>5. reply'[r] # "accepted" /\ \A s \in Request \ {r} : reply'[s] = reply[s]
    BY <1>2
  <1>6. r \notin Queued /\ \A v \in HttpWorker \ {w} : worker[v].job # r
    BY <1>2, <1>4, RequestsParts DEF WorkerHas
  <1>7. ASSUME NEW v \in HttpWorker PROVE WorkerHas(v)'
    <2>1. CASE v = w
      BY <1>0, <1>1, <1>3, <1>4, <2>1 DEF WorkerHas
    <2>2. CASE v # w
      <3>1. worker'[v] = worker[v] /\ WorkerHas(v)
        BY <1>3, <2>2, RequestsParts DEF Others
      <3>2. \A u \in HttpWorker : worker'[u].job \in {worker[u].job, NoRequest}
        BY <1>3 DEF Others
      <3>. QED
        BY <1>1, <3>1, <3>2 DEF WorkerHas
    <2>. QED
      BY <2>1, <2>2
  <1>8. ASSUME NEW s \in Request PROVE Accepted(s)'
    <2>1. CASE s = r
      <3>1. reply'[s] # "accepted" /\ s \notin Queued'
        BY <1>1, <1>5, <1>6, <2>1
      <3>2. ASSUME NEW v \in HttpWorker PROVE worker'[v].job # s
        BY <1>3, <1>4, <1>6, <2>1 DEF Others
      <3>. QED
        BY <3>1, <3>2 DEF Accepted
    <2>2. CASE s # r
      <3>1. reply'[s] = reply[s] /\ Accepted(s)
        BY <1>5, <2>2, RequestsParts
      <3>2. \A v \in HttpWorker : worker'[v].job = s <=> worker[v].job = s
        BY <1>3, <1>4, <2>2 DEF Others
      <3>. QED
        BY <1>1, <3>1, <3>2 DEF Accepted
    <2>. QED
      BY <2>1, <2>2
  <1>. QED
    BY <1>1, <1>2, <1>7, <1>8 DEF RequestsInv, QueuedOnce, WorkerHas, Accepted

\* A request is put at the end of the queue.
LEMMA RequestQueued ==
    ASSUME WorkerTypes, reply \in [Request -> {"none", "accepted", "triggered", "sent"}],
           queue \in Seq(Request), RequestsInv,
           NEW r \in Request, reply[r] = "none", reply' = [reply EXCEPT ![r] = "accepted"],
           queue' = Append(queue, r),
           \A v \in HttpWorker : /\ worker'[v].job = worker[v].job
                                 /\ (worker'[v].pc \in Serving) <=> (worker[v].pc \in Serving)
    PROVE  RequestsInv'
  <1>1. Queued' = Queued \cup {r}
    BY SMTT(30) DEF Queued
  <1>2. r \notin Queued /\ \A v \in HttpWorker : worker[v].job # r
    BY RequestsParts DEF Accepted
  <1>3. QueuedOnce'
    <2>1. QueuedOnce /\ \A i \in DOMAIN queue : queue[i] # r
      BY <1>2, RequestsParts DEF Queued
    <2>. QED
      BY SMT, <2>1 DEF QueuedOnce
  <1>4. ASSUME NEW v \in HttpWorker PROVE WorkerHas(v)'
    BY <1>1, <1>2, RequestsParts DEF WorkerHas
  <1>5. reply'[r] = "accepted" /\ \A s \in Request \ {r} : reply'[s] = reply[s]
    OBVIOUS
  <1>6. ASSUME NEW s \in Request PROVE Accepted(s)'
    <2>1. CASE s = r
      BY <1>1, <1>5, <2>1 DEF Accepted
    <2>2. CASE s # r
      <3>1. Accepted(s) /\ reply'[s] = reply[s] /\ (s \in Queued' <=> s \in Queued)
        BY <1>1, <1>5, <2>2, RequestsParts
      <3>. QED
        BY <3>1 DEF Accepted
    <2>. QED
      BY <2>1, <2>2
  <1>. QED
    BY <1>3, <1>4, <1>6 DEF RequestsInv, QueuedOnce, WorkerHas, Accepted

\* A worker takes the first request of the queue.
LEMMA RequestTaken ==
    ASSUME WorkerTypes, queue \in Seq(Request), RequestsInv, NEW w \in HttpWorker,
           worker[w].pc = "fetch", queue # <<>>, queue' = Tail(queue), reply' = reply,
           Others(w), worker'[w].pc = "call", worker'[w].job = Head(queue)
    PROVE  RequestsInv'
  <1>. DEFINE r == Head(queue)
  <1>0. QueuedOnce /\ NoRequest \notin Request
    BY RequestsParts DEF WorkerTypes
  <1>1. /\ r \in Queued /\ r \in Request /\ Queued' = Queued \ {r} /\ QueuedOnce'
    <2>1. /\ Tail(queue) \in Seq(Request) /\ Len(Tail(queue)) = Len(queue) - 1 /\ Len(queue) >= 1
          /\ \A i \in 1 .. Len(queue) - 1 : Tail(queue)[i] = queue[i + 1]
          /\ r = queue[1] /\ r \in Request
      BY SMT
    <2>2. QueuedOnce'
      BY SMT, <1>0, <2>1 DEF QueuedOnce
    <2>3. r \in Queued
      BY SMT, <2>1 DEF Queued
    <2>4. \A x : x \in Queued' <=> x \in Queued \ {r}
      <3>1. ASSUME NEW x \in Queued' PROVE x \in Queued \ {r}
        <4>1. PICK i \in DOMAIN queue' : x = queue'[i]
          BY <3>1 DEF Queued
        <4>2. i + 1 \in DOMAIN queue /\ x = queue[i + 1] /\ 1 \in DOMAIN queue /\ i + 1 # 1
          BY SMT, <2>1, <4>1
        <4>. QED
          BY <1>0, <2>1, <4>2 DEF Queued, QueuedOnce
      <3>2. ASSUME NEW x \in Queued \ {r} PROVE x \in Queued'
        <4>1. PICK i \in DOMAIN queue : x = queue[i]
          BY <3>2 DEF Queued
        <4>2. i - 1 \in DOMAIN queue' /\ x = queue'[i - 1]
          BY SMTT(30), <2>1, <3>2, <4>1
        <4>. QED
          BY <4>2 DEF Queued
      <3>. QED
        BY <3>1, <3>2
    <2>. QED
      BY <2>1, <2>2, <2>3, <2>4
  <1>2. worker[w].job = NoRequest /\ "call" \in Serving
    BY RequestsParts DEF WorkerHas, Serving, Collecting
  <1>3. \A v \in HttpWorker : worker[v].job # r
    BY <1>1, RequestsParts DEF WorkerHas
  <1>4. ASSUME NEW v \in HttpWorker PROVE WorkerHas(v)'
    <2>1. CASE v = w
      BY <1>0, <1>1, <1>2, <1>3, <2>1 DEF WorkerHas, Others
    <2>2. CASE v # w
      <3>1. worker'[v] = worker[v] /\ WorkerHas(v) /\ worker'[w].job # worker[v].job
        BY <1>3, <2>2, RequestsParts DEF Others
      <3>. QED
        BY <1>1, <3>1 DEF WorkerHas, Others
    <2>. QED
      BY <2>1, <2>2
  <1>5. ASSUME NEW s \in Request PROVE Accepted(s)'
    <2>1. CASE s = r
      BY <1>1, <2>1, RequestsParts DEF Accepted
    <2>2. CASE s # r
      <3>1. \A v \in HttpWorker : worker'[v].job = s <=> worker[v].job = s
        BY <1>0, <1>2, <2>2 DEF Others
      <3>. QED
        BY <1>1, <2>2, <3>1, RequestsParts DEF Accepted
    <2>. QED
      BY <2>1, <2>2
  <1>. QED
    BY <1>1, <1>4, <1>5 DEF RequestsInv, QueuedOnce, WorkerHas, Accepted

\* ~WorkQueue: what is left of the queue is answered.
LEMMA RequestsDropped ==
    ASSUME queue \in Seq(Request), RequestsInv, DeleteWorkQueue
    PROVE  RequestsInv'
  <1>1. queue' = <<>> /\ worker' = worker
    BY DEF DeleteWorkQueue
  <1>2. Queued' = {} /\ QueuedOnce'
    BY SMT, <1>1 DEF Queued, QueuedOnce
  <1>3. ASSUME NEW v \in HttpWorker PROVE WorkerHas(v)'
    BY <1>1, <1>2, RequestsParts DEF WorkerHas
  <1>4. ASSUME NEW s \in Request PROVE Accepted(s)'
    <2>1. CASE s \in Queued
      <3>1. reply'[s] = "triggered" /\ \A v \in HttpWorker : worker[v].job # s
        BY <2>1, RequestsParts DEF DeleteWorkQueue, Queued, WorkerHas
      <3>. QED
        BY <1>1, <1>2, <3>1 DEF Accepted
    <2>2. CASE s \notin Queued
      <3>1. reply'[s] = reply[s] /\ Accepted(s)
        BY <2>2, RequestsParts DEF DeleteWorkQueue, Queued
      <3>. QED
        BY <1>1, <1>2, <2>2, <3>1 DEF Accepted
    <2>. QED
      BY <2>1, <2>2
  <1>. QED
    BY <1>2, <1>3, <1>4 DEF RequestsInv, QueuedOnce, WorkerHas, Accepted

\* RequestsInv is preserved.
LEMMA RequestsStep == TypeOK /\ RequestsInv /\ [Next]_vars => RequestsInv'
  <1>. SUFFICES ASSUME TypeOK, RequestsInv, [Next]_vars PROVE RequestsInv'
    OBVIOUS
  <1>0. /\ WorkerTypes /\ queue \in Seq(Request)
        /\ reply \in [Request -> {"none", "accepted", "triggered", "sent"}]
    BY ThreadsAssumption DEF TypeOK, WorkerTypes
  <1>1. CASE ~ \E w \in HttpWorker : HttpStep(w)
    <2>1. \A v \in HttpWorker : Kept(worker[v], worker'[v]) /\ worker[v] \in WorkerState
      BY <1>0, <1>1, WorkersKept DEF WorkerTypes
    <2>2. \A v \in HttpWorker :
             /\ worker'[v].job = worker[v].job
             /\ worker'[v].pc = worker[v].pc \/ (worker[v].pc = "asleep" /\ worker'[v].pc = "fetch")
      BY <2>1, KeptWorker
    <2>3. \A v \in HttpWorker : /\ worker'[v].job = worker[v].job
                                /\ (worker'[v].pc \in Serving) <=> (worker[v].pc \in Serving)
      BY <2>2 DEF Serving, Collecting
    <2>4. CASE reply' = reply /\ queue' = queue
      BY <2>3, <2>4, RequestsStay
    <2>5. CASE \E r \in Request : http_request_cb(r)
      <3>1. PICK r \in Request : http_request_cb(r)
        BY <2>5
      <3>2. CASE queue' = queue /\ reply' = [reply EXCEPT ![r] = "triggered"]
        <4>1. \A s \in Request : (reply'[s] = "accepted") <=> (reply[s] = "accepted")
          BY <1>0, <3>1, <3>2 DEF http_request_cb
        <4>. QED
          BY <2>3, <3>2, <4>1, RequestsStay
      <3>3. CASE queue' = Append(queue, r) /\ reply' = [reply EXCEPT ![r] = "accepted"]
        <4>1. reply[r] = "none"
          BY <3>1 DEF http_request_cb
        <4>. QED
          BY <1>0, <2>3, <3>3, <4>1, RequestQueued
      <3>. QED
        BY <3>1, <3>2, <3>3 DEF http_request_cb
    <2>6. CASE \E r \in Request : http_reject_request_cb(r) \/ httpevent_callback_fn(r)
      <3>1. PICK r \in Request : http_reject_request_cb(r) \/ httpevent_callback_fn(r)
        BY <2>6
      <3>2. queue' = queue /\ reply' = [reply EXCEPT ![r] = "sent"] /\ reply[r] # "accepted"
        BY <3>1 DEF http_reject_request_cb, httpevent_callback_fn
      <3>3. \A s \in Request : (reply'[s] = "accepted") <=> (reply[s] = "accepted")
        BY <1>0, <3>2
      <3>. QED
        BY <2>3, <3>2, <3>3, RequestsStay
    <2>7. CASE DeleteWorkQueue
      BY <1>0, <2>7, RequestsDropped
    <2>. QED
      BY <1>1, <2>4, <2>5, <2>6, <2>7, Writers DEF HttpStep
  <1>2. ASSUME NEW w \in HttpWorker, HttpStep(w) PROVE RequestsInv'
    <2>1. CASE Run(w)
      <3>1. worker[w].pc = "fetch" /\ reply' = reply /\ Others(w)
        BY <1>0, <2>1, RunEffect DEF Run
      <3>2. CASE worker'[w].pc \in {"leave", "asleep"} /\ worker'[w].job = worker[w].job /\ queue' = queue
        <4>1. \A v \in HttpWorker : /\ worker'[v].job = worker[v].job
                                    /\ (worker'[v].pc \in Serving) <=> (worker[v].pc \in Serving)
          BY <3>1, <3>2 DEF Others, Serving, Collecting
        <4>. QED
          BY <3>1, <3>2, <4>1, RequestsStay
      <3>3. CASE /\ queue # <<>> /\ worker'[w].pc = "call"
                 /\ worker'[w].job = Head(queue) /\ queue' = Tail(queue)
        BY <1>0, <3>1, <3>3, RequestTaken
      <3>. QED
        BY <1>0, <2>1, <3>2, <3>3, RunEffect
    <2>2. CASE ThreadCounterGone(w)
      <3>1. /\ \A v \in HttpWorker \ {w} : Kept(worker[v], worker'[v])
            /\ worker'[w].pc = "gone" /\ worker'[w].job = worker[w].job
            /\ worker[w].pc = "leave" /\ reply' = reply /\ queue' = queue
        BY <1>0, <2>2, LeaveEffect DEF ThreadCounterGone
      <3>2. \A v \in HttpWorker \ {w} :
               /\ worker'[v].job = worker[v].job
               /\ worker'[v].pc = worker[v].pc \/ (worker[v].pc = "asleep" /\ worker'[v].pc = "fetch")
        <4>1. \A v \in HttpWorker \ {w} : Kept(worker[v], worker'[v]) /\ worker[v] \in WorkerState
          BY <1>0, <3>1 DEF WorkerTypes
        <4>. QED
          BY <4>1, KeptWorker
      <3>3. \A v \in HttpWorker : /\ worker'[v].job = worker[v].job
                                  /\ (worker'[v].pc \in Serving) <=> (worker[v].pc \in Serving)
        BY <3>1, <3>2 DEF Serving, Collecting
      <3>. QED
        BY <3>1, <3>3, RequestsStay
    <2>3. CASE z_sendmany(w) \/ stop(w) \/ z_getoperationresult(w)
      <3>1. Others(w) /\ worker'[w].pc = "reply" /\ worker'[w].job = worker[w].job
        BY <1>0, <2>3, ReturnEffect DEF z_sendmany, stop, z_getoperationresult
      <3>2. worker[w].pc \in Serving /\ reply' = reply /\ queue' = queue
        BY <2>3 DEF z_sendmany, stop, z_getoperationresult, Calling, Serving, Collecting, httpVars
      <3>3. \A v \in HttpWorker : /\ worker'[v].job = worker[v].job
                                  /\ (worker'[v].pc \in Serving) <=> (worker[v].pc \in Serving)
        BY <3>1, <3>2 DEF Others, Serving
      <3>. QED
        BY <3>2, <3>3, RequestsStay
    <2>4. CASE \/ getAllOperationIds(w) \/ getStatus(w) \/ popOperationForId(w)
               \/ \E o \in Operation : getOperationForId(w, o)
      <3>1. Others(w) /\ worker'[w].pc \in Collecting /\ worker'[w].job = worker[w].job
        BY <1>0, <2>4, CollectEffect, StatusEffect, PopEffect, LookEffect DEF Collecting, TypeOK
      <3>2. worker[w].pc \in Serving /\ reply' = reply /\ queue' = queue
        BY <2>4 DEF getAllOperationIds, getStatus, popOperationForId, getOperationForId, Calling,
                    Serving, Collecting, httpVars
      <3>3. \A v \in HttpWorker : /\ worker'[v].job = worker[v].job
                                  /\ (worker'[v].pc \in Serving) <=> (worker[v].pc \in Serving)
        BY <3>1, <3>2 DEF Others, Serving
      <3>. QED
        BY <3>2, <3>3, RequestsStay
    <2>5. CASE WriteReply(w)
      BY <1>0, <2>5, RequestAnswered
    <2>. QED
      BY <1>2, <2>1, <2>2, <2>3, <2>4, <2>5 DEF HttpStep
  <1>. QED
    BY <1>1, <1>2

----------------------------------------------------------------------------
(***************************************************************************)
(* The operations and their results.                                       *)
(***************************************************************************)
\* A step of a worker at most wakes another one.
LEMMA OtherWorkers ==
    ASSUME TypeOK, NEW w \in HttpWorker, HttpStep(w), NEW v \in HttpWorker, v # w
    PROVE  Kept(worker[v], worker'[v])
  <1>0. WorkerTypes
    BY ThreadsAssumption DEF TypeOK, WorkerTypes
  <1>1. CASE Others(w)
    BY <1>1 DEF Others, Kept
  <1>2. CASE ThreadCounterGone(w)
    BY <1>0, <1>2, LeaveEffect
  <1>3. CASE Run(w)
    BY <1>0, <1>1, <1>3, RunEffect DEF TypeOK
  <1>4. CASE Returned(w) \/ WriteReply(w)
    BY <1>0, <1>1, <1>4, ReturnEffect, ReplyEffect
  <1>5. CASE \/ getAllOperationIds(w) \/ getStatus(w) \/ popOperationForId(w)
             \/ \E o \in Operation : getOperationForId(w, o)
    BY <1>0, <1>1, <1>5, CollectEffect, StatusEffect, PopEffect, LookEffect DEF TypeOK
  <1>. QED
    BY <1>2, <1>3, <1>4, <1>5 DEF HttpStep, z_sendmany, stop, z_getoperationresult

\* A worker comes to and leaves a status and a pop only with these steps.
LEMMA SeenMoves ==
    ASSUME TypeOK, [Next]_vars, NEW v \in HttpWorker
    PROVE  /\ worker[v].pc = "pop" => \/ worker'[v].pc = "pop" /\ worker'[v].seen = worker[v].seen
                                      \/ popOperationForId(v)
           /\ worker'[v].pc \in {"status", "pop"} =>
                 \/ worker'[v].pc = worker[v].pc /\ worker'[v].seen = worker[v].seen
                 \/ /\ getStatus(v) /\ worker'[v].pc = "pop" /\ worker[v].pc = "status"
                    /\ worker'[v].seen = worker[v].seen /\ state[worker[v].seen] \in Final
                 \/ /\ \E o \in Operation : getOperationForId(v, o) /\ worker'[v].seen = o /\ o \in operation_map
                    /\ worker'[v].pc = "status"
  <1>0. WorkerTypes
    BY ThreadsAssumption DEF TypeOK, WorkerTypes
  <1>1. CASE Kept(worker[v], worker'[v])
    <2>1. worker[v] \in WorkerState
      BY <1>0 DEF WorkerTypes
    <2>2. worker'[v].seen = worker[v].seen /\ (worker'[v].pc = worker[v].pc \/ (worker[v].pc = "asleep" /\ worker'[v].pc = "fetch"))
      BY <1>1, <2>1, KeptWorker
    <2>. QED
      BY <2>2
  <1>2. CASE ~ \E w \in HttpWorker : HttpStep(w)
    BY <1>0, <1>1, <1>2, WorkersKept
  <1>3. ASSUME NEW w \in HttpWorker, HttpStep(w), w # v PROVE Kept(worker[v], worker'[v])
    BY <1>3, OtherWorkers
  <1>4. CASE HttpStep(v)
    <2>1. CASE Run(v)
      <3>1. worker[v].pc = "fetch" /\ worker'[v].pc \in {"leave", "asleep", "call"}
        BY <1>0, <2>1, RunEffect DEF TypeOK, Run
      <3>. QED
        BY <3>1
    <2>2. CASE ThreadCounterGone(v)
      <3>1. worker[v].pc = "leave" /\ worker'[v].pc = "gone"
        BY <1>0, <2>2, LeaveEffect DEF ThreadCounterGone
      <3>. QED
        BY <3>1
    <2>3. CASE z_sendmany(v) \/ stop(v) \/ z_getoperationresult(v)
      <3>1. worker[v].pc # "pop" /\ worker'[v].pc = "reply"
        BY <1>0, <2>3, ReturnEffect DEF z_sendmany, stop, z_getoperationresult, Calling
      <3>. QED
        BY <3>1
    <2>4. CASE getAllOperationIds(v)
      <3>1. worker[v].pc # "pop" /\ worker'[v].pc = "collect"
        BY <1>0, <2>4, CollectEffect DEF getAllOperationIds, Calling, TypeOK
      <3>. QED
        BY <3>1
    <2>5. CASE getStatus(v)
      <3>1. worker[v].pc = "status"
        BY <2>5 DEF getStatus
      <3>. QED
        BY <1>0, <2>5, <3>1, StatusEffect
    <2>6. CASE popOperationForId(v)
      <3>1. worker'[v].pc = "collect"
        BY <1>0, <2>6, PopEffect
      <3>. QED
        BY <2>6, <3>1
    <2>7. CASE \E o \in Operation : getOperationForId(v, o)
      <3>1. PICK o \in Operation : getOperationForId(v, o)
        BY <2>7
      <3>2. worker[v].pc = "collect"
        BY <3>1 DEF getOperationForId
      <3>. QED
        BY <1>0, <3>1, <3>2, LookEffect
    <2>8. CASE WriteReply(v)
      <3>1. worker[v].pc = "reply" /\ worker'[v].pc = "fetch"
        BY <1>0, <2>8, ReplyEffect DEF WriteReply
      <3>. QED
        BY <3>1
    <2>. QED
      BY <1>4, <2>1, <2>2, <2>3, <2>4, <2>5, <2>6, <2>7, <2>8 DEF HttpStep
  <1>. QED
    BY <1>1, <1>2, <1>3, <1>4

\* An async worker leaves an operation only when it has ended it, and has an
\* operation exactly while it works.
LEMMA AsyncMoves ==
    ASSUME TypeOK, [Next]_vars, \A a \in AsyncWorker : (async[a].job # NoRequest) <=> (async[a].pc \in Working),
           NEW b \in AsyncWorker
    PROVE  /\ async[b].pc = "execute" => \/ async'[b].pc = "execute" /\ async'[b].job = async[b].job
                                         \/ Finished(b)
           /\ (async'[b].job # NoRequest) <=> (async'[b].pc \in Working)
           /\ async'[b].pc = "gone" => async[b].pc = "gone" \/ AsyncRun(b)
           /\ async[b].pc = "gone" => async'[b].pc = "gone"
  <1>0. AsyncTypes /\ id_queue \in Seq(Operation) /\ NoRequest \notin Operation
    BY ThreadsAssumption DEF TypeOK, AsyncTypes, Operation
  <1>1. CASE Kept(async[b], async'[b])
    <2>1. async[b] \in AsyncState
      BY <1>0 DEF AsyncTypes
    <2>2. async'[b].job = async[b].job /\ (async'[b].pc = async[b].pc \/ (async[b].pc = "asleep" /\ async'[b].pc = "fetch"))
      BY <1>1, <2>1, KeptAsync
    <2>. QED
      BY <2>2 DEF Working
  <1>2. CASE ~ \E a \in AsyncWorker : AsyncStep(a)
    BY <1>0, <1>1, <1>2, AsyncKept
  <1>3. ASSUME NEW a \in AsyncWorker, AsyncStep(a), a # b PROVE Kept(async[b], async'[b])
    BY <1>0, <1>3, AsyncEffect DEF AsyncOthers, Kept
  <1>4. CASE AsyncStep(b)
    <2>1. CASE AsyncRun(b)
      <3>1. async[b].pc = "fetch"
        BY <2>1 DEF AsyncRun
      <3>2. \/ async'[b].pc \in {"gone", "asleep", "fetch"} /\ async'[b].job = async[b].job
            \/ async'[b].pc = "check" /\ async'[b].job \in Operation
        BY <1>0, <1>4, <2>1, AsyncEffect DEF AsyncRun, isCancelled, Executing, Finished
      <3>. QED
        BY <1>0, <2>1, <3>1, <3>2 DEF Working
    <2>2. CASE isCancelled(b)
      <3>1. async[b].pc = "check"
        BY <2>2 DEF isCancelled
      <3>2. \/ async'[b].pc = "fetch" /\ async'[b].job = NoRequest
            \/ async'[b].pc = "begin" /\ async'[b].job = async[b].job
        BY <1>0, <1>4, <3>1, AsyncEffect DEF AsyncRun, Executing, Finished
      <3>. QED
        BY <3>1, <3>2 DEF Working
    <2>3. CASE Executing(b)
      <3>1. async[b].pc = "begin"
        BY <2>3 DEF Executing
      <3>2. async'[b].pc = "execute" /\ async'[b].job = async[b].job
        BY <1>0, <1>4, <3>1, AsyncEffect DEF AsyncRun, isCancelled, Finished
      <3>. QED
        BY <3>1, <3>2 DEF Working
    <2>4. CASE Finished(b)
      <3>1. async[b].pc = "execute"
        BY <2>4 DEF Finished
      <3>2. async'[b].pc = "fetch" /\ async'[b].job = NoRequest
        BY <1>0, <1>4, <3>1, AsyncEffect DEF AsyncRun, isCancelled, Executing
      <3>. QED
        BY <2>4, <3>1, <3>2 DEF Working
    <2>. QED
      BY <1>4, <2>1, <2>2, <2>3, <2>4 DEF AsyncStep
  <1>. QED
    BY <1>1, <1>2, <1>3, <1>4

\* The parts of OperationsInv.
Known(o) == (o \in operation_map \/ told[o] # {}) => Answering(o)
StateOf(o) ==
    /\ state[o] = "READY" => o \in operation_map
    /\ state[o] = "ENDED" => outcome[o] = "ENDED"
    /\ state[o] = "CANCELLED" => closed
Runs(o) == state[o] = "EXECUTING" => \E a \in AsyncWorker : async[a].pc = "execute" /\ async[a].job = o
ToldAs(o) == \E r \in Request : \/ told[o] = {<<r, "ENDED">>} /\ outcome[o] = "ENDED"
                                \/ told[o] = {<<r, "CANCELLED">>} /\ closed
Popping(o) == \E w \in HttpWorker : worker[w].pc = "pop" /\ worker[w].seen = o
ToldOf(o) == told[o] # {} => ToldAs(o) /\ (o \in operation_map => Popping(o))
SeenOf(w) ==
    /\ worker[w].pc \in {"status", "pop"} => worker[w].seen \in operation_map
    /\ worker[w].pc = "pop" => state[worker[w].seen] # "READY"
JobOf(a) == (async[a].job # NoRequest) <=> (async[a].pc \in Working)

\* OperationsInv by its parts, one for each stage of an operation.
LEMMA OperationsParts ==
    OperationsInv <=> /\ \A o \in Operation : Known(o) /\ StateOf(o) /\ Runs(o) /\ ToldOf(o)
                      /\ \A w \in HttpWorker : SeenOf(w)
                      /\ \A a \in AsyncWorker : JobOf(a)
  BY DEF OperationsInv, OperationInv, Known, StateOf, Runs, ToldOf, ToldAs, Popping, SeenOf, JobOf

\* A worker that is to reply keeps its request until it replies.
LEMMA ReplyMoves ==
    ASSUME TypeOK, [Next]_vars, NEW v \in HttpWorker, worker[v].pc = "reply"
    PROVE  WriteReply(v) \/ (worker'[v].pc = "reply" /\ worker'[v].job = worker[v].job)
  <1>0. WorkerTypes
    BY ThreadsAssumption DEF TypeOK, WorkerTypes
  <1>1. CASE Kept(worker[v], worker'[v])
    <2>1. worker[v] \in WorkerState
      BY <1>0 DEF WorkerTypes
    <2>. QED
      BY <1>1, <2>1, KeptWorker
  <1>2. CASE ~ \E w \in HttpWorker : HttpStep(w)
    BY <1>0, <1>1, <1>2, WorkersKept
  <1>3. ASSUME NEW w \in HttpWorker, HttpStep(w), w # v PROVE Kept(worker[v], worker'[v])
    BY <1>3, OtherWorkers
  <1>4. CASE HttpStep(v)
    BY <1>4 DEF HttpStep, Run, ThreadCounterGone, z_sendmany, stop, Calling, getAllOperationIds,
                getOperationForId, getStatus, popOperationForId, z_getoperationresult
  <1>. QED
    BY <1>1, <1>2, <1>3, <1>4

\* A request whose handler has returned is replied to, and stays so.
LEMMA AnsweringStays ==
    ASSUME TypeOK, [Next]_vars, NEW r \in Request, Answering(r)
    PROVE  Answering(r)'
  <1>0. reply \in [Request -> {"none", "accepted", "triggered", "sent"}]
    BY DEF TypeOK
  <1>1. CASE reply[r] \in {"triggered", "sent"}
    <2>1. CASE \E s \in Request : http_request_cb(s) \/ http_reject_request_cb(s) \/ httpevent_callback_fn(s)
      BY <1>0, <1>1, <2>1 DEF http_request_cb, http_reject_request_cb, httpevent_callback_fn, Answering
    <2>2. CASE \E w \in HttpWorker : WriteReply(w)
      <3>1. \E x : reply' = [reply EXCEPT ![x] = "triggered"]
        BY <2>2 DEF WriteReply
      <3>. QED
        BY <1>0, <1>1, <3>1 DEF Answering
    <2>3. CASE DeleteWorkQueue
      BY <1>0, <1>1, <2>3 DEF DeleteWorkQueue, Answering
    <2>. QED
      BY <1>1, <2>1, <2>2, <2>3, Writers DEF Answering
  <1>2. ASSUME NEW v \in HttpWorker, worker[v].pc = "reply", worker[v].job = r PROVE Answering(r)'
    <2>1. CASE WriteReply(v)
      BY <1>0, <1>2, <2>1 DEF WriteReply, Answering
    <2>2. CASE worker'[v].pc = "reply" /\ worker'[v].job = r
      BY <2>2 DEF Answering
    <2>. QED
      BY <1>2, <2>1, <2>2, ReplyMoves
  <1>. QED
    BY <1>1, <1>2 DEF Answering

\* The worker that calls z_sendmany has the request that names the operation,
\* and goes on to reply to it.
LEMMA SendFacts ==
    ASSUME TypeOK, RequestsInv, NEW w \in HttpWorker, z_sendmany(w)
    PROVE  /\ worker[w].job \in Operation /\ worker[w].job \in Request
           /\ ~Answering(worker[w].job)
           /\ worker'[w].pc = "reply" /\ worker'[w].job = worker[w].job
           /\ csMain = {} /\ main # "cancel" /\ closed' = closed
           /\ \/ /\ closed /\ operation_map' = operation_map /\ state' = state
              \/ /\ ~closed /\ operation_map' = operation_map \cup {worker[w].job}
                 /\ state' = [state EXCEPT ![worker[w].job] = "READY"]
  <1>. DEFINE r == worker[w].job
  <1>0. WorkerTypes
    BY ThreadsAssumption DEF TypeOK, WorkerTypes
  <1>1. worker[w].pc = "call" /\ Calls[r] = "z_sendmany"
    BY DEF z_sendmany, Calling
  <1>2. r \in Request
    BY SMTT(30), <1>0, <1>1 DEF WorkerTypes, WorkerState, RequestsInv, Serving
  <1>3. r \in Operation
    BY <1>1, <1>2 DEF Operation
  <1>4. Accepted(r) /\ WorkerHas(w) /\ r # NoRequest
    BY <1>0, <1>2, RequestsParts DEF WorkerTypes
  <1>5. reply[r] = "accepted"
    BY <1>4 DEF Accepted
  <1>6. \A v \in HttpWorker : worker[v].job = r => worker[v].pc = "call"
    BY <1>1, <1>4 DEF WorkerHas
  <1>7. ~Answering(r)
    BY <1>5, <1>6 DEF Answering
  <1>8. worker'[w].pc = "reply" /\ worker'[w].job = r
    BY <1>0, ReturnEffect DEF z_sendmany
  <1>. QED
    BY <1>2, <1>3, <1>7, <1>8 DEF z_sendmany, addOperation, LockFree, mainVars

\* An operation of which something is known belongs to a request whose handler
\* has returned.
LEMMA KnownStep ==
    ASSUME TypeOK, RequestsInv, OperationsInv, [Next]_vars, NEW o \in Operation
    PROVE  Known(o)'
  <1>0. o \in Request /\ Known(o)
    BY OperationsParts DEF Operation
  <1>1. Answering(o) => Answering(o)'
    BY <1>0, AnsweringStays
  <1>2. o \in operation_map' => o \in operation_map \/ Answering(o)'
    <2>1. CASE \E w \in HttpWorker : z_sendmany(w)
      <3>1. PICK w \in HttpWorker : z_sendmany(w)
        BY <2>1
      <3>2. /\ o \in operation_map' => o \in operation_map \/ o = worker[w].job
            /\ worker'[w].pc = "reply" /\ worker'[w].job = worker[w].job
        BY <3>1, SendFacts
      <3>. QED
        BY <3>2 DEF Answering
    <2>2. CASE \E w \in HttpWorker : popOperationForId(w)
      BY <2>2 DEF popOperationForId
    <2>. QED
      BY <2>1, <2>2, Writers
  <1>3. told'[o] # {} => told[o] # {} \/ o \in operation_map
    <2>1. CASE \E w \in HttpWorker : getStatus(w)
      <3>1. PICK w \in HttpWorker : getStatus(w)
        BY <2>1
      <3>2. worker[w].pc = "status" /\ SeenOf(w)
        BY <3>1, OperationsParts DEF getStatus
      <3>3. worker[w].seen \in operation_map
        BY <3>2 DEF SeenOf
      <3>4. told' = told \/ \E y : told' = [told EXCEPT ![worker[w].seen] = y]
        BY <3>1 DEF getStatus
      <3>. QED
        BY <3>3, <3>4 DEF TypeOK
    <2>. QED
      BY <2>1, Writers
  <1>. QED
    BY <1>0, <1>1, <1>2, <1>3 DEF Known

\* A step that ends, begins or cancels an operation leaves the others alone.
LEMMA StateMoves ==
    ASSUME TypeOK, RequestsInv, OperationsInv, [Next]_vars, NEW o \in Operation
    PROVE  \/ state'[o] = state[o]
           \/ /\ state'[o] = "READY" /\ o \in operation_map' /\ ~closed /\ main # "cancel" /\ csMain = {}
              /\ \E w \in HttpWorker : z_sendmany(w) /\ worker[w].job = o
           \/ state'[o] = "CANCELLED" /\ cancel(o)
           \/ \E a \in AsyncWorker : /\ async[a].job = o
                                      /\ \/ Executing(a) /\ state'[o] = "EXECUTING"
                                         \/ Finished(a) /\ state'[o] = "ENDED"
  <1>0. state \in [Operation -> {"none", "READY", "EXECUTING"} \cup Final]
    BY DEF TypeOK
  <1>1. ASSUME NEW w \in HttpWorker, z_sendmany(w), state'[o] # state[o]
        PROVE  /\ state'[o] = "READY" /\ o \in operation_map' /\ ~closed /\ main # "cancel" /\ csMain = {}
               /\ worker[w].job = o
    BY <1>0, <1>1, SendFacts
  <1>2. ASSUME NEW p \in Operation, cancel(p), state'[o] # state[o] PROVE p = o /\ state'[o] = "CANCELLED"
    BY <1>0, <1>2 DEF cancel
  <1>3. ASSUME NEW a \in AsyncWorker, Executing(a), state'[o] # state[o]
        PROVE  async[a].job = o /\ state'[o] = "EXECUTING"
    BY <1>0, <1>3 DEF Executing
  <1>4. ASSUME NEW a \in AsyncWorker, Finished(a), state'[o] # state[o]
        PROVE  async[a].job = o /\ state'[o] = "ENDED"
    BY <1>0, <1>4 DEF Finished
  <1>. QED
    BY <1>1, <1>2, <1>3, <1>4, Writers

\* A status tells what it says: READY operations are known, ENDED is how
\* main() ended, and only a closed queue cancels.
LEMMA StateOfStep ==
    ASSUME TypeOK, RequestsInv, OperationsInv, StoppingInv, [Next]_vars, NEW o \in Operation
    PROVE  StateOf(o)'
  <1>0. StateOf(o)
    BY OperationsParts
  <1>1. closed => closed'
    BY Writers DEF close
  <1>2. outcome[o] = "ENDED" => outcome'[o] = "ENDED"
    BY Writers DEF TypeOK, Finished
  <1>3. o \in operation_map => o \in operation_map' \/ state'[o] # "READY"
    <2>1. CASE \E w \in HttpWorker : popOperationForId(w)
      <3>1. PICK w \in HttpWorker : popOperationForId(w)
        BY <2>1
      <3>2. worker[w].pc = "pop" /\ SeenOf(w) /\ state' = state /\ operation_map' = operation_map \ {worker[w].seen}
        BY <3>1, OperationsParts DEF popOperationForId
      <3>. QED
        BY <3>2 DEF SeenOf
    <2>2. CASE \E w \in HttpWorker : z_sendmany(w)
      BY <2>2, SendFacts
    <2>. QED
      BY <2>1, <2>2, Writers
  <1>4. CASE state'[o] = state[o]
    BY <1>0, <1>1, <1>2, <1>3, <1>4 DEF StateOf
  <1>5. CASE state'[o] = "READY" /\ o \in operation_map'
    BY <1>5 DEF StateOf
  <1>6. CASE state'[o] = "CANCELLED" /\ cancel(o)
    BY <1>1, <1>6 DEF StateOf, cancel, StoppingInv
  <1>7. CASE state'[o] = "EXECUTING"
    BY <1>7 DEF StateOf
  <1>8. CASE state'[o] = "ENDED" /\ \E a \in AsyncWorker : async[a].job = o /\ Finished(a)
    BY <1>8 DEF StateOf, Finished, TypeOK
  <1>. QED
    BY <1>4, <1>5, <1>6, <1>7, <1>8, StateMoves

\* An operation is EXECUTING while a thread executes it.
LEMMA RunsStep ==
    ASSUME TypeOK, RequestsInv, OperationsInv, [Next]_vars, NEW o \in Operation
    PROVE  Runs(o)'
  <1>0. Runs(o) /\ \A a \in AsyncWorker : JobOf(a)
    BY OperationsParts
  <1>1. ASSUME NEW a \in AsyncWorker, async[a].pc = "execute", async[a].job = o, ~Finished(a)
        PROVE  async'[a].pc = "execute" /\ async'[a].job = o
    BY <1>0, <1>1, AsyncMoves DEF JobOf
  <1>2. CASE state'[o] = state[o]
    <2>1. ASSUME NEW a \in AsyncWorker, Finished(a), async[a].job = o PROVE state'[o] = "ENDED"
      BY <2>1 DEF Finished, TypeOK
    <2>. QED
      BY <1>0, <1>1, <1>2, <2>1 DEF Runs
  <1>3. ASSUME NEW a \in AsyncWorker, Executing(a), async[a].job = o
        PROVE  async'[a].pc = "execute" /\ async'[a].job = o
    <2>1. AsyncTypes /\ id_queue \in Seq(Operation) /\ AsyncStep(a) /\ async[a].pc = "begin"
      BY <1>3 DEF TypeOK, AsyncTypes, AsyncStep, Executing
    <2>. QED
      BY <1>3, <2>1, AsyncEffect DEF AsyncRun, isCancelled, Finished
  <1>. QED
    BY <1>2, <1>3, StateMoves DEF Runs

\* The end of an operation is told once: the worker that has told it holds
\* cs_main until the operation is forgotten.
LEMMA ToldStep ==
    ASSUME TypeOK, WorkersInv, RequestsInv, OperationsInv, [Next]_vars, NEW o \in Operation
    PROVE  ToldOf(o)'
  <1>0. ToldOf(o) /\ StateOf(o) /\ Known(o)
    BY OperationsParts
  <1>1. (closed => closed') /\ (outcome[o] = "ENDED" => outcome'[o] = "ENDED")
    BY Writers DEF close, TypeOK, Finished
  <1>2. CASE told'[o] = told[o]
    <2>1. ToldAs(o) => ToldAs(o)'
      BY <1>1, <1>2 DEF ToldAs
    <2>2. ASSUME told[o] # {}, o \in operation_map' PROVE Popping(o)'
      <3>1. o \in operation_map
        <4>1. CASE \E w \in HttpWorker : z_sendmany(w)
          <5>1. PICK w \in HttpWorker : z_sendmany(w)
            BY <4>1
          <5>2. /\ ~Answering(worker[w].job)
                /\ o \in operation_map \/ o = worker[w].job
            BY <2>2, <5>1, SendFacts
          <5>3. Answering(o)
            BY <1>0, <2>2 DEF Known
          <5>. QED
            BY <5>2, <5>3
        <4>2. CASE \E w \in HttpWorker : popOperationForId(w)
          BY <2>2, <4>2 DEF popOperationForId
        <4>. QED
          BY <2>2, <4>1, <4>2, Writers
      <3>2. PICK w \in HttpWorker : worker[w].pc = "pop" /\ worker[w].seen = o
        BY <1>0, <2>2, <3>1 DEF ToldOf, Popping
      <3>3. ~popOperationForId(w)
        BY <2>2, <3>2 DEF popOperationForId
      <3>. QED
        BY <3>2, <3>3, SeenMoves DEF Popping
    <2>. QED
      BY <1>0, <1>2, <2>1, <2>2 DEF ToldOf
  <1>3. ASSUME NEW w \in HttpWorker, getStatus(w), told'[o] # told[o] PROVE ToldOf(o)'
    <2>0. WorkerTypes /\ worker[w].pc = "status"
      BY <1>3, ThreadsAssumption DEF TypeOK, WorkerTypes, getStatus
    <2>1. /\ worker'[w].pc = "pop" /\ worker'[w].seen = worker[w].seen /\ state[worker[w].seen] \in Final
          /\ told' = [told EXCEPT ![worker[w].seen] = @ \cup {<<worker[w].job, state[worker[w].seen]>>}]
      BY <1>3, <2>0, StatusEffect
    <2>2. /\ worker[w].seen = o /\ told'[o] = told[o] \cup {<<worker[w].job, state[o]>>}
          /\ state[o] \in Final
      BY <1>3, <2>1 DEF TypeOK
    <2>3. SeenOf(w)
      BY OperationsParts
    <2>4. o \in operation_map
      BY <2>0, <2>2, <2>3 DEF SeenOf
    <2>5. ~Popping(o)
      <3>1. w \in csMain /\ \A v \in HttpWorker : worker[v].pc = "pop" => v \in csMain
        BY <2>0 DEF WorkersInv, Collecting
      <3>2. \A u, v \in csMain : u = v
        BY DEF WorkersInv
      <3>. QED
        BY <2>0, <3>1, <3>2 DEF Popping
    <2>6. told'[o] = {<<worker[w].job, state[o]>>}
      BY <1>0, <2>2, <2>4, <2>5 DEF ToldOf
    <2>7. worker[w].job \in Request
      BY SMTT(30), <2>0 DEF WorkerTypes, WorkerState, RequestsInv, Serving, Collecting
    <2>8. ToldAs(o)'
      BY <1>0, <1>1, <2>2, <2>6, <2>7 DEF ToldAs, StateOf, Final
    <2>9. Popping(o)'
      BY <2>1, <2>2 DEF Popping
    <2>. QED
      BY <2>8, <2>9 DEF ToldOf
  <1>. QED
    BY <1>2, <1>3, Writers

\* What a worker looks at is known and, once reported, will not start.
LEMMA SeenStep ==
    ASSUME TypeOK, WorkersInv, RequestsInv, OperationsInv, [Next]_vars, NEW v \in HttpWorker
    PROVE  SeenOf(v)'
  <1>0. SeenOf(v)
    BY OperationsParts
  <1>1. CASE worker'[v].pc \in {"status", "pop"} /\ worker'[v].pc = worker[v].pc /\ worker'[v].seen = worker[v].seen
    <2>1. v \in csMain
      BY <1>1 DEF WorkersInv, Collecting
    <2>2. worker[v].seen \in operation_map /\ worker[v].seen \in Operation
      BY <1>0, <1>1 DEF SeenOf, TypeOK
    <2>3. worker[v].seen \in operation_map'
      <3>1. ~ \E w \in HttpWorker : popOperationForId(w)
        <4>1. ASSUME NEW w \in HttpWorker, popOperationForId(w) PROVE FALSE
          <5>1. w \in csMain /\ worker'[w].pc = "collect"
            BY <4>1, PopEffect, ThreadsAssumption DEF WorkersInv, Collecting, popOperationForId, WorkerTypes, TypeOK
          <5>2. w = v
            BY <2>1, <5>1 DEF WorkersInv
          <5>. QED
            BY <1>1, <5>1, <5>2
        <4>. QED
          BY <4>1
      <3>2. ~ \E w \in HttpWorker : z_sendmany(w)
        BY <2>1, SendFacts
      <3>. QED
        BY <2>2, <3>1, <3>2, Writers
    <2>4. worker[v].pc = "pop" => state'[worker[v].seen] # "READY"
      BY <1>0, <2>1, <2>2, StateMoves DEF SeenOf
    <2>. QED
      BY <1>1, <2>3, <2>4 DEF SeenOf
  <1>2. CASE /\ getStatus(v) /\ worker'[v].pc = "pop" /\ worker[v].pc = "status"
             /\ worker'[v].seen = worker[v].seen /\ state[worker[v].seen] \in Final
    <2>1. operation_map' = operation_map /\ state' = state
      BY <1>2 DEF getStatus, opVars
    <2>. QED
      BY <1>0, <1>2, <2>1 DEF SeenOf, Final
  <1>3. CASE /\ \E o \in Operation : getOperationForId(v, o) /\ worker'[v].seen = o /\ o \in operation_map
             /\ worker'[v].pc = "status"
    BY <1>3 DEF SeenOf, getOperationForId, opVars
  <1>. QED
    BY <1>1, <1>2, <1>3, SeenMoves DEF SeenOf

\* OperationsInv is preserved.
LEMMA OperationsStep ==
    TypeOK /\ WorkersInv /\ RequestsInv /\ OperationsInv /\ StoppingInv /\ [Next]_vars => OperationsInv'
  <1>. SUFFICES ASSUME TypeOK, WorkersInv, RequestsInv, OperationsInv, StoppingInv, [Next]_vars
                PROVE  OperationsInv'
    OBVIOUS
  <1>1. \A o \in Operation : Known(o)' /\ StateOf(o)' /\ Runs(o)' /\ ToldOf(o)'
    BY KnownStep, StateOfStep, RunsStep, ToldStep
  <1>2. \A w \in HttpWorker : SeenOf(w)'
    BY SeenStep
  <1>3. \A a \in AsyncWorker : JobOf(a)'
    <2>1. \A a \in AsyncWorker : (async[a].job # NoRequest) <=> (async[a].pc \in Working)
      BY OperationsParts DEF JobOf
    <2>. QED
      BY <2>1, AsyncMoves DEF JobOf
  <1>. QED
    BY <1>1, <1>2, <1>3
       DEF OperationsInv, OperationInv, Known, StateOf, Runs, ToldOf, ToldAs, Popping, SeenOf, JobOf

----------------------------------------------------------------------------
(***************************************************************************)
(* The shutdown.                                                           *)
(***************************************************************************)
\* Where the main thread goes.
LEMMA MainMoves ==
    ASSUME [Next]_vars
    PROVE  \/ main' = main
           \/ main = "wait" /\ main' = "interrupt" /\ RejectRequests
           \/ main = "interrupt" /\ main' = "close" /\ InterruptWorkQueue
           \/ main = "close" /\ main' = "lock" /\ close
           \/ main = "lock" /\ main' = "cancel" /\ cancelAllOperations
           \/ main = "cancel" /\ main' = "notify" /\ cancelled
           \/ main = "notify" /\ main' = "join" /\ wait_for_worker_threads
           \/ main = "join" /\ main' = "exit" /\ Join
           \/ main = "exit" /\ main' \in {"waitexit", "delete"} /\ WaitExit
           \/ main = "waitexit" /\ main' = "exit"
           \/ main = "delete" /\ main' = "loopexit" /\ DeleteWorkQueue
           \/ main = "loopexit" /\ main' = "joinhttp" /\ LoopExit
           \/ main = "joinhttp" /\ main' = "stopped" /\ StopHTTPServer
  <1>1. CASE \E w \in HttpWorker : ThreadCounterGone(w)
    BY <1>1 DEF ThreadCounterGone
  <1>2. CASE WaitExit
    BY <1>2 DEF WaitExit, MainStep
  <1>3. CASE \E o \in Operation : isReady(o) \/ cancel(o)
    BY <1>3 DEF isReady, cancel
  <1>4. CASE RejectRequests \/ InterruptWorkQueue \/ close
    BY <1>4 DEF MainStep, RejectRequests, InterruptWorkQueue, close
  <1>6. CASE cancelAllOperations \/ cancelled
    BY <1>6 DEF MainStep, cancelAllOperations, cancelled
  <1>5. CASE wait_for_worker_threads \/ Join \/ DeleteWorkQueue \/ LoopExit \/ StopHTTPServer
    BY <1>5 DEF MainStep, wait_for_worker_threads, Join, DeleteWorkQueue, LoopExit, StopHTTPServer
  <1>. QED
    BY <1>1, <1>2, <1>3, <1>4, <1>5, <1>6, Writers DEF Shutdown

\* A worker that has left does not come back.
LEMMA GoneStays ==
    ASSUME TypeOK, [Next]_vars, NEW v \in HttpWorker, worker[v].pc = "gone"
    PROVE  worker'[v].pc = "gone"
  <1>0. WorkerTypes
    BY ThreadsAssumption DEF TypeOK, WorkerTypes
  <1>1. CASE Kept(worker[v], worker'[v])
    BY <1>1 DEF Kept
  <1>2. CASE ~ \E w \in HttpWorker : HttpStep(w)
    BY <1>0, <1>1, <1>2, WorkersKept
  <1>3. ASSUME NEW w \in HttpWorker, HttpStep(w) PROVE w # v /\ Kept(worker[v], worker'[v])
    <2>1. w # v
      BY <1>3 DEF HttpStep, Run, ThreadCounterGone, z_sendmany, stop, WriteReply, getAllOperationIds, Calling,
            getOperationForId, getStatus, popOperationForId, z_getoperationresult
    <2>. QED
      BY <1>3, <2>1, OtherWorkers
  <1>. QED
    BY <1>1, <1>2, <1>3

\* cancelAllOperations leaves no operation ready to start: what is ready is
\* still to be looked at, and a closed queue takes no more.
LEMMA CancelStep ==
    ASSUME TypeOK, RequestsInv, OperationsInv, StoppingInv, [Next]_vars
    PROVE  /\ main' = "cancel" => \A o \in Operation : state'[o] = "READY" =>
                                                       o \in cancelling'.left \cup cancelling'.ready
           /\ \A o, p \in cancelling'.ready : o = p
           /\ main' \in ({"notify", "join"} \cup Joined) => \A o \in Operation : state'[o] # "READY"
  <1>1. \A o \in Operation : StateOf(o)
    BY OperationsParts
  <1>2. CASE cancelAllOperations
    <2>1. cancelling'.left = operation_map /\ cancelling'.ready = {} /\ state' = state /\ main' = "cancel"
      BY SMTT(30), <1>2 DEF cancelAllOperations, MainStep, opVars
    <2>. QED
      BY <1>1, <2>1 DEF StateOf, Joined, Stopping
  <1>3. ASSUME NEW p \in Operation, isReady(p)
        PROVE  /\ main' = "cancel" /\ \A o \in Operation : state'[o] = "READY" =>
                                                           o \in cancelling'.left \cup cancelling'.ready
               /\ \A o, q \in cancelling'.ready : o = q
    <2>1. /\ main = "cancel" /\ main' = main /\ state' = state /\ cancelling.ready = {}
          /\ cancelling' = [left |-> cancelling.left \ {p}, ready |-> IF state[p] = "READY" THEN {p} ELSE {}]
      BY <1>3 DEF isReady, opVars
    <2>2. cancelling'.left = cancelling.left \ {p} /\ cancelling'.ready = IF state[p] = "READY" THEN {p} ELSE {}
      BY SMTT(30), <2>1
    <2>. QED
      BY <2>1, <2>2 DEF StoppingInv
  <1>4. ASSUME NEW p \in Operation, cancel(p)
        PROVE  /\ main' = "cancel" /\ \A o \in Operation : state'[o] = "READY" =>
                                                           o \in cancelling'.left \cup cancelling'.ready
               /\ \A o, q \in cancelling'.ready : o = q
    <2>1. /\ main = "cancel" /\ main' = main /\ state' = [state EXCEPT ![p] = "CANCELLED"]
          /\ p \in cancelling.ready /\ cancelling' = [cancelling EXCEPT !.ready = {}]
      BY <1>4 DEF cancel
    <2>2. cancelling'.left = cancelling.left /\ cancelling'.ready = {}
      BY SMTT(30), <2>1 DEF TypeOK
    <2>3. \A o \in Operation \ {p} : state'[o] = state[o]
      BY <2>1 DEF TypeOK
    <2>4. state'[p] = "CANCELLED"
      BY <2>1 DEF TypeOK
    <2>. QED
      BY <2>1, <2>2, <2>3, <2>4 DEF StoppingInv
  <1>5. CASE cancelling' = cancelling
    <2>1. \A o, p \in cancelling'.ready : o = p
      BY <1>5 DEF StoppingInv
    <2>2. ASSUME main' \in {"cancel", "notify", "join"} \cup Joined, main # "lock",
                 NEW o \in Operation, state'[o] = "READY"
          PROVE  state[o] = "READY" /\ main \in {"cancel", "notify", "join"} \cup Joined
      <3>1. main \in {"cancel", "notify", "join"} \cup Joined
        BY <2>2, MainMoves DEF Joined, Stopping
      <3>2. closed
        BY <3>1 DEF StoppingInv, Joined, Stopping
      <3>. QED
        BY <2>2, <3>1, <3>2, StateMoves
    <2>3. CASE main = "lock"
      BY <1>2, <2>1, <2>3, MainMoves DEF Joined, Stopping
    <2>4. CASE main # "lock" /\ main' = "cancel"
      <3>1. main = "cancel"
        BY <2>4, MainMoves
      <3>. QED
        BY <1>5, <2>1, <2>2, <2>4, <3>1 DEF StoppingInv, Joined, Stopping
    <2>5. CASE main = "cancel" /\ main' # "cancel"
      <3>1. cancelled
        BY <2>5, MainMoves
      <3>2. cancelling.left = {} /\ cancelling.ready = {}
        BY SMTT(30), <3>1 DEF cancelled
      <3>. QED
        BY <2>1, <2>2, <2>5, <3>2 DEF StoppingInv
    <2>6. CASE main \notin {"lock", "cancel"} /\ main' # "cancel"
      BY <2>1, <2>2, <2>6 DEF StoppingInv
    <2>. QED
      BY <2>3, <2>4, <2>5, <2>6
  <1>. QED
    BY <1>2, <1>3, <1>4, <1>5, Writers DEF Joined, Stopping

\* The async workers are joined, and what they leave behind is empty.
LEMMA JoinStep ==
    ASSUME TypeOK, OperationsInv, StoppingInv, [Next]_vars
    PROVE  /\ main' \in Joined => \A a \in AsyncWorker : async'[a].pc = "gone"
           /\ \A a \in AsyncWorker : async'[a].pc = "gone" => closed' /\ id_queue' = <<>>
  <1>0. \A a \in AsyncWorker : (async[a].job # NoRequest) <=> (async[a].pc \in Working)
    BY OperationsParts DEF JobOf
  <1>1. closed => closed'
    BY Writers DEF close
  <1>2. ASSUME NEW a \in AsyncWorker, main' \in Joined PROVE async'[a].pc = "gone"
    <2>1. main \in Joined \/ Join
      BY <1>2, MainMoves DEF Joined, Stopping
    <2>2. async[a].pc = "gone"
      BY <2>1 DEF StoppingInv, Join
    <2>. QED
      BY <1>0, <2>2, AsyncMoves
  <1>3. ASSUME NEW a \in AsyncWorker, async'[a].pc = "gone" PROVE closed' /\ id_queue' = <<>>
    <2>1. CASE async[a].pc = "gone"
      <3>1. closed /\ id_queue = <<>>
        BY <2>1 DEF StoppingInv
      <3>2. CASE \E w \in HttpWorker : z_sendmany(w)
        BY <1>1, <3>1, <3>2 DEF z_sendmany, addOperation
      <3>3. CASE \E b \in AsyncWorker : AsyncRun(b)
        BY <1>1, <3>1, <3>3 DEF AsyncRun
      <3>. QED
        BY <1>1, <3>1, <3>2, <3>3, Writers
    <2>2. CASE AsyncRun(a) /\ async[a].pc # "gone"
      <3>1. AsyncTypes /\ id_queue \in Seq(Operation) /\ AsyncStep(a) /\ async[a].pc = "fetch"
        BY <2>2 DEF TypeOK, AsyncTypes, AsyncStep, AsyncRun
      <3>2. closed /\ id_queue' = <<>>
        BY <1>3, <3>1, AsyncEffect DEF isCancelled, Executing, Finished
      <3>. QED
        BY <1>1, <3>2
    <2>. QED
      BY <1>0, <1>3, <2>1, <2>2, AsyncMoves
  <1>. QED
    BY <1>2, <1>3

\* The workers have left when the queue is deleted: numThreads has counted them.
LEMMA LeftStep ==
    ASSUME TypeOK, WorkersInv, StoppingInv, [Next]_vars, main' \in Stopping, NEW v \in HttpWorker
    PROVE  worker'[v].pc = "gone"
  <1>1. CASE main \in Stopping
    BY <1>1, GoneStays DEF StoppingInv
  <1>2. CASE main \notin Stopping
    <2>1. main = "exit" /\ main' = "delete" /\ WaitExit
      BY <1>2, MainMoves DEF Stopping
    <2>2. ~(numThreads > 0) /\ worker' = worker
      BY <2>1 DEF WaitExit, MainStep
    <2>. DEFINE in == {w \in HttpWorker : worker[w].pc # "gone"}
    <2>3. IsFiniteSet(in)
      BY FS_Subset, ThreadsAssumption
    <2>4. Cardinality(in) \in Nat /\ numThreads = Cardinality(in)
      BY <2>3, FS_CardinalityType DEF WorkersInv
    <2>. HIDE DEF in
    <2>5. Cardinality(in) = 0
      BY SMTT(30), <2>2, <2>4
    <2>6. in = {}
      BY <2>3, <2>5, FS_EmptySet
    <2>. QED
      BY <2>2, <2>6 DEF in
  <1>. QED
    BY <1>1, <1>2

\* Nobody uses the queue after it is deleted, nor the loop after it has ended.
LEMMA QuietStep ==
    ASSUME TypeOK, StoppingInv, [Next]_vars
    PROVE  /\ main' \in (Stopping \ {"delete"}) => queue' = <<>>
           /\ loop' # "runs" => main' \in {"joinhttp", "stopped"}
           /\ main' = "stopped" => loop' \in {"ended", "broken"}
           /\ loop' = "ended" => \A r \in Request : reply'[r] # "triggered"
  <1>0. ASSUME main \in Stopping, NEW w \in HttpWorker PROVE ~HttpStep(w)
    <2>1. worker[w].pc = "gone"
      BY <1>0 DEF StoppingInv
    <2>. QED
      BY <2>1 DEF HttpStep, Run, ThreadCounterGone, z_sendmany, stop, WriteReply, getAllOperationIds, Calling,
            getOperationForId, getStatus, popOperationForId, z_getoperationresult
  <1>1. ASSUME main' \in (Stopping \ {"delete"}) PROVE queue' = <<>>
    <2>1. CASE DeleteWorkQueue
      BY <2>1 DEF DeleteWorkQueue
    <2>2. CASE ~DeleteWorkQueue
      <3>1. main \in (Stopping \ {"delete"})
        BY <1>1, <2>2, MainMoves DEF Stopping
      <3>2. queue = <<>> /\ rejecting
        BY <3>1 DEF StoppingInv, Stopping
      <3>3. queue' = queue
        BY <1>0, <2>2, <3>1, <3>2, Writers DEF http_request_cb, HttpStep
      <3>. QED
        BY <3>2, <3>3
    <2>. QED
      BY <2>1, <2>2
  <1>2. ASSUME loop' # "runs" PROVE main' \in {"joinhttp", "stopped"}
    <2>1. loop # "runs" => main \in {"joinhttp", "stopped"}
      BY DEF StoppingInv
    <2>2. main \in {"joinhttp", "stopped"} => main' \in {"joinhttp", "stopped"}
      BY MainMoves
    <2>. QED
      BY <1>2, <2>1, <2>2, Writers DEF ThreadHTTP, LoopExit, LoopBreak, MainStep
  <1>3. ASSUME main' = "stopped" PROVE loop' \in {"ended", "broken"}
    <2>1. main = "stopped" \/ StopHTTPServer
      BY <1>3, MainMoves
    <2>2. loop \in {"ended", "broken"}
      BY <2>1 DEF StoppingInv, StopHTTPServer
    <2>3. loop' = loop
      BY <2>1, <2>2, Writers DEF ThreadHTTP, LoopExit, LoopBreak, MainStep, StopHTTPServer, httpVars
    <2>. QED
      BY <2>2, <2>3
  <1>4. ASSUME loop' = "ended", NEW r \in Request PROVE reply'[r] # "triggered"
    <2>1. CASE ThreadHTTP
      BY <1>4, <2>1 DEF ThreadHTTP
    <2>2. CASE ~ThreadHTTP
      <3>1. loop = "ended"
        BY <1>4, <2>2, Writers DEF LoopExit, LoopBreak
      <3>2. main \in {"joinhttp", "stopped"} /\ reply[r] # "triggered"
        BY <3>1 DEF StoppingInv
      <3>3. reply' = reply
        BY <1>0, <3>1, <3>2, Writers DEF http_request_cb, http_reject_request_cb, httpevent_callback_fn,
              HttpStep, DeleteWorkQueue, MainStep, Stopping
      <3>. QED
        BY <3>2, <3>3
    <2>. QED
      BY <2>1, <2>2
  <1>. QED
    BY <1>1, <1>2, <1>3, <1>4

\* StoppingInv is preserved.
LEMMA StoppingStep ==
    TypeOK /\ WorkersInv /\ RequestsInv /\ OperationsInv /\ StoppingInv /\ [Next]_vars => StoppingInv'
  <1>. SUFFICES ASSUME TypeOK, WorkersInv, RequestsInv, OperationsInv, StoppingInv, [Next]_vars
                PROVE  StoppingInv'
    OBVIOUS
  <1>1. main' \in {"wait", "interrupt", "close", "lock", "cancel", "notify", "join"} \cup Joined
    BY MainMoves DEF StoppingInv, Joined, Stopping
  <1>2. main' # "wait" => rejecting'
    <2>1. rejecting => rejecting'
      BY Writers DEF RejectRequests
    <2>2. RejectRequests => rejecting'
      BY DEF RejectRequests
    <2>. QED
      BY <2>1, <2>2, MainMoves DEF StoppingInv
  <1>3. main' \notin {"wait", "interrupt", "close"} => closed'
    <2>1. closed => closed'
      BY Writers DEF close
    <2>2. close => closed'
      BY DEF close
    <2>. QED
      BY <2>1, <2>2, MainMoves DEF StoppingInv
  <1>. QED
    BY <1>1, <1>2, <1>3, CancelStep, JoinStep, LeftStep, QuietStep DEF StoppingInv

\* The state the server starts in.
LEMMA InitInv == Init => ServicesInv
  <1>. SUFFICES ASSUME Init PROVE ServicesInv
    OBVIOUS
  <1>1. TypeOK
    <2>1. [pc |-> "fetch", job |-> NoRequest, ids |-> {}, seen |-> NoRequest] \in WorkerState
      BY SMT DEF WorkerState
    <2>2. [pc |-> "fetch", job |-> NoRequest] \in AsyncState
      BY SMT DEF AsyncState
    <2>3. queue \in Seq(Request) /\ Len(queue) <= maxDepth /\ id_queue \in Seq(Operation)
      <3>1. queue = <<>> /\ id_queue = <<>>
        BY DEF Init
      <3>. QED
        BY SMTT(30), <3>1, DepthAssumption
    <2>4. cancelling \in [left : SUBSET Operation, ready : SUBSET Operation]
      BY SMT DEF Init
    <2>. QED
      BY <2>1, <2>2, <2>3, <2>4 DEF Init, TypeOK
  <1>2. \A w \in HttpWorker : worker[w].pc = "fetch" /\ worker[w].job = NoRequest
    BY DEF Init
  <1>3. \A a \in AsyncWorker : async[a].pc = "fetch" /\ async[a].job = NoRequest
    BY DEF Init
  <1>4. WorkersInv
    <2>1. {w \in HttpWorker : worker[w].pc # "gone"} = HttpWorker
      BY <1>2
    <2>. QED
      BY <1>2, <2>1 DEF Init, WorkersInv, Collecting
  <1>5. RequestsInv
    <2>1. Queued = {} /\ QueuedOnce
      <3>1. queue = <<>>
        BY DEF Init
      <3>. QED
        BY SMTT(30), <3>1 DEF Queued, QueuedOnce
    <2>2. \A r \in Request : reply[r] = "none"
      BY DEF Init
    <2>. QED
      BY <1>2, <2>1, <2>2, RequestsParts, ThreadsAssumption DEF WorkerHas, Accepted, Serving, Collecting
  <1>6. OperationsInv
    <2>1. \A o \in Operation : state[o] = "none" /\ told[o] = {} /\ o \notin operation_map
      BY DEF Init
    <2>. QED
      BY <1>2, <1>3, <2>1, OperationsParts DEF Known, StateOf, Runs, ToldOf, SeenOf, JobOf, Working
  <1>7. StoppingInv
    <2>1. main = "wait" /\ loop = "runs" /\ cancelling.ready = {}
      BY SMT DEF Init
    <2>. QED
      BY <1>3, <2>1 DEF StoppingInv, Joined, Stopping
  <1>. QED
    BY <1>1, <1>4, <1>5, <1>6, <1>7 DEF ServicesInv

----------------------------------------------------------------------------
(***************************************************************************)
(* The theorems.                                                           *)
(***************************************************************************)
\* At every moment cs_main has one holder, numThreads counts the workers that
\* are inside Run, every accepted request is in one place, and the services are
\* stopped in order.
THEOREM ServicesInvariant == Spec => []ServicesInv
  <1>1. ServicesInv /\ [Next]_vars => ServicesInv'
    BY TypeStep, WorkersStep, RequestsStep, OperationsStep, StoppingStep DEF ServicesInv
  <1>. QED
    BY <1>1, InitInv, PTL DEF Spec

\* The end of an operation is reported once, to one caller, and as it was.
THEOREM ResultsAreOnce == Spec => []ResultOnce
  <1>1. ServicesInv => ResultOnce
    <2>. SUFFICES ASSUME OperationsInv, NEW o \in Operation
                  PROVE  /\ Cardinality(told[o]) <= 1
                         /\ \A t \in told[o] : t[2] = outcome[o] \/ (t[2] = "CANCELLED" /\ closed)
      BY DEF ServicesInv, ResultOnce
    <2>1. ToldOf(o)
      BY OperationsParts
    <2>2. CASE told[o] = {}
      <3>1. Cardinality(told[o]) = 0
        BY <2>2, FS_EmptySet
      <3>. QED
        BY SMTT(30), <2>2, <3>1
    <2>3. CASE told[o] # {}
      <3>1. PICK r \in Request : \/ told[o] = {<<r, "ENDED">>} /\ outcome[o] = "ENDED"
                                 \/ told[o] = {<<r, "CANCELLED">>} /\ closed
        BY <2>1, <2>3 DEF ToldOf, ToldAs
      <3>2. Cardinality(told[o]) = 1
        BY <3>1, FS_Singleton
      <3>3. Cardinality(told[o]) <= 1
        BY SMTT(30), <3>2
      <3>4. \A t \in told[o] : t[2] = outcome[o] \/ (t[2] = "CANCELLED" /\ closed)
        BY SMTT(30), <3>1
      <3>. QED
        BY <3>3, <3>4
    <2>. QED
      BY <2>2, <2>3
  <1>. QED
    BY <1>1, ServicesInvariant, PTL

\* When the server has stopped, no request is without an answer and no
\* operation is ready or executing.
THEOREM NothingIsLeft == Spec => []NothingLeft
  <1>1. ServicesInv => NothingLeft
    <2>. SUFFICES ASSUME ServicesInv, main = "stopped"
                  PROVE  /\ \A r \in Request : reply[r] # "accepted" /\ (reply[r] = "triggered" => loop = "broken")
                         /\ \A o \in Operation : state[o] \in Final \cup {"none"}
                         /\ id_queue = <<>>
      BY DEF NothingLeft
    <2>1. /\ queue = <<>> /\ \A w \in HttpWorker : worker[w].pc = "gone"
          /\ loop \in {"ended", "broken"} /\ (loop = "ended" => \A r \in Request : reply[r] # "triggered")
          /\ \A a \in AsyncWorker : async[a].pc = "gone"
          /\ \A o \in Operation : state[o] # "READY"
      BY DEF ServicesInv, StoppingInv, Stopping, Joined
    <2>2. id_queue = <<>>
      BY <2>1, ThreadsAssumption DEF ServicesInv, StoppingInv
    <2>3. ASSUME NEW r \in Request PROVE reply[r] # "accepted"
      <3>1. Queued = {}
        BY SMT, <2>1 DEF Queued
      <3>2. \A w \in HttpWorker : worker[w].job = NoRequest
        BY <2>1, RequestsParts DEF ServicesInv, WorkerHas, Serving, Collecting
      <3>3. Accepted(r)
        BY RequestsParts DEF ServicesInv
      <3>. QED
        BY <3>1, <3>2, <3>3, ThreadsAssumption DEF Accepted
    <2>4. ASSUME NEW o \in Operation PROVE state[o] \in Final \cup {"none"}
      <3>1. Runs(o) /\ state[o] \in {"none", "READY", "EXECUTING"} \cup Final
        BY OperationsParts DEF ServicesInv, TypeOK
      <3>. QED
        BY <2>1, <3>1 DEF Runs
    <2>. QED
      BY <2>1, <2>2, <2>3, <2>4
  <1>. QED
    BY <1>1, ServicesInvariant, PTL
=============================================================================
