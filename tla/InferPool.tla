------------------------------- MODULE InferPool -------------------------------
(***************************************************************************)
(* The inference pool's two bounded queues with their mutexes and condition *)
(* variables, and the request that stops and starts the pool                *)
(* (rknn_yolo.c).  VideoPipeline has the same queues with waits as guards;  *)
(* here a thread looks, then waits, and ai_stop_pool clears pool_running    *)
(* and broadcasts between the two, as it takes neither mutex.               *)
(*                                                                         *)
(* A mutex is held across steps only by a thread that has looked and is     *)
(* about to wait or to store; every other critical section is one step.     *)
(* The composer's wait has a timeout, so that looking and waiting is one    *)
(* step.  Frames, detections and rendering are abstracted: a job is its     *)
(* claim and its rgb buffer.                                               *)
(***************************************************************************)
EXTENDS Integers, Sequences, FiniteSets

CONSTANTS
  Workers,   \* inference threads
  Cap,       \* AI_QUEUE_CAP
  ResultCap, \* AI_RESULT_CAP
  MaxJobs,   \* bound: frames claimed
  MaxStops   \* bound: reloads

ASSUME PoolAssumption ==
  /\ Cap \in Nat \ {0} /\ ResultCap \in Nat \ {0}
  /\ {MaxJobs, MaxStops} \subseteq Nat

VARIABLES
  pool,    \* pool_running, who was created, the reload's pc and loop, stops
  quiet,   \* the ring refuses claims: the camera waits for them to be dropped
  q,       \* g_ai.jobs, q_head, q_tail, q_count; a cell is a job, 0: rgb is NULL
  results, \* g_ai.results
  ai,      \* rknn_ai_task: pc and the job in hand
  wk,      \* yolo_worker_task of each worker: pc and the job in hand
  comp,    \* yolo_render_task: pc
  hist     \* jobs made, releases of each, wakeups missed, a purge amid a push

vars == <<pool, quiet, q, results, ai, wk, comp, hist>>

Jobs == 1 .. MaxJobs
Cells == 0 .. Cap - 1
EmptyQueue == [cells |-> [i \in Cells |-> 0], head |-> 0, tail |-> 0, count |-> 0]

Init ==
  /\ pool = [running |-> FALSE, created |-> {}, pc |-> "down", at |-> 0, stops |-> 0]
  /\ quiet = FALSE
  /\ q = EmptyQueue
  /\ results = <<>>
  /\ ai = [pc |-> "get", job |-> 0]
  /\ wk = [w \in Workers |-> [pc |-> "gone", job |-> 0]]
  /\ comp = "gone"
  /\ hist = [made |-> 0, released |-> [j \in Jobs |-> 0], missed |-> {}, raced |-> FALSE]

\* q_lock and r_lock are free.
QFree == ai.pc \notin {"store", "full"} /\ \A w \in Workers : wk[w].pc # "empty"
RFree == \A w \in Workers : wk[w].pc # "crowded"

\* A claim is dropped, or passed to the slot, and the rgb buffer leaves the job.
Released(h, j) == IF j = 0 THEN h ELSE [h EXCEPT !.released[j] = @ + 1]

\* pthread_cond_signal on q_not_empty and r_not_full (some waiter, if any), and
\* on q_not_full (only the AI task waits there).
Signal(ws, from, to) ==
  LET S == {w \in Workers : ws[w].pc = from} IN
  IF S = {} THEN {ws} ELSE {[ws EXCEPT ![w].pc = to] : w \in S}
WakeAi(a) == IF a.pc = "waiting" THEN [a EXCEPT !.pc = "push"] ELSE a

-----------------------------------------------------------------------------
(* rknn_ai_task and yolo_queue_push *)

AiGet ==
  /\ ai.pc = "get"
  /\ pool.running /\ ~quiet
  /\ hist.made < MaxJobs
  /\ hist' = [hist EXCEPT !.made = @ + 1]
  /\ ai' = [pc |-> "push", job |-> hist.made + 1]
  /\ UNCHANGED <<pool, quiet, q, results, wk, comp>>

\* q_lock is taken and the condition looked at.
AiLook ==
  /\ ai.pc = "push" /\ QFree
  /\ \/ /\ ~pool.running
        /\ ai' = [pc |-> "get", job |-> 0]
        /\ hist' = Released(hist, ai.job)
     \/ /\ pool.running
        /\ ai' = [ai EXCEPT !.pc = IF q.count >= Cap THEN "full" ELSE "store"]
        /\ UNCHANGED hist
  /\ UNCHANGED <<pool, quiet, q, results, wk, comp>>

AiWait ==
  /\ ai.pc = "full"
  /\ ai' = [ai EXCEPT !.pc = "waiting"]
  /\ UNCHANGED <<pool, quiet, q, results, wk, comp, hist>>

AiStore ==
  /\ ai.pc = "store"
  /\ q' = [q EXCEPT !.cells[q.tail] = ai.job, !.tail = (@ + 1) % Cap, !.count = @ + 1]
  /\ ai' = [pc |-> "get", job |-> 0]
  /\ wk' \in Signal(wk, "sleeping", "pop")
  /\ UNCHANGED <<pool, quiet, results, comp, hist>>

-----------------------------------------------------------------------------
(* yolo_worker_task, yolo_queue_pop and yolo_result_push *)

\* Mutant: the cell keeps its buffer.
PoppedKept == [q EXCEPT !.head = (@ + 1) % Cap, !.count = @ - 1]

Popped == [q EXCEPT !.cells[q.head] = 0, !.head = (@ + 1) % Cap, !.count = @ - 1]

\* A worker at the head of its loop takes q_lock only if the pool runs.
WkExit(w) ==
  /\ wk[w].pc = "pop"
  /\ ~pool.running
  /\ wk' = [wk EXCEPT ![w].pc = "gone"]
  /\ UNCHANGED <<pool, quiet, q, results, ai, comp, hist>>

\* Mutant: the AI task is not told of the room.
WkTakeSilent(w) ==
  /\ wk[w].pc = "pop" /\ QFree
  /\ q.count > 0
  /\ q' = Popped
  /\ wk' = [wk EXCEPT ![w] = [pc |-> "infer", job |-> q.cells[q.head]]]
  /\ UNCHANGED <<pool, quiet, results, ai, comp, hist>>

WkTake(w) ==
  /\ wk[w].pc = "pop" /\ QFree
  /\ q.count > 0
  /\ q' = Popped
  /\ wk' = [wk EXCEPT ![w] = [pc |-> "infer", job |-> q.cells[q.head]]]
  /\ ai' = WakeAi(ai)
  /\ UNCHANGED <<pool, quiet, results, comp, hist>>

WkLook(w) ==
  /\ wk[w].pc = "pop" /\ QFree
  /\ q.count = 0 /\ pool.running
  /\ wk' = [wk EXCEPT ![w].pc = "empty"]
  /\ UNCHANGED <<pool, quiet, q, results, ai, comp, hist>>

WkWait(w) ==
  /\ wk[w].pc = "empty"
  /\ wk' = [wk EXCEPT ![w].pc = "sleeping"]
  /\ UNCHANGED <<pool, quiet, q, results, ai, comp, hist>>

\* The NPU fails, or the pool was stopped.
WkAbandon(w) ==
  /\ wk[w].pc = "infer"
  /\ hist' = Released(hist, wk[w].job)
  /\ wk' = [wk EXCEPT ![w] = [pc |-> "pop", job |-> 0]]
  /\ UNCHANGED <<pool, quiet, q, results, ai, comp>>

\* The picture goes into its slot, whose claim is dropped.
WkWrite(w) ==
  /\ wk[w].pc = "infer" /\ pool.running
  /\ hist' = Released(hist, wk[w].job)
  /\ wk' = [wk EXCEPT ![w].pc = "result"]
  /\ UNCHANGED <<pool, quiet, q, results, ai, comp>>

WkResult(w) ==
  /\ wk[w].pc = "result" /\ RFree
  /\ \/ /\ ~pool.running
        /\ wk' = [wk EXCEPT ![w] = [pc |-> "pop", job |-> 0]]
        /\ UNCHANGED <<results, comp>>
     \/ /\ pool.running /\ Len(results) < ResultCap
        /\ results' = Append(results, wk[w].job)
        /\ comp' = IF comp = "waiting" THEN "pop" ELSE comp
        /\ wk' = [wk EXCEPT ![w] = [pc |-> "pop", job |-> 0]]
     \/ /\ pool.running /\ Len(results) >= ResultCap
        /\ wk' = [wk EXCEPT ![w].pc = "crowded"]
        /\ UNCHANGED <<results, comp>>
  /\ UNCHANGED <<pool, quiet, q, ai, hist>>

WkResultWait(w) ==
  /\ wk[w].pc = "crowded"
  /\ wk' = [wk EXCEPT ![w].pc = "stuck"]
  /\ UNCHANGED <<pool, quiet, q, results, ai, comp, hist>>

-----------------------------------------------------------------------------
(* yolo_render_task, yolo_result_pop and yolo_result_try_pop *)

CoTake ==
  /\ comp \in {"pop", "drain"} /\ RFree
  /\ results # <<>>
  /\ results' = Tail(results)
  /\ comp' = "drain"
  /\ wk' \in Signal(wk, "stuck", "result")
  /\ UNCHANGED <<pool, quiet, q, ai, hist>>

\* The queue is drained, and the last item drawn.
CoDraw ==
  /\ comp = "drain" /\ RFree
  /\ results = <<>>
  /\ comp' = "pop"
  /\ UNCHANGED <<pool, quiet, q, results, ai, wk, hist>>

CoWait ==
  /\ comp = "pop" /\ RFree
  /\ results = <<>> /\ pool.running
  /\ comp' = "waiting"
  /\ UNCHANGED <<pool, quiet, q, results, ai, wk, hist>>

CoTimeout ==
  /\ comp = "waiting" /\ RFree
  /\ comp' = "pop"
  /\ UNCHANGED <<pool, quiet, q, results, ai, wk, hist>>

CoExit ==
  /\ comp = "pop" /\ ~pool.running
  /\ comp' = "gone"
  /\ UNCHANGED <<pool, quiet, q, results, ai, wk, hist>>

-----------------------------------------------------------------------------
(* ai_stop_pool and ai_start_pool, in a request *)

Stop ==
  /\ pool.pc = "up" /\ pool.stops < MaxStops
  /\ pool' = [pool EXCEPT !.running = FALSE, !.pc = "q_not_empty", !.stops = @ + 1]
  /\ UNCHANGED <<quiet, q, results, ai, wk, comp, hist>>

\* Every thread that waits is woken; one that has looked and does not wait yet
\* is not.
WakeIdle ==
  /\ pool.pc = "q_not_empty"
  /\ pool' = [pool EXCEPT !.pc = "q_not_full"]
  /\ wk' = [w \in Workers |-> [wk[w] EXCEPT !.pc = IF @ = "sleeping" THEN "pop" ELSE @]]
  /\ hist' = [hist EXCEPT !.missed = @ \cup {w \in Workers : wk[w].pc = "empty"}]
  /\ UNCHANGED <<quiet, q, results, ai, comp>>

WakePusher ==
  /\ pool.pc = "q_not_full"
  /\ pool' = [pool EXCEPT !.pc = "r_not_full"]
  /\ ai' = WakeAi(ai)
  /\ hist' = [hist EXCEPT !.missed = @ \cup {t \in {"ai"} : ai.pc = "full"}]
  /\ UNCHANGED <<quiet, q, results, wk, comp>>

\* Mutant: nobody wakes the workers that wait for room for their results.
WakeCrowdedNot ==
  /\ pool.pc = "r_not_full"
  /\ pool' = [pool EXCEPT !.pc = "join"]
  /\ comp' = IF comp = "waiting" THEN "pop" ELSE comp
  /\ hist' = [hist EXCEPT !.missed = @ \cup {w \in Workers : wk[w].pc = "crowded"}]
  /\ UNCHANGED <<quiet, q, results, ai, wk>>

\* r_not_empty and r_not_full.
WakeCrowded ==
  /\ pool.pc = "r_not_full"
  /\ pool' = [pool EXCEPT !.pc = "join"]
  /\ comp' = IF comp = "waiting" THEN "pop" ELSE comp
  /\ wk' = [w \in Workers |-> [wk[w] EXCEPT !.pc = IF @ = "stuck" THEN "result" ELSE @]]
  /\ hist' = [hist EXCEPT !.missed = @ \cup {w \in Workers : wk[w].pc = "crowded"}]
  /\ UNCHANGED <<quiet, q, results, ai>>

Join ==
  /\ pool.pc = "join"
  /\ comp = "gone" /\ \A w \in Workers : wk[w].pc = "gone"
  /\ pool' = [pool EXCEPT !.pc = "purge", !.at = 0]
  /\ UNCHANGED <<quiet, q, results, ai, wk, comp, hist>>

\* Every cell that holds a buffer, in the order of the array, without q_lock.
Purge ==
  /\ pool.pc = "purge" /\ pool.at < Cap
  /\ q' = [q EXCEPT !.cells[pool.at] = 0]
  /\ hist' = [Released(hist, q.cells[pool.at]) EXCEPT !.raced = @ \/ ai.pc = "store"]
  /\ pool' = [pool EXCEPT !.at = @ + 1]
  /\ UNCHANGED <<quiet, results, ai, wk, comp>>

Down ==
  /\ pool.pc = "purge" /\ pool.at = Cap
  /\ q' = [q EXCEPT !.head = 0, !.tail = 0, !.count = 0]
  /\ results' = <<>>
  /\ hist' = [hist EXCEPT !.raced = @ \/ ai.pc = "store"]
  /\ pool' = [pool EXCEPT !.pc = "down", !.at = 0]
  /\ UNCHANGED <<quiet, ai, wk, comp>>

\* Creating a thread may fail: the pool runs with the workers that there are,
\* with none, and without the composer.  (Loading the model may fail too, and
\* the pool stays down.)
Start(W, c) ==
  /\ pool.pc = "down"
  /\ pool' = [pool EXCEPT !.running = TRUE, !.pc = "up",
                          !.created = W \cup {t \in {"composer"} : c}]
  /\ wk' = [w \in Workers |-> [wk[w] EXCEPT !.pc = IF w \in W THEN "pop" ELSE "gone"]]
  /\ comp' = IF c THEN "pop" ELSE "gone"
  /\ UNCHANGED <<quiet, q, results, ai, hist>>

\* The camera restarts: no claims while it waits for those there are.
Quiet ==
  /\ ~quiet
  /\ quiet' = TRUE
  /\ UNCHANGED <<pool, q, results, ai, wk, comp, hist>>

-----------------------------------------------------------------------------

AiStep == AiGet \/ AiLook \/ AiWait \/ AiStore

WkStep(w) ==
  \/ WkExit(w) \/ WkTake(w) \/ WkLook(w) \/ WkWait(w)
  \/ WkAbandon(w) \/ WkWrite(w) \/ WkResult(w) \/ WkResultWait(w)

CoStep == CoTake \/ CoDraw \/ CoWait \/ CoTimeout \/ CoExit

StopStep == WakeIdle \/ WakePusher \/ WakeCrowded \/ Join \/ Purge \/ Down

Next ==
  \/ AiStep \/ (\E w \in Workers : WkStep(w)) \/ CoStep
  \/ Stop \/ StopStep \/ Quiet
  \/ \E W \in SUBSET Workers, c \in BOOLEAN : Start(W, c)

Spec == Init /\ [][Next]_vars

\* Threads are scheduled and mutexes handed on; no reload, restart or start need
\* ever come.
FairSpec ==
  /\ Spec
  /\ WF_vars(AiStep) /\ WF_vars(CoStep) /\ WF_vars(StopStep)
  /\ \A w \in Workers : WF_vars(WkStep(w))

-----------------------------------------------------------------------------
(* Properties *)

\* Jobs that still hold a claim, with the places they are in.
Holders(j) ==
  {<<"cell", i>> : i \in {c \in Cells : q.cells[c] = j}}
    \cup {<<"worker", w>> : w \in {v \in Workers : wk[v].pc = "infer" /\ wk[v].job = j}}
    \cup {<<"ai", 0>> : a \in {ai.job} \cap {j}}

\* A job's buffer and claim are in one place until they are given back, once:
\* neither the purge of a stopped pool (rknn_yolo.c:632-639) nor a refused push
\* frees what a worker has taken, and none is forgotten.  The exception is a
\* push that looked before the stop and stores during the purge.
JobsOnce ==
  hist.raced \/ \A j \in 1 .. hist.made :
    Cardinality(Holders(j)) + hist.released[j] = 1

\* Stopping the pool ends, wherever its threads wait, unless one of them had
\* looked at pool_running and not yet waited when the broadcast came: nobody
\* wakes that one again (rknn_yolo.c:618-621 broadcasts without the mutexes).
StopEnds == (pool.pc = "join") ~> (pool.pc # "join" \/ hist.missed # {})

\* While the ring refuses claims, those there are get dropped: with a pool that
\* is whole, running, stopping or stopped, no job is left waiting in a queue.
Whole == pool.created = Workers \cup {"composer"}
ClaimsDropped ==
  quiet ~> \/ \A j \in 1 .. hist.made : hist.released[j] > 0
           \/ hist.missed # {} \/ hist.raced \/ ~Whole

\* Stopping the pool wakes every thread, joins it and cleans up, as the comment
\* on ai_stop_pool says (rknn_yolo.c:604).
StopAlwaysEnds == (pool.pc = "join") ~> (pool.pc # "join")

=============================================================================
