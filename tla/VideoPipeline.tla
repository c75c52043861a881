---------------------------- MODULE VideoPipeline ----------------------------
(***************************************************************************)
(* The threads around the frame ring: the camera worker (video_stream.c),  *)
(* the AI task, its inference workers and the render composer              *)
(* (rknn_yolo.c), the recorder (video_rec.c), and an HTTP request that     *)
(* reloads the inference pool.  They share the ring, the bounded queue of  *)
(* jobs, the bounded queue of results and the pool's two flags; one action *)
(* is what a thread does between two points where another can see it.      *)
(*                                                                         *)
(* Abstracted: detections, pacing and CPU affinity.  A wait on a condition *)
(* variable is a guard here: InferPool has the queues' mutexes and          *)
(* condition variables.  A restart request only ends the capture session,  *)
(* which may end at any time anyway; what a change of size does to the     *)
(* recorder is in Recorder.                                                *)
(***************************************************************************)
EXTENDS FrameRingOps, Sequences

CONSTANTS
  Workers,     \* inference workers
  QueueCap,    \* AI_QUEUE_CAP
  ResultCap,   \* AI_RESULT_CAP
  MaxSessions, \* bound: capture sessions
  MaxReloads,  \* bound: pool stops
  MaxSegments  \* bound: recording sessions

ASSUME PipelineAssumption ==
  /\ IsFiniteSet(Workers)
  /\ QueueCap \in Nat \ {0} /\ ResultCap \in Nat \ {0}
  /\ {MaxSeq, MaxSessions, MaxReloads, MaxSegments} \subseteq Nat

VARIABLES
  cam,      \* video_stream_task: pc, sessions
  ai,       \* rknn_ai_task: pc, last_seq, and the frame in hand
  jobq,     \* g_ai.jobs
  lost,     \* history: jobs in cells of g_ai.jobs outside the queue
  wk,       \* yolo_worker_task of each worker: pc and the job in hand
  results,  \* g_ai.results
  comp,     \* yolo_render_task: pc, item, next_seq and the two pictures
  rec,      \* video_rec_task: recording, g_ai_seq, stolen picture, segments
  pool      \* pool_running, enabled, the reloading request's pc, reloads

pipeVars == <<ring, cam, ai, jobq, lost, wk, results, comp, rec, pool>>

Job(t) == [seq |-> t.seq, rgb |-> t.rgb]

PipeInit ==
  /\ ring = EmptyRing
  /\ cam = [pc |-> "init", sessions |-> 0]
  /\ ai = [pc |-> "idle", last |-> 0, seq |-> 0, rgb |-> NoBuf]
  /\ jobq = <<>> /\ lost = {}
  /\ wk = [w \in Workers |-> [pc |-> "gone", seq |-> 0, rgb |-> NoBuf]]
  /\ results = <<>>
  /\ comp = [pc |-> "gone", item |-> 0, next |-> 0, nv12 |-> NoBuf, jpeg |-> NoBuf]
  /\ rec = [on |-> FALSE, last |-> 0, nv12 |-> NoBuf, segments |-> 0]
  /\ pool = [running |-> FALSE, enabled |-> FALSE, pc |-> "down", reloads |-> 0]

-----------------------------------------------------------------------------
(* What the threads hold, as the ring's contract sees it: to the contract a lost *)
(* job is one that nobody has ended yet.                                         *)

Decoded(t) == [seq |-> t.seq, rgb |-> t.rgb, decoded |-> TRUE]

Jobs ==
  {Decoded(jobq[i]) : i \in 1 .. Len(jobq)}
    \cup {Decoded(j) : j \in lost}
    \cup {Decoded(wk[w]) : w \in {v \in Workers : wk[v].pc \in {"infer", "write"}}}
    \cup {[seq |-> ai.seq, rgb |-> ai.rgb, decoded |-> ai.pc \in {"push", "store"}] :
            p \in {ai.pc} \cap {"decode", "push", "store"}}

Drawing ==
  IF comp.pc = "draw" THEN [seq |-> comp.item, nv12 |-> comp.nv12, jpeg |-> comp.jpeg]
                      ELSE [seq |-> 0, nv12 |-> NoBuf, jpeg |-> NoBuf]

Contract == INSTANCE FrameRing WITH
  MaxClaims <- Cardinality(Workers) + QueueCap + 1 + MaxReloads,
  jobs <- Jobs, drawing <- Drawing, stolen <- rec.nv12

-----------------------------------------------------------------------------
(* video_stream_task *)

\* (A failed start changes nothing: it is tried again.)
CamInit ==
  /\ cam.pc = "init" /\ cam.sessions < MaxSessions
  /\ ring' = StreamOn(ring)
  /\ cam' = [pc |-> "loop", sessions |-> cam.sessions + 1]
  /\ UNCHANGED <<ai, jobq, lost, wk, results, comp, rec, pool>>

CamCapture(v, z) ==
  /\ cam.pc = "loop"
  /\ v \in ring.queued
  /\ ring.produce < MaxSeq
  /\ LET r == Maintain(ring)
     IN  ring' = IF CanProduce(r) THEN Publish(r, v, z) ELSE r
  /\ UNCHANGED <<cam, ai, jobq, lost, wk, results, comp, rec, pool>>

\* Mutant: the session ends without waiting for the claims.
CamSessionEndAtOnce ==
  /\ cam.pc = "loop"
  /\ ring' = [ring EXCEPT !.quiescing = TRUE]
  /\ cam' = [cam EXCEPT !.pc = "unmap"]
  /\ UNCHANGED <<ai, jobq, lost, wk, results, comp, rec, pool>>

\* A restart request, an error of the device, or the end of the program.
CamSessionEnd ==
  /\ cam.pc = "loop"
  /\ ring' = [ring EXCEPT !.quiescing = TRUE]
  /\ cam' = [cam EXCEPT !.pc = "wait"]
  /\ UNCHANGED <<ai, jobq, lost, wk, results, comp, rec, pool>>

CamQuiesced ==
  /\ cam.pc = "wait" /\ NoClaims(ring)
  /\ ring' = ClearAll(ring)
  /\ cam' = [cam EXCEPT !.pc = "unmap"]
  /\ UNCHANGED <<ai, jobq, lost, wk, results, comp, rec, pool>>

\* The wait gives up, and the device is closed while buffers are still lent.  A
\* claim dropped between the two might as well be dropped after both: a buffer
\* requeued in between is taken back by STREAMOFF.
CamTimeout ==
  /\ cam.pc = "wait" /\ ~NoClaims(ring)
  /\ ring' = StreamOff(ring)
  /\ cam' = [cam EXCEPT !.pc = "retry"]
  /\ UNCHANGED <<ai, jobq, lost, wk, results, comp, rec, pool>>

CamUnmap ==
  /\ cam.pc = "unmap"
  /\ ring' = StreamOff(ring)
  /\ cam' = [cam EXCEPT !.pc = "init"]
  /\ UNCHANGED <<ai, jobq, lost, wk, results, comp, rec, pool>>

\* The second wait clears the slots when the claims are gone, or by force.
CamRetry ==
  /\ cam.pc = "retry"
  /\ ring' = ClearAll(ring)
  /\ cam' = [cam EXCEPT !.pc = "init"]
  /\ UNCHANGED <<ai, jobq, lost, wk, results, comp, rec, pool>>

-----------------------------------------------------------------------------
(* rknn_ai_task *)

AiSee ==
  /\ ai.pc = "idle"
  /\ pool.enabled /\ pool.running
  /\ ring.produce > ai.last
  /\ ai' = [ai EXCEPT !.pc = "claim"]
  /\ UNCHANGED <<ring, cam, jobq, lost, wk, results, comp, rec, pool>>

\* Mutant: the task looks at the newest frame only.
ClaimablesNewest == {q \in {ring.produce} : q > ai.last /\ Claimable(ring, q)}

Claimables == {q \in ai.last + 1 .. ring.produce : Claimable(ring, q)}

AiClaim(b) ==
  /\ ai.pc = "claim"
  /\ b \in Contract!Obtainable("rgb")
  /\ \E q \in Claimables :
       /\ \A p \in Claimables : q <= p
       /\ ring' = Take(Claim(ring, q), "rgb", b)
       /\ ai' = [pc |-> "decode", last |-> q - 1, seq |-> q, rgb |-> b]
  /\ UNCHANGED <<cam, jobq, lost, wk, results, comp, rec, pool>>

AiClaimNone ==
  /\ ai.pc = "claim" /\ Claimables = {}
  /\ ai' = [ai EXCEPT !.pc = "idle",
                      !.last = IF @ < ring.produce THEN ring.produce ELSE @]
  /\ UNCHANGED <<ring, cam, jobq, lost, wk, results, comp, rec, pool>>

AiDecodeOk ==
  /\ ai.pc = "decode" /\ ai.rgb # NoBuf
  /\ ai' = [ai EXCEPT !.pc = "push", !.last = ai.seq]
  /\ UNCHANGED <<ring, cam, jobq, lost, wk, results, comp, rec, pool>>

AiDecodeFail ==
  /\ ai.pc = "decode"
  /\ ring' = DecodeFailed(ring, ai.seq, ai.rgb)
  /\ ai' = [pc |-> "idle", last |-> ai.seq, seq |-> 0, rgb |-> NoBuf]
  /\ UNCHANGED <<cam, jobq, lost, wk, results, comp, rec, pool>>

\* yolo_queue_push holds q_lock from here until it has stored the job.
AiLook ==
  /\ ai.pc = "push" /\ pool.running
  /\ Len(jobq) < QueueCap
  /\ ai' = [ai EXCEPT !.pc = "store"]
  /\ UNCHANGED <<ring, cam, jobq, lost, wk, results, comp, rec, pool>>

\* It stores whatever became of the pool since it looked.
AiPush ==
  /\ ai.pc = "store"
  /\ jobq' = Append(jobq, Job(ai))
  /\ ai' = [ai EXCEPT !.pc = "idle", !.seq = 0, !.rgb = NoBuf]
  /\ UNCHANGED <<ring, cam, lost, wk, results, comp, rec, pool>>

AiPushRefused ==
  /\ ai.pc = "push" /\ ~pool.running
  /\ ring' = Abandon(ring, ai.seq, ai.rgb)
  /\ ai' = [ai EXCEPT !.pc = "idle", !.seq = 0, !.rgb = NoBuf]
  /\ UNCHANGED <<cam, jobq, lost, wk, results, comp, rec, pool>>

-----------------------------------------------------------------------------
(* yolo_worker_task *)

WkPop(w) ==
  /\ wk[w].pc = "pop" /\ jobq # <<>> /\ ai.pc # "store"
  /\ wk' = [wk EXCEPT ![w] = [pc |-> "infer", seq |-> Head(jobq).seq, rgb |-> Head(jobq).rgb]]
  /\ jobq' = Tail(jobq)
  /\ UNCHANGED <<ring, cam, ai, lost, results, comp, rec, pool>>

WkExit(w) ==
  /\ wk[w].pc = "pop" /\ ~pool.running
  /\ wk' = [wk EXCEPT ![w].pc = "gone"]
  /\ UNCHANGED <<ring, cam, ai, jobq, lost, results, comp, rec, pool>>

\* The last check of the pool before the slot is written.
WkInferOk(w) ==
  /\ wk[w].pc = "infer" /\ pool.running
  /\ wk' = [wk EXCEPT ![w].pc = "write"]
  /\ UNCHANGED <<ring, cam, ai, jobq, lost, results, comp, rec, pool>>

\* The NPU failed, or the pool was stopped.
WkAbandon(w) ==
  /\ wk[w].pc = "infer"
  /\ ring' = Abandon(ring, wk[w].seq, wk[w].rgb)
  /\ wk' = [wk EXCEPT ![w] = [pc |-> "pop", seq |-> 0, rgb |-> NoBuf]]
  /\ UNCHANGED <<cam, ai, jobq, lost, results, comp, rec, pool>>

WkWrite(w) ==
  /\ wk[w].pc = "write"
  /\ ring' = WriteRgb(ring, wk[w].seq, wk[w].rgb)
  /\ wk' = [wk EXCEPT ![w].pc = "result", ![w].rgb = NoBuf]
  /\ UNCHANGED <<cam, ai, jobq, lost, results, comp, rec, pool>>

WkResult(w) ==
  /\ wk[w].pc = "result"
  /\ \/ pool.running /\ Len(results) < ResultCap /\ results' = Append(results, wk[w].seq)
     \/ ~pool.running /\ UNCHANGED results
  /\ wk' = [wk EXCEPT ![w] = [pc |-> "pop", seq |-> 0, rgb |-> NoBuf]]
  /\ UNCHANGED <<ring, cam, ai, jobq, lost, comp, rec, pool>>

-----------------------------------------------------------------------------
(* yolo_render_task *)

CoPop ==
  /\ comp.pc = "pop" /\ results # <<>>
  /\ comp' = [comp EXCEPT !.pc = "drain", !.item = Head(results)]
  /\ results' = Tail(results)
  /\ UNCHANGED <<ring, cam, ai, jobq, lost, wk, rec, pool>>

CoExit ==
  /\ comp.pc = "pop" /\ ~pool.running
  /\ comp' = [comp EXCEPT !.pc = "gone"]
  /\ UNCHANGED <<ring, cam, ai, jobq, lost, wk, results, rec, pool>>

\* The result that was popped last replaces the one in hand.
CoDrain ==
  /\ comp.pc = "drain" /\ results # <<>>
  /\ comp' = [comp EXCEPT !.item = Head(results)]
  /\ results' = Tail(results)
  /\ UNCHANGED <<ring, cam, ai, jobq, lost, wk, rec, pool>>

CoDrained ==
  /\ comp.pc = "drain" /\ results = <<>>
  /\ comp' = IF comp.item > comp.next THEN [comp EXCEPT !.pc = "pick"]
                                      ELSE [comp EXCEPT !.pc = "pop", !.item = 0]
  /\ UNCHANGED <<ring, cam, ai, jobq, lost, wk, results, rec, pool>>

CoPick(nb, jb) ==
  /\ comp.pc = "pick"
  /\ Renderable(ring, comp.item)
  /\ nb \in Contract!Obtainable("nv12")
  /\ jb \in Contract!Obtainable("jpeg")
  /\ ring' = Take(Take(ring, "nv12", nb), "jpeg", jb)
  /\ comp' = [comp EXCEPT !.pc = "draw", !.next = comp.item, !.nv12 = nb, !.jpeg = jb]
  /\ UNCHANGED <<cam, ai, jobq, lost, wk, results, rec, pool>>

CoGone ==
  /\ comp.pc = "pick" /\ ~Renderable(ring, comp.item)
  /\ comp' = [comp EXCEPT !.pc = "pop", !.item = 0]
  /\ UNCHANGED <<ring, cam, ai, jobq, lost, wk, results, rec, pool>>

CoCommit(ok) ==
  /\ comp.pc = "draw"
  /\ ok => comp.nv12 # NoBuf
  /\ ring' = Rendered(ring, comp.item, comp.nv12, comp.jpeg, ok)
  /\ comp' = [comp EXCEPT !.pc = "pop", !.item = 0, !.nv12 = NoBuf, !.jpeg = NoBuf]
  /\ UNCHANGED <<cam, ai, jobq, lost, wk, results, rec, pool>>

-----------------------------------------------------------------------------
(* video_rec_task *)

RecBegin ==
  /\ ~rec.on /\ rec.segments < MaxSegments
  /\ ring' = SetRec(ring, TRUE)
  /\ rec' = [rec EXCEPT !.on = TRUE, !.segments = @ + 1]
  /\ UNCHANGED <<cam, ai, jobq, lost, wk, results, comp, pool>>

\* rec_take_ai_frame
RecTake ==
  /\ rec.on /\ rec.nv12 = NoBuf
  /\ pool.enabled
  /\ \E i \in EncodePick(ring, rec.last) :
       /\ ring' = Steal(ring, i)
       /\ rec' = [rec EXCEPT !.last = ring.slots[i].seq, !.nv12 = ring.slots[i].nv12]
  /\ UNCHANGED <<cam, ai, jobq, lost, wk, results, comp, pool>>

\* A picture of another size than the encoder's is passed over.
RecSkip ==
  /\ rec.on /\ rec.nv12 = NoBuf
  /\ pool.enabled
  /\ \E i \in EncodePick(ring, rec.last) :
       /\ ring' = MarkConsumed(ring, ring.slots[i].seq)
       /\ rec' = [rec EXCEPT !.last = ring.slots[i].seq]
  /\ UNCHANGED <<cam, ai, jobq, lost, wk, results, comp, pool>>

RecPut ==
  /\ rec.nv12 # NoBuf
  /\ ring' = Put(ring, "nv12", rec.nv12)
  /\ rec' = [rec EXCEPT !.nv12 = NoBuf]
  /\ UNCHANGED <<cam, ai, jobq, lost, wk, results, comp, pool>>

RecEnd ==
  /\ rec.on /\ rec.nv12 = NoBuf
  /\ ring' = SetRec(ring, FALSE)
  /\ rec' = [rec EXCEPT !.on = FALSE]
  /\ UNCHANGED <<cam, ai, jobq, lost, wk, results, comp, pool>>

-----------------------------------------------------------------------------
(* rknn_yolo_reload: ai_stop_pool, then ai_start_pool.  Stopping a pool that   *)
(* is down already, after a failed start, changes nothing and is left out.    *)

PoolStop ==
  /\ pool.pc = "up" /\ pool.reloads < MaxReloads
  /\ pool' = [pool EXCEPT !.running = FALSE, !.pc = "mode", !.reloads = @ + 1]
  /\ UNCHANGED <<ring, cam, ai, jobq, lost, wk, results, comp, rec>>

PoolMode ==
  /\ pool.pc = "mode"
  /\ ring' = SetAi(ring, FALSE)
  /\ pool' = [pool EXCEPT !.pc = "join"]
  /\ UNCHANGED <<cam, ai, jobq, lost, wk, results, comp, rec>>

PoolJoin ==
  /\ pool.pc = "join"
  /\ comp.pc = "gone" /\ \A w \in Workers : wk[w].pc = "gone"
  /\ pool' = [pool EXCEPT !.pc = "purge"]
  /\ UNCHANGED <<ring, cam, ai, jobq, lost, wk, results, comp, rec>>

\* Mutant: the queue is emptied without giving its jobs' buffers back.
PoolPurgeForgets ==
  /\ pool.pc = "purge" /\ jobq # <<>>
  /\ jobq' = Tail(jobq)
  /\ UNCHANGED <<ring, cam, ai, lost, wk, results, comp, rec, pool>>

\* Every cell that holds a buffer is abandoned, without q_lock: those of the queue,
\* and those of lost jobs that no push has written over since.
PoolPurge ==
  /\ pool.pc = "purge"
  /\ \/ /\ jobq # <<>>
        /\ ring' = Abandon(ring, Head(jobq).seq, Head(jobq).rgb)
        /\ jobq' = Tail(jobq)
        /\ UNCHANGED lost
     \/ \E j \in lost :
        /\ ring' = Abandon(ring, j.seq, j.rgb)
        /\ lost' = lost \ {j}
        /\ UNCHANGED jobq
  /\ UNCHANGED <<cam, ai, wk, results, comp, rec, pool>>

PoolPurged ==
  /\ pool.pc = "purge" /\ jobq = <<>>
  /\ pool' = [pool EXCEPT !.pc = "reset"]
  /\ UNCHANGED <<ring, cam, ai, jobq, lost, wk, results, comp, rec>>

\* The queues are reset, whatever a push has stored since the purge.
PoolDown ==
  /\ pool.pc = "reset"
  /\ jobq' = <<>> /\ lost' = lost \cup {jobq[i] : i \in 1 .. Len(jobq)}
  /\ results' = <<>>
  /\ ai' = [ai EXCEPT !.last = 0]
  /\ pool' = [pool EXCEPT !.pc = "down", !.enabled = FALSE]
  /\ UNCHANGED <<ring, cam, wk, comp, rec>>

\* The model loads (it may also fail to, and the pool stays down).  The threads
\* are created before enabled is set; who reads enabled sees no difference.
PoolStart ==
  /\ pool.pc = "down"
  /\ wk' = [w \in Workers |-> [wk[w] EXCEPT !.pc = "pop"]]
  /\ comp' = [comp EXCEPT !.pc = "pop"]
  /\ pool' = [pool EXCEPT !.running = TRUE, !.enabled = TRUE, !.pc = "start"]
  /\ UNCHANGED <<ring, cam, ai, jobq, lost, results, rec>>

PoolStarted ==
  /\ pool.pc = "start"
  /\ ring' = SetAi(ring, TRUE)
  /\ pool' = [pool EXCEPT !.pc = "up"]
  /\ UNCHANGED <<cam, ai, jobq, lost, wk, results, comp, rec>>

-----------------------------------------------------------------------------

CamStep ==
  \/ CamInit \/ CamSessionEnd
  \/ \E v \in VBufs, z \in Sizes : CamCapture(v, z)
  \/ CamQuiesced \/ CamTimeout \/ CamUnmap \/ CamRetry

AiStep ==
  \/ AiSee \/ AiClaimNone \/ AiDecodeOk \/ AiDecodeFail
  \/ AiLook \/ AiPush \/ AiPushRefused
  \/ \E b \in Bufs \cup {NoBuf} : AiClaim(b)

WkStep(w) ==
  WkPop(w) \/ WkExit(w) \/ WkInferOk(w) \/ WkAbandon(w) \/ WkWrite(w) \/ WkResult(w)

CoStep ==
  \/ CoPop \/ CoExit \/ CoDrain \/ CoDrained \/ CoGone
  \/ \E nb, jb \in Bufs \cup {NoBuf} : CoPick(nb, jb)
  \/ \E ok \in BOOLEAN : CoCommit(ok)

RecStep == RecBegin \/ RecTake \/ RecSkip \/ RecPut \/ RecEnd

PoolStep ==
  \/ PoolStop \/ PoolMode \/ PoolJoin \/ PoolPurge \/ PoolPurged
  \/ PoolDown \/ PoolStart \/ PoolStarted

PipeNext ==
  \/ CamStep
  \/ AiStep \/ (\E w \in Workers : WkStep(w)) \/ CoStep
  \/ RecStep \/ PoolStep

PipeSpec == PipeInit /\ [][PipeNext]_pipeVars

-----------------------------------------------------------------------------
(* Properties *)

\* The threads keep the ring's contract: every step of theirs is a step that
\* FrameRing allows, so that whatever holds of it holds here.
ImplementsContract == Contract!Spec

\* The rgb buffers of lost jobs, which no thread will ever look at but a purge.
Stray(k) == {j.rgb : j \in {l \in lost : k = "rgb"}}

\* Every stage buffer there is: pooled, in a slot, or in a thread's hands.
Owned(k) == ring.pools[k] \cup Contract!InSlots(k) \cup (Contract!Held(k) \ Stray(k))

\* A worker writes a frame's second rgb over the first.
RewriteLoses(k, b) ==
  k = "rgb" /\ \E w \in Workers : LET s == SlotOf(ring, wk[w].seq) IN
    wk[w].pc = "write" /\ wk'[w].pc = "result" /\ s.rgb = b /\ s.rgbDone

\* A push has stored a job between the purge of a stopped pool and the reset of
\* its queue.
ResetLoses(k, b) ==
  k = "rgb" /\ pool.pc = "reset" /\ pool'.pc = "down" /\ \E i \in 1 .. Len(jobq) : jobq[i].rgb = b

LostBySlips ==
  \A k \in Kinds : \A b \in Owned(k) \ Owned(k)' : RewriteLoses(k, b) \/ ResetLoses(k, b)

\* No buffer is lost between the stages (frame_ring.h:10-11: the buffers are
\* passed on, and go back to their pool once the cursors have passed them), but in
\* two ways: a frame that a reload has decoded a second time is written over the
\* rgb of the first, and a push that looked at the pool before it was stopped
\* stores its job after the purge (rknn_yolo.c:186-190, 632-639).
OnlySlipsLose == [][LostBySlips]_pipeVars

\* A frame behind the AI task's cursor whose raw buffer is still lent has been
\* claimed or is done with, so that the buffer can go back to the driver: the
\* cursor forgets no frame, also across reloads and camera restarts.
NoneForgotten ==
  ring.quiescing \/ \A i \in Slots : LET s == ring.slots[i] IN
    s.raw # NoBuf /\ s.seq <= ai.last => s.claims > 0 \/ s.inferDone

=============================================================================
