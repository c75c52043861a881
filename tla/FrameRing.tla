------------------------------ MODULE FrameRing ------------------------------
(***************************************************************************)
(* The contract of the video frame ring (include/video/frame_ring.h): its  *)
(* callers' critical sections, in every order that respects what a caller  *)
(* must have done before.  A frame is claimed, decoded, and its job written*)
(* or abandoned; a picture is begun before it is committed; a camera       *)
(* restart waits for the claims or gives up waiting.  Which thread acts    *)
(* when, and the queues between the threads, are left open here.           *)
(***************************************************************************)
EXTENDS FrameRingOps

CONSTANT MaxClaims  \* bound: claims on one slot

ASSUME BoundAssumption == MaxSeq \in Nat /\ MaxClaims \in Nat

VARIABLES
  jobs,     \* claims in flight: the decoder's, the queued and the workers' jobs
  drawing,  \* the frame the composer draws, with its two picture buffers
  stolen    \* the NV12 picture the recorder is encoding

vars == <<ring, jobs, drawing, stolen>>

Idle == [seq |-> 0, nv12 |-> NoBuf, jpeg |-> NoBuf]

Init ==
  /\ ring = EmptyRing
  /\ jobs = {}
  /\ drawing = Idle
  /\ stolen = NoBuf

\* Stage buffers of kind k that a caller holds.
Held(k) ==
  {b \in Bufs : \/ k = "rgb"  /\ \E j \in jobs : j.rgb = b
                \/ k = "nv12" /\ b \in {drawing.nv12, stolen}
                \/ k = "jpeg" /\ b = drawing.jpeg}

InSlots(k) == {b \in Bufs : \E i \in Slots : ring.slots[i][k] = b}

\* A spare buffer if a large enough one is pooled, else malloc, which may fail.
Obtainable(k) ==
  ring.pools[k] \cup (Bufs \ (Held(k) \cup InSlots(k))) \cup {NoBuf}

(* video_stream_task *)

StartSession ==
  /\ ~ring.mapped /\ ~ring.quiescing
  /\ ring' = StreamOn(ring)
  /\ UNCHANGED <<jobs, drawing, stolen>>

\* DQBUF, the critical section, and the QBUF of a frame the ring has no room for.
Capture(v, z) ==
  /\ ring.mapped /\ ~ring.quiescing
  /\ v \in ring.queued
  /\ ring.produce < MaxSeq
  /\ LET r == Maintain(ring)
     IN  ring' = IF CanProduce(r) THEN Publish(r, v, z) ELSE r
  /\ UNCHANGED <<jobs, drawing, stolen>>

QuiesceBegin ==
  /\ ring.mapped /\ ~ring.quiescing
  /\ ring' = [ring EXCEPT !.quiescing = TRUE]
  /\ UNCHANGED <<jobs, drawing, stolen>>

QuiesceWait ==
  /\ ring.quiescing /\ NoClaims(ring)
  /\ ring' = ClearAll(ring)
  /\ UNCHANGED <<jobs, drawing, stolen>>

\* STREAMOFF and munmap, after the slots were emptied or after a wait for the
\* claims that timed out: the ring then still lends buffers.  A claim dropped
\* between the timeout and STREAMOFF might as well be dropped after it.
EndSession ==
  /\ ring.mapped
  /\ \/ \A i \in Slots : ring.slots[i].raw = NoBuf
     \/ ring.quiescing /\ ~NoClaims(ring)
  /\ ring' = StreamOff(ring)
  /\ UNCHANGED <<jobs, drawing, stolen>>

ForceClear ==
  /\ ring.quiescing /\ ~ring.mapped
  /\ ring' = ClearAll(ring)
  /\ UNCHANGED <<jobs, drawing, stolen>>

(* rknn_ai_task: it decodes one frame at a time *)

ClaimFrame(q, b) ==
  /\ \A j \in jobs : j.decoded
  /\ Claimable(ring, q)
  /\ SlotOf(ring, q).claims < MaxClaims
  /\ b \in Obtainable("rgb")
  /\ ring' = Take(Claim(ring, q), "rgb", b)
  /\ jobs' = jobs \cup {[seq |-> q, rgb |-> b, decoded |-> FALSE]}
  /\ UNCHANGED <<drawing, stolen>>

DecodeOk(j) ==
  /\ ~j.decoded /\ j.rgb # NoBuf
  /\ jobs' = (jobs \ {j}) \cup {[j EXCEPT !.decoded = TRUE]}
  /\ UNCHANGED <<ring, drawing, stolen>>

DecodeFail(j) ==
  /\ ~j.decoded
  /\ ring' = DecodeFailed(ring, j.seq, j.rgb)
  /\ jobs' = jobs \ {j}
  /\ UNCHANGED <<drawing, stolen>>

(* A decoded job ends in a worker, or is cancelled with the pool. *)

WriteJob(j) ==
  /\ j.decoded
  /\ ring' = WriteRgb(ring, j.seq, j.rgb)
  /\ jobs' = jobs \ {j}
  /\ UNCHANGED <<drawing, stolen>>

AbandonJob(j) ==
  /\ j.decoded
  /\ ring' = Abandon(ring, j.seq, j.rgb)
  /\ jobs' = jobs \ {j}
  /\ UNCHANGED <<drawing, stolen>>

(* yolo_render_task: it never renders a frame older than the last one *)

BeginRender(q, nb, jb) ==
  /\ drawing = Idle
  /\ q > ring.display
  /\ Renderable(ring, q)
  /\ nb \in Obtainable("nv12") /\ jb \in Obtainable("jpeg")
  /\ ring' = Take(Take(ring, "nv12", nb), "jpeg", jb)
  /\ drawing' = [seq |-> q, nv12 |-> nb, jpeg |-> jb]
  /\ UNCHANGED <<jobs, stolen>>

EndRender(ok) ==
  /\ drawing # Idle
  /\ ok => drawing.nv12 # NoBuf
  /\ ring' = Rendered(ring, drawing.seq, drawing.nv12, drawing.jpeg, ok)
  /\ drawing' = Idle
  /\ UNCHANGED <<jobs, stolen>>

(* video_rec_task *)

EncodeTake ==
  /\ stolen = NoBuf
  /\ \E i \in EncodePick(ring, 0) :
       /\ ring' = Steal(ring, i)
       /\ stolen' = ring.slots[i].nv12
  /\ UNCHANGED <<jobs, drawing>>

EncodeSkip ==
  /\ stolen = NoBuf
  /\ \E i \in EncodePick(ring, 0) : ring' = MarkConsumed(ring, ring.slots[i].seq)
  /\ UNCHANGED <<jobs, drawing, stolen>>

EncodeEnd ==
  /\ stolen # NoBuf
  /\ ring' = Put(ring, "nv12", stolen)
  /\ stolen' = NoBuf
  /\ UNCHANGED <<jobs, drawing>>

SetMode(ai, rec) ==
  /\ ring' \in {SetAi(ring, ai), SetRec(ring, rec)}
  /\ UNCHANGED <<jobs, drawing, stolen>>

Next ==
  \/ StartSession \/ QuiesceBegin \/ QuiesceWait \/ EndSession \/ ForceClear
  \/ \E v \in VBufs, z \in Sizes : Capture(v, z)
  \/ \E q \in 1 .. MaxSeq, b \in Bufs \cup {NoBuf} : ClaimFrame(q, b)
  \/ \E j \in jobs : DecodeOk(j) \/ DecodeFail(j) \/ WriteJob(j) \/ AbandonJob(j)
  \/ \E q \in 1 .. MaxSeq, nb, jb \in Bufs \cup {NoBuf} : BeginRender(q, nb, jb)
  \/ \E ok \in BOOLEAN : EndRender(ok)
  \/ EncodeTake \/ EncodeSkip \/ EncodeEnd
  \/ \E ai, rec \in BOOLEAN : SetMode(ai, rec)

Spec == Init /\ [][Next]_vars

-----------------------------------------------------------------------------
(* Properties *)

\* Every field has its type; the stage pools never hold the NULL pointer.
TypeOK ==
  /\ ring \in RingType
  /\ jobs \subseteq [seq : Nat, rgb : Bufs \cup {NoBuf}, decoded : BOOLEAN]
  /\ drawing \in [seq : Nat, nv12 : Bufs \cup {NoBuf}, jpeg : Bufs \cup {NoBuf}]
  /\ stolen \in Bufs \cup {NoBuf}

\* A slot in use holds one of the N newest frames, at that frame's index
\* (slot_of's mask): a consumer that looks a frame up by its number either
\* finds that frame or sees that it is gone.
SlotWindow ==
  \A i \in Slots : LET s == ring.slots[i] IN
    s.seq # 0 => /\ Index(s.seq) = i
                 /\ s.seq <= ring.produce /\ ring.produce < s.seq + N

\* Zero copy: an mmap buffer lent to a slot is never queued to the driver, no
\* two slots lend the same one, and outside a restart every lent buffer is
\* mapped (release_raw_locked, quiesce_clear_all_locked, deinit_video_device).
ZeroCopy ==
  /\ \A i \in Slots : ring.slots[i].raw \notin ring.queued
  /\ \A i, j \in Slots :
       ring.slots[i].raw = ring.slots[j].raw /\ ring.slots[i].raw # NoBuf => i = j
  /\ \/ ring.mapped \/ ring.quiescing
     \/ \A i \in Slots : ring.slots[i].raw = NoBuf

\* Every stage buffer has one owner: its pool, one slot, one job, the composer
\* or the recorder (buf_take / buf_put pairs, the recorder's theft of nv12).
StageExclusive ==
  /\ \A k \in Kinds : ring.pools[k] \cap (Held(k) \cup InSlots(k)) = {}
  /\ \A k \in Kinds : Held(k) \cap InSlots(k) = {}
  /\ \A k \in Kinds, i, j \in Slots :
       ring.slots[i][k] = ring.slots[j][k] /\ ring.slots[i][k] # NoBuf => i = j
  /\ \A j, l \in jobs : j.rgb = l.rgb /\ j.rgb # NoBuf => j = l
  /\ drawing.nv12 = stolen => stolen = NoBuf

\* The claims on a frame are exactly the jobs in flight for it: every claim
\* has an owner that will drop it, and no job outlives its claim unless a
\* restart took the slot away (infer_claim, infer_unclaim, yolo_job_abandon).
ClaimsAreJobs ==
  \A i \in Slots : LET s == ring.slots[i] IN
    s.claims = IF s.seq = 0 THEN 0 ELSE Cardinality({j \in jobs : j.seq = s.seq})

\* Every buffer and every claim has exactly one owner who will give it back.
Ownership == StageExclusive /\ ClaimsAreJobs

\* No release is ever missed: whatever the release rules allow to go has gone,
\* though they are only applied at the commit points (frame_ring.h:25-32).
Maintained == Maintain(ring) = ring

\* The newest frame keeps its raw buffer for the clients that copy it under
\* the lock, whatever the consumers did with that frame already.
NewestKept ==
  SlotOf(ring, ring.produce).seq = ring.produce /\ ring.produce # 0
    => RawNewest(ring) # NoBuf

\* What keeps the capture from reusing the oldest slot is one of the reasons
\* the header lists, never a buffer that everybody is done with.
FullForAReason ==
  LET s == SlotOf(ring, ring.produce + 1) IN
  \/ CanProduce(ring)
  \/ s.claims > 0
  \/ s.seq \in {ring.produce, ring.display}
  \/ s.raw  # NoBuf /\ IF ring.ai THEN ~s.inferDone ELSE ring.rec /\ ~s.encodeDone
  \/ s.rgb  # NoBuf /\ s.seq > ring.display
  \/ s.nv12 # NoBuf /\ ring.rec /\ ~s.encodeDone

\* The release rules let go of all that may go, and of nothing else that the
\* capture or the viewers of the raw picture need.
ReleasesExact == Maintained /\ NewestKept /\ FullForAReason

\* The counters never go back, a slot is given to a newer frame or emptied, a
\* released raw buffer does not come back to its frame, and no stage is undone.
Forward ==
  /\ ring.produce <= ring'.produce /\ ring.display <= ring'.display
  /\ \A i \in Slots : LET s == ring.slots[i] t == ring'.slots[i] IN
       /\ t.seq \in {s.seq, 0, ring.produce + 1}
       /\ s.seq # 0 /\ t.seq = s.seq
            => /\ t.raw \in {s.raw, NoBuf}
               /\ s.inferDone => t.inferDone
               /\ s.rgbDone => t.rgbDone
               /\ s.displayDone => t.displayDone
               /\ s.encodeDone => t.encodeDone

\* A rendered picture leaves its slot only into the recorder's hands, or once the
\* recorder has passed that frame, or in a restart.
KeptForRecorder ==
  \A i \in Slots : LET s == ring.slots[i] t == ring'.slots[i] IN
    ring.rec /\ ring'.rec /\ s.nv12 # NoBuf /\ t.nv12 # s.nv12
      => t.encodeDone \/ s.encodeDone \/ t.seq = 0

\* Frames only move on, restarts included (seq is never reset, frame_ring.h:42),
\* and while a recording runs none is dropped before the recorder has had it.
FramesMoveOn == [][Forward /\ KeptForRecorder]_vars

\* The decoder can read frame q outside the lock: its raw buffer is in its slot,
\* the driver does not own it, and it is mapped.
Readable(r, q) ==
  /\ r.mapped
  /\ SlotOf(r, q).seq = q
  /\ SlotOf(r, q).raw \notin r.queued \cup {NoBuf}

BeingDecoded == {j \in jobs : ~j.decoded}

\* A decode begins with a readable frame, and the frame stays readable, in the same
\* buffer, until the decode ends or the restart has given up waiting for the
\* claims and unmaps the device under it.
DecodeKept ==
  /\ \A j \in BeingDecoded' \ BeingDecoded : Readable(ring', j.seq)
  /\ \A j \in BeingDecoded \cap BeingDecoded' :
       Readable(ring, j.seq) =>
         \/ /\ Readable(ring', j.seq)
            /\ SlotOf(ring', j.seq).raw = SlotOf(ring, j.seq).raw
         \/ ring.quiescing /\ ~NoClaims(ring) /\ ~ring'.mapped

\* The frame the composer draws on outside the lock keeps its slot and an rgb
\* buffer in it until the drawing ends or a restart clears the slots: the composer
\* holds no claim that a restart would wait for.
DrawKept ==
  drawing # Idle /\ drawing' = drawing /\ Renderable(ring, drawing.seq)
    => \/ Renderable(ring', drawing.seq)
       \/ ring.quiescing /\ ~ring'.quiescing

\* What a thread reads outside the lock is taken away by a restart only, and from
\* the decoder only when the wait for the claims timed out
\* (video_stream.c:387-389, rknn_yolo.c:463-464).
InUse == [][DecodeKept /\ DrawKept]_vars

=============================================================================
