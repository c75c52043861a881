----------------------------- MODULE FrameRingOps -----------------------------
(***************************************************************************)
(* The video frame ring (source/video/frame_ring.c): N slot descriptors    *)
(* through which a frame's buffers move by pointer only.  A frame's raw    *)
(* buffer belongs to the V4L2 driver and is lent to a slot (zero copy);    *)
(* its rgb, nv12 and jpeg buffers come from three pools of spare buffers.  *)
(*                                                                         *)
(* One operator per function, from ring values to ring values: what the    *)
(* function does to the structure while the ring's mutex is held.          *)
(*                                                                         *)
(* Abstracted: pixels and sizes in bytes (a frame has a size class), the   *)
(* capacity of a buffer, and the statistics counters, which nothing in the *)
(* ring reads.                                                             *)
(***************************************************************************)
EXTENDS Naturals, FiniteSets

CONSTANTS
  N,        \* slots in the ring (FRAME_RING_N, a power of two: seq & (N-1))
  VBufs,    \* the driver's mmap buffers
  Bufs,     \* identities of heap buffers, for each of the three stages
  Sizes,    \* size classes a capture session can have
  NoBuf,    \* the NULL pointer
  MaxSeq    \* bound: frames captured

ASSUME NAssumption == N \in Nat \ {0}
ASSUME NoBufAssumption == NoBuf \notin VBufs \cup Bufs \cup Sizes

VARIABLE ring  \* the program's one ring: frame_ring_t, and what the driver owns

Slots == 0 .. N - 1
Kinds == {"rgb", "nv12", "jpeg"}   \* FRAME_RING_POOL_*

SlotType ==
  [seq : Nat, size : Sizes \cup {NoBuf}, raw : VBufs \cup {NoBuf}, claims : Nat,
   inferDone : BOOLEAN, rgb : Bufs \cup {NoBuf}, rgbDone : BOOLEAN,
   nv12 : Bufs \cup {NoBuf}, jpeg : Bufs \cup {NoBuf},
   displayDone : BOOLEAN, encodeDone : BOOLEAN]

RingType ==
  [slots : [Slots -> SlotType], produce : Nat, display : Nat,
   ai : BOOLEAN, rec : BOOLEAN, quiescing : BOOLEAN,
   mapped : BOOLEAN, queued : SUBSET VBufs, pools : [Kinds -> SUBSET Bufs]]

EmptySlot ==
  [seq |-> 0, size |-> NoBuf, raw |-> NoBuf, claims |-> 0, inferDone |-> FALSE,
   rgb |-> NoBuf, rgbDone |-> FALSE, nv12 |-> NoBuf, jpeg |-> NoBuf,
   displayDone |-> FALSE, encodeDone |-> FALSE]

\* mapped: a capture session holds the device open and its buffers mapped.
\* queued: the mmap buffers the driver owns and may write into.
EmptyRing ==
  [slots |-> [i \in Slots |-> EmptySlot], produce |-> 0, display |-> 0,
   ai |-> FALSE, rec |-> FALSE, quiescing |-> FALSE,
   mapped |-> FALSE, queued |-> {}, pools |-> [k \in Kinds |-> {}]]

Index(q) == q % N
SlotOf(r, q) == r.slots[Index(q)]
WithSlot(r, i, s) == [r EXCEPT !.slots[i] = s]

-----------------------------------------------------------------------------
(* Release rules.  A buffer leaves its slot only here or in ClearAll.      *)

\* Mutant: a slot's claims are forgotten when its raw buffer is released.
RawDoneUnclaimed(r, s) ==
  /\ s.seq # 0 /\ s.raw # NoBuf
  /\ s.seq # r.produce
  /\ IF r.ai THEN s.inferDone ELSE s.encodeDone \/ ~r.rec

RawDone(r, s) ==
  /\ s.seq # 0 /\ s.raw # NoBuf
  /\ s.seq # r.produce
  /\ s.claims = 0
  /\ IF r.ai THEN s.inferDone ELSE s.encodeDone \/ ~r.rec

RgbDone(r, s) == s.seq # 0 /\ s.rgb # NoBuf /\ s.rgbDone /\ s.seq <= r.display

JpegDone(r, s) == s.seq # 0 /\ s.jpeg # NoBuf /\ s.seq # r.display

\* Mutant: a picture waits for the recorder even when nothing is recorded.
Nv12DoneEncoded(r, s) ==
  s.seq # 0 /\ s.nv12 # NoBuf /\ s.seq # r.display /\ s.encodeDone

\* Mutant: a picture goes as soon as the display has moved on.
Nv12DoneDisplayed(r, s) == s.seq # 0 /\ s.nv12 # NoBuf /\ s.seq # r.display

Nv12Done(r, s) ==
  /\ s.seq # 0 /\ s.nv12 # NoBuf
  /\ s.seq # r.display
  /\ s.encodeDone \/ ~r.rec

\* QBUF reaches the driver only while the device is open.
Requeued(r) ==
  IF r.mapped THEN {r.slots[i].raw : i \in {j \in Slots : RawDone(r, r.slots[j])}}
              ELSE {}

Kept(r, s) ==
  [s EXCEPT !.raw  = IF RawDone(r, s) THEN NoBuf ELSE @,
            !.rgb  = IF RgbDone(r, s) THEN NoBuf ELSE @,
            !.nv12 = IF Nv12Done(r, s) THEN NoBuf ELSE @,
            !.jpeg = IF JpegDone(r, s) THEN NoBuf ELSE @]

StageDone(r, s, k) ==
  \/ k = "rgb"  /\ RgbDone(r, s)
  \/ k = "nv12" /\ Nv12Done(r, s)
  \/ k = "jpeg" /\ JpegDone(r, s)

Maintain(r) ==
  [r EXCEPT
    !.slots  = [i \in Slots |-> Kept(r, r.slots[i])],
    !.queued = @ \cup Requeued(r),
    !.pools  = [k \in Kinds |->
                 r.pools[k] \cup
                   {r.slots[i][k] : i \in {j \in Slots : StageDone(r, r.slots[j], k)}}]]

\* frame_ring_buf_put_locked ignores a NULL pointer.
Put(r, k, b) == [r EXCEPT !.pools[k] = @ \cup ({b} \ {NoBuf})]

\* frame_ring_buf_take_locked, having picked b from the pool or from malloc.
Take(r, k, b) == [r EXCEPT !.pools[k] = @ \ {b}]

-----------------------------------------------------------------------------
(* Capture *)

Reusable(s) ==
  s.raw = NoBuf /\ s.rgb = NoBuf /\ s.nv12 = NoBuf /\ s.jpeg = NoBuf /\ s.claims = 0

CanProduce(r) == Reusable(SlotOf(r, r.produce + 1))

\* Mutant: the frame goes to the slot of the previous one.
PublishSameSlot(r, v, z) ==
  LET q == r.produce + 1
      s == [EmptySlot EXCEPT !.seq = q, !.raw = v, !.size = z]
  IN  Maintain([WithSlot(r, Index(q - 1), s) EXCEPT !.produce = q, !.queued = @ \ {v}])

\* Mutant: the buffer is queued again when the frame is published.
PublishQueued(r, v, z) ==
  LET q == r.produce + 1
      s == [EmptySlot EXCEPT !.seq = q, !.raw = v, !.size = z]
  IN  Maintain([WithSlot(r, Index(q), s) EXCEPT !.produce = q])

\* The slot is zeroed, filled with mmap buffer v and published.
Publish(r, v, z) ==
  LET q == r.produce + 1
      s == [EmptySlot EXCEPT !.seq = q, !.raw = v, !.size = z]
  IN  Maintain([WithSlot(r, Index(q), s) EXCEPT !.produce = q, !.queued = @ \ {v}])

\* The slot whose raw the stream clients and the recorder's probe copy.
RawNewest(r) ==
  IF r.produce # 0 /\ SlotOf(r, r.produce).seq = r.produce
  THEN SlotOf(r, r.produce).raw ELSE NoBuf

(* Inference *)

Claimable(r, q) ==
  /\ ~r.quiescing
  /\ q # 0 /\ q <= r.produce
  /\ SlotOf(r, q).seq = q
  /\ SlotOf(r, q).raw # NoBuf

Claim(r, q) == WithSlot(r, Index(q), [SlotOf(r, q) EXCEPT !.claims = @ + 1])

\* Mutant: the claim count is not guarded.
UnclaimedUnguarded(s) == [s EXCEPT !.claims = @ - 1, !.inferDone = TRUE]

Unclaimed(s) ==
  [s EXCEPT !.claims = IF @ > 0 THEN @ - 1 ELSE @, !.inferDone = TRUE]

Unclaim(r, i) == Maintain(WithSlot(r, i, Unclaimed(r.slots[i])))

\* A job may touch its slot only while the slot is still its frame's.
OwnsSlot(r, q) == SlotOf(r, q).seq = q /\ SlotOf(r, q).claims > 0

Abandon(r, q, b) ==
  Put(IF OwnsSlot(r, q) THEN Unclaim(r, Index(q)) ELSE r, "rgb", b)

WriteRgb(r, q, b) ==
  IF OwnsSlot(r, q)
  THEN Unclaim(WithSlot(r, Index(q), [SlotOf(r, q) EXCEPT !.rgb = b, !.rgbDone = TRUE]),
               Index(q))
  ELSE Put(r, "rgb", b)

\* The slot's pointer was kept across the decode: no check of the seq here.
DecodeFailed(r, q, b) == Unclaim(Put(r, "rgb", b), Index(q))

(* Display *)

Renderable(r, q) ==
  SlotOf(r, q).seq = q /\ SlotOf(r, q).rgbDone /\ SlotOf(r, q).rgb # NoBuf

DisplayCommit(r, i) ==
  Maintain([WithSlot(r, i, [r.slots[i] EXCEPT !.displayDone = TRUE])
              EXCEPT !.display = r.slots[i].seq])

\* The end of a rendering: hand the two pictures to the slot, or back.
Rendered(r, q, nb, jb, ok) ==
  IF Renderable(r, q) /\ ok
  THEN DisplayCommit(WithSlot(r, Index(q), [SlotOf(r, q) EXCEPT !.nv12 = nb, !.jpeg = jb]),
                     Index(q))
  ELSE LET r1 == Put(Put(r, "nv12", nb), "jpeg", jb)
       IN  IF Renderable(r, q) THEN DisplayCommit(r1, Index(q)) ELSE r1

(* Encoding *)

Encodable(r, last, i) ==
  r.slots[i].seq > last /\ r.slots[i].displayDone /\ r.slots[i].nv12 # NoBuf

\* The newest rendered frame after last, if there is one.
EncodePick(r, last) ==
  {i \in Slots : /\ Encodable(r, last, i)
                 /\ \A j \in Slots : Encodable(r, last, j) =>
                                       r.slots[j].seq <= r.slots[i].seq}

MarkConsumed(r, q) ==
  Maintain([r EXCEPT !.slots =
    [i \in Slots |-> IF r.slots[i].seq # 0 /\ r.slots[i].seq <= q
                     THEN [r.slots[i] EXCEPT !.encodeDone = TRUE]
                     ELSE r.slots[i]]])

\* Mutant: the slot keeps the picture the recorder takes.
StealShared(r, i) == MarkConsumed(r, r.slots[i].seq)

Steal(r, i) ==
  MarkConsumed(WithSlot(r, i, [r.slots[i] EXCEPT !.nv12 = NoBuf]), r.slots[i].seq)

(* Modes and camera restart *)

SetAi(r, on)  == IF r.ai = on THEN r ELSE Maintain([r EXCEPT !.ai = on])
SetRec(r, on) == IF r.rec = on THEN r ELSE Maintain([r EXCEPT !.rec = on])

NoClaims(r) == \A i \in Slots : r.slots[i].claims = 0

\* The driver takes its mmap buffers back at STREAMOFF: none is queued here.
ClearAll(r) ==
  [r EXCEPT
    !.slots = [i \in Slots |-> EmptySlot],
    !.pools = [k \in Kinds |->
                r.pools[k] \cup ({r.slots[i][k] : i \in Slots} \ {NoBuf})],
    !.quiescing = FALSE]

StreamOn(r)  == [r EXCEPT !.mapped = TRUE, !.queued = VBufs]
StreamOff(r) == [r EXCEPT !.mapped = FALSE, !.queued = {}]

=============================================================================
