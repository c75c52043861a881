--------------------------- MODULE FrameRing_proofs ---------------------------
(***************************************************************************)
(* What the frame ring guarantees for every number of slots, of driver     *)
(* buffers and of heap buffers, and that the threads around it, for every  *)
(* number of workers and length of the queues, keep its contract, forget   *)
(* no frame and lose no buffer (but in one way).                           *)
(***************************************************************************)
EXTENDS FrameRing, VideoPipeline, FiniteSetTheorems, SequenceTheorems, TLAPS

-----------------------------------------------------------------------------
(* Types of the ring's functions *)

\* An index computed from a frame number is a slot's.
LEMMA IndexType == \A q \in Nat : Index(q) \in Slots
  BY NAssumption DEF Index, Slots

LEMMA KeptType ==
  ASSUME NEW r \in RingType, NEW s \in SlotType
  PROVE  Kept(r, s) \in SlotType
  BY DEF Kept, SlotType

LEMMA MaintainType ==
  ASSUME NEW r \in RingType
  PROVE  Maintain(r) \in RingType
<1>1. \A i \in Slots : Kept(r, r.slots[i]) \in SlotType
  BY KeptType DEF RingType
<1>2. Requeued(r) \subseteq VBufs
  <2>1. \A i \in Slots : RawDone(r, r.slots[i]) => r.slots[i].raw \in VBufs
    BY DEF RawDone, RingType, SlotType
  <2> QED BY <2>1 DEF Requeued
<1>3. \A k \in Kinds : {r.slots[i][k] : i \in {j \in Slots : StageDone(r, r.slots[j], k)}} \subseteq Bufs
  <2>1. \A i \in Slots, k \in Kinds : StageDone(r, r.slots[i], k) => r.slots[i][k] \in Bufs
    BY DEF StageDone, RgbDone, Nv12Done, JpegDone, RingType, SlotType, Kinds
  <2> QED BY <2>1
<1> QED BY <1>1, <1>2, <1>3 DEF Maintain, RingType

LEMMA PutType ==
  ASSUME NEW r \in RingType, NEW k \in Kinds, NEW b \in Bufs \cup {NoBuf}
  PROVE  Put(r, k, b) \in RingType
  BY DEF Put, RingType

LEMMA TakeType ==
  ASSUME NEW r \in RingType, NEW k \in Kinds, NEW b
  PROVE  Take(r, k, b) \in RingType
  BY DEF Take, RingType

LEMMA WithSlotType ==
  ASSUME NEW r \in RingType, NEW i \in Slots, NEW s \in SlotType
  PROVE  WithSlot(r, i, s) \in RingType
  BY DEF WithSlot, RingType

LEMMA EmptyType == EmptySlot \in SlotType /\ EmptyRing \in RingType
  BY DEF EmptySlot, EmptyRing, SlotType, RingType

LEMMA UnclaimedType ==
  ASSUME NEW s \in SlotType
  PROVE  Unclaimed(s) \in SlotType
<1>1. (IF s.claims > 0 THEN s.claims - 1 ELSE s.claims) \in Nat
  BY DEF SlotType
<1> QED BY <1>1 DEF Unclaimed, SlotType

LEMMA UnclaimType ==
  ASSUME NEW r \in RingType, NEW i \in Slots
  PROVE  Unclaim(r, i) \in RingType
<1>1. Unclaimed(r.slots[i]) \in SlotType
  BY UnclaimedType DEF RingType
<1> QED BY <1>1, WithSlotType, MaintainType DEF Unclaim

LEMMA PublishType ==
  ASSUME NEW r \in RingType, NEW v \in VBufs, NEW z \in Sizes
  PROVE  Publish(r, v, z) \in RingType
<1> DEFINE q == r.produce + 1
           s == [EmptySlot EXCEPT !.seq = q, !.raw = v, !.size = z]
           x == WithSlot(r, Index(q), s)
           y == [x EXCEPT !.produce = q, !.queued = @ \ {v}]
<1>1. q \in Nat
  BY DEF RingType
<1>2. s \in SlotType
  BY <1>1 DEF SlotType, EmptySlot
<1>3. x \in RingType
  BY <1>1, <1>2, IndexType, WithSlotType
<1>4. y \in RingType
  <2> HIDE DEF x, q
  <2> QED BY <1>1, <1>3 DEF RingType
<1> QED BY <1>4, MaintainType DEF Publish
LEMMA ClaimType ==
  ASSUME NEW r \in RingType, NEW q \in Nat
  PROVE  Claim(r, q) \in RingType
<1>1. Index(q) \in Slots /\ SlotOf(r, q) \in SlotType
  BY IndexType DEF SlotOf, RingType
<1>2. [SlotOf(r, q) EXCEPT !.claims = @ + 1] \in SlotType
  BY <1>1 DEF SlotType
<1> QED BY <1>1, <1>2, WithSlotType DEF Claim

LEMMA DecodeFailedType ==
  ASSUME NEW r \in RingType, NEW q \in Nat, NEW b \in Bufs \cup {NoBuf}
  PROVE  DecodeFailed(r, q, b) \in RingType
  BY IndexType, PutType, UnclaimType DEF DecodeFailed, Kinds

LEMMA AbandonType ==
  ASSUME NEW r \in RingType, NEW q \in Nat, NEW b \in Bufs \cup {NoBuf}
  PROVE  Abandon(r, q, b) \in RingType
  BY IndexType, PutType, UnclaimType DEF Abandon, Kinds

LEMMA WriteRgbType ==
  ASSUME NEW r \in RingType, NEW q \in Nat, NEW b \in Bufs \cup {NoBuf}
  PROVE  WriteRgb(r, q, b) \in RingType
<1>1. Index(q) \in Slots /\ SlotOf(r, q) \in SlotType
  BY IndexType DEF SlotOf, RingType
<1>2. [SlotOf(r, q) EXCEPT !.rgb = b, !.rgbDone = TRUE] \in SlotType
  BY <1>1 DEF SlotType
<1> QED BY <1>1, <1>2, WithSlotType, UnclaimType, PutType DEF WriteRgb, Kinds

LEMMA DisplayCommitType ==
  ASSUME NEW r \in RingType, NEW i \in Slots
  PROVE  DisplayCommit(r, i) \in RingType
<1> DEFINE x == WithSlot(r, i, [r.slots[i] EXCEPT !.displayDone = TRUE])
<1>1. r.slots[i] \in SlotType /\ r.slots[i].seq \in Nat
  BY DEF RingType, SlotType
<1>2. [r.slots[i] EXCEPT !.displayDone = TRUE] \in SlotType
  BY <1>1 DEF SlotType
<1>3. x \in RingType
  BY <1>2, WithSlotType
<1>4. [x EXCEPT !.display = r.slots[i].seq] \in RingType
  <2> HIDE DEF x
  <2> QED BY <1>1, <1>3 DEF RingType
<1> QED BY <1>4, MaintainType DEF DisplayCommit

LEMMA RenderedType ==
  ASSUME NEW r \in RingType, NEW q \in Nat, NEW ok \in BOOLEAN,
         NEW nb \in Bufs \cup {NoBuf}, NEW jb \in Bufs \cup {NoBuf}
  PROVE  Rendered(r, q, nb, jb, ok) \in RingType
<1> DEFINE s == [SlotOf(r, q) EXCEPT !.nv12 = nb, !.jpeg = jb]
           r1 == Put(Put(r, "nv12", nb), "jpeg", jb)
<1>1. Index(q) \in Slots /\ SlotOf(r, q) \in SlotType
  BY IndexType DEF SlotOf, RingType
<1>2. s \in SlotType
  BY <1>1 DEF SlotType
<1>3. DisplayCommit(WithSlot(r, Index(q), s), Index(q)) \in RingType
  BY <1>1, <1>2, WithSlotType, DisplayCommitType
<1>4. r1 \in RingType /\ DisplayCommit(r1, Index(q)) \in RingType
  BY <1>1, PutType, DisplayCommitType DEF Kinds
<1> QED BY <1>3, <1>4 DEF Rendered

LEMMA MarkConsumedType ==
  ASSUME NEW r \in RingType, NEW q \in Nat
  PROVE  MarkConsumed(r, q) \in RingType
<1> DEFINE m == [i \in Slots |-> IF r.slots[i].seq # 0 /\ r.slots[i].seq <= q
                                 THEN [r.slots[i] EXCEPT !.encodeDone = TRUE]
                                 ELSE r.slots[i]]
<1>1. ASSUME NEW i \in Slots
      PROVE  r.slots[i] \in SlotType /\ [r.slots[i] EXCEPT !.encodeDone = TRUE] \in SlotType
  <2>1. r.slots[i] \in SlotType
    BY DEF RingType
  <2> QED BY <2>1 DEF SlotType
<1>2. m \in [Slots -> SlotType]
  BY <1>1
<1>3. [r EXCEPT !.slots = m] \in RingType
  <2> HIDE DEF m
  <2> QED BY <1>2 DEF RingType
<1> QED BY <1>3, MaintainType DEF MarkConsumed

LEMMA StealType ==
  ASSUME NEW r \in RingType, NEW i \in Slots
  PROVE  Steal(r, i) \in RingType
<1>1. r.slots[i] \in SlotType /\ r.slots[i].seq \in Nat
  BY DEF RingType, SlotType
<1>2. [r.slots[i] EXCEPT !.nv12 = NoBuf] \in SlotType
  BY <1>1 DEF SlotType
<1> QED BY <1>1, <1>2, WithSlotType, MarkConsumedType DEF Steal

LEMMA ModeType ==
  ASSUME NEW r \in RingType, NEW on \in BOOLEAN
  PROVE  SetAi(r, on) \in RingType /\ SetRec(r, on) \in RingType
<1>1. [r EXCEPT !.ai = on] \in RingType /\ [r EXCEPT !.rec = on] \in RingType
  BY DEF RingType
<1> QED BY <1>1, MaintainType DEF SetAi, SetRec

LEMMA RestartType ==
  ASSUME NEW r \in RingType
  PROVE  /\ ClearAll(r) \in RingType /\ [r EXCEPT !.quiescing = TRUE] \in RingType
         /\ StreamOn(r) \in RingType /\ StreamOff(r) \in RingType
<1>1. \A k \in Kinds : {r.slots[i][k] : i \in Slots} \ {NoBuf} \subseteq Bufs
  BY DEF RingType, SlotType, Kinds
<1>2. ClearAll(r) \in RingType
  BY <1>1, EmptyType DEF ClearAll, RingType
<1>3. [r EXCEPT !.quiescing = TRUE] \in RingType
  BY DEF RingType
<1>4. StreamOn(r) \in RingType /\ StreamOff(r) \in RingType
  BY DEF StreamOn, StreamOff, RingType
<1> QED BY <1>2, <1>3, <1>4

-----------------------------------------------------------------------------

\* Every field of the ring and of its callers keeps its type; in particular a
\* late unclaim never drives a claim count below zero.
THEOREM TypeCorrect == Spec => []TypeOK
<1>1. Init => TypeOK
  BY EmptyType DEF Init, TypeOK, Idle
<1>2. TypeOK /\ [Next]_vars => TypeOK'
  <2> SUFFICES ASSUME TypeOK, [Next]_vars
               PROVE  TypeOK'
    OBVIOUS
  <2> USE DEF TypeOK
  <2>1. CASE StartSession
    BY <2>1, RestartType DEF StartSession
  <2>2. CASE QuiesceBegin
    BY <2>2, RestartType DEF QuiesceBegin
  <2>3. CASE QuiesceWait
    BY <2>3, RestartType DEF QuiesceWait
  <2>4. CASE EndSession
    BY <2>4, RestartType DEF EndSession
  <2>5. CASE ForceClear
    BY <2>5, RestartType DEF ForceClear
  <2>6. ASSUME NEW v \in VBufs, NEW z \in Sizes, Capture(v, z)
        PROVE  TypeOK'
    BY <2>6, MaintainType, PublishType DEF Capture
  <2>7. ASSUME NEW q \in 1 .. MaxSeq, NEW b \in Bufs \cup {NoBuf}, ClaimFrame(q, b)
        PROVE  TypeOK'
    <3>1. q \in Nat
      BY BoundAssumption
    <3>2. ring' \in RingType
      BY <2>7, <3>1, ClaimType, TakeType DEF ClaimFrame, Kinds
    <3>3. [seq |-> q, rgb |-> b, decoded |-> FALSE]
             \in [seq : Nat, rgb : Bufs \cup {NoBuf}, decoded : BOOLEAN]
      BY <3>1
    <3> QED BY <2>7, <3>2, <3>3 DEF ClaimFrame
  <2>8. ASSUME NEW j \in jobs, DecodeOk(j)
        PROVE  TypeOK'
    BY <2>8 DEF DecodeOk
  <2>9. ASSUME NEW j \in jobs, DecodeFail(j)
        PROVE  TypeOK'
    BY <2>9, DecodeFailedType DEF DecodeFail
  <2>10. ASSUME NEW j \in jobs, WriteJob(j)
         PROVE  TypeOK'
    BY <2>10, WriteRgbType DEF WriteJob
  <2>11. ASSUME NEW j \in jobs, AbandonJob(j)
         PROVE  TypeOK'
    BY <2>11, AbandonType DEF AbandonJob
  <2>12. ASSUME NEW q \in 1 .. MaxSeq, NEW nb \in Bufs \cup {NoBuf},
                NEW jb \in Bufs \cup {NoBuf}, BeginRender(q, nb, jb)
         PROVE  TypeOK'
    <3>1. q \in Nat
      BY BoundAssumption
    <3>2. ring' \in RingType
      BY <2>12, TakeType DEF BeginRender, Kinds
    <3> QED BY <2>12, <3>1, <3>2 DEF BeginRender
  <2>13. ASSUME NEW ok \in BOOLEAN, EndRender(ok)
         PROVE  TypeOK'
    BY <2>13, RenderedType DEF EndRender, Idle
  <2>14. CASE EncodeTake
    <3>1. PICK i \in EncodePick(ring, 0) : ring' = Steal(ring, i) /\ stolen' = ring.slots[i].nv12
      BY <2>14 DEF EncodeTake
    <3>2. i \in Slots /\ ring.slots[i].nv12 \in Bufs \cup {NoBuf}
      BY DEF EncodePick, RingType, SlotType
    <3> QED BY <2>14, <3>1, <3>2, StealType DEF EncodeTake
  <2>15. CASE EncodeSkip
    <3>1. PICK i \in EncodePick(ring, 0) : ring' = MarkConsumed(ring, ring.slots[i].seq)
      BY <2>15 DEF EncodeSkip
    <3>2. ring.slots[i].seq \in Nat
      BY DEF EncodePick, RingType, SlotType
    <3> QED BY <2>15, <3>1, <3>2, MarkConsumedType DEF EncodeSkip
  <2>16. CASE EncodeEnd
    BY <2>16, PutType DEF EncodeEnd, Kinds
  <2>17. ASSUME NEW aiOn \in BOOLEAN, NEW recOn \in BOOLEAN, SetMode(aiOn, recOn)
         PROVE  TypeOK'
    BY <2>17, ModeType DEF SetMode
  <2>18. CASE UNCHANGED vars
    BY <2>18 DEF vars
  <2> QED
    BY <2>1, <2>2, <2>3, <2>4, <2>5, <2>6, <2>7, <2>8, <2>9, <2>10, <2>11,
       <2>12, <2>13, <2>14, <2>15, <2>16, <2>17, <2>18 DEF Next
<1> QED BY <1>1, <1>2, PTL DEF Spec
-----------------------------------------------------------------------------
(***************************************************************************)
(* Frame numbers and the driver's buffers.  All a function of the ring     *)
(* other than a publication and the restart functions does to them is to   *)
(* take raw buffers out of slots and queue those to the driver.            *)
(***************************************************************************)

Releases(r, t) ==
  /\ t.produce = r.produce /\ t.mapped = r.mapped /\ t.quiescing = r.quiescing
  /\ \A i \in Slots : /\ t.slots[i].seq = r.slots[i].seq
                      /\ t.slots[i].raw \in {r.slots[i].raw, NoBuf}
  /\ \A v \in t.queued : \/ v \in r.queued
                         \/ \E i \in Slots : r.slots[i].raw = v /\ t.slots[i].raw = NoBuf

LEMMA ReleasesTransitive ==
  ASSUME NEW r \in RingType, NEW t \in RingType, NEW u \in RingType,
         Releases(r, t), Releases(t, u)
  PROVE  Releases(r, u)
<1>1. \A v \in u.queued : v # NoBuf
  BY NoBufAssumption DEF RingType
<1>2. ASSUME NEW v \in u.queued
      PROVE  \/ v \in r.queued
             \/ \E i \in Slots : r.slots[i].raw = v /\ u.slots[i].raw = NoBuf
  <2>1. CASE v \in t.queued
    BY <2>1 DEF Releases
  <2>2. CASE v \notin t.queued
    <3>1. PICK i \in Slots : t.slots[i].raw = v /\ u.slots[i].raw = NoBuf
      BY <2>2 DEF Releases
    <3>2. r.slots[i].raw = v
      BY <3>1, <1>1 DEF Releases
    <3> QED BY <3>1, <3>2
  <2> QED BY <2>1, <2>2
<1> QED BY <1>2 DEF Releases

LEMMA MaintainReleases ==
  ASSUME NEW r \in RingType
  PROVE  Releases(r, Maintain(r))
<1> DEFINE t == Maintain(r)
<1>1. /\ t.produce = r.produce /\ t.mapped = r.mapped /\ t.quiescing = r.quiescing
      /\ t.queued = r.queued \cup Requeued(r)
      /\ \A i \in Slots : t.slots[i] = Kept(r, r.slots[i])
  BY DEF Maintain, RingType
<1>2. ASSUME NEW i \in Slots
      PROVE  /\ t.slots[i].seq = r.slots[i].seq
             /\ t.slots[i].raw = IF RawDone(r, r.slots[i]) THEN NoBuf ELSE r.slots[i].raw
  <2>1. r.slots[i] \in SlotType
    BY DEF RingType
  <2> QED BY <1>1, <2>1 DEF Kept, SlotType
<1>3. ASSUME NEW v \in Requeued(r)
      PROVE  \E i \in Slots : r.slots[i].raw = v /\ t.slots[i].raw = NoBuf
  BY <1>2 DEF Requeued
<1> HIDE DEF t
<1>4. Releases(r, t)
  BY <1>1, <1>2, <1>3 DEF Releases
<1> QED BY <1>4 DEF t

\* A function that changes some other field of one slot, or of the ring, and
\* then maintains it.
LEMMA SlotUpdateReleases ==
  ASSUME NEW r \in RingType, NEW i \in Slots, NEW s \in SlotType,
         s.seq = r.slots[i].seq, s.raw = r.slots[i].raw
  PROVE  Releases(r, WithSlot(r, i, s))
  BY DEF Releases, WithSlot, RingType

LEMMA PoolReleases ==
  ASSUME NEW r \in RingType, NEW k \in Kinds, NEW b
  PROVE  Releases(r, Put(r, k, b)) /\ Releases(r, Take(r, k, b))
  BY DEF Releases, Put, Take, RingType

LEMMA ClaimReleases ==
  ASSUME NEW r \in RingType, NEW q \in Nat
  PROVE  Releases(r, Claim(r, q))
<1>1. Index(q) \in Slots /\ SlotOf(r, q) \in SlotType /\ SlotOf(r, q) = r.slots[Index(q)]
  BY IndexType DEF SlotOf, RingType
<1> DEFINE s == [SlotOf(r, q) EXCEPT !.claims = @ + 1]
<1>2. s \in SlotType /\ s.seq = SlotOf(r, q).seq /\ s.raw = SlotOf(r, q).raw
  BY <1>1 DEF SlotType
<1> QED BY <1>1, <1>2, SlotUpdateReleases DEF Claim

LEMMA UnclaimReleases ==
  ASSUME NEW r \in RingType, NEW i \in Slots
  PROVE  Releases(r, Unclaim(r, i))
<1> DEFINE s == Unclaimed(r.slots[i])
<1>1. r.slots[i] \in SlotType
  BY DEF RingType
<1>2. s \in SlotType
  BY <1>1, UnclaimedType
<1>3. s.seq = r.slots[i].seq /\ s.raw = r.slots[i].raw
  BY <1>1 DEF Unclaimed, SlotType
<1>4. WithSlot(r, i, s) \in RingType /\ Maintain(WithSlot(r, i, s)) \in RingType
  BY <1>2, WithSlotType, MaintainType
<1>5. Releases(r, WithSlot(r, i, s))
  BY <1>2, <1>3, SlotUpdateReleases
<1> QED BY <1>4, <1>5, MaintainReleases, ReleasesTransitive DEF Unclaim

LEMMA DecodeFailedReleases ==
  ASSUME NEW r \in RingType, NEW q \in Nat, NEW b \in Bufs \cup {NoBuf}
  PROVE  Releases(r, DecodeFailed(r, q, b))
<1>1. Index(q) \in Slots /\ "rgb" \in Kinds
  BY IndexType DEF Kinds
<1>2. Put(r, "rgb", b) \in RingType /\ DecodeFailed(r, q, b) \in RingType
  BY <1>1, PutType, DecodeFailedType
<1> QED BY <1>1, <1>2, PoolReleases, UnclaimReleases, ReleasesTransitive DEF DecodeFailed

LEMMA AbandonReleases ==
  ASSUME NEW r \in RingType, NEW q \in Nat, NEW b \in Bufs \cup {NoBuf}
  PROVE  Releases(r, Abandon(r, q, b))
<1>1. Index(q) \in Slots /\ "rgb" \in Kinds
  BY IndexType DEF Kinds
<1>2. Unclaim(r, Index(q)) \in RingType /\ Abandon(r, q, b) \in RingType
  BY <1>1, UnclaimType, AbandonType
<1> QED BY <1>1, <1>2, PoolReleases, UnclaimReleases, ReleasesTransitive DEF Abandon

LEMMA WriteRgbReleases ==
  ASSUME NEW r \in RingType, NEW q \in Nat, NEW b \in Bufs \cup {NoBuf}
  PROVE  Releases(r, WriteRgb(r, q, b))
<1> DEFINE s == [SlotOf(r, q) EXCEPT !.rgb = b, !.rgbDone = TRUE]
<1>1. Index(q) \in Slots /\ SlotOf(r, q) \in SlotType /\ SlotOf(r, q) = r.slots[Index(q)]
  BY IndexType DEF SlotOf, RingType
<1>2. s \in SlotType /\ s.seq = SlotOf(r, q).seq /\ s.raw = SlotOf(r, q).raw
  BY <1>1 DEF SlotType
<1>3. WithSlot(r, Index(q), s) \in RingType /\ Releases(r, WithSlot(r, Index(q), s))
  BY <1>1, <1>2, WithSlotType, SlotUpdateReleases
<1>4. Releases(r, Unclaim(WithSlot(r, Index(q), s), Index(q)))
  BY <1>1, <1>3, UnclaimType, UnclaimReleases, ReleasesTransitive
<1> QED BY <1>4, PoolReleases DEF WriteRgb, Kinds

LEMMA DisplayCommitReleases ==
  ASSUME NEW r \in RingType, NEW i \in Slots
  PROVE  Releases(r, DisplayCommit(r, i))
<1> DEFINE s == [r.slots[i] EXCEPT !.displayDone = TRUE]
           x == WithSlot(r, i, s)
           y == [x EXCEPT !.display = r.slots[i].seq]
<1>1. r.slots[i] \in SlotType /\ r.slots[i].seq \in Nat
  BY DEF RingType, SlotType
<1>2. s \in SlotType /\ s.seq = r.slots[i].seq /\ s.raw = r.slots[i].raw
  BY <1>1 DEF SlotType
<1>3. x \in RingType /\ Releases(r, x)
  BY <1>2, WithSlotType, SlotUpdateReleases
<1>4. y \in RingType /\ Releases(r, y)
  <2> HIDE DEF x
  <2> QED BY <1>1, <1>3 DEF RingType, Releases
<1>5. Maintain(y) \in RingType /\ Releases(y, Maintain(y))
  BY <1>4, MaintainType, MaintainReleases
<1> QED BY <1>4, <1>5, ReleasesTransitive DEF DisplayCommit

LEMMA RenderedReleases ==
  ASSUME NEW r \in RingType, NEW q \in Nat, NEW ok \in BOOLEAN,
         NEW nb \in Bufs \cup {NoBuf}, NEW jb \in Bufs \cup {NoBuf}
  PROVE  Releases(r, Rendered(r, q, nb, jb, ok))
<1> DEFINE s == [SlotOf(r, q) EXCEPT !.nv12 = nb, !.jpeg = jb]
           x == WithSlot(r, Index(q), s)
           r0 == Put(r, "nv12", nb)
           r1 == Put(r0, "jpeg", jb)
<1>1. Index(q) \in Slots /\ SlotOf(r, q) \in SlotType /\ SlotOf(r, q) = r.slots[Index(q)]
  BY IndexType DEF SlotOf, RingType
<1>2. s \in SlotType /\ s.seq = SlotOf(r, q).seq /\ s.raw = SlotOf(r, q).raw
  BY <1>1 DEF SlotType
<1>3. x \in RingType /\ Releases(r, x)
  BY <1>1, <1>2, WithSlotType, SlotUpdateReleases
<1>4. Releases(r, DisplayCommit(x, Index(q)))
  BY <1>1, <1>3, DisplayCommitType, DisplayCommitReleases, ReleasesTransitive
<1>5. r0 \in RingType /\ r1 \in RingType /\ Releases(r, r0) /\ Releases(r0, r1)
  BY PutType, PoolReleases DEF Kinds
<1>6. Releases(r, r1)
  BY <1>5, ReleasesTransitive
<1>7. Releases(r, DisplayCommit(r1, Index(q)))
  BY <1>1, <1>5, <1>6, DisplayCommitType, DisplayCommitReleases, ReleasesTransitive
<1> QED BY <1>4, <1>6, <1>7 DEF Rendered

LEMMA MarkConsumedReleases ==
  ASSUME NEW r \in RingType, NEW q \in Nat
  PROVE  Releases(r, MarkConsumed(r, q))
<1> DEFINE m == [i \in Slots |-> IF r.slots[i].seq # 0 /\ r.slots[i].seq <= q
                                 THEN [r.slots[i] EXCEPT !.encodeDone = TRUE]
                                 ELSE r.slots[i]]
           x == [r EXCEPT !.slots = m]
<1>1. ASSUME NEW i \in Slots
      PROVE  /\ m[i] \in SlotType
             /\ m[i].seq = r.slots[i].seq /\ m[i].raw = r.slots[i].raw
  <2>1. r.slots[i] \in SlotType
    BY DEF RingType
  <2> QED BY <2>1 DEF SlotType
<1>2. m \in [Slots -> SlotType]
  BY <1>1
<1>3. x \in RingType /\ Releases(r, x)
  <2> HIDE DEF m
  <2> QED BY <1>1, <1>2 DEF RingType, Releases
<1>4. Maintain(x) \in RingType /\ Releases(x, Maintain(x))
  BY <1>3, MaintainType, MaintainReleases
<1> QED BY <1>3, <1>4, ReleasesTransitive DEF MarkConsumed

LEMMA StealReleases ==
  ASSUME NEW r \in RingType, NEW i \in Slots
  PROVE  Releases(r, Steal(r, i))
<1> DEFINE s == [r.slots[i] EXCEPT !.nv12 = NoBuf]
           x == WithSlot(r, i, s)
<1>1. r.slots[i] \in SlotType /\ r.slots[i].seq \in Nat
  BY DEF RingType, SlotType
<1>2. s \in SlotType /\ s.seq = r.slots[i].seq /\ s.raw = r.slots[i].raw
  BY <1>1 DEF SlotType
<1>3. x \in RingType /\ Releases(r, x)
  BY <1>2, WithSlotType, SlotUpdateReleases
<1>4. /\ MarkConsumed(x, r.slots[i].seq) \in RingType
      /\ Releases(x, MarkConsumed(x, r.slots[i].seq))
  BY <1>1, <1>3, MarkConsumedType, MarkConsumedReleases
<1> QED BY <1>3, <1>4, ReleasesTransitive DEF Steal

LEMMA ModeReleases ==
  ASSUME NEW r \in RingType, NEW on \in BOOLEAN
  PROVE  Releases(r, SetAi(r, on)) /\ Releases(r, SetRec(r, on))
<1> DEFINE a == [r EXCEPT !.ai = on]
           c == [r EXCEPT !.rec = on]
<1>1. a \in RingType /\ c \in RingType /\ Releases(r, a) /\ Releases(r, c)
  BY DEF RingType, Releases
<1>2. /\ Maintain(a) \in RingType /\ Releases(a, Maintain(a))
      /\ Maintain(c) \in RingType /\ Releases(c, Maintain(c))
  BY <1>1, MaintainType, MaintainReleases
<1>3. Releases(r, Maintain(a)) /\ Releases(r, Maintain(c))
  BY <1>1, <1>2, ReleasesTransitive
<1>4. Releases(r, r)
  BY DEF Releases
<1> QED BY <1>3, <1>4 DEF SetAi, SetRec
-----------------------------------------------------------------------------
(* Where frames and mmap buffers are: the invariant on one value of the ring *)

Window(r) ==
  \A i \in Slots : LET s == r.slots[i] IN
    s.seq # 0 => Index(s.seq) = i /\ s.seq <= r.produce /\ r.produce < s.seq + N

Lent(r) ==
  /\ \A i \in Slots : r.slots[i].raw \notin r.queued
  /\ \A i, j \in Slots :
       r.slots[i].raw = r.slots[j].raw /\ r.slots[i].raw # NoBuf => i = j
  /\ r.mapped \/ r.quiescing \/ \A i \in Slots : r.slots[i].raw = NoBuf

\* Window and Lent say of ring what SlotWindow and ZeroCopy say.
LEMMA SameInvariants == (SlotWindow <=> Window(ring)) /\ (ZeroCopy <=> Lent(ring))
  BY DEF SlotWindow, ZeroCopy, Window, Lent

LEMMA ReleasesKeep ==
  ASSUME NEW r \in RingType, NEW t \in RingType,
         Releases(r, t), Window(r), Lent(r)
  PROVE  Window(t) /\ Lent(t)
<1>1. Window(t)
  BY DEF Releases, Window
<1>2. \A v \in t.queued : v # NoBuf
  BY NoBufAssumption DEF RingType
<1>3. ASSUME NEW i \in Slots, t.slots[i].raw \in t.queued
      PROVE  FALSE
  <2>1. t.slots[i].raw = r.slots[i].raw /\ r.slots[i].raw # NoBuf
    BY <1>2, <1>3 DEF Releases
  <2>2. r.slots[i].raw \notin r.queued
    BY DEF Lent
  <2>3. PICK j \in Slots : r.slots[j].raw = r.slots[i].raw /\ t.slots[j].raw = NoBuf
    BY <1>3, <2>1, <2>2 DEF Releases
  <2>4. i = j
    BY <2>1, <2>3 DEF Lent
  <2> QED BY <2>1, <2>3, <2>4
<1>4. \A i, j \in Slots :
        t.slots[i].raw = t.slots[j].raw /\ t.slots[i].raw # NoBuf => i = j
  BY DEF Releases, Lent
<1>5. t.mapped \/ t.quiescing \/ \A i \in Slots : t.slots[i].raw = NoBuf
  BY DEF Releases, Lent
<1> QED BY <1>1, <1>3, <1>4, <1>5 DEF Lent

\* Two frames N apart share a slot; frames closer than N do not.
LEMMA IndexPeriod == \A q \in Nat : Index(q + N) = Index(q)
<1> TAKE q \in Nat
<1>1. q % N \in 0 .. N - 1 /\ q \div N \in Nat /\ q = N * (q \div N) + (q % N)
  BY NAssumption
<1>2. q + N = N * ((q \div N) + 1) + (q % N)
  BY <1>1, NAssumption
<1>3. \A d \in Nat, m \in 0 .. N - 1 : (N * d + m) % N = m
  BY NAssumption
<1>4. (N * ((q \div N) + 1) + (q % N)) % N = q % N
  BY <1>1, <1>3
<1> QED BY <1>2, <1>4 DEF Index

\* Publishing gives the slot of the oldest frame of the window to the new one.
LEMMA PublishKeeps ==
  ASSUME NEW r \in RingType, NEW v \in VBufs, NEW z \in Sizes,
         Window(r), Lent(r), CanProduce(r), v \in r.queued,
         r.mapped
  PROVE  Window(Publish(r, v, z)) /\ Lent(Publish(r, v, z))
<1> DEFINE q == r.produce + 1
           s == [EmptySlot EXCEPT !.seq = q, !.raw = v, !.size = z]
           x == WithSlot(r, Index(q), s)
           y == [x EXCEPT !.produce = q, !.queued = @ \ {v}]
<1>1. q \in Nat /\ q # 0 /\ r.produce \in Nat /\ Index(q) \in Slots /\ q - 1 = r.produce
  BY IndexType DEF RingType
<1>2. s \in SlotType /\ s.seq = q /\ s.raw = v
  BY <1>1 DEF SlotType, EmptySlot
<1>3. x \in RingType
  BY <1>1, <1>2, WithSlotType
<1>4. /\ y \in RingType
      /\ y.produce = q /\ y.queued = r.queued \ {v}
      /\ y.mapped = r.mapped /\ y.quiescing = r.quiescing
      /\ \A i \in Slots : y.slots[i] = IF i = Index(q) THEN s ELSE r.slots[i]
  <2> HIDE DEF q, s
  <2> QED BY <1>1, <1>2, <1>3 DEF RingType, WithSlot
<1> HIDE DEF q, s, x, y
<1>5. ASSUME NEW i \in Slots, y.slots[i].seq # 0
      PROVE  /\ Index(y.slots[i].seq) = i
             /\ y.slots[i].seq <= y.produce /\ y.produce < y.slots[i].seq + N
  <2>1. CASE i = Index(q)
    BY <2>1, <1>1, <1>2, <1>4, NAssumption
  <2>2. CASE i # Index(q)
    <3>1. y.slots[i] = r.slots[i] /\ r.slots[i].seq \in Nat
      BY <2>2, <1>4 DEF RingType, SlotType
    <3>2. /\ Index(r.slots[i].seq) = i
          /\ r.slots[i].seq <= r.produce /\ r.produce < r.slots[i].seq + N
      BY <3>1, <1>5 DEF Window
    <3>3. r.slots[i].seq + N # q
      BY <3>1, <3>2, <2>2, IndexPeriod
    <3> QED BY <3>1, <3>2, <3>3, <1>1, <1>4, NAssumption
  <2> QED BY <2>1, <2>2
<1>6. Window(y)
  BY <1>5 DEF Window
<1>7. v # NoBuf /\ \A i \in Slots : r.slots[i].raw # v
  BY NoBufAssumption DEF Lent
<1>8. Lent(y)
  BY <1>1, <1>2, <1>4, <1>7 DEF Lent
<1>9. Maintain(y) \in RingType /\ Releases(y, Maintain(y))
  BY <1>4, MaintainType, MaintainReleases
<1> QED BY <1>4, <1>6, <1>8, <1>9, ReleasesKeep DEF Publish, q, s, x, y

LEMMA ClearAllKeeps ==
  ASSUME NEW r \in RingType
  PROVE  Window(ClearAll(r)) /\ Lent(ClearAll(r))
<1>1. \A i \in Slots : ClearAll(r).slots[i] = EmptySlot
  BY DEF ClearAll, RingType
<1>2. EmptySlot.seq = 0 /\ EmptySlot.raw = NoBuf
  BY DEF EmptySlot
<1>3. NoBuf \notin ClearAll(r).queued
  BY NoBufAssumption DEF ClearAll, RingType
<1> QED BY <1>1, <1>2, <1>3 DEF Window, Lent

LEMMA StreamKeeps ==
  ASSUME NEW r \in RingType, Window(r), Lent(r)
  PROVE  /\ (\A i \in Slots : r.slots[i].raw = NoBuf)
              => Window(StreamOn(r)) /\ Lent(StreamOn(r))
         /\ r.quiescing \/ (\A i \in Slots : r.slots[i].raw = NoBuf)
              => Window(StreamOff(r)) /\ Lent(StreamOff(r))
         /\ Window([r EXCEPT !.quiescing = TRUE]) /\ Lent([r EXCEPT !.quiescing = TRUE])
<1>1. /\ StreamOn(r).slots = r.slots /\ StreamOn(r).produce = r.produce
      /\ StreamOn(r).mapped /\ StreamOn(r).queued = VBufs
  BY DEF StreamOn, RingType
<1>2. /\ StreamOff(r).slots = r.slots /\ StreamOff(r).produce = r.produce
      /\ StreamOff(r).quiescing = r.quiescing /\ StreamOff(r).queued = {}
  BY DEF StreamOff, RingType
<1> DEFINE t == [r EXCEPT !.quiescing = TRUE]
<1>3. t.slots = r.slots /\ t.produce = r.produce /\ t.queued = r.queued /\ t.quiescing
  BY DEF RingType
<1> HIDE DEF t
<1>4. Window(t) /\ Lent(t)
  BY <1>3 DEF Window, Lent
<1>5. ASSUME \A i \in Slots : r.slots[i].raw = NoBuf
      PROVE  Window(StreamOn(r)) /\ Lent(StreamOn(r))
  BY <1>1, <1>5, NoBufAssumption DEF Window, Lent
<1>6. ASSUME r.quiescing \/ (\A i \in Slots : r.slots[i].raw = NoBuf)
      PROVE  Window(StreamOff(r)) /\ Lent(StreamOff(r))
  BY <1>2, <1>6 DEF Window, Lent
<1> QED BY <1>4, <1>5, <1>6 DEF t
-----------------------------------------------------------------------------

RingInv == TypeOK /\ Window(ring) /\ Lent(ring)

LEMMA ClaimTakesReleases ==
  ASSUME NEW r \in RingType, NEW t \in RingType, NEW q \in Nat, NEW b,
         t = Take(Claim(r, q), "rgb", b)
  PROVE  Releases(r, t)
<1>1. "rgb" \in Kinds
  BY DEF Kinds
<1>2. Claim(r, q) \in RingType /\ Releases(r, Claim(r, q))
  BY ClaimType, ClaimReleases
<1>3. Releases(Claim(r, q), t)
  BY <1>1, <1>2, PoolReleases
<1> QED BY <1>2, <1>3, ReleasesTransitive

\* A step of a caller only releases buffers, publishes a frame or is part of a
\* camera restart.
LEMMA StepKinds ==
  ASSUME TypeOK, TypeOK', [Next]_vars
  PROVE  \/ Releases(ring, ring')
         \/ StartSession \/ QuiesceBegin \/ QuiesceWait \/ EndSession \/ ForceClear
         \/ \E v \in VBufs, z \in Sizes : Capture(v, z)
<1> USE DEF TypeOK
<1>1. ASSUME NEW q \in 1 .. MaxSeq, NEW b \in Bufs \cup {NoBuf}, ClaimFrame(q, b)
      PROVE  Releases(ring, ring')
  BY <1>1, BoundAssumption, ClaimTakesReleases DEF ClaimFrame
<1>2. ASSUME NEW j \in jobs, DecodeOk(j) \/ DecodeFail(j) \/ WriteJob(j) \/ AbandonJob(j)
      PROVE  Releases(ring, ring')
  <2>1. j.seq \in Nat /\ j.rgb \in Bufs \cup {NoBuf}
    OBVIOUS
  <2>2. CASE DecodeOk(j)
    BY <2>2 DEF DecodeOk, Releases
  <2>3. CASE DecodeFail(j)
    BY <2>1, <2>3, DecodeFailedReleases DEF DecodeFail
  <2>4. CASE WriteJob(j)
    BY <2>1, <2>4, WriteRgbReleases DEF WriteJob
  <2>5. CASE AbandonJob(j)
    BY <2>1, <2>5, AbandonReleases DEF AbandonJob
  <2> QED BY <1>2, <2>2, <2>3, <2>4, <2>5
<1>3. ASSUME NEW q \in 1 .. MaxSeq, NEW nb \in Bufs \cup {NoBuf},
             NEW jb \in Bufs \cup {NoBuf}, BeginRender(q, nb, jb)
      PROVE  Releases(ring, ring')
  <2> DEFINE r1 == Take(ring, "nv12", nb)
  <2>1. r1 \in RingType /\ Releases(ring, r1) /\ Releases(r1, Take(r1, "jpeg", jb))
    BY TakeType, PoolReleases DEF Kinds
  <2>2. ring' = Take(r1, "jpeg", jb)
    BY <1>3 DEF BeginRender
  <2> QED BY <2>1, <2>2, ReleasesTransitive
<1>4. ASSUME NEW ok \in BOOLEAN, EndRender(ok)
      PROVE  Releases(ring, ring')
  BY <1>4, RenderedReleases DEF EndRender
<1>5. CASE EncodeTake \/ EncodeSkip
  <2>1. \A i \in EncodePick(ring, 0) : i \in Slots /\ ring.slots[i].seq \in Nat
    BY DEF EncodePick, RingType, SlotType
  <2> QED BY <1>5, <2>1, StealReleases, MarkConsumedReleases DEF EncodeTake, EncodeSkip
<1>6. CASE EncodeEnd
  BY <1>6, PoolReleases DEF EncodeEnd, Kinds
<1>7. ASSUME NEW aiOn \in BOOLEAN, NEW recOn \in BOOLEAN, SetMode(aiOn, recOn)
      PROVE  Releases(ring, ring')
  BY <1>7, ModeReleases DEF SetMode
<1>8. CASE UNCHANGED vars
  BY <1>8 DEF vars, Releases
<1> QED BY <1>1, <1>2, <1>3, <1>4, <1>5, <1>6, <1>7, <1>8 DEF Next

LEMMA RingInvStep == RingInv /\ TypeOK' /\ [Next]_vars => RingInv'
<1> SUFFICES ASSUME TypeOK, Window(ring), Lent(ring), TypeOK', [Next]_vars
             PROVE  Window(ring)' /\ Lent(ring)'
  BY DEF RingInv
<1>0. ring \in RingType /\ ring' \in RingType
  BY DEF TypeOK
<1>1. CASE Releases(ring, ring')
  BY <1>0, <1>1, ReleasesKeep
<1>2. ASSUME NEW v \in VBufs, NEW z \in Sizes, Capture(v, z)
      PROVE  Window(ring)' /\ Lent(ring)'
  <2> DEFINE r == Maintain(ring)
  <2>1. r \in RingType /\ Releases(ring, r) /\ Window(r) /\ Lent(r)
    BY <1>0, MaintainType, MaintainReleases, ReleasesKeep
  <2>2. r.mapped /\ v \in r.queued
    BY <1>0, <1>2 DEF Capture, Maintain, RingType
  <2>3. ring' = IF CanProduce(r) THEN Publish(r, v, z) ELSE r
    BY <1>2 DEF Capture
  <2> HIDE DEF r
  <2> QED BY <2>1, <2>2, <2>3, PublishKeeps
<1>3. CASE QuiesceWait \/ ForceClear
  BY <1>0, <1>3, ClearAllKeeps DEF QuiesceWait, ForceClear
<1>4. CASE StartSession
  <2>1. \A i \in Slots : ring.slots[i].raw = NoBuf
    BY <1>4 DEF StartSession, Lent
  <2> QED BY <1>0, <1>4, <2>1, StreamKeeps DEF StartSession
<1>5. CASE EndSession
  BY <1>0, <1>5, StreamKeeps DEF EndSession
<1>6. CASE QuiesceBegin
  BY <1>0, <1>6, StreamKeeps DEF QuiesceBegin
<1> QED BY <1>1, <1>2, <1>3, <1>4, <1>5, <1>6, StepKinds

\* The ring's invariant: frames are where their numbers say, and the driver
\* never owns a buffer that a slot lends.
THEOREM RingCorrect == Spec => []RingInv
<1>1. Init => Window(ring) /\ Lent(ring)
  <2> SUFFICES ASSUME Init PROVE Window(ring) /\ Lent(ring)
    OBVIOUS
  <2>1. /\ \A i \in Slots : ring.slots[i].seq = 0 /\ ring.slots[i].raw = NoBuf
        /\ ring.queued = {}
    BY DEF Init, EmptyRing, EmptySlot
  <2> QED BY <2>1 DEF Window, Lent
<1>2. Init /\ TypeOK => RingInv
  BY <1>1 DEF RingInv
<1> QED BY <1>2, TypeCorrect, RingInvStep, PTL DEF Spec

\* A frame looked up by its number is found in its slot, or is gone.
THEOREM SlotWindowCorrect == Spec => []SlotWindow
<1>1. RingInv => SlotWindow
  BY SameInvariants DEF RingInv
<1> QED BY <1>1, RingCorrect, PTL

\* Zero copy is safe: no buffer is with the driver and in a slot at once.
THEOREM ZeroCopyCorrect == Spec => []ZeroCopy
<1>1. RingInv => ZeroCopy
  BY SameInvariants DEF RingInv
<1> QED BY <1>1, RingCorrect, PTL
-----------------------------------------------------------------------------
(***************************************************************************)
(* What the release rules do to each slot and pool, and what they leave.   *)
(***************************************************************************)

LEMMA KeptFields ==
  ASSUME NEW r \in RingType, NEW s \in SlotType
  PROVE  /\ Kept(r, s) \in SlotType
         /\ Kept(r, s).seq = s.seq /\ Kept(r, s).claims = s.claims
         /\ Kept(r, s).inferDone = s.inferDone /\ Kept(r, s).rgbDone = s.rgbDone
         /\ Kept(r, s).displayDone = s.displayDone /\ Kept(r, s).encodeDone = s.encodeDone
         /\ Kept(r, s).raw = (IF RawDone(r, s) THEN NoBuf ELSE s.raw)
         /\ Kept(r, s).rgb = (IF RgbDone(r, s) THEN NoBuf ELSE s.rgb)
         /\ Kept(r, s).nv12 = (IF Nv12Done(r, s) THEN NoBuf ELSE s.nv12)
         /\ Kept(r, s).jpeg = (IF JpegDone(r, s) THEN NoBuf ELSE s.jpeg)
<1>1. Kept(r, s) \in SlotType
  BY KeptType
<1>2. /\ Kept(r, s).seq = s.seq /\ Kept(r, s).claims = s.claims
      /\ Kept(r, s).inferDone = s.inferDone /\ Kept(r, s).rgbDone = s.rgbDone
      /\ Kept(r, s).displayDone = s.displayDone /\ Kept(r, s).encodeDone = s.encodeDone
  BY DEF Kept, SlotType
<1>3. /\ Kept(r, s).raw = (IF RawDone(r, s) THEN NoBuf ELSE s.raw)
      /\ Kept(r, s).rgb = (IF RgbDone(r, s) THEN NoBuf ELSE s.rgb)
  BY DEF Kept, SlotType
<1>4. /\ Kept(r, s).nv12 = (IF Nv12Done(r, s) THEN NoBuf ELSE s.nv12)
      /\ Kept(r, s).jpeg = (IF JpegDone(r, s) THEN NoBuf ELSE s.jpeg)
  BY DEF Kept, SlotType
<1> QED BY <1>1, <1>2, <1>3, <1>4

LEMMA MaintainFields ==
  ASSUME NEW r \in RingType
  PROVE  /\ Maintain(r) \in RingType
         /\ Maintain(r).produce = r.produce /\ Maintain(r).display = r.display
         /\ Maintain(r).ai = r.ai /\ Maintain(r).rec = r.rec
         /\ Maintain(r).mapped = r.mapped /\ Maintain(r).quiescing = r.quiescing
         /\ \A k \in Kinds : Maintain(r).pools[k] = r.pools[k] \cup
              {r.slots[i][k] : i \in {j \in Slots : StageDone(r, r.slots[j], k)}}
         /\ \A i \in Slots : r.slots[i] \in SlotType /\ Maintain(r).slots[i] = Kept(r, r.slots[i])
  BY MaintainType DEF Maintain, RingType

\* A released buffer is gone from its slot, and no other rule depends on it.
Settled(r) ==
  \A i \in Slots : LET s == r.slots[i] IN
    ~RawDone(r, s) /\ ~RgbDone(r, s) /\ ~Nv12Done(r, s) /\ ~JpegDone(r, s)

LEMMA MaintainSettles ==
  ASSUME NEW r \in RingType
  PROVE  Settled(Maintain(r))
<1> DEFINE t == Maintain(r)
<1>1. /\ t.produce = r.produce /\ t.display = r.display /\ t.ai = r.ai /\ t.rec = r.rec
      /\ \A i \in Slots : r.slots[i] \in SlotType /\ t.slots[i] = Kept(r, r.slots[i])
  BY MaintainFields
<1> HIDE DEF t
<1>2. ASSUME NEW i \in Slots
      PROVE  /\ ~RawDone(t, t.slots[i]) /\ ~RgbDone(t, t.slots[i])
             /\ ~Nv12Done(t, t.slots[i]) /\ ~JpegDone(t, t.slots[i])
  <2> DEFINE s == r.slots[i]
             u == t.slots[i]
  <2>1. s \in SlotType /\ u = Kept(r, s)
    BY <1>1
  <2> HIDE DEF s, u
  <2>2. /\ u.seq = s.seq /\ u.claims = s.claims
        /\ u.inferDone = s.inferDone /\ u.rgbDone = s.rgbDone /\ u.encodeDone = s.encodeDone
        /\ u.raw = (IF RawDone(r, s) THEN NoBuf ELSE s.raw)
        /\ u.rgb = (IF RgbDone(r, s) THEN NoBuf ELSE s.rgb)
        /\ u.nv12 = (IF Nv12Done(r, s) THEN NoBuf ELSE s.nv12)
        /\ u.jpeg = (IF JpegDone(r, s) THEN NoBuf ELSE s.jpeg)
    BY <2>1, KeptFields
  <2>3. ~RawDone(t, u)
    BY <1>1, <2>2 DEF RawDone
  <2>4. ~RgbDone(t, u)
    BY <1>1, <2>2 DEF RgbDone
  <2>5. ~Nv12Done(t, u)
    BY <1>1, <2>2 DEF Nv12Done
  <2>6. ~JpegDone(t, u)
    BY <1>1, <2>2 DEF JpegDone
  <2> QED BY <2>3, <2>4, <2>5, <2>6 DEF s, u
<1> QED BY <1>2 DEF Settled, t

\* Then there is nothing left to release.
LEMMA SettledIsMaintained ==
  ASSUME NEW r \in RingType, Settled(r)
  PROVE  Maintain(r) = r
<1>1. \A i \in Slots : Kept(r, r.slots[i]) = r.slots[i]
  BY DEF Settled, Kept, RingType, SlotType
<1>2. Requeued(r) = {}
  BY DEF Settled, Requeued
<1>3. ASSUME NEW k \in Kinds
      PROVE  {r.slots[i][k] : i \in {j \in Slots : StageDone(r, r.slots[j], k)}} = {}
  BY DEF Settled, StageDone
<1>4. [i \in Slots |-> Kept(r, r.slots[i])] = r.slots
  BY <1>1 DEF RingType
<1>5. [k \in Kinds |-> r.pools[k] \cup
         {r.slots[i][k] : i \in {j \in Slots : StageDone(r, r.slots[j], k)}}] = r.pools
  BY <1>3 DEF RingType
<1> QED BY <1>2, <1>4, <1>5 DEF Maintain, RingType

-----------------------------------------------------------------------------
(***************************************************************************)
(* Frames move on.  All a function of the ring other than a publication and *)
(* the clearing does to a slot is to take buffers out of it that may go, to*)
(* put a picture in and to set flags.                                      *)
(***************************************************************************)

Advances(r, t) ==
  /\ t.produce = r.produce /\ r.display <= t.display
  /\ \A i \in Slots : LET s == r.slots[i]  u == t.slots[i] IN
       /\ u.seq = s.seq
       /\ u.raw \in {s.raw, NoBuf} /\ (s.seq = r.produce => u.raw = s.raw)
       /\ s.inferDone => u.inferDone
       /\ s.rgbDone => u.rgbDone
       /\ s.displayDone => u.displayDone
       /\ s.encodeDone => u.encodeDone
       /\ s.rgb # NoBuf /\ t.display < s.seq => u.rgb # NoBuf
       /\ s.nv12 # NoBuf /\ u.nv12 # s.nv12 => u.encodeDone \/ ~t.rec

\* A slot without a frame has nothing; what a slot has was put there.
Clean(r) ==
  \A i \in Slots : LET s == r.slots[i] IN
    /\ s.seq = 0 => Reusable(s)
    /\ s.rgb # NoBuf => s.rgbDone
    /\ s.nv12 # NoBuf => s.seq <= r.display

NewestRaw(r) ==
  \A i \in Slots : r.slots[i].seq = r.produce /\ r.produce # 0 => r.slots[i].raw # NoBuf

Tidy(r) == Settled(r) /\ Clean(r) /\ NewestRaw(r)

\* What a function does before it maintains the ring, and that.
LEMMA MaintainAdvances ==
  ASSUME NEW r \in RingType, NEW y \in RingType,
         Advances(r, y), Clean(y), NewestRaw(y)
  PROVE  Advances(r, Maintain(y)) /\ Tidy(Maintain(y))
<1> DEFINE t == Maintain(y)
<1>1. /\ t.produce = y.produce /\ t.display = y.display /\ t.rec = y.rec
      /\ \A i \in Slots : y.slots[i] \in SlotType /\ t.slots[i] = Kept(y, y.slots[i])
  BY MaintainFields
<1>2. Settled(t)
  BY MaintainSettles
<1> HIDE DEF t
<1>3. ASSUME NEW i \in Slots
      PROVE  LET s == y.slots[i]  u == t.slots[i] IN
             /\ u.seq = s.seq /\ u.claims = s.claims
             /\ u.inferDone = s.inferDone /\ u.rgbDone = s.rgbDone
             /\ u.displayDone = s.displayDone /\ u.encodeDone = s.encodeDone
             /\ u.raw = (IF RawDone(y, s) THEN NoBuf ELSE s.raw)
             /\ u.rgb = (IF RgbDone(y, s) THEN NoBuf ELSE s.rgb)
             /\ u.nv12 = (IF Nv12Done(y, s) THEN NoBuf ELSE s.nv12)
             /\ u.jpeg = (IF JpegDone(y, s) THEN NoBuf ELSE s.jpeg)
  BY <1>1, KeptFields
<1>4. ASSUME NEW i \in Slots
      PROVE  LET s == r.slots[i]  u == t.slots[i] IN
             /\ u.seq = s.seq
             /\ u.raw \in {s.raw, NoBuf} /\ (s.seq = r.produce => u.raw = s.raw)
             /\ s.inferDone => u.inferDone
             /\ s.rgbDone => u.rgbDone
             /\ s.displayDone => u.displayDone
             /\ s.encodeDone => u.encodeDone
             /\ s.rgb # NoBuf /\ t.display < s.seq => u.rgb # NoBuf
             /\ s.nv12 # NoBuf /\ u.nv12 # s.nv12 => u.encodeDone \/ ~t.rec
  <2> DEFINE s == r.slots[i]
             m == y.slots[i]
             u == t.slots[i]
  <2>1. /\ m.seq = s.seq
        /\ m.raw \in {s.raw, NoBuf} /\ (s.seq = r.produce => m.raw = s.raw)
        /\ s.inferDone => m.inferDone
        /\ s.rgbDone => m.rgbDone
        /\ s.displayDone => m.displayDone
        /\ s.encodeDone => m.encodeDone
        /\ s.rgb # NoBuf /\ y.display < s.seq => m.rgb # NoBuf
        /\ s.nv12 # NoBuf /\ m.nv12 # s.nv12 => m.encodeDone \/ ~y.rec
        /\ y.produce = r.produce
    BY DEF Advances
  <2>2. m.seq \in Nat /\ y.display \in Nat
    BY DEF RingType, SlotType
  <2> HIDE DEF s, m, u
  <2>3. /\ u.seq = m.seq
        /\ u.inferDone = m.inferDone /\ u.rgbDone = m.rgbDone
        /\ u.displayDone = m.displayDone /\ u.encodeDone = m.encodeDone
        /\ u.raw = (IF RawDone(y, m) THEN NoBuf ELSE m.raw)
        /\ u.rgb = (IF RgbDone(y, m) THEN NoBuf ELSE m.rgb)
        /\ u.nv12 = (IF Nv12Done(y, m) THEN NoBuf ELSE m.nv12)
    BY <1>3 DEF m, u
  <2>4. u.raw \in {s.raw, NoBuf} /\ (s.seq = r.produce => u.raw = s.raw)
    BY <2>1, <2>3 DEF RawDone
  <2>5. s.rgb # NoBuf /\ t.display < s.seq => u.rgb # NoBuf
    BY <1>1, <2>1, <2>2, <2>3 DEF RgbDone
  <2>6. s.nv12 # NoBuf /\ u.nv12 # s.nv12 => u.encodeDone \/ ~t.rec
    BY <1>1, <2>1, <2>3 DEF Nv12Done
  <2> QED BY <2>1, <2>3, <2>4, <2>5, <2>6 DEF s, u
<1>5. Advances(r, t)
  BY <1>1, <1>4 DEF Advances
<1>6. Clean(t)
  <2> SUFFICES ASSUME NEW i \in Slots
               PROVE  /\ t.slots[i].seq = 0 => Reusable(t.slots[i])
                      /\ t.slots[i].rgb # NoBuf => t.slots[i].rgbDone
                      /\ t.slots[i].nv12 # NoBuf => t.slots[i].seq <= t.display
    BY DEF Clean
  <2> QED BY <1>1, <1>3 DEF Clean, Reusable
<1>7. NewestRaw(t)
  <2> SUFFICES ASSUME NEW i \in Slots, t.slots[i].seq = t.produce, t.produce # 0
               PROVE  t.slots[i].raw # NoBuf
    BY DEF NewestRaw
  <2> QED BY <1>1, <1>3 DEF NewestRaw, RawDone
<1> QED BY <1>2, <1>5, <1>6, <1>7 DEF Tidy, t

\* What a function may do to the slots before it maintains the ring.
Touched(r, y) ==
  /\ y.produce = r.produce /\ r.display <= y.display
  /\ \A i \in Slots : LET s == r.slots[i]  u == y.slots[i] IN
       /\ u.seq = s.seq /\ u.raw = s.raw
       /\ s.inferDone => u.inferDone
       /\ s.rgbDone => u.rgbDone
       /\ s.displayDone => u.displayDone
       /\ s.encodeDone => u.encodeDone
       /\ u.rgb # s.rgb => u.rgb # NoBuf /\ u.rgbDone
       /\ u.nv12 # s.nv12 => /\ s.nv12 = NoBuf \/ u.encodeDone
                             /\ u.nv12 = NoBuf \/ s.seq <= y.display
       /\ s.seq = 0 => /\ u.rgb = s.rgb /\ u.nv12 = s.nv12 /\ u.jpeg = s.jpeg
                       /\ u.claims = s.claims

LEMMA TouchedAdvances ==
  ASSUME NEW r \in RingType, NEW y \in RingType, Tidy(r), Touched(r, y)
  PROVE  Advances(r, Maintain(y)) /\ Tidy(Maintain(y))
<1>1. r.display \in Nat /\ y.display \in Nat /\ r.produce \in Nat
      /\ \A i \in Slots : r.slots[i].seq \in Nat
  BY DEF RingType, SlotType
<1>2. Advances(r, y)
  BY DEF Advances, Touched
<1>3. Clean(y)
  <2> SUFFICES ASSUME NEW i \in Slots
               PROVE  /\ y.slots[i].seq = 0 => Reusable(y.slots[i])
                      /\ y.slots[i].rgb # NoBuf => y.slots[i].rgbDone
                      /\ y.slots[i].nv12 # NoBuf => y.slots[i].seq <= y.display
    BY DEF Clean
  <2>1. /\ r.slots[i].seq = 0 => Reusable(r.slots[i])
        /\ r.slots[i].rgb # NoBuf => r.slots[i].rgbDone
        /\ r.slots[i].nv12 # NoBuf => r.slots[i].seq <= r.display
    BY DEF Tidy, Clean
  <2>2. y.slots[i].seq = 0 => Reusable(y.slots[i])
    BY <2>1 DEF Touched, Reusable
  <2>3. y.slots[i].rgb # NoBuf => y.slots[i].rgbDone
    BY <2>1 DEF Touched
  <2>4. y.slots[i].nv12 # NoBuf => y.slots[i].seq <= y.display
    BY <1>1, <2>1 DEF Touched
  <2> QED BY <2>2, <2>3, <2>4
<1>4. NewestRaw(y)
  BY DEF NewestRaw, Tidy, Touched
<1> QED BY <1>2, <1>3, <1>4, MaintainAdvances

\* Rings that differ in their pools and in what the driver has.
Alike(r, t) ==
  /\ t.produce = r.produce /\ t.display = r.display /\ t.ai = r.ai /\ t.rec = r.rec
  /\ t.slots = r.slots

LEMMA AlikeTidy ==
  ASSUME NEW r, NEW t, Alike(r, t)
  PROVE  Tidy(r) <=> Tidy(t)
<1>1. Settled(r) <=> Settled(t)
  BY DEF Alike, Settled, RawDone, RgbDone, Nv12Done, JpegDone
<1>2. Clean(r) <=> Clean(t)
  BY DEF Alike, Clean
<1>3. NewestRaw(r) <=> NewestRaw(t)
  BY DEF Alike, NewestRaw
<1> QED BY <1>1, <1>2, <1>3 DEF Tidy

LEMMA AlikeAdvances ==
  ASSUME NEW r \in RingType, NEW x, NEW t, NEW u
  PROVE  /\ Alike(r, t) => Advances(r, t)
         /\ Alike(r, x) /\ Advances(x, t) /\ Alike(t, u) => Advances(r, u)
<1>1. r.display \in Nat
  BY DEF RingType
<1> QED BY <1>1 DEF Alike, Advances

LEMMA PoolAlike ==
  ASSUME NEW r \in RingType, NEW k \in Kinds, NEW b
  PROVE  Alike(r, Put(r, k, b)) /\ Alike(r, Take(r, k, b))
  BY DEF Alike, Put, Take, RingType

LEMMA WithSlotFields ==
  ASSUME NEW r \in RingType, NEW i \in Slots, NEW s \in SlotType
  PROVE  /\ WithSlot(r, i, s) \in RingType
         /\ WithSlot(r, i, s).produce = r.produce /\ WithSlot(r, i, s).display = r.display
         /\ WithSlot(r, i, s).ai = r.ai /\ WithSlot(r, i, s).rec = r.rec
         /\ WithSlot(r, i, s).pools = r.pools /\ WithSlot(r, i, s).queued = r.queued
         /\ WithSlot(r, i, s).slots[i] = s
         /\ \A j \in Slots : j # i => WithSlot(r, i, s).slots[j] = r.slots[j]
<1>1. WithSlot(r, i, s) \in RingType
  BY WithSlotType
<1>2. /\ WithSlot(r, i, s).produce = r.produce /\ WithSlot(r, i, s).display = r.display
      /\ WithSlot(r, i, s).ai = r.ai /\ WithSlot(r, i, s).rec = r.rec
  BY DEF WithSlot, RingType
<1>3. WithSlot(r, i, s).pools = r.pools /\ WithSlot(r, i, s).queued = r.queued
  BY DEF WithSlot, RingType
<1>4. /\ WithSlot(r, i, s).slots[i] = s
      /\ \A j \in Slots : j # i => WithSlot(r, i, s).slots[j] = r.slots[j]
  BY DEF WithSlot, RingType
<1> QED BY <1>1, <1>2, <1>3, <1>4

LEMMA UnclaimedFields ==
  ASSUME NEW s \in SlotType
  PROVE  /\ Unclaimed(s) \in SlotType /\ Unclaimed(s).inferDone
         /\ Unclaimed(s).claims = (IF s.claims > 0 THEN s.claims - 1 ELSE s.claims)
         /\ Unclaimed(s).seq = s.seq /\ Unclaimed(s).raw = s.raw
         /\ Unclaimed(s).rgb = s.rgb /\ Unclaimed(s).nv12 = s.nv12 /\ Unclaimed(s).jpeg = s.jpeg
         /\ Unclaimed(s).rgbDone = s.rgbDone /\ Unclaimed(s).displayDone = s.displayDone
         /\ Unclaimed(s).encodeDone = s.encodeDone
  BY UnclaimedType DEF Unclaimed, SlotType

LEMMA UnclaimAdvances ==
  ASSUME NEW r \in RingType, NEW i \in Slots, Tidy(r)
  PROVE  Advances(r, Unclaim(r, i)) /\ Tidy(Unclaim(r, i))
<1> DEFINE y == WithSlot(r, i, Unclaimed(r.slots[i]))
<1>1. \A j \in Slots : r.slots[j] \in SlotType /\ r.slots[j].claims \in Nat
  BY DEF RingType, SlotType
<1>2. /\ y \in RingType /\ y.produce = r.produce /\ y.display = r.display
      /\ y.slots[i] = Unclaimed(r.slots[i])
      /\ \A j \in Slots : j # i => y.slots[j] = r.slots[j]
  BY <1>1, UnclaimedFields, WithSlotFields
<1>3. r.slots[i].seq = 0 => r.slots[i].claims = 0
  BY DEF Tidy, Clean, Reusable
<1>4. r.display \in Nat
  BY DEF RingType
<1> HIDE DEF y
<1>5. Touched(r, y)
  BY <1>1, <1>2, <1>3, <1>4, UnclaimedFields DEF Touched
<1> QED BY <1>2, <1>5, TouchedAdvances DEF Unclaim, y

LEMMA DecodeFailedAdvances ==
  ASSUME NEW r \in RingType, NEW q \in Nat, NEW b \in Bufs \cup {NoBuf}, Tidy(r)
  PROVE  Advances(r, DecodeFailed(r, q, b)) /\ Tidy(DecodeFailed(r, q, b))
<1> DEFINE x == Put(r, "rgb", b)
<1>1. Index(q) \in Slots /\ x \in RingType /\ Alike(r, x)
  BY IndexType, PutType, PoolAlike DEF Kinds
<1>2. Tidy(x)
  BY <1>1, AlikeTidy
<1>3. Advances(x, Unclaim(x, Index(q))) /\ Tidy(Unclaim(x, Index(q)))
  BY <1>1, <1>2, UnclaimAdvances
<1>4. Alike(Unclaim(x, Index(q)), Unclaim(x, Index(q)))
  BY DEF Alike
<1> HIDE DEF x
<1>5. Advances(r, Unclaim(x, Index(q)))
  BY <1>1, <1>3, <1>4, AlikeAdvances
<1> QED BY <1>3, <1>5 DEF DecodeFailed, x

LEMMA AbandonAdvances ==
  ASSUME NEW r \in RingType, NEW q \in Nat, NEW b \in Bufs \cup {NoBuf}, Tidy(r)
  PROVE  Advances(r, Abandon(r, q, b)) /\ Tidy(Abandon(r, q, b))
<1> DEFINE x == IF OwnsSlot(r, q) THEN Unclaim(r, Index(q)) ELSE r
<1>1. Index(q) \in Slots /\ "rgb" \in Kinds
  BY IndexType DEF Kinds
<1>2. x \in RingType
  BY <1>1, UnclaimType
<1>3. Alike(r, r)
  BY DEF Alike
<1>4. Advances(r, x) /\ Tidy(x)
  BY <1>1, <1>3, UnclaimAdvances, AlikeAdvances
<1> HIDE DEF x
<1>5. Alike(x, Put(x, "rgb", b))
  BY <1>1, <1>2, PoolAlike
<1>6. Tidy(Put(x, "rgb", b)) /\ Advances(r, Put(x, "rgb", b))
  BY <1>3, <1>4, <1>5, AlikeTidy, AlikeAdvances
<1> QED BY <1>6 DEF Abandon, x

LEMMA WriteRgbAdvances ==
  ASSUME NEW r \in RingType, NEW q \in Nat, NEW b \in Bufs, Tidy(r)
  PROVE  Advances(r, WriteRgb(r, q, b)) /\ Tidy(WriteRgb(r, q, b))
<1> DEFINE i == Index(q)
           s == [r.slots[i] EXCEPT !.rgb = b, !.rgbDone = TRUE]
           x == WithSlot(r, i, s)
           y == WithSlot(x, i, Unclaimed(x.slots[i]))
<1>1. i \in Slots /\ r.slots[i] \in SlotType /\ SlotOf(r, q) = r.slots[i] /\ b # NoBuf
  BY IndexType, NoBufAssumption DEF SlotOf, RingType
<1>2. /\ s \in SlotType /\ s.seq = r.slots[i].seq /\ s.raw = r.slots[i].raw
      /\ s.rgb = b /\ s.rgbDone /\ s.nv12 = r.slots[i].nv12 /\ s.jpeg = r.slots[i].jpeg
      /\ s.claims = r.slots[i].claims /\ s.inferDone = r.slots[i].inferDone
      /\ s.displayDone = r.slots[i].displayDone /\ s.encodeDone = r.slots[i].encodeDone
  BY <1>1 DEF SlotType
<1> HIDE DEF i, s
<1>3. /\ x \in RingType /\ x.produce = r.produce /\ x.display = r.display
      /\ x.slots[i] = s /\ \A j \in Slots : j # i => x.slots[j] = r.slots[j]
  BY <1>1, <1>2, WithSlotFields
<1> HIDE DEF x
<1>4. /\ y \in RingType /\ y.produce = r.produce /\ y.display = r.display
      /\ y.slots[i] = Unclaimed(s) /\ \A j \in Slots : j # i => y.slots[j] = r.slots[j]
  BY <1>1, <1>2, <1>3, UnclaimedFields, WithSlotFields
<1> HIDE DEF y
<1>5. ASSUME OwnsSlot(r, q)
      PROVE  Advances(r, WriteRgb(r, q, b)) /\ Tidy(WriteRgb(r, q, b))
  <2>1. r.slots[i].claims > 0
    BY <1>1, <1>5 DEF OwnsSlot
  <2>2. r.slots[i].seq # 0
    BY <1>1, <2>1 DEF Tidy, Clean, Reusable
  <2>3. r.display \in Nat
    BY DEF RingType
  <2>4. Touched(r, y)
    BY <1>1, <1>2, <1>4, <2>2, <2>3, UnclaimedFields DEF Touched
  <2>5. WriteRgb(r, q, b) = Maintain(y)
    BY <1>1, <1>5 DEF WriteRgb, Unclaim, i, s, x, y
  <2> QED BY <1>4, <2>4, <2>5, TouchedAdvances
<1>6. ASSUME ~OwnsSlot(r, q)
      PROVE  Advances(r, WriteRgb(r, q, b)) /\ Tidy(WriteRgb(r, q, b))
  BY <1>6, PoolAlike, AlikeTidy, AlikeAdvances DEF WriteRgb, Kinds
<1> QED BY <1>5, <1>6

\* A claim touches nothing but the count, and a claimed buffer stays.
LEMMA ClaimAdvances ==
  ASSUME NEW r \in RingType, NEW q \in Nat, Tidy(r), Claimable(r, q)
  PROVE  Advances(r, Claim(r, q)) /\ Tidy(Claim(r, q))
<1> DEFINE i == Index(q)
           s == [r.slots[i] EXCEPT !.claims = @ + 1]
           t == WithSlot(r, i, s)
<1>1. i \in Slots /\ r.slots[i] \in SlotType /\ SlotOf(r, q) = r.slots[i] /\ r.display \in Nat
  BY IndexType DEF SlotOf, RingType
<1>2. r.slots[i].seq # 0 /\ r.slots[i].raw # NoBuf
  BY <1>1 DEF Claimable
<1>3. /\ s \in SlotType /\ s.seq = r.slots[i].seq /\ s.raw = r.slots[i].raw
      /\ s.rgb = r.slots[i].rgb /\ s.rgbDone = r.slots[i].rgbDone
      /\ s.nv12 = r.slots[i].nv12 /\ s.jpeg = r.slots[i].jpeg
      /\ s.claims # 0 /\ s.inferDone = r.slots[i].inferDone
      /\ s.displayDone = r.slots[i].displayDone /\ s.encodeDone = r.slots[i].encodeDone
  BY <1>1 DEF SlotType
<1> HIDE DEF i, s
<1>4. /\ t \in RingType /\ t.produce = r.produce /\ t.display = r.display
      /\ t.ai = r.ai /\ t.rec = r.rec
      /\ t.slots[i] = s /\ \A j \in Slots : j # i => t.slots[j] = r.slots[j]
  BY <1>1, <1>3, WithSlotFields
<1>5. Claim(r, q) = t
  BY <1>1 DEF Claim, i, s, t
<1> HIDE DEF t
<1>6. Advances(r, t)
  BY <1>1, <1>3, <1>4 DEF Advances
<1>7. Settled(t)
  <2> SUFFICES ASSUME NEW j \in Slots
               PROVE  /\ ~RawDone(t, t.slots[j]) /\ ~RgbDone(t, t.slots[j])
                      /\ ~Nv12Done(t, t.slots[j]) /\ ~JpegDone(t, t.slots[j])
    BY DEF Settled
  <2>1. /\ ~RawDone(r, r.slots[j]) /\ ~RgbDone(r, r.slots[j])
        /\ ~Nv12Done(r, r.slots[j]) /\ ~JpegDone(r, r.slots[j])
    BY DEF Tidy, Settled
  <2> QED BY <1>3, <1>4, <2>1 DEF RawDone, RgbDone, Nv12Done, JpegDone
<1>8. Clean(t)
  BY <1>2, <1>3, <1>4 DEF Tidy, Clean
<1>9. NewestRaw(t)
  BY <1>2, <1>3, <1>4 DEF Tidy, NewestRaw
<1> QED BY <1>5, <1>6, <1>7, <1>8, <1>9 DEF Tidy

\* A picture is drawn for a frame newer than the last one displayed.
LEMMA DisplayCommitAdvances ==
  ASSUME NEW r \in RingType, NEW i \in Slots, NEW s \in SlotType, Tidy(r),
         r.display < r.slots[i].seq,
         s.seq = r.slots[i].seq, s.raw = r.slots[i].raw,
         s.inferDone = r.slots[i].inferDone,
         s.rgb = r.slots[i].rgb, s.rgbDone = r.slots[i].rgbDone,
         s.displayDone = r.slots[i].displayDone, s.encodeDone = r.slots[i].encodeDone
  PROVE  /\ Advances(r, DisplayCommit(WithSlot(r, i, s), i))
         /\ Tidy(DisplayCommit(WithSlot(r, i, s), i))
<1> DEFINE x == WithSlot(r, i, s)
           u == [x.slots[i] EXCEPT !.displayDone = TRUE]
           w == WithSlot(x, i, u)
           y == [w EXCEPT !.display = x.slots[i].seq]
<1>1. /\ x \in RingType /\ x.produce = r.produce /\ x.display = r.display
      /\ x.slots[i] = s /\ \A j \in Slots : j # i => x.slots[j] = r.slots[j]
  BY WithSlotFields
<1> HIDE DEF x
<1>2. /\ u \in SlotType /\ u.seq = s.seq /\ u.raw = s.raw /\ u.inferDone = s.inferDone
      /\ u.rgb = s.rgb /\ u.rgbDone = s.rgbDone /\ u.displayDone /\ u.encodeDone = s.encodeDone
      /\ u.nv12 = s.nv12
  BY <1>1 DEF SlotType
<1> HIDE DEF u
<1>3. /\ w \in RingType /\ w.produce = r.produce
      /\ w.slots[i] = u /\ \A j \in Slots : j # i => w.slots[j] = r.slots[j]
  BY <1>1, <1>2, WithSlotFields
<1> HIDE DEF w
<1>4. x.slots[i].seq \in Nat /\ x.slots[i].seq = r.slots[i].seq /\ r.display \in Nat
  BY <1>1 DEF RingType, SlotType
<1>5. /\ y \in RingType /\ y.produce = r.produce /\ y.display = r.slots[i].seq
      /\ y.slots[i] = u /\ \A j \in Slots : j # i => y.slots[j] = r.slots[j]
  BY <1>3, <1>4 DEF RingType
<1> HIDE DEF y
<1>6. r.slots[i].nv12 = NoBuf /\ r.slots[i].seq # 0
  BY <1>4 DEF Tidy, Clean
<1>7. \A j \in Slots : r.slots[j].displayDone \in BOOLEAN
  BY DEF RingType, SlotType
<1>8. Touched(r, y)
  <2>1. y.produce = r.produce /\ r.display <= y.display
    BY <1>4, <1>5
  <2>2. ASSUME NEW j \in Slots, j # i
        PROVE  y.slots[j] = r.slots[j]
    BY <1>5, <2>2
  <2>3. y.slots[i].nv12 = NoBuf \/ r.slots[i].seq <= y.display
    BY <1>4, <1>5
  <2> QED BY <1>2, <1>5, <1>6, <2>1, <2>2, <2>3 DEF Touched
<1> QED BY <1>5, <1>8, TouchedAdvances DEF DisplayCommit, u, w, x, y

LEMMA RenderedAdvances ==
  ASSUME NEW r \in RingType, NEW q \in Nat, NEW ok \in BOOLEAN,
         NEW nb \in Bufs \cup {NoBuf}, NEW jb \in Bufs \cup {NoBuf},
         Tidy(r), Renderable(r, q) => r.display < q
  PROVE  Advances(r, Rendered(r, q, nb, jb, ok)) /\ Tidy(Rendered(r, q, nb, jb, ok))
<1> DEFINE i == Index(q)
           s == [SlotOf(r, q) EXCEPT !.nv12 = nb, !.jpeg = jb]
           r0 == Put(r, "nv12", nb)
           r1 == Put(r0, "jpeg", jb)
<1>1. i \in Slots /\ r.slots[i] \in SlotType /\ SlotOf(r, q) = r.slots[i]
  BY IndexType DEF SlotOf, RingType
<1>2. /\ s \in SlotType /\ s.seq = r.slots[i].seq /\ s.raw = r.slots[i].raw
      /\ s.inferDone = r.slots[i].inferDone
      /\ s.rgb = r.slots[i].rgb /\ s.rgbDone = r.slots[i].rgbDone
      /\ s.displayDone = r.slots[i].displayDone /\ s.encodeDone = r.slots[i].encodeDone
  BY <1>1 DEF SlotType
<1>3. r0 \in RingType /\ r1 \in RingType /\ Alike(r, r0) /\ Alike(r0, r1)
  BY PutType, PoolAlike DEF Kinds
<1>4. Alike(r, r1) /\ Alike(r1, r1) /\ Tidy(r1)
  <2>1. Alike(r, r1) /\ Alike(r1, r1)
    BY <1>3 DEF Alike
  <2> QED BY <2>1, AlikeTidy
<1>5. ASSUME Renderable(r, q)
      PROVE  r.display < r.slots[i].seq
  BY <1>1, <1>5 DEF Renderable
<1> HIDE DEF i, s, r0
<1>6. ASSUME Renderable(r, q)
      PROVE  /\ Advances(r, DisplayCommit(WithSlot(r, i, s), i))
             /\ Tidy(DisplayCommit(WithSlot(r, i, s), i))
  BY <1>1, <1>2, <1>5, <1>6, DisplayCommitAdvances
<1>7. ASSUME Renderable(r, q)
      PROVE  Advances(r, DisplayCommit(r1, i)) /\ Tidy(DisplayCommit(r1, i))
  <2> HIDE DEF r1
  <2>1. r1.slots = r.slots /\ r1.display = r.display
    BY <1>4 DEF Alike
  <2>2. WithSlot(r1, i, r1.slots[i]) = r1
    BY <1>3 DEF WithSlot, RingType
  <2>3. Advances(r1, DisplayCommit(r1, i)) /\ Tidy(DisplayCommit(r1, i))
    BY <1>1, <1>3, <1>4, <1>5, <1>7, <2>1, <2>2, DisplayCommitAdvances
  <2>4. Alike(DisplayCommit(r1, i), DisplayCommit(r1, i))
    BY DEF Alike
  <2> QED BY <1>4, <2>3, <2>4, AlikeAdvances
<1>8. Advances(r, r1) /\ Tidy(r1)
  BY <1>4, AlikeAdvances
<1> QED BY <1>6, <1>7, <1>8 DEF Rendered, i, s, r0

LEMMA MarkConsumedAdvances ==
  ASSUME NEW r \in RingType, NEW q \in Nat, Tidy(r)
  PROVE  Advances(r, MarkConsumed(r, q)) /\ Tidy(MarkConsumed(r, q))
<1> DEFINE m == [i \in Slots |-> IF r.slots[i].seq # 0 /\ r.slots[i].seq <= q
                                 THEN [r.slots[i] EXCEPT !.encodeDone = TRUE]
                                 ELSE r.slots[i]]
           y == [r EXCEPT !.slots = m]
<1>1. ASSUME NEW i \in Slots
      PROVE  /\ m[i] \in SlotType
             /\ m[i].seq = r.slots[i].seq /\ m[i].raw = r.slots[i].raw
             /\ m[i].claims = r.slots[i].claims /\ m[i].inferDone = r.slots[i].inferDone
             /\ m[i].rgb = r.slots[i].rgb /\ m[i].rgbDone = r.slots[i].rgbDone
             /\ m[i].nv12 = r.slots[i].nv12 /\ m[i].jpeg = r.slots[i].jpeg
             /\ m[i].displayDone = r.slots[i].displayDone
             /\ r.slots[i].encodeDone => m[i].encodeDone
  <2>1. r.slots[i] \in SlotType
    BY DEF RingType
  <2> QED BY <2>1 DEF SlotType
<1>2. m \in [Slots -> SlotType]
  BY <1>1
<1> HIDE DEF m
<1>3. /\ y \in RingType /\ y.produce = r.produce /\ y.display = r.display
      /\ y.slots = m /\ r.display \in Nat
  BY <1>2 DEF RingType
<1> HIDE DEF y
<1>4. Touched(r, y)
  BY <1>1, <1>3 DEF Touched
<1> QED BY <1>3, <1>4, TouchedAdvances DEF MarkConsumed, m, y

LEMMA StealAdvances ==
  ASSUME NEW r \in RingType, NEW i \in Slots, Tidy(r), r.slots[i].seq # 0
  PROVE  Advances(r, Steal(r, i)) /\ Tidy(Steal(r, i))
<1> DEFINE q == r.slots[i].seq
           s == [r.slots[i] EXCEPT !.nv12 = NoBuf]
           x == WithSlot(r, i, s)
           m == [j \in Slots |-> IF x.slots[j].seq # 0 /\ x.slots[j].seq <= q
                                 THEN [x.slots[j] EXCEPT !.encodeDone = TRUE]
                                 ELSE x.slots[j]]
           y == [x EXCEPT !.slots = m]
<1>1. r.slots[i] \in SlotType /\ q \in Nat /\ r.display \in Nat
  BY DEF RingType, SlotType
<1>2. /\ s \in SlotType /\ s.nv12 = NoBuf
      /\ s.seq = r.slots[i].seq /\ s.raw = r.slots[i].raw
      /\ s.claims = r.slots[i].claims /\ s.inferDone = r.slots[i].inferDone
      /\ s.rgb = r.slots[i].rgb /\ s.rgbDone = r.slots[i].rgbDone
      /\ s.jpeg = r.slots[i].jpeg /\ s.displayDone = r.slots[i].displayDone
      /\ s.encodeDone = r.slots[i].encodeDone
  BY <1>1 DEF SlotType
<1>q. q = r.slots[i].seq
  OBVIOUS
<1> HIDE DEF s, q
<1>3. /\ x \in RingType /\ x.produce = r.produce /\ x.display = r.display
      /\ x.slots[i] = s /\ \A j \in Slots : j # i => x.slots[j] = r.slots[j]
  BY <1>2, WithSlotFields
<1> HIDE DEF x
<1>4. ASSUME NEW j \in Slots
      PROVE  /\ m[j] \in SlotType
             /\ m[j].seq = x.slots[j].seq /\ m[j].raw = x.slots[j].raw
             /\ m[j].claims = x.slots[j].claims /\ m[j].inferDone = x.slots[j].inferDone
             /\ m[j].rgb = x.slots[j].rgb /\ m[j].rgbDone = x.slots[j].rgbDone
             /\ m[j].nv12 = x.slots[j].nv12 /\ m[j].jpeg = x.slots[j].jpeg
             /\ m[j].displayDone = x.slots[j].displayDone
             /\ x.slots[j].encodeDone => m[j].encodeDone
             /\ x.slots[j].seq # 0 /\ x.slots[j].seq <= q => m[j].encodeDone
  <2>1. x.slots[j] \in SlotType
    BY <1>3 DEF RingType
  <2> QED BY <2>1 DEF SlotType
<1>5. m \in [Slots -> SlotType]
  BY <1>4
<1> HIDE DEF m
<1>6. /\ y \in RingType /\ y.produce = r.produce /\ y.display = r.display
      /\ y.slots = m
  BY <1>3, <1>5 DEF RingType
<1> HIDE DEF y
<1>7. m[i].encodeDone
  BY <1>1, <1>2, <1>3, <1>4, <1>q
<1>8. Touched(r, y)
  BY <1>1, <1>2, <1>3, <1>4, <1>6, <1>7 DEF Touched
<1> QED BY <1>6, <1>8, TouchedAdvances DEF Steal, MarkConsumed, m, y, x, s, q

LEMMA ModeAdvances ==
  ASSUME NEW r \in RingType, NEW on \in BOOLEAN, Tidy(r)
  PROVE  /\ Advances(r, SetAi(r, on)) /\ Tidy(SetAi(r, on))
         /\ Advances(r, SetRec(r, on)) /\ Tidy(SetRec(r, on))
<1> DEFINE a == [r EXCEPT !.ai = on]
           c == [r EXCEPT !.rec = on]
<1>1. a \in RingType /\ c \in RingType /\ Touched(r, a) /\ Touched(r, c)
  BY DEF RingType, Touched
<1>2. Alike(r, r)
  BY DEF Alike
<1>3. Advances(r, r)
  BY <1>2, AlikeAdvances
<1> HIDE DEF a, c
<1>4. /\ Advances(r, Maintain(a)) /\ Tidy(Maintain(a))
      /\ Advances(r, Maintain(c)) /\ Tidy(Maintain(c))
  BY <1>1, TouchedAdvances
<1> QED BY <1>3, <1>4 DEF SetAi, SetRec, a, c

\* The new frame's slot had nothing, and no other slot is disturbed.
LEMMA PublishTidies ==
  ASSUME NEW r \in RingType, NEW v \in VBufs, NEW z \in Sizes, Tidy(r), Window(r),
         CanProduce(r)
  PROVE  /\ Tidy(Publish(r, v, z))
         /\ Publish(r, v, z).produce = r.produce + 1
         /\ Publish(r, v, z).display = r.display
         /\ \A i \in Slots : LET s == r.slots[i]  u == Publish(r, v, z).slots[i] IN
              \/ i = Index(r.produce + 1) /\ Reusable(s) /\ u.seq = r.produce + 1 /\ u.claims = 0
              \/ /\ u.seq = s.seq /\ u.raw \in {s.raw, NoBuf} /\ u.claims = s.claims
                 /\ u.inferDone = s.inferDone /\ u.rgb = s.rgb /\ u.rgbDone = s.rgbDone
                 /\ u.nv12 = s.nv12 /\ u.jpeg = s.jpeg
                 /\ u.displayDone = s.displayDone /\ u.encodeDone = s.encodeDone
                 /\ (s.claims > 0 => u.raw = s.raw)
<1> DEFINE q == r.produce + 1
           n == Index(q)
           s == [EmptySlot EXCEPT !.seq = q, !.raw = v, !.size = z]
           x == WithSlot(r, n, s)
           y == [x EXCEPT !.produce = q, !.queued = @ \ {v}]
           t == Maintain(y)
<1>1. q \in Nat /\ q = r.produce + 1 /\ q # 0 /\ n \in Slots /\ r.produce \in Nat /\ v # NoBuf
      /\ r.display \in Nat /\ \A i \in Slots : r.slots[i] \in SlotType /\ r.slots[i].seq \in Nat
  BY IndexType, NoBufAssumption DEF RingType, SlotType
<1>2. /\ s \in SlotType /\ s.seq = q /\ s.raw = v /\ s.claims = 0
      /\ s.rgb = NoBuf /\ s.nv12 = NoBuf /\ s.jpeg = NoBuf
  BY <1>1 DEF SlotType, EmptySlot
<1>3. Reusable(r.slots[n])
  BY DEF CanProduce, SlotOf
<1> HIDE DEF s, n
<1>4. /\ x \in RingType /\ x.display = r.display /\ x.ai = r.ai /\ x.rec = r.rec
      /\ x.slots[n] = s /\ \A j \in Slots : j # n => x.slots[j] = r.slots[j]
  BY <1>1, <1>2, WithSlotFields
<1> HIDE DEF x, q
<1>5. /\ y \in RingType /\ y.display = r.display /\ y.produce = q /\ y.ai = r.ai /\ y.rec = r.rec
      /\ y.slots = x.slots
  BY <1>1, <1>4 DEF RingType
<1> HIDE DEF y
<1>6. /\ t.produce = q /\ t.display = r.display
      /\ \A i \in Slots : y.slots[i] \in SlotType /\ t.slots[i] = Kept(y, y.slots[i])
  BY <1>5, MaintainFields
<1>7. ASSUME NEW i \in Slots, r.slots[i].seq # 0
      PROVE  r.slots[i].seq # q
  BY <1>1, <1>7 DEF Window
<1>8. Clean(y)
  BY <1>1, <1>2, <1>4, <1>5 DEF Clean, Tidy, Reusable
<1>9. NewestRaw(y)
  BY <1>1, <1>2, <1>4, <1>5, <1>7 DEF NewestRaw
<1>10. Tidy(t)
  <2>1. Alike(y, y)
    BY DEF Alike
  <2>2. Advances(y, y)
    BY <1>5, <2>1, AlikeAdvances
  <2> QED BY <1>5, <1>8, <1>9, <2>2, MaintainAdvances
<1> HIDE DEF t
<1>11. ASSUME NEW i \in Slots, i # n
       PROVE  LET w == r.slots[i]  u == t.slots[i] IN
              /\ u.seq = w.seq /\ u.raw \in {w.raw, NoBuf} /\ u.claims = w.claims
              /\ u.inferDone = w.inferDone /\ u.rgb = w.rgb /\ u.rgbDone = w.rgbDone
              /\ u.nv12 = w.nv12 /\ u.jpeg = w.jpeg
              /\ u.displayDone = w.displayDone /\ u.encodeDone = w.encodeDone
              /\ (w.claims > 0 => u.raw = w.raw)
  <2> DEFINE w == r.slots[i]
             u == t.slots[i]
  <2>1. w \in SlotType /\ u = Kept(y, w) /\ w.claims \in Nat
    BY <1>1, <1>4, <1>5, <1>6, <1>11 DEF SlotType
  <2>2. ~RgbDone(r, w) /\ ~Nv12Done(r, w) /\ ~JpegDone(r, w)
    BY DEF Tidy, Settled
  <2> HIDE DEF w, u
  <2>3. ~RgbDone(y, w) /\ ~Nv12Done(y, w) /\ ~JpegDone(y, w)
    BY <1>5, <2>2 DEF RgbDone, Nv12Done, JpegDone
  <2>4. RawDone(y, w) => w.claims = 0
    BY DEF RawDone
  <2>5. u.raw = (IF RawDone(y, w) THEN NoBuf ELSE w.raw)
    BY <1>5, <2>1, KeptFields
  <2>6. /\ u.seq = w.seq /\ u.claims = w.claims
        /\ u.inferDone = w.inferDone /\ u.rgb = w.rgb /\ u.rgbDone = w.rgbDone
        /\ u.nv12 = w.nv12 /\ u.jpeg = w.jpeg
        /\ u.displayDone = w.displayDone /\ u.encodeDone = w.encodeDone
    BY <1>5, <2>1, <2>3, KeptFields
  <2> QED BY <2>1, <2>4, <2>5, <2>6 DEF w, u
<1>12. t.slots[n].seq = q /\ t.slots[n].claims = 0
  BY <1>1, <1>2, <1>4, <1>5, <1>6, KeptFields
<1>13. t = Publish(r, v, z)
  BY DEF Publish, t, q, n, s, x, y
<1>14. n = Index(r.produce + 1)
  BY DEF n, q
<1>15. \A i \in Slots : LET w == r.slots[i]  u == t.slots[i] IN
              \/ i = Index(r.produce + 1) /\ Reusable(w) /\ u.seq = r.produce + 1 /\ u.claims = 0
              \/ /\ u.seq = w.seq /\ u.raw \in {w.raw, NoBuf} /\ u.claims = w.claims
                 /\ u.inferDone = w.inferDone /\ u.rgb = w.rgb /\ u.rgbDone = w.rgbDone
                 /\ u.nv12 = w.nv12 /\ u.jpeg = w.jpeg
                 /\ u.displayDone = w.displayDone /\ u.encodeDone = w.encodeDone
                 /\ (w.claims > 0 => u.raw = w.raw)
  <2> TAKE i \in Slots
  <2>1. CASE i = n
    BY <1>1, <1>3, <1>12, <1>14, <2>1
  <2>2. CASE i # n
    BY <1>11, <2>2
  <2> QED BY <2>1, <2>2
<1> QED BY <1>1, <1>6, <1>10, <1>13, <1>15

LEMMA ClearAllTidies ==
  ASSUME NEW r \in RingType
  PROVE  /\ ClearAll(r).produce = r.produce /\ ClearAll(r).display = r.display
         /\ \A i \in Slots : ClearAll(r).slots[i] = EmptySlot
         /\ Tidy(ClearAll(r))
<1>1. /\ ClearAll(r).produce = r.produce /\ ClearAll(r).display = r.display
      /\ \A i \in Slots : ClearAll(r).slots[i] = EmptySlot
  BY DEF ClearAll, RingType
<1>2. /\ EmptySlot.seq = 0 /\ EmptySlot.rgb = NoBuf /\ EmptySlot.nv12 = NoBuf
      /\ Reusable(EmptySlot)
  BY DEF EmptySlot, Reusable
<1>3. Settled(ClearAll(r))
  BY <1>1, <1>2 DEF Settled, RawDone, RgbDone, Nv12Done, JpegDone
<1>4. Clean(ClearAll(r)) /\ NewestRaw(ClearAll(r))
  BY <1>1, <1>2 DEF Clean, NewestRaw
<1> QED BY <1>1, <1>3, <1>4 DEF Tidy

LEMMA StreamAlike ==
  ASSUME NEW r \in RingType
  PROVE  /\ Alike(r, StreamOn(r)) /\ Alike(r, StreamOff(r))
         /\ Alike(r, [r EXCEPT !.quiescing = TRUE])
  BY DEF Alike, StreamOn, StreamOff, RingType

-----------------------------------------------------------------------------
(***************************************************************************)
(* Claims.  D: the slots on which a function drops one claim.              *)
(***************************************************************************)

Drops(r, t, D) ==
  \A i \in Slots : LET s == r.slots[i]  u == t.slots[i] IN
    /\ u.claims = IF i \in D /\ s.claims > 0 THEN s.claims - 1 ELSE s.claims
    /\ u.claims > 0 => u.raw = s.raw

LEMMA AlikeDrops ==
  ASSUME NEW r \in RingType, NEW t, Alike(r, t)
  PROVE  Drops(r, t, {})
  BY DEF Alike, Drops

LEMMA MaintainDrops ==
  ASSUME NEW r \in RingType, NEW y \in RingType, NEW D, Drops(r, y, D)
  PROVE  Drops(r, Maintain(y), D)
<1> DEFINE t == Maintain(y)
<1>1. \A i \in Slots : y.slots[i] \in SlotType /\ t.slots[i] = Kept(y, y.slots[i])
  BY MaintainFields
<1> HIDE DEF t
<1>2. ASSUME NEW i \in Slots
      PROVE  /\ t.slots[i].claims = y.slots[i].claims
             /\ t.slots[i].claims > 0 => t.slots[i].raw = y.slots[i].raw
  <2>1. y.slots[i].claims \in Nat
    BY <1>1 DEF SlotType
  <2>2. /\ t.slots[i].claims = y.slots[i].claims
        /\ t.slots[i].raw = (IF RawDone(y, y.slots[i]) THEN NoBuf ELSE y.slots[i].raw)
    BY <1>1, KeptFields
  <2> QED BY <2>1, <2>2 DEF RawDone
<1>3. \A i \in Slots : LET s == r.slots[i]  u == t.slots[i] IN
        /\ u.claims = IF i \in D /\ s.claims > 0 THEN s.claims - 1 ELSE s.claims
        /\ u.claims > 0 => u.raw = s.raw
  <2> TAKE i \in Slots
  <2> QED BY <1>2 DEF Drops
<1> QED BY <1>3 DEF Drops, t

LEMMA UnclaimDrops ==
  ASSUME NEW r \in RingType, NEW i \in Slots
  PROVE  Drops(r, Unclaim(r, i), {i})
<1> DEFINE y == WithSlot(r, i, Unclaimed(r.slots[i]))
<1>1. \A j \in Slots : r.slots[j] \in SlotType /\ r.slots[j].claims \in Nat
  BY DEF RingType, SlotType
<1>2. /\ y \in RingType /\ y.slots[i] = Unclaimed(r.slots[i])
      /\ \A j \in Slots : j # i => y.slots[j] = r.slots[j]
  BY <1>1, UnclaimedFields, WithSlotFields
<1> HIDE DEF y
<1>3. Drops(r, y, {i})
  BY <1>1, <1>2, UnclaimedFields DEF Drops
<1> QED BY <1>2, <1>3, MaintainDrops DEF Unclaim, y

\* What ends a job drops its claim, if it still has one.
LEMMA JobDrops ==
  ASSUME NEW r \in RingType, NEW q \in Nat, NEW b \in Bufs \cup {NoBuf}
  PROVE  /\ Drops(r, DecodeFailed(r, q, b), {Index(q)})
         /\ Drops(r, Abandon(r, q, b), IF OwnsSlot(r, q) THEN {Index(q)} ELSE {})
         /\ Drops(r, WriteRgb(r, q, b), IF OwnsSlot(r, q) THEN {Index(q)} ELSE {})
<1> DEFINE i == Index(q)
<1>1. i \in Slots /\ r.slots[i] \in SlotType /\ SlotOf(r, q) = r.slots[i] /\ "rgb" \in Kinds
  BY IndexType DEF SlotOf, RingType, Kinds
<1>2. Drops(r, DecodeFailed(r, q, b), {i})
  <2> DEFINE x == Put(r, "rgb", b)
  <2>1. x \in RingType /\ Alike(r, x)
    BY <1>1, PutType, PoolAlike
  <2>2. Drops(x, Unclaim(x, i), {i})
    BY <1>1, <2>1, UnclaimDrops
  <2> HIDE DEF x
  <2>3. Drops(r, Unclaim(x, i), {i})
    BY <2>1, <2>2 DEF Alike, Drops
  <2> QED BY <2>3 DEF DecodeFailed, x
<1>3. Drops(r, r, {})
  BY DEF Drops
<1>4. Drops(r, Abandon(r, q, b), IF OwnsSlot(r, q) THEN {i} ELSE {})
  <2> DEFINE x == IF OwnsSlot(r, q) THEN Unclaim(r, i) ELSE r
  <2>1. x \in RingType /\ Drops(r, x, IF OwnsSlot(r, q) THEN {i} ELSE {})
    BY <1>1, <1>3, UnclaimType, UnclaimDrops
  <2> HIDE DEF x
  <2>2. Put(x, "rgb", b).slots = x.slots
    BY <1>1, <2>1, PoolAlike DEF Alike
  <2>3. Drops(r, Put(x, "rgb", b), IF OwnsSlot(r, q) THEN {i} ELSE {})
    BY <2>1, <2>2 DEF Drops
  <2> QED BY <2>3 DEF Abandon, x
<1>5. Drops(r, WriteRgb(r, q, b), IF OwnsSlot(r, q) THEN {i} ELSE {})
  <2> DEFINE s == [r.slots[i] EXCEPT !.rgb = b, !.rgbDone = TRUE]
             x == WithSlot(r, i, s)
  <2>1. s \in SlotType /\ s.raw = r.slots[i].raw /\ s.claims = r.slots[i].claims
    BY <1>1 DEF SlotType
  <2> HIDE DEF s
  <2>2. /\ x \in RingType
        /\ x.slots[i] = s /\ \A j \in Slots : j # i => x.slots[j] = r.slots[j]
    BY <1>1, <2>1, WithSlotFields
  <2> HIDE DEF x
  <2>3. Drops(x, Unclaim(x, i), {i})
    BY <1>1, <2>2, UnclaimDrops
  <2>4. \A j \in Slots : x.slots[j].raw = r.slots[j].raw /\ x.slots[j].claims = r.slots[j].claims
    BY <2>1, <2>2
  <2>5. Drops(r, Unclaim(x, i), {i})
    BY <2>3, <2>4 DEF Drops
  <2>6. ASSUME OwnsSlot(r, q)
        PROVE  WriteRgb(r, q, b) = Unclaim(x, i)
    BY <1>1, <2>6 DEF WriteRgb, x, s
  <2>7. ASSUME ~OwnsSlot(r, q)
        PROVE  Drops(r, WriteRgb(r, q, b), {})
    BY <1>1, <2>7, PoolAlike, AlikeDrops DEF WriteRgb
  <2> QED BY <2>5, <2>6, <2>7
<1> QED BY <1>2, <1>4, <1>5

\* The composer and the recorder hold no claims.
LEMMA DisplayCommitDrops ==
  ASSUME NEW r \in RingType, NEW i \in Slots
  PROVE  Drops(r, DisplayCommit(r, i), {})
<1> DEFINE u == [r.slots[i] EXCEPT !.displayDone = TRUE]
           w == WithSlot(r, i, u)
           y == [w EXCEPT !.display = r.slots[i].seq]
<1>1. r.slots[i] \in SlotType /\ r.slots[i].seq \in Nat
  BY DEF RingType, SlotType
<1>2. u \in SlotType /\ u.raw = r.slots[i].raw /\ u.claims = r.slots[i].claims
  BY <1>1 DEF SlotType
<1> HIDE DEF u
<1>3. w \in RingType /\ w.slots[i] = u /\ \A j \in Slots : j # i => w.slots[j] = r.slots[j]
  BY <1>1, <1>2, WithSlotFields
<1> HIDE DEF w
<1>4. y \in RingType /\ y.slots = w.slots
  BY <1>1, <1>3 DEF RingType
<1> HIDE DEF y
<1>5. Drops(r, y, {})
  BY <1>2, <1>3, <1>4 DEF Drops
<1> QED BY <1>4, <1>5, MaintainDrops DEF DisplayCommit, u, w, y

LEMMA RenderedDrops ==
  ASSUME NEW r \in RingType, NEW q \in Nat, NEW ok \in BOOLEAN,
         NEW nb \in Bufs \cup {NoBuf}, NEW jb \in Bufs \cup {NoBuf}
  PROVE  Drops(r, Rendered(r, q, nb, jb, ok), {})
<1> DEFINE i == Index(q)
           s == [SlotOf(r, q) EXCEPT !.nv12 = nb, !.jpeg = jb]
           x == WithSlot(r, i, s)
           r0 == Put(r, "nv12", nb)
           r1 == Put(r0, "jpeg", jb)
<1>1. i \in Slots /\ r.slots[i] \in SlotType /\ SlotOf(r, q) = r.slots[i]
  BY IndexType DEF SlotOf, RingType
<1>2. s \in SlotType /\ s.raw = r.slots[i].raw /\ s.claims = r.slots[i].claims
  BY <1>1 DEF SlotType
<1> HIDE DEF s
<1>3. x \in RingType /\ x.slots[i] = s /\ \A j \in Slots : j # i => x.slots[j] = r.slots[j]
  BY <1>1, <1>2, WithSlotFields
<1>4. r0 \in RingType /\ r1 \in RingType /\ Alike(r, r0) /\ Alike(r0, r1)
  BY PutType, PoolAlike DEF Kinds
<1>5. Alike(r, r1)
  BY <1>4 DEF Alike
<1> HIDE DEF x, r0, r1
<1>6. Drops(r, DisplayCommit(x, i), {})
  <2>1. Drops(x, DisplayCommit(x, i), {})
    BY <1>1, <1>3, DisplayCommitDrops
  <2>2. \A j \in Slots : x.slots[j].raw = r.slots[j].raw /\ x.slots[j].claims = r.slots[j].claims
    BY <1>2, <1>3
  <2> QED BY <2>1, <2>2 DEF Drops
<1>7. Drops(r, DisplayCommit(r1, i), {})
  <2>1. Drops(r1, DisplayCommit(r1, i), {})
    BY <1>1, <1>4, DisplayCommitDrops
  <2> QED BY <1>5, <2>1 DEF Drops, Alike
<1>8. Drops(r, r1, {})
  BY <1>5, AlikeDrops
<1> QED BY <1>6, <1>7, <1>8 DEF Rendered, i, s, x, r0, r1

LEMMA MarkConsumedDrops ==
  ASSUME NEW r \in RingType, NEW q \in Nat
  PROVE  Drops(r, MarkConsumed(r, q), {})
<1> DEFINE m == [i \in Slots |-> IF r.slots[i].seq # 0 /\ r.slots[i].seq <= q
                                 THEN [r.slots[i] EXCEPT !.encodeDone = TRUE]
                                 ELSE r.slots[i]]
           y == [r EXCEPT !.slots = m]
<1>1. ASSUME NEW i \in Slots
      PROVE  m[i] \in SlotType /\ m[i].raw = r.slots[i].raw /\ m[i].claims = r.slots[i].claims
  <2>1. r.slots[i] \in SlotType
    BY DEF RingType
  <2> QED BY <2>1 DEF SlotType
<1>2. m \in [Slots -> SlotType]
  BY <1>1
<1> HIDE DEF m
<1>3. y \in RingType /\ y.slots = m
  BY <1>2 DEF RingType
<1> HIDE DEF y
<1>4. Drops(r, y, {})
  BY <1>1, <1>3 DEF Drops
<1> QED BY <1>3, <1>4, MaintainDrops DEF MarkConsumed, m, y

LEMMA StealDrops ==
  ASSUME NEW r \in RingType, NEW i \in Slots
  PROVE  Drops(r, Steal(r, i), {})
<1> DEFINE s == [r.slots[i] EXCEPT !.nv12 = NoBuf]
           x == WithSlot(r, i, s)
<1>1. r.slots[i] \in SlotType /\ r.slots[i].seq \in Nat
  BY DEF RingType, SlotType
<1>2. s \in SlotType /\ s.raw = r.slots[i].raw /\ s.claims = r.slots[i].claims
  BY <1>1 DEF SlotType
<1> HIDE DEF s
<1>3. x \in RingType /\ x.slots[i] = s /\ \A j \in Slots : j # i => x.slots[j] = r.slots[j]
  BY <1>1, <1>2, WithSlotFields
<1> HIDE DEF x
<1>4. Drops(x, MarkConsumed(x, r.slots[i].seq), {})
  BY <1>1, <1>3, MarkConsumedDrops
<1>5. \A j \in Slots : x.slots[j].raw = r.slots[j].raw /\ x.slots[j].claims = r.slots[j].claims
  BY <1>2, <1>3
<1> QED BY <1>4, <1>5 DEF Drops, Steal, s, x

LEMMA ModeDrops ==
  ASSUME NEW r \in RingType, NEW on \in BOOLEAN
  PROVE  Drops(r, SetAi(r, on), {}) /\ Drops(r, SetRec(r, on), {})
<1> DEFINE a == [r EXCEPT !.ai = on]
           c == [r EXCEPT !.rec = on]
<1>1. a \in RingType /\ c \in RingType /\ a.slots = r.slots /\ c.slots = r.slots
  BY DEF RingType
<1> HIDE DEF a, c
<1>2. Drops(r, r, {}) /\ Drops(r, a, {}) /\ Drops(r, c, {})
  BY <1>1 DEF Drops
<1>3. Drops(r, Maintain(a), {}) /\ Drops(r, Maintain(c), {})
  BY <1>1, <1>2, MaintainDrops
<1> QED BY <1>2, <1>3 DEF SetAi, SetRec, a, c

-----------------------------------------------------------------------------
(* The jobs in flight and the claims they hold *)

JobType == [seq : Nat, rgb : Bufs \cup {NoBuf}, decoded : BOOLEAN]

JobsOf(J, q) == {j \in J : j.seq = q}

Claimed(r, J) ==
  /\ IsFiniteSet(J)
  /\ \A j \in J : /\ j.seq # 0 /\ j.seq <= r.produce
                  /\ j.decoded => j.rgb # NoBuf
  /\ \A j, l \in J : /\ ~j.decoded /\ ~l.decoded => j = l
                     /\ j.rgb = l.rgb /\ j.rgb # NoBuf => j = l
  /\ \A j \in J : ~j.decoded /\ SlotOf(r, j.seq).seq # j.seq => NoClaims(r)
  /\ \A i \in Slots : LET s == r.slots[i] IN
       /\ s.claims = IF s.seq = 0 THEN 0 ELSE Cardinality(JobsOf(J, s.seq))
       /\ s.claims > 0 => s.raw # NoBuf

LEMMA JobsOfCard ==
  ASSUME NEW J, IsFiniteSet(J), NEW q
  PROVE  /\ IsFiniteSet(JobsOf(J, q)) /\ Cardinality(JobsOf(J, q)) \in Nat
         /\ \A j \in J : j.seq = q => Cardinality(JobsOf(J, q)) > 0
<1>1. JobsOf(J, q) \in SUBSET J
  BY DEF JobsOf
<1>2. IsFiniteSet(JobsOf(J, q)) /\ Cardinality(JobsOf(J, q)) \in Nat
  BY <1>1, FS_Subset, FS_CardinalityType
<1>3. ASSUME NEW j \in J, j.seq = q
      PROVE  Cardinality(JobsOf(J, q)) # 0
  BY <1>2, <1>3, FS_EmptySet DEF JobsOf
<1> QED BY <1>2, <1>3

\* Nothing that keeps the claims and the frames disturbs the jobs.
LEMMA ClaimedKept ==
  ASSUME NEW r \in RingType, NEW t \in RingType, NEW J \in SUBSET JobType,
         Claimed(r, J), Drops(r, t, {}), t.produce = r.produce,
         \A i \in Slots : t.slots[i].seq = r.slots[i].seq
  PROVE  Claimed(t, J)
<1>1. \A j \in J : Index(j.seq) \in Slots
  BY IndexType DEF JobType
<1>2. \A i \in Slots : t.slots[i].claims = r.slots[i].claims
  BY DEF Drops
<1>3. \A i \in Slots : t.slots[i].claims > 0 => t.slots[i].raw = r.slots[i].raw
  BY DEF Drops
<1>4. \A j \in J : ~j.decoded /\ SlotOf(t, j.seq).seq # j.seq => NoClaims(t)
  BY <1>1, <1>2 DEF Claimed, SlotOf, NoClaims
<1> QED BY <1>2, <1>3, <1>4 DEF Claimed

\* The end of a job takes its claim with it, and no other.
LEMMA ClaimedEnd ==
  ASSUME NEW r \in RingType, NEW t \in RingType, NEW J \in SUBSET JobType,
         NEW j \in J, NEW D, Window(r),
         Claimed(r, J), Drops(r, t, D), t.produce = r.produce,
         \A i \in Slots : t.slots[i].seq = r.slots[i].seq,
         \/ D = IF OwnsSlot(r, j.seq) THEN {Index(j.seq)} ELSE {}
         \/ D = {Index(j.seq)} /\ ~j.decoded
  PROVE  Claimed(t, J \ {j})
<1> DEFINE K == J \ {j}
<1>1. \A l \in J : Index(l.seq) \in Slots /\ l.seq \in Nat
  BY IndexType DEF JobType
<1>2. IsFiniteSet(J) /\ IsFiniteSet(K)
  BY FS_RemoveElement DEF Claimed
<1>3. \A i \in Slots : r.slots[i].seq \in Nat /\ r.slots[i].claims \in Nat
  BY DEF RingType, SlotType
<1>4. ASSUME NoClaims(r)
      PROVE  NoClaims(t)
  BY <1>4 DEF NoClaims, Drops
<1>5. ASSUME NEW i \in Slots, r.slots[i].seq = 0
      PROVE  t.slots[i].claims = 0
  BY <1>5 DEF Drops, Claimed
<1>6. ASSUME NEW i \in Slots, r.slots[i].seq # 0
      PROVE  t.slots[i].claims = Cardinality(JobsOf(K, r.slots[i].seq))
  <2> DEFINE q == r.slots[i].seq
  <2>1. r.slots[i].claims = Cardinality(JobsOf(J, q)) /\ Index(q) = i
    BY <1>6 DEF Claimed, Window
  <2>2. /\ IsFiniteSet(JobsOf(J, q)) /\ Cardinality(JobsOf(J, q)) \in Nat
        /\ j.seq = q => Cardinality(JobsOf(J, q)) > 0
    BY <1>2, JobsOfCard
  <2>q. q = r.slots[i].seq
    OBVIOUS
  <2> HIDE DEF q
  <2>3. CASE j.seq = q
    <3>1. OwnsSlot(r, j.seq) /\ D = {i}
      BY <2>1, <2>2, <2>3, <2>q DEF OwnsSlot, SlotOf
    <3>2. t.slots[i].claims = r.slots[i].claims - 1
      BY <2>1, <2>2, <2>3, <3>1 DEF Drops
    <3>3. JobsOf(K, q) = JobsOf(J, q) \ {j} /\ j \in JobsOf(J, q)
      BY <2>3 DEF JobsOf
    <3>4. Cardinality(JobsOf(J, q) \ {j}) = Cardinality(JobsOf(J, q)) - 1
      <4>1. Cardinality(JobsOf(J, q) \ {j}) =
              IF j \in JobsOf(J, q) THEN Cardinality(JobsOf(J, q)) - 1
                                    ELSE Cardinality(JobsOf(J, q))
        BY <2>2, FS_RemoveElement
      <4> QED BY <3>3, <4>1
    <3> QED BY <2>1, <2>q, <3>2, <3>3, <3>4
  <2>4. CASE j.seq # q
    <3>1. JobsOf(K, q) = JobsOf(J, q)
      BY <2>4 DEF JobsOf
    <3>2. i \in D => r.slots[i].claims = 0
      <4>1. SUFFICES ASSUME i \in D
                     PROVE  r.slots[i].claims = 0
        OBVIOUS
      <4>2. Index(j.seq) = i
        BY <4>1
      <4>3. SlotOf(r, j.seq).seq # j.seq
        BY <2>4, <2>q, <4>2 DEF SlotOf
      <4>4. ~j.decoded
        BY <4>1, <4>3 DEF OwnsSlot
      <4> QED BY <4>3, <4>4 DEF Claimed, NoClaims
    <3>3. t.slots[i].claims = r.slots[i].claims
      BY <3>2, <1>3 DEF Drops
    <3> QED BY <2>1, <2>q, <3>1, <3>3
  <2> QED BY <2>3, <2>4
<1>7. \A i \in Slots : t.slots[i].claims > 0 => t.slots[i].raw # NoBuf
  <2> TAKE i \in Slots
  <2>1. t.slots[i].claims > 0 => t.slots[i].raw = r.slots[i].raw /\ r.slots[i].claims > 0
    BY <1>3 DEF Drops
  <2> QED BY <2>1 DEF Claimed
<1>8. \A l \in K : ~l.decoded /\ SlotOf(t, l.seq).seq # l.seq => NoClaims(t)
  BY <1>1, <1>4 DEF Claimed, SlotOf
<1>9. \A l \in K : /\ l.seq # 0 /\ l.seq <= t.produce
                   /\ l.decoded => l.rgb # NoBuf
  BY DEF Claimed
<1>10. \A k, l \in K : /\ ~k.decoded /\ ~l.decoded => k = l
                       /\ k.rgb = l.rgb /\ k.rgb # NoBuf => k = l
  BY DEF Claimed
<1> HIDE DEF K
<1>11. Claimed(t, K)
  BY <1>2, <1>5, <1>6, <1>7, <1>8, <1>9, <1>10 DEF Claimed
<1> QED BY <1>11 DEF K

\* The decoder finishes a frame: the same job, now queued.
LEMMA ClaimedDecode ==
  ASSUME NEW r \in RingType, NEW J \in SUBSET JobType, NEW j \in J,
         Claimed(r, J), ~j.decoded, j.rgb # NoBuf
  PROVE  Claimed(r, (J \ {j}) \cup {[j EXCEPT !.decoded = TRUE]})
<1> DEFINE d == [j EXCEPT !.decoded = TRUE]
           M == J \ {j}
           K == M \cup {d}
<1>1. d \in JobType /\ d.seq = j.seq /\ d.rgb = j.rgb /\ d.decoded
  BY DEF JobType
<1>2. d \notin J
  BY <1>1 DEF Claimed
<1> HIDE DEF d
<1>3. IsFiniteSet(J) /\ IsFiniteSet(M) /\ IsFiniteSet(K)
  <2>1. IsFiniteSet(J)
    BY DEF Claimed
  <2>2. IsFiniteSet(M)
    BY <2>1, FS_RemoveElement
  <2> QED BY <2>1, <2>2, FS_AddElement
<1>4. ASSUME NEW q
      PROVE  Cardinality(JobsOf(K, q)) = Cardinality(JobsOf(J, q))
  <2>1. CASE j.seq = q
    <3>1. JobsOf(M, q) = JobsOf(J, q) \ {j} /\ j \in JobsOf(J, q)
      BY <2>1 DEF JobsOf
    <3>2. JobsOf(K, q) = JobsOf(M, q) \cup {d} /\ d \notin JobsOf(M, q)
      BY <1>1, <1>2, <2>1 DEF JobsOf
    <3>3. /\ IsFiniteSet(JobsOf(J, q)) /\ IsFiniteSet(JobsOf(M, q))
          /\ Cardinality(JobsOf(J, q)) \in Nat
      BY <1>3, JobsOfCard
    <3>4. Cardinality(JobsOf(M, q)) = Cardinality(JobsOf(J, q)) - 1
      <4>1. Cardinality(JobsOf(J, q) \ {j}) =
              IF j \in JobsOf(J, q) THEN Cardinality(JobsOf(J, q)) - 1
                                    ELSE Cardinality(JobsOf(J, q))
        BY <3>3, FS_RemoveElement
      <4> QED BY <3>1, <4>1
    <3>5. Cardinality(JobsOf(K, q)) = Cardinality(JobsOf(M, q)) + 1
      BY <3>2, <3>3, FS_AddElement
    <3> QED BY <3>3, <3>4, <3>5
  <2>2. CASE j.seq # q
    <3>1. JobsOf(K, q) = JobsOf(J, q)
      BY <1>1, <2>2 DEF JobsOf
    <3> QED BY <3>1
  <2> QED BY <2>1, <2>2
<1>5. \A l \in K : /\ l.seq # 0 /\ l.seq <= r.produce
                   /\ l.decoded => l.rgb # NoBuf
  BY <1>1 DEF Claimed
<1>6. \A k, l \in K : ~k.decoded /\ ~l.decoded => k = l
  BY <1>1 DEF Claimed
<1>7. \A k, l \in K : k.rgb = l.rgb /\ k.rgb # NoBuf => k = l
  BY <1>1 DEF Claimed
<1>8. \A l \in K : ~l.decoded /\ SlotOf(r, l.seq).seq # l.seq => NoClaims(r)
  BY <1>1 DEF Claimed
<1> HIDE DEF K
<1>9. Claimed(r, K)
  BY <1>3, <1>4, <1>5, <1>6, <1>7, <1>8 DEF Claimed
<1> QED BY <1>9 DEF K, d

\* A claim is taken for a frame in its slot, with a buffer of its own.
LEMMA ClaimedClaim ==
  ASSUME NEW r \in RingType, NEW J \in SUBSET JobType, NEW q \in Nat, NEW b,
         Window(r), Claimed(r, J), Claimable(r, q), \A j \in J : j.decoded,
         b # NoBuf => \A j \in J : j.rgb # b
  PROVE  Claimed(Claim(r, q), J \cup {[seq |-> q, rgb |-> b, decoded |-> FALSE]})
<1> DEFINE d == [seq |-> q, rgb |-> b, decoded |-> FALSE]
           K == J \cup {d}
           i == Index(q)
           s == [r.slots[i] EXCEPT !.claims = @ + 1]
           t == WithSlot(r, i, s)
<1>1. /\ i \in Slots /\ i = Index(q) /\ r.slots[i] \in SlotType /\ SlotOf(r, q) = r.slots[i]
      /\ r.slots[i].claims \in Nat
  BY IndexType DEF SlotOf, RingType, SlotType
<1>2. /\ s \in SlotType /\ s.seq = r.slots[i].seq /\ s.raw = r.slots[i].raw
      /\ s.claims = r.slots[i].claims + 1
  BY <1>1 DEF SlotType
<1>3. r.slots[i].seq = q /\ q # 0 /\ q <= r.produce /\ r.slots[i].raw # NoBuf
  BY <1>1 DEF Claimable
<1>4. t = Claim(r, q)
  BY <1>1 DEF Claim
<1>5. d \notin J /\ d.seq = q /\ d.rgb = b /\ ~d.decoded
  OBVIOUS
<1> HIDE DEF d, i, s
<1>6. /\ t \in RingType /\ t.produce = r.produce
      /\ t.slots[i] = s /\ \A j \in Slots : j # i => t.slots[j] = r.slots[j]
  BY <1>1, <1>2, WithSlotFields
<1> HIDE DEF t
<1>7. IsFiniteSet(J) /\ IsFiniteSet(K)
  BY FS_AddElement DEF Claimed
<1>8. ASSUME NEW j \in Slots, r.slots[j].seq # 0
      PROVE  t.slots[j].claims = Cardinality(JobsOf(K, r.slots[j].seq))
  <2>1. r.slots[j].claims = Cardinality(JobsOf(J, r.slots[j].seq))
    BY <1>8 DEF Claimed
  <2>2. CASE j = i
    <3>1. JobsOf(K, q) = JobsOf(J, q) \cup {d} /\ d \notin JobsOf(J, q)
      BY <1>5 DEF JobsOf
    <3>2. IsFiniteSet(JobsOf(J, q))
      BY <1>7, JobsOfCard
    <3>3. Cardinality(JobsOf(K, q)) = Cardinality(JobsOf(J, q)) + 1
      BY <3>1, <3>2, FS_AddElement
    <3> QED BY <1>2, <1>3, <1>6, <2>1, <2>2, <3>3
  <2>3. CASE j # i
    <3>1. r.slots[j].seq # q
      BY <1>1, <1>8, <2>3 DEF Window
    <3>2. JobsOf(K, r.slots[j].seq) = JobsOf(J, r.slots[j].seq)
      BY <1>5, <3>1 DEF JobsOf
    <3> QED BY <1>6, <2>1, <2>3, <3>2
  <2> QED BY <2>2, <2>3
<1>9. \A j \in Slots : /\ t.slots[j].seq = r.slots[j].seq
                       /\ r.slots[j].seq = 0 => t.slots[j].claims = 0
                       /\ t.slots[j].claims > 0 => t.slots[j].raw # NoBuf
  BY <1>2, <1>3, <1>6 DEF Claimed
<1>10. \A l \in K : /\ l.seq # 0 /\ l.seq <= t.produce
                    /\ l.decoded => l.rgb # NoBuf
  BY <1>3, <1>5, <1>6 DEF Claimed
<1>11. \A k, l \in K : ~k.decoded /\ ~l.decoded => k = l
  BY <1>5 DEF Claimed
<1>12. \A k, l \in K : k.rgb = l.rgb /\ k.rgb # NoBuf => k = l
  BY <1>5 DEF Claimed
<1>13. \A l \in K : ~l.decoded => SlotOf(t, l.seq).seq = l.seq
  BY <1>1, <1>2, <1>3, <1>5, <1>6 DEF SlotOf
<1> HIDE DEF K
<1>14. Claimed(t, K)
  BY <1>7, <1>8, <1>9, <1>10, <1>11, <1>12, <1>13 DEF Claimed
<1> QED BY <1>4, <1>14 DEF K, d

\* A slot that a job still needs is not given to a new frame.
LEMMA ClaimedPublish ==
  ASSUME NEW r \in RingType, NEW J \in SUBSET JobType, NEW v \in VBufs, NEW z \in Sizes,
         Tidy(r), Window(r), CanProduce(r), Claimed(r, J)
  PROVE  Claimed(Publish(r, v, z), J)
<1> DEFINE t == Publish(r, v, z)
           q == r.produce + 1
<1>1. /\ t.produce = q /\ q \in Nat /\ q = r.produce + 1 /\ r.produce \in Nat
      /\ \A i \in Slots : LET s == r.slots[i]  u == t.slots[i] IN
              \/ i = Index(q) /\ Reusable(s) /\ u.seq = q /\ u.claims = 0
              \/ /\ u.seq = s.seq /\ u.claims = s.claims /\ (s.claims > 0 => u.raw = s.raw)
  BY PublishTidies DEF RingType
<1> HIDE DEF t, q
<1>2. \A j \in J : Index(j.seq) \in Slots /\ j.seq \in Nat /\ j.seq # 0 /\ j.seq <= r.produce
  BY IndexType DEF JobType, Claimed
<1>3. IsFiniteSet(J)
  BY DEF Claimed
<1>4. JobsOf(J, q) = {} /\ Cardinality({}) = 0 /\ q # 0
  BY <1>1, <1>2, FS_EmptySet DEF JobsOf
<1>5. \A i \in Slots : LET s == t.slots[i] IN
        /\ s.claims = IF s.seq = 0 THEN 0 ELSE Cardinality(JobsOf(J, s.seq))
        /\ s.claims > 0 => s.raw # NoBuf
  <2> TAKE i \in Slots
  <2>1. CASE t.slots[i].seq = q /\ t.slots[i].claims = 0
    BY <1>4, <2>1
  <2>2. CASE /\ t.slots[i].seq = r.slots[i].seq /\ t.slots[i].claims = r.slots[i].claims
             /\ (r.slots[i].claims > 0 => t.slots[i].raw = r.slots[i].raw)
    BY <2>2 DEF Claimed
  <2> QED BY <1>1, <2>1, <2>2
<1>6. NoClaims(r) => NoClaims(t)
  BY <1>1 DEF NoClaims
<1>7. ASSUME NEW j \in J, ~j.decoded, SlotOf(t, j.seq).seq # j.seq
      PROVE  NoClaims(t)
  <2> DEFINE i == Index(j.seq)
  <2>1. i \in Slots /\ SlotOf(r, j.seq) = r.slots[i] /\ SlotOf(t, j.seq) = t.slots[i]
    BY <1>2 DEF SlotOf
  <2> HIDE DEF i
  <2>2. CASE r.slots[i].seq = j.seq
    <3>1. r.slots[i].claims > 0
      BY <1>2, <1>3, <2>1, <2>2, JobsOfCard DEF Claimed
    <3>2. ~Reusable(r.slots[i])
      BY <3>1 DEF Reusable
    <3> QED BY <1>1, <1>7, <2>1, <2>2, <3>2
  <2>3. CASE r.slots[i].seq # j.seq
    BY <1>6, <1>7, <2>1, <2>3 DEF Claimed
  <2> QED BY <2>2, <2>3
<1>8. \A j \in J : j.seq <= t.produce
  BY <1>1, <1>2
<1> QED BY <1>5, <1>7, <1>8 DEF Claimed, t

\* A restart that gives up waiting leaves jobs whose frame is gone.
LEMMA ClaimedClear ==
  ASSUME NEW r \in RingType, NEW J \in SUBSET JobType, Claimed(r, J)
  PROVE  Claimed(ClearAll(r), J)
<1>1. /\ ClearAll(r).produce = r.produce
      /\ \A i \in Slots : ClearAll(r).slots[i].seq = 0 /\ ClearAll(r).slots[i].claims = 0
  BY ClearAllTidies DEF EmptySlot
<1>2. NoClaims(ClearAll(r))
  BY <1>1 DEF NoClaims
<1> QED BY <1>1, <1>2 DEF Claimed

-----------------------------------------------------------------------------
(***************************************************************************)
(* Owners of the stage buffers: pool, slot, or H, the buffers of kind k    *)
(* that the ring's callers hold.                                           *)
(***************************************************************************)

Excl(r, k, H) ==
  /\ H \cap r.pools[k] = {}
  /\ \A i \in Slots : r.slots[i][k] \notin r.pools[k] \cup H
  /\ \A i, j \in Slots : r.slots[i][k] = r.slots[j][k] /\ r.slots[i][k] # NoBuf => i = j

\* Only what the slots and the pools have of kind k matters.
LEMMA ExclSame ==
  ASSUME NEW r \in RingType, NEW t \in RingType, NEW k \in Kinds, NEW H,
         Excl(r, k, H), t.pools[k] = r.pools[k],
         \A i \in Slots : t.slots[i][k] = r.slots[i][k]
  PROVE  Excl(t, k, H)
  BY DEF Excl

LEMMA SlotBuffer ==
  ASSUME NEW r \in RingType, NEW k \in Kinds
  PROVE  /\ r.pools[k] \in SUBSET Bufs
         /\ \A i \in Slots : r.slots[i][k] \in Bufs \cup {NoBuf}
<1>1. \A s \in SlotType : s[k] \in Bufs \cup {NoBuf}
  BY DEF SlotType, Kinds
<1> QED BY <1>1 DEF RingType

LEMMA ExclMaintain ==
  ASSUME NEW r \in RingType, NEW k \in Kinds, NEW H \in SUBSET Bufs, Excl(r, k, H)
  PROVE  Excl(Maintain(r), k, H)
<1> DEFINE t == Maintain(r)
           G == {j \in Slots : StageDone(r, r.slots[j], k)}
<1>1. /\ \A i \in Slots : r.slots[i] \in SlotType /\ t.slots[i] = Kept(r, r.slots[i])
      /\ t.pools[k] = r.pools[k] \cup {r.slots[i][k] : i \in G}
  BY MaintainFields
<1>2. NoBuf \notin Bufs /\ H \subseteq Bufs /\ \A i \in Slots : r.slots[i][k] \in Bufs \cup {NoBuf}
  BY SlotBuffer, NoBufAssumption
<1>3. ASSUME NEW i \in Slots
      PROVE  /\ t.slots[i][k] = (IF i \in G THEN NoBuf ELSE r.slots[i][k])
             /\ i \in G => r.slots[i][k] # NoBuf
  <2> DEFINE s == r.slots[i]
             u == t.slots[i]
  <2>1. /\ u.rgb = (IF RgbDone(r, s) THEN NoBuf ELSE s.rgb)
        /\ u.nv12 = (IF Nv12Done(r, s) THEN NoBuf ELSE s.nv12)
        /\ u.jpeg = (IF JpegDone(r, s) THEN NoBuf ELSE s.jpeg)
    BY <1>1, KeptFields
  <2>2. i \in G <=> StageDone(r, s, k)
    OBVIOUS
  <2> HIDE DEF s, u, G
  <2>3. /\ u[k] = (IF i \in G THEN NoBuf ELSE s[k])
        /\ i \in G => s[k] # NoBuf
    <3>1. CASE k = "rgb"
      BY <2>1, <2>2, <3>1 DEF StageDone, RgbDone
    <3>2. CASE k = "nv12"
      BY <2>1, <2>2, <3>2 DEF StageDone, Nv12Done
    <3>3. CASE k = "jpeg"
      BY <2>1, <2>2, <3>3 DEF StageDone, JpegDone
    <3> QED BY <3>1, <3>2, <3>3 DEF Kinds
  <2> QED BY <2>3 DEF s, u
<1> HIDE DEF t, G
<1>4. H \cap t.pools[k] = {}
  BY <1>1 DEF Excl, G
<1>5. ASSUME NEW i \in Slots
      PROVE  t.slots[i][k] \notin t.pools[k] \cup H
  <2>1. CASE i \in G
    <3>1. r.pools[k] \subseteq Bufs
      BY SlotBuffer
    <3>2. t.slots[i][k] = NoBuf
      BY <1>3, <2>1
    <3>3. \A j \in G : j \in Slots /\ r.slots[j][k] # NoBuf
      BY <1>3 DEF G
    <3>4. NoBuf \notin t.pools[k]
      BY <1>1, <1>2, <3>1, <3>3
    <3> QED BY <1>2, <3>2, <3>4
  <2>2. CASE i \notin G
    <3>1. t.slots[i][k] = r.slots[i][k]
      BY <1>3, <2>2
    <3>2. \A j \in G : r.slots[j][k] # r.slots[i][k]
      <4> TAKE j \in G
      <4>1. j \in Slots /\ j # i /\ r.slots[j][k] # NoBuf
        BY <1>3, <2>2 DEF G
      <4> QED BY <4>1 DEF Excl
    <3> QED BY <1>1, <3>1, <3>2 DEF Excl
  <2> QED BY <2>1, <2>2
<1>6. \A i, j \in Slots : t.slots[i][k] = t.slots[j][k] /\ t.slots[i][k] # NoBuf => i = j
  BY <1>3 DEF Excl
<1> QED BY <1>4, <1>5, <1>6 DEF Excl, t

LEMMA ExclPut ==
  ASSUME NEW r \in RingType, NEW l \in Kinds, NEW b \in Bufs \cup {NoBuf},
         NEW k \in Kinds, NEW H \in SUBSET Bufs, Excl(r, k, H),
         k = l /\ b # NoBuf => b \in H
  PROVE  Excl(Put(r, l, b), k, IF k = l THEN H \ {b} ELSE H)
<1>1. /\ Put(r, l, b).slots = r.slots
      /\ Put(r, l, b).pools[k] = IF k = l THEN r.pools[k] \cup ({b} \ {NoBuf}) ELSE r.pools[k]
  BY DEF Put, RingType
<1> HIDE DEF Put
<1> QED BY <1>1, NoBufAssumption DEF Excl

LEMMA ExclTake ==
  ASSUME NEW r \in RingType, NEW l \in Kinds, NEW b,
         NEW k \in Kinds, NEW H \in SUBSET Bufs, Excl(r, k, H),
         k = l /\ b # NoBuf => \A i \in Slots : r.slots[i][k] # b
  PROVE  Excl(Take(r, l, b), k, IF k = l THEN H \cup ({b} \ {NoBuf}) ELSE H)
<1>1. /\ Take(r, l, b).slots = r.slots
      /\ Take(r, l, b).pools[k] = IF k = l THEN r.pools[k] \ {b} ELSE r.pools[k]
  BY DEF Take, RingType
<1> QED BY <1>1 DEF Excl

LEMMA ExclUnclaim ==
  ASSUME NEW r \in RingType, NEW i \in Slots,
         NEW k \in Kinds, NEW H \in SUBSET Bufs, Excl(r, k, H)
  PROVE  Excl(Unclaim(r, i), k, H)
<1> DEFINE y == WithSlot(r, i, Unclaimed(r.slots[i]))
<1>1. r.slots[i] \in SlotType
  BY DEF RingType
<1>2. /\ Unclaimed(r.slots[i]) \in SlotType
      /\ Unclaimed(r.slots[i]).rgb = r.slots[i].rgb
      /\ Unclaimed(r.slots[i]).nv12 = r.slots[i].nv12
      /\ Unclaimed(r.slots[i]).jpeg = r.slots[i].jpeg
  BY <1>1, UnclaimedFields
<1>3. Unclaimed(r.slots[i])[k] = r.slots[i][k]
  BY <1>2 DEF Kinds
<1>4. /\ y \in RingType /\ y.pools = r.pools /\ y.slots[i] = Unclaimed(r.slots[i])
      /\ \A j \in Slots : j # i => y.slots[j] = r.slots[j]
  BY <1>2, WithSlotFields
<1> HIDE DEF y
<1>5. \A j \in Slots : y.slots[j][k] = r.slots[j][k]
  BY <1>3, <1>4
<1>6. Excl(y, k, H)
  BY <1>4, <1>5, ExclSame
<1> QED BY <1>4, <1>6, ExclMaintain DEF Unclaim, y

\* A job's buffer ends in its slot or in the pool.
LEMMA ExclJob ==
  ASSUME NEW r \in RingType, NEW q \in Nat, NEW b \in Bufs \cup {NoBuf},
         NEW k \in Kinds, NEW H \in SUBSET Bufs, Excl(r, k, H),
         k = "rgb" /\ b # NoBuf => b \in H
  PROVE  LET G == IF k = "rgb" THEN H \ {b} ELSE H IN
         /\ Excl(DecodeFailed(r, q, b), k, G)
         /\ Excl(Abandon(r, q, b), k, G)
         /\ Excl(WriteRgb(r, q, b), k, G)
<1> DEFINE G == IF k = "rgb" THEN H \ {b} ELSE H
           i == Index(q)
<1>1. /\ i \in Slots /\ r.slots[i] \in SlotType /\ SlotOf(r, q) = r.slots[i] /\ "rgb" \in Kinds
      /\ G \in SUBSET Bufs
  BY IndexType DEF SlotOf, RingType, Kinds
<1>2. Excl(DecodeFailed(r, q, b), k, G)
  <2>1. Put(r, "rgb", b) \in RingType /\ Excl(Put(r, "rgb", b), k, G)
    BY <1>1, PutType, ExclPut
  <2> HIDE DEF G, i
  <2> QED BY <1>1, <2>1, ExclUnclaim DEF DecodeFailed, i
<1>3. Excl(Abandon(r, q, b), k, G)
  <2> DEFINE x == IF OwnsSlot(r, q) THEN Unclaim(r, i) ELSE r
  <2>1. x \in RingType /\ Excl(x, k, H)
    BY <1>1, UnclaimType, ExclUnclaim
  <2> HIDE DEF x
  <2>2. Excl(Put(x, "rgb", b), k, G)
    BY <1>1, <2>1, ExclPut
  <2> QED BY <2>2 DEF Abandon, x
<1>4. Excl(WriteRgb(r, q, b), k, G)
  <2> DEFINE s == [r.slots[i] EXCEPT !.rgb = b, !.rgbDone = TRUE]
             x == WithSlot(r, i, s)
  <2>1. s \in SlotType /\ s.rgb = b /\ s.nv12 = r.slots[i].nv12 /\ s.jpeg = r.slots[i].jpeg
    BY <1>1 DEF SlotType
  <2> HIDE DEF s
  <2>2. s[k] = IF k = "rgb" THEN b ELSE r.slots[i][k]
    BY <2>1 DEF Kinds
  <2>3. /\ x \in RingType /\ x.pools = r.pools
        /\ x.slots[i] = s /\ \A j \in Slots : j # i => x.slots[j] = r.slots[j]
    BY <1>1, <2>1, WithSlotFields
  <2> HIDE DEF x
  <2>4. Excl(x, k, G)
    <3>1. CASE k # "rgb"
      <4>1. \A j \in Slots : x.slots[j][k] = r.slots[j][k]
        BY <2>2, <2>3, <3>1
      <4> QED BY <2>3, <3>1, <4>1, ExclSame
    <3>2. CASE k = "rgb"
      <4>1. NoBuf \notin Bufs /\ r.pools[k] \subseteq Bufs
        BY SlotBuffer, NoBufAssumption
      <4>2. b \notin r.pools[k] /\ b \notin G
        BY <3>2, <4>1 DEF Excl
      <4>3. \A j \in Slots : x.slots[j][k] = IF j = i THEN b ELSE r.slots[j][k]
        BY <2>2, <2>3, <3>2
      <4>4. \A j \in Slots : r.slots[j][k] \notin r.pools[k] \cup H
        BY DEF Excl
      <4>5. b # NoBuf => b \in H
        BY <3>2
      <4> QED BY <2>3, <3>2, <4>2, <4>3, <4>4, <4>5 DEF Excl
    <3> QED BY <3>1, <3>2
  <2>5. Excl(Unclaim(x, i), k, G)
    <3> HIDE DEF G, i
    <3> QED BY <1>1, <2>3, <2>4, ExclUnclaim
  <2>6. ASSUME OwnsSlot(r, q)
        PROVE  WriteRgb(r, q, b) = Unclaim(x, i)
    BY <1>1, <2>6 DEF WriteRgb, x, s
  <2>7. Excl(Put(r, "rgb", b), k, G)
    BY <1>1, ExclPut
  <2> QED BY <2>5, <2>6, <2>7 DEF WriteRgb
<1> QED BY <1>2, <1>3, <1>4

LEMMA ExclDisplayCommit ==
  ASSUME NEW r \in RingType, NEW i \in Slots,
         NEW k \in Kinds, NEW H \in SUBSET Bufs, Excl(r, k, H)
  PROVE  Excl(DisplayCommit(r, i), k, H)
<1> DEFINE u == [r.slots[i] EXCEPT !.displayDone = TRUE]
           w == WithSlot(r, i, u)
           y == [w EXCEPT !.display = r.slots[i].seq]
<1>1. r.slots[i] \in SlotType /\ r.slots[i].seq \in Nat
  BY DEF RingType, SlotType
<1>2. /\ u \in SlotType /\ u.rgb = r.slots[i].rgb
      /\ u.nv12 = r.slots[i].nv12 /\ u.jpeg = r.slots[i].jpeg
  BY <1>1 DEF SlotType
<1> HIDE DEF u
<1>3. u[k] = r.slots[i][k]
  BY <1>2 DEF Kinds
<1>4. /\ w \in RingType /\ w.pools = r.pools
      /\ w.slots[i] = u /\ \A j \in Slots : j # i => w.slots[j] = r.slots[j]
  BY <1>1, <1>2, WithSlotFields
<1> HIDE DEF w
<1>5. y \in RingType /\ y.slots = w.slots /\ y.pools = r.pools
  BY <1>1, <1>4 DEF RingType
<1> HIDE DEF y
<1>6. \A j \in Slots : y.slots[j][k] = r.slots[j][k]
  BY <1>3, <1>4, <1>5
<1>7. Excl(y, k, H)
  BY <1>5, <1>6, ExclSame
<1> QED BY <1>5, <1>7, ExclMaintain DEF DisplayCommit, u, w, y

\* What the composer drew on ends in the slot or in the pools.
LEMMA ExclRendered ==
  ASSUME NEW r \in RingType, NEW q \in Nat, NEW ok \in BOOLEAN,
         NEW nb \in Bufs \cup {NoBuf}, NEW jb \in Bufs \cup {NoBuf},
         NEW k \in Kinds, NEW H \in SUBSET Bufs, Excl(r, k, H),
         k = "nv12" /\ nb # NoBuf => nb \in H,
         k = "jpeg" /\ jb # NoBuf => jb \in H
  PROVE  Excl(Rendered(r, q, nb, jb, ok), k,
              IF k = "nv12" THEN H \ {nb} ELSE IF k = "jpeg" THEN H \ {jb} ELSE H)
<1> DEFINE G == IF k = "nv12" THEN H \ {nb} ELSE IF k = "jpeg" THEN H \ {jb} ELSE H
           i == Index(q)
           s == [SlotOf(r, q) EXCEPT !.nv12 = nb, !.jpeg = jb]
           x == WithSlot(r, i, s)
           r0 == Put(r, "nv12", nb)
           r1 == Put(r0, "jpeg", jb)
<1>1. i \in Slots /\ r.slots[i] \in SlotType /\ SlotOf(r, q) = r.slots[i] /\ G \in SUBSET Bufs
  BY IndexType DEF SlotOf, RingType
<1>2. s \in SlotType /\ s.rgb = r.slots[i].rgb /\ s.nv12 = nb /\ s.jpeg = jb
  BY <1>1 DEF SlotType
<1> HIDE DEF s
<1>3. s[k] = IF k = "nv12" THEN nb ELSE IF k = "jpeg" THEN jb ELSE r.slots[i][k]
  BY <1>2 DEF Kinds
<1>4. /\ x \in RingType /\ x.pools = r.pools
      /\ x.slots[i] = s /\ \A j \in Slots : j # i => x.slots[j] = r.slots[j]
  BY <1>1, <1>2, WithSlotFields
<1> HIDE DEF x
<1>5. Excl(x, k, G)
  <2>1. CASE k = "rgb"
    <3>1. \A j \in Slots : x.slots[j][k] = r.slots[j][k]
      BY <1>3, <1>4, <2>1
    <3> QED BY <1>4, <2>1, <3>1, ExclSame
  <2>2. CASE k # "rgb"
    <3> DEFINE b == IF k = "nv12" THEN nb ELSE jb
    <3>1. NoBuf \notin Bufs /\ r.pools[k] \subseteq Bufs
      BY SlotBuffer, NoBufAssumption
    <3>2. G = H \ {b} /\ s[k] = b /\ (b # NoBuf => b \in H)
      BY <1>3, <2>2 DEF Kinds
    <3> HIDE DEF b, G
    <3>3. b \notin r.pools[k] /\ b \notin G
      BY <3>1, <3>2 DEF Excl
    <3>4. \A j \in Slots : x.slots[j][k] = IF j = i THEN b ELSE r.slots[j][k]
      BY <1>4, <3>2
    <3>5. \A j \in Slots : r.slots[j][k] \notin r.pools[k] \cup H
      BY DEF Excl
    <3> QED BY <1>4, <3>2, <3>3, <3>4, <3>5 DEF Excl
  <2> QED BY <2>1, <2>2
<1>6. r0 \in RingType /\ r1 \in RingType /\ Excl(r1, k, G)
  <2> DEFINE H0 == IF k = "nv12" THEN H \ {nb} ELSE H
  <2>1. r0 \in RingType /\ Excl(r0, k, H0) /\ H0 \in SUBSET Bufs
    BY PutType, ExclPut DEF Kinds
  <2>2. (k = "jpeg" /\ jb # NoBuf => jb \in H0) /\ G = IF k = "jpeg" THEN H0 \ {jb} ELSE H0
    OBVIOUS
  <2> HIDE DEF r0, H0, G
  <2>3. r1 \in RingType /\ Excl(r1, k, IF k = "jpeg" THEN H0 \ {jb} ELSE H0)
    BY <2>1, <2>2, PutType, ExclPut DEF Kinds
  <2> QED BY <2>1, <2>2, <2>3
<1> HIDE DEF G, r0, r1
<1>7. Excl(DisplayCommit(x, i), k, G) /\ Excl(DisplayCommit(r1, i), k, G)
  BY <1>1, <1>4, <1>5, <1>6, ExclDisplayCommit
<1> QED BY <1>6, <1>7 DEF Rendered, G, i, s, x, r0, r1

LEMMA ExclMarkConsumed ==
  ASSUME NEW r \in RingType, NEW q \in Nat,
         NEW k \in Kinds, NEW H \in SUBSET Bufs, Excl(r, k, H)
  PROVE  Excl(MarkConsumed(r, q), k, H)
<1> DEFINE m == [i \in Slots |-> IF r.slots[i].seq # 0 /\ r.slots[i].seq <= q
                                 THEN [r.slots[i] EXCEPT !.encodeDone = TRUE]
                                 ELSE r.slots[i]]
           y == [r EXCEPT !.slots = m]
<1>1. ASSUME NEW i \in Slots
      PROVE  /\ m[i] \in SlotType /\ m[i].rgb = r.slots[i].rgb
             /\ m[i].nv12 = r.slots[i].nv12 /\ m[i].jpeg = r.slots[i].jpeg
  <2>1. r.slots[i] \in SlotType
    BY DEF RingType
  <2> QED BY <2>1 DEF SlotType
<1>2. m \in [Slots -> SlotType]
  BY <1>1
<1> HIDE DEF m
<1>3. y \in RingType /\ y.slots = m /\ y.pools = r.pools
  BY <1>2 DEF RingType
<1> HIDE DEF y
<1>4. \A i \in Slots : y.slots[i][k] = r.slots[i][k]
  BY <1>1, <1>3 DEF Kinds
<1>5. Excl(y, k, H)
  BY <1>3, <1>4, ExclSame
<1> QED BY <1>3, <1>5, ExclMaintain DEF MarkConsumed, m, y

\* What the recorder takes out of a slot is in no pool and in no other slot.
LEMMA ExclSteal ==
  ASSUME NEW r \in RingType, NEW i \in Slots,
         NEW k \in Kinds, NEW H \in SUBSET Bufs, Excl(r, k, H),
         r.slots[i].nv12 # NoBuf
  PROVE  Excl(Steal(r, i), k, IF k = "nv12" THEN H \cup {r.slots[i].nv12} ELSE H)
<1> DEFINE G == IF k = "nv12" THEN H \cup {r.slots[i].nv12} ELSE H
           s == [r.slots[i] EXCEPT !.nv12 = NoBuf]
           x == WithSlot(r, i, s)
<1>1. /\ r.slots[i] \in SlotType /\ r.slots[i].seq \in Nat
      /\ r.slots[i].nv12 \in Bufs /\ G \in SUBSET Bufs
  BY DEF RingType, SlotType
<1>2. /\ s \in SlotType /\ s.rgb = r.slots[i].rgb /\ s.nv12 = NoBuf /\ s.jpeg = r.slots[i].jpeg
  BY <1>1 DEF SlotType
<1> HIDE DEF s
<1>3. s[k] = IF k = "nv12" THEN NoBuf ELSE r.slots[i][k]
  BY <1>2 DEF Kinds
<1>4. /\ x \in RingType /\ x.pools = r.pools
      /\ x.slots[i] = s /\ \A j \in Slots : j # i => x.slots[j] = r.slots[j]
  BY <1>1, <1>2, WithSlotFields
<1> HIDE DEF x
<1>5. Excl(x, k, G)
  <2>1. CASE k # "nv12"
    <3>1. \A j \in Slots : x.slots[j][k] = r.slots[j][k]
      BY <1>3, <1>4, <2>1
    <3> QED BY <1>4, <2>1, <3>1, ExclSame
  <2>2. CASE k = "nv12"
    <3> DEFINE b == r.slots[i][k]
    <3>1. NoBuf \notin Bufs /\ r.pools[k] \subseteq Bufs
      BY SlotBuffer, NoBufAssumption
    <3>2. G = H \cup {b} /\ b # NoBuf /\ s[k] = NoBuf
      BY <1>3, <2>2
    <3>3. b \notin r.pools[k] /\ \A j \in Slots : j # i => r.slots[j][k] # b
      BY <3>2 DEF Excl
    <3>4. \A j \in Slots : x.slots[j][k] = IF j = i THEN NoBuf ELSE r.slots[j][k]
      BY <1>4, <3>2
    <3>5. \A j \in Slots : r.slots[j][k] \notin r.pools[k] \cup H
      BY DEF Excl
    <3>6. NoBuf \notin r.pools[k] \cup G
      BY <1>1, <3>1
    <3> HIDE DEF b, G
    <3> QED BY <1>4, <3>2, <3>3, <3>4, <3>5, <3>6 DEF Excl
  <2> QED BY <2>1, <2>2
<1> HIDE DEF G
<1>6. Excl(MarkConsumed(x, r.slots[i].seq), k, G)
  BY <1>1, <1>4, <1>5, ExclMarkConsumed
<1> QED BY <1>6 DEF Steal, G, s, x

LEMMA ExclMode ==
  ASSUME NEW r \in RingType, NEW on \in BOOLEAN,
         NEW k \in Kinds, NEW H \in SUBSET Bufs, Excl(r, k, H)
  PROVE  Excl(SetAi(r, on), k, H) /\ Excl(SetRec(r, on), k, H)
<1> DEFINE a == [r EXCEPT !.ai = on]
           c == [r EXCEPT !.rec = on]
<1>1. /\ a \in RingType /\ a.slots = r.slots /\ a.pools = r.pools
      /\ c \in RingType /\ c.slots = r.slots /\ c.pools = r.pools
  BY DEF RingType
<1> HIDE DEF a, c
<1>2. Excl(a, k, H) /\ Excl(c, k, H)
  BY <1>1, ExclSame
<1>3. Excl(Maintain(a), k, H) /\ Excl(Maintain(c), k, H)
  BY <1>1, <1>2, ExclMaintain
<1> QED BY <1>3 DEF SetAi, SetRec, a, c

LEMMA ExclPublish ==
  ASSUME NEW r \in RingType, NEW v \in VBufs, NEW z \in Sizes, CanProduce(r),
         NEW k \in Kinds, NEW H \in SUBSET Bufs, Excl(r, k, H)
  PROVE  Excl(Publish(r, v, z), k, H)
<1> DEFINE q == r.produce + 1
           n == Index(q)
           s == [EmptySlot EXCEPT !.seq = q, !.raw = v, !.size = z]
           x == WithSlot(r, n, s)
           y == [x EXCEPT !.produce = q, !.queued = @ \ {v}]
<1>1. q \in Nat /\ n \in Slots /\ r.slots[n] \in SlotType
  BY IndexType DEF RingType
<1>2. s \in SlotType /\ s.rgb = NoBuf /\ s.nv12 = NoBuf /\ s.jpeg = NoBuf
  BY <1>1 DEF SlotType, EmptySlot
<1>3. r.slots[n].rgb = NoBuf /\ r.slots[n].nv12 = NoBuf /\ r.slots[n].jpeg = NoBuf
  BY DEF CanProduce, SlotOf, Reusable
<1>4. s[k] = r.slots[n][k]
  BY <1>2, <1>3 DEF Kinds
<1> HIDE DEF s, n
<1>5. /\ x \in RingType /\ x.pools = r.pools
      /\ x.slots[n] = s /\ \A j \in Slots : j # n => x.slots[j] = r.slots[j]
  BY <1>1, <1>2, WithSlotFields
<1> HIDE DEF x, q
<1>6. y \in RingType /\ y.slots = x.slots /\ y.pools = r.pools
  BY <1>1, <1>5 DEF RingType
<1> HIDE DEF y
<1>7. \A j \in Slots : y.slots[j][k] = r.slots[j][k]
  BY <1>4, <1>5, <1>6
<1>8. Excl(y, k, H)
  BY <1>6, <1>7, ExclSame
<1> QED BY <1>6, <1>8, ExclMaintain DEF Publish, q, n, s, x, y

LEMMA ExclClear ==
  ASSUME NEW r \in RingType, NEW k \in Kinds, NEW H \in SUBSET Bufs, Excl(r, k, H)
  PROVE  Excl(ClearAll(r), k, H)
<1>1. ClearAll(r).pools[k] = r.pools[k] \cup ({r.slots[i][k] : i \in Slots} \ {NoBuf})
  BY DEF ClearAll, RingType
<1>2. \A i \in Slots : ClearAll(r).slots[i] = EmptySlot
  BY ClearAllTidies
<1>3. EmptySlot[k] = NoBuf
  BY DEF EmptySlot, Kinds
<1>4. NoBuf \notin Bufs /\ r.pools[k] \subseteq Bufs
  BY SlotBuffer, NoBufAssumption
<1> QED BY <1>1, <1>2, <1>3, <1>4 DEF Excl

-----------------------------------------------------------------------------
(***************************************************************************)
(* The whole invariant of the ring and its callers.                        *)
(***************************************************************************)

\* The composer draws on a frame newer than the last one it displayed.
Drawn(r, d) ==
  d # Idle => /\ r.display < d.seq /\ d.seq <= r.produce
              /\ SlotOf(r, d.seq).seq = d.seq => Renderable(r, d.seq)

\* No buffer a caller holds has another owner.
HeldInv ==
  /\ \A k \in Kinds : Excl(ring, k, Held(k))
  /\ drawing.nv12 = stolen => stolen = NoBuf

FullInv == RingInv /\ Tidy(ring) /\ Claimed(ring, jobs) /\ HeldInv /\ Drawn(ring, drawing)

\* Only the end of a rendering changes what is displayed.
LEMMA DisplayKept ==
  ASSUME NEW r \in RingType, NEW q \in Nat, NEW b \in Bufs \cup {NoBuf},
         NEW i \in Slots, NEW on \in BOOLEAN
  PROVE  /\ DecodeFailed(r, q, b).display = r.display
         /\ Abandon(r, q, b).display = r.display
         /\ WriteRgb(r, q, b).display = r.display
         /\ MarkConsumed(r, q).display = r.display
         /\ Steal(r, i).display = r.display
         /\ SetAi(r, on).display = r.display /\ SetRec(r, on).display = r.display
<1>1. ASSUME NEW x \in RingType, NEW j \in Slots
      PROVE  Unclaim(x, j).display = x.display
  <2>0. Unclaimed(x.slots[j]) \in SlotType
    BY UnclaimedType DEF RingType
  <2>1. /\ WithSlot(x, j, Unclaimed(x.slots[j])) \in RingType
        /\ WithSlot(x, j, Unclaimed(x.slots[j])).display = x.display
    BY <2>0, WithSlotFields
  <2> QED BY <2>1, MaintainFields DEF Unclaim
<1>2. ASSUME NEW x \in RingType, NEW p \in Nat
      PROVE  MarkConsumed(x, p).display = x.display
  <2> DEFINE m == [j \in Slots |-> IF x.slots[j].seq # 0 /\ x.slots[j].seq <= p
                                   THEN [x.slots[j] EXCEPT !.encodeDone = TRUE]
                                   ELSE x.slots[j]]
  <2>1. m \in [Slots -> SlotType]
    <3>1. ASSUME NEW j \in Slots
          PROVE  m[j] \in SlotType
      <4>1. x.slots[j] \in SlotType
        BY DEF RingType
      <4> QED BY <4>1 DEF SlotType
    <3> QED BY <3>1
  <2> HIDE DEF m
  <2>2. [x EXCEPT !.slots = m] \in RingType /\ [x EXCEPT !.slots = m].display = x.display
    BY <2>1 DEF RingType
  <2> QED BY <2>2, MaintainFields DEF MarkConsumed, m
<1>3. Index(q) \in Slots /\ SlotOf(r, q) = r.slots[Index(q)] /\ "rgb" \in Kinds
  BY IndexType DEF SlotOf, Kinds
<1>4. Put(r, "rgb", b) \in RingType /\ \A x \in RingType : Put(x, "rgb", b).display = x.display
  BY <1>3, PutType, PoolAlike DEF Alike
<1>5. DecodeFailed(r, q, b).display = r.display
  BY <1>1, <1>3, <1>4 DEF DecodeFailed
<1>6. Abandon(r, q, b).display = r.display
  BY <1>1, <1>3, <1>4, UnclaimType DEF Abandon
<1>7. WriteRgb(r, q, b).display = r.display
  <2> DEFINE s == [SlotOf(r, q) EXCEPT !.rgb = b, !.rgbDone = TRUE]
  <2>1. r.slots[Index(q)] \in SlotType
    BY <1>3 DEF RingType
  <2>2. s \in SlotType
    BY <1>3, <2>1 DEF SlotType
  <2> HIDE DEF s
  <2>3. /\ WithSlot(r, Index(q), s) \in RingType
        /\ WithSlot(r, Index(q), s).display = r.display
    BY <1>3, <2>2, WithSlotFields
  <2> QED BY <1>1, <1>3, <1>4, <2>3 DEF WriteRgb, s
<1>8. Steal(r, i).display = r.display
  <2> DEFINE s == [r.slots[i] EXCEPT !.nv12 = NoBuf]
  <2>1. r.slots[i] \in SlotType /\ r.slots[i].seq \in Nat
    BY DEF RingType, SlotType
  <2>2. s \in SlotType
    BY <2>1 DEF SlotType
  <2> HIDE DEF s
  <2>3. WithSlot(r, i, s) \in RingType /\ WithSlot(r, i, s).display = r.display
    BY <2>2, WithSlotFields
  <2> QED BY <1>2, <2>1, <2>3 DEF Steal, s
<1>9. SetAi(r, on).display = r.display /\ SetRec(r, on).display = r.display
  <2>1. /\ [r EXCEPT !.ai = on] \in RingType /\ [r EXCEPT !.ai = on].display = r.display
        /\ [r EXCEPT !.rec = on] \in RingType /\ [r EXCEPT !.rec = on].display = r.display
    BY DEF RingType
  <2> QED BY <2>1, MaintainFields DEF SetAi, SetRec
<1> QED BY <1>2, <1>5, <1>6, <1>7, <1>8, <1>9

\* A step of a caller advances the frames of the ring, publishes one or clears all.
Moves ==
  \/ /\ Advances(ring, ring') /\ Tidy(ring')
     /\ ring'.display = ring.display \/ drawing' = Idle
  \/ /\ \E v \in VBufs, z \in Sizes : CanProduce(ring) /\ ring' = Publish(ring, v, z)
     /\ UNCHANGED <<jobs, drawing, stolen>>
  \/ ring' = ClearAll(ring) /\ UNCHANGED <<jobs, drawing, stolen>>

LEMMA StepMoves == FullInv /\ [Next]_vars => Moves
<1> SUFFICES ASSUME FullInv, [Next]_vars
             PROVE  Moves
  OBVIOUS
<1>0. /\ ring \in RingType /\ jobs \in SUBSET JobType /\ drawing.seq \in Nat
      /\ drawing.nv12 \in Bufs \cup {NoBuf} /\ drawing.jpeg \in Bufs \cup {NoBuf}
      /\ stolen \in Bufs \cup {NoBuf}
      /\ Tidy(ring) /\ Claimed(ring, jobs) /\ Drawn(ring, drawing)
  BY DEF FullInv, HeldInv, RingInv, TypeOK, JobType
<1>a. ASSUME Alike(ring, ring')
      PROVE  Moves
  BY <1>0, <1>a, AlikeTidy, AlikeAdvances DEF Moves, Alike
<1>1. CASE StartSession \/ QuiesceBegin \/ EndSession
  BY <1>0, <1>1, <1>a, StreamAlike DEF StartSession, QuiesceBegin, EndSession
<1>2. CASE QuiesceWait \/ ForceClear
  BY <1>2 DEF QuiesceWait, ForceClear, Moves
<1>3. ASSUME NEW v \in VBufs, NEW z \in Sizes, Capture(v, z)
      PROVE  Moves
  <2>1. Maintain(ring) = ring
    BY <1>0, SettledIsMaintained DEF Tidy
  <2>2. CASE CanProduce(ring)
    BY <1>3, <2>1, <2>2 DEF Capture, Moves
  <2>3. CASE ~CanProduce(ring)
    BY <1>3, <1>a, <2>1, <2>3 DEF Capture, Alike
  <2> QED BY <2>2, <2>3
<1>4. ASSUME NEW q \in 1 .. MaxSeq, NEW b \in Bufs \cup {NoBuf}, ClaimFrame(q, b)
      PROVE  Moves
  <2> DEFINE t == Claim(ring, q)
  <2>1. q \in Nat /\ "rgb" \in Kinds /\ Claimable(ring, q)
    BY <1>4, BoundAssumption DEF Kinds, ClaimFrame
  <2>2. t \in RingType /\ Advances(ring, t) /\ Tidy(t)
    BY <1>0, <2>1, ClaimType, ClaimAdvances
  <2>3. t.display = ring.display
    BY <1>0 DEF Claim, WithSlot, RingType
  <2> HIDE DEF t
  <2>4. ring' = Take(t, "rgb", b) /\ Alike(t, ring') /\ Alike(ring, ring)
    BY <1>4, <2>1, <2>2, PoolAlike DEF ClaimFrame, Alike, t
  <2>5. Advances(ring, ring') /\ Tidy(ring')
    BY <1>0, <2>2, <2>4, AlikeAdvances, AlikeTidy
  <2> QED BY <2>3, <2>4, <2>5 DEF Moves, Alike
<1>5. ASSUME NEW j \in jobs, DecodeOk(j) \/ DecodeFail(j) \/ WriteJob(j) \/ AbandonJob(j)
      PROVE  Moves
  <2>1. j.seq \in Nat /\ j.rgb \in Bufs \cup {NoBuf} /\ (j.decoded => j.rgb # NoBuf)
    BY <1>0 DEF JobType, Claimed
  <2>2. CASE DecodeOk(j)
    BY <1>a, <2>2 DEF DecodeOk, Alike
  <2>3. CASE DecodeFail(j)
    <3>1. Advances(ring, ring') /\ Tidy(ring')
      BY <1>0, <2>1, <2>3, DecodeFailedAdvances DEF DecodeFail
    <3>2. ring'.display = ring.display
      BY <1>0, <2>1, <2>3, DisplayKept, IndexType DEF DecodeFail
    <3> QED BY <3>1, <3>2 DEF Moves
  <2>4. CASE WriteJob(j)
    <3>1. Advances(ring, ring') /\ Tidy(ring')
      BY <1>0, <2>1, <2>4, WriteRgbAdvances DEF WriteJob
    <3>2. ring'.display = ring.display
      BY <1>0, <2>1, <2>4, DisplayKept, IndexType DEF WriteJob
    <3> QED BY <3>1, <3>2 DEF Moves
  <2>5. CASE AbandonJob(j)
    <3>1. Advances(ring, ring') /\ Tidy(ring')
      BY <1>0, <2>1, <2>5, AbandonAdvances DEF AbandonJob
    <3>2. ring'.display = ring.display
      BY <1>0, <2>1, <2>5, DisplayKept, IndexType DEF AbandonJob
    <3> QED BY <3>1, <3>2 DEF Moves
  <2> QED BY <1>5, <2>2, <2>3, <2>4, <2>5
<1>6. ASSUME NEW q \in 1 .. MaxSeq, NEW nb \in Bufs \cup {NoBuf},
             NEW jb \in Bufs \cup {NoBuf}, BeginRender(q, nb, jb)
      PROVE  Moves
  <2>1. /\ Take(ring, "nv12", nb) \in RingType
        /\ Alike(ring, Take(ring, "nv12", nb))
        /\ Alike(Take(ring, "nv12", nb), Take(Take(ring, "nv12", nb), "jpeg", jb))
    BY <1>0, TakeType, PoolAlike DEF Kinds
  <2> QED BY <1>6, <1>a, <2>1 DEF BeginRender, Alike
<1>7. ASSUME NEW ok \in BOOLEAN, EndRender(ok)
      PROVE  Moves
  BY <1>0, <1>7, RenderedAdvances DEF EndRender, Drawn, Moves
<1>8. CASE EncodeTake \/ EncodeSkip
  <2>1. \A i \in EncodePick(ring, 0) : /\ i \in Slots /\ ring.slots[i].seq \in Nat
                                       /\ ring.slots[i].seq # 0
    BY <1>0 DEF EncodePick, Encodable, RingType, SlotType
  <2>2. ASSUME NEW i \in EncodePick(ring, 0), ring' = Steal(ring, i)
        PROVE  Moves
    BY <1>0, <2>1, <2>2, StealAdvances, DisplayKept DEF Moves
  <2>3. ASSUME NEW i \in EncodePick(ring, 0), ring' = MarkConsumed(ring, ring.slots[i].seq)
        PROVE  Moves
    BY <1>0, <2>1, <2>3, MarkConsumedAdvances, DisplayKept DEF Moves
  <2> QED BY <1>8, <2>2, <2>3 DEF EncodeTake, EncodeSkip
<1>9. CASE EncodeEnd
  BY <1>0, <1>9, <1>a, PoolAlike DEF EncodeEnd, Kinds
<1>10. ASSUME NEW aiOn \in BOOLEAN, NEW recOn \in BOOLEAN, SetMode(aiOn, recOn)
       PROVE  Moves
  <2>1. 0 \in Slots
    BY NAssumption DEF Slots
  <2> QED BY <1>0, <1>10, <2>1, ModeAdvances, DisplayKept DEF SetMode, Moves
<1>11. CASE UNCHANGED vars
  BY <1>11, <1>a DEF vars, Alike
<1> QED BY <1>1, <1>2, <1>3, <1>4, <1>5, <1>6, <1>7, <1>8, <1>9, <1>10, <1>11 DEF Next

-----------------------------------------------------------------------------
(* The invariant of a ring and of what its callers hold, operation by operation *)

DrawType == [seq : Nat, nv12 : Bufs \cup {NoBuf}, jpeg : Bufs \cup {NoBuf}]

\* What the owners of jobs J, of the picture d and of the picture s hold.
HeldBy(J, d, s, k) ==
  {b \in Bufs : \/ k = "rgb"  /\ \E j \in J : j.rgb = b
                \/ k = "nv12" /\ b \in {d.nv12, s}
                \/ k = "jpeg" /\ b = d.jpeg}

\* The invariant, of a ring and of whatever its callers hold.
Sound(r, J, d, s) ==
  /\ r \in RingType /\ J \in SUBSET JobType /\ d \in DrawType /\ s \in Bufs \cup {NoBuf}
  /\ Window(r) /\ Lent(r) /\ Tidy(r) /\ Claimed(r, J) /\ Drawn(r, d)
  /\ \A k \in Kinds : Excl(r, k, HeldBy(J, d, s, k))
  /\ d.nv12 = s => s = NoBuf

LEMMA FullIsSound == FullInv <=> Sound(ring, jobs, drawing, stolen)
<1>1. \A k : Held(k) = HeldBy(jobs, drawing, stolen, k)
  BY DEF Held, HeldBy
<1> QED BY <1>1 DEF FullInv, RingInv, HeldInv, TypeOK, Sound, JobType, DrawType

LEMMA HeldByType == \A J, d, s, k : HeldBy(J, d, s, k) \in SUBSET Bufs
  BY DEF HeldBy

LEMMA KindsAre == /\ "rgb" \in Kinds /\ "nv12" \in Kinds /\ "jpeg" \in Kinds
                  /\ \A k \in Kinds : k \in {"rgb", "nv12", "jpeg"}
  BY DEF Kinds

\* A frame being drawn is not disturbed by what leaves the display alone.
LEMMA DrawnKept ==
  ASSUME NEW r \in RingType, NEW t \in RingType, NEW d \in DrawType,
         Drawn(r, d), Advances(r, t), t.display = r.display
  PROVE  Drawn(t, d)
<1> DEFINE q == d.seq
           i == Index(q)
           s == r.slots[i]
           u == t.slots[i]
<1> SUFFICES ASSUME d # Idle
             PROVE  /\ t.display < q /\ q <= t.produce
                    /\ u.seq = q => u.rgbDone /\ u.rgb # NoBuf
  BY DEF Drawn, SlotOf, Renderable
<1>1. /\ q \in Nat /\ i \in Slots /\ r.produce \in Nat /\ r.display \in Nat
      /\ t.display \in Nat /\ s.rgbDone \in BOOLEAN
  BY IndexType DEF DrawType, RingType, SlotType
<1>2. /\ r.display < q /\ q <= r.produce
      /\ s.seq = q => s.rgbDone /\ s.rgb # NoBuf
  BY DEF Drawn, SlotOf, Renderable
<1> HIDE DEF q, i
<1> QED BY <1>1, <1>2 DEF Advances

\* What touches neither the frames nor the buffers.
LEMMA SoundSame ==
  ASSUME NEW r, NEW J, NEW d, NEW s, Sound(r, J, d, s),
         NEW t \in RingType, Alike(r, t), t.pools = r.pools, Window(t), Lent(t)
  PROVE  Sound(t, J, d, s)
<1>1. r \in RingType /\ J \in SUBSET JobType /\ d \in DrawType
  BY DEF Sound
<1>2. Tidy(t) /\ Advances(r, t) /\ Drops(r, t, {})
  BY <1>1, AlikeTidy, AlikeAdvances, AlikeDrops DEF Sound
<1>3. Claimed(t, J)
  BY <1>1, <1>2, ClaimedKept DEF Sound, Alike
<1>4. Drawn(t, d)
  BY <1>1, <1>2, DrawnKept DEF Sound, Alike
<1>5. \A k \in Kinds : Excl(t, k, HeldBy(J, d, s, k))
  BY <1>1, ExclSame DEF Sound, Alike
<1> QED BY <1>2, <1>3, <1>4, <1>5 DEF Sound

LEMMA SoundStream ==
  ASSUME NEW r, NEW J, NEW d, NEW s, Sound(r, J, d, s)
  PROVE  /\ ~r.mapped /\ ~r.quiescing => Sound(StreamOn(r), J, d, s)
         /\ r.quiescing \/ (\A i \in Slots : r.slots[i].raw = NoBuf)
              => Sound(StreamOff(r), J, d, s)
         /\ Sound([r EXCEPT !.quiescing = TRUE], J, d, s)
<1>1. r \in RingType /\ Window(r) /\ Lent(r)
  BY DEF Sound
<1>2. /\ StreamOn(r) \in RingType /\ StreamOff(r) \in RingType
      /\ [r EXCEPT !.quiescing = TRUE] \in RingType
  BY <1>1 DEF StreamOn, StreamOff, RingType
<1>3. /\ StreamOn(r).pools = r.pools /\ StreamOff(r).pools = r.pools
      /\ [r EXCEPT !.quiescing = TRUE].pools = r.pools
  BY <1>1 DEF StreamOn, StreamOff, RingType
<1>4. ~r.mapped /\ ~r.quiescing => \A i \in Slots : r.slots[i].raw = NoBuf
  BY <1>1 DEF Lent
<1> QED BY <1>1, <1>2, <1>3, <1>4, StreamAlike, StreamKeeps, SoundSame

LEMMA SoundClear ==
  ASSUME NEW r, NEW J, NEW d, NEW s, Sound(r, J, d, s)
  PROVE  Sound(ClearAll(r), J, d, s)
<1> DEFINE t == ClearAll(r)
<1>1. r \in RingType /\ J \in SUBSET JobType /\ d \in DrawType
  BY DEF Sound
<1>2. t \in RingType
  BY <1>1, RestartType
<1>3. Window(t) /\ Lent(t) /\ Tidy(t)
  BY <1>1, ClearAllKeeps, ClearAllTidies
<1>4. Claimed(t, J)
  BY <1>1, ClaimedClear DEF Sound
<1>5. Drawn(t, d)
  <2>1. t.produce = r.produce /\ t.display = r.display /\ \A i \in Slots : t.slots[i].seq = 0
    BY <1>1, ClearAllTidies DEF EmptySlot
  <2> HIDE DEF t
  <2>2. d # Idle => r.display < d.seq /\ d.seq <= r.produce /\ Index(d.seq) \in Slots
    BY <1>1, IndexType DEF Sound, Drawn, DrawType
  <2>3. r.display \in Nat /\ d.seq \in Nat
    BY <1>1 DEF RingType, DrawType
  <2> QED BY <2>1, <2>2, <2>3 DEF Drawn, SlotOf
<1>6. \A k \in Kinds : Excl(t, k, HeldBy(J, d, s, k))
  BY <1>1, HeldByType, ExclClear DEF Sound
<1> QED BY <1>2, <1>3, <1>4, <1>5, <1>6 DEF Sound

LEMMA SoundPublish ==
  ASSUME NEW r, NEW J, NEW d, NEW s, Sound(r, J, d, s),
         NEW v \in VBufs, NEW z \in Sizes, CanProduce(r), v \in r.queued, r.mapped
  PROVE  Sound(Publish(r, v, z), J, d, s)
<1> DEFINE t == Publish(r, v, z)
<1>1. r \in RingType /\ J \in SUBSET JobType /\ d \in DrawType /\ Tidy(r) /\ Window(r) /\ Lent(r)
  BY DEF Sound
<1>2. t \in RingType
  BY <1>1, PublishType
<1>3. Window(t) /\ Lent(t) /\ Tidy(t)
  BY <1>1, PublishKeeps, PublishTidies
<1>4. Claimed(t, J)
  BY <1>1, ClaimedPublish DEF Sound
<1>5. Drawn(t, d)
  <2> DEFINE i == Index(d.seq)
  <2> SUFFICES ASSUME d # Idle
               PROVE  /\ t.display < d.seq /\ d.seq <= t.produce
                      /\ t.slots[i].seq = d.seq => t.slots[i].rgbDone /\ t.slots[i].rgb # NoBuf
    BY DEF Drawn, SlotOf, Renderable
  <2>1. d.seq \in Nat /\ i \in Slots /\ r.produce \in Nat /\ r.display \in Nat
    BY <1>1, IndexType DEF DrawType, RingType
  <2>2. /\ r.display < d.seq /\ d.seq <= r.produce
        /\ r.slots[i].seq = d.seq => r.slots[i].rgbDone /\ r.slots[i].rgb # NoBuf
    BY DEF Sound, Drawn, SlotOf, Renderable
  <2>3. /\ t.produce = r.produce + 1 /\ t.display = r.display
        /\ \/ t.slots[i].seq = r.produce + 1
           \/ /\ t.slots[i].seq = r.slots[i].seq /\ t.slots[i].rgb = r.slots[i].rgb
              /\ t.slots[i].rgbDone = r.slots[i].rgbDone
    BY <1>1, <2>1, PublishTidies
  <2> HIDE DEF t, i
  <2> QED BY <2>1, <2>2, <2>3
<1>6. \A k \in Kinds : Excl(t, k, HeldBy(J, d, s, k))
  BY <1>1, HeldByType, ExclPublish DEF Sound
<1> QED BY <1>2, <1>3, <1>4, <1>5, <1>6 DEF Sound

\* A new claim, with a buffer that was pooled, or nobody's, or none at all.
LEMMA SoundClaim ==
  ASSUME NEW r, NEW J, NEW d, NEW s, Sound(r, J, d, s),
         NEW q \in Nat, NEW b \in Bufs \cup {NoBuf},
         Claimable(r, q), \A j \in J : j.decoded,
         b # NoBuf => \/ b \in r.pools["rgb"]
                      \/ b \notin HeldBy(J, d, s, "rgb") /\ \A i \in Slots : r.slots[i].rgb # b
  PROVE  Sound(Take(Claim(r, q), "rgb", b),
               J \cup {[seq |-> q, rgb |-> b, decoded |-> FALSE]}, d, s)
<1> DEFINE x == Claim(r, q)
           t == Take(x, "rgb", b)
           e == [seq |-> q, rgb |-> b, decoded |-> FALSE]
           K == J \cup {e}
           H(k) == HeldBy(J, d, s, k)
<1>1. /\ r \in RingType /\ J \in SUBSET JobType /\ d \in DrawType /\ s \in Bufs \cup {NoBuf}
      /\ Tidy(r) /\ Window(r) /\ Lent(r) /\ Claimed(r, J) /\ Drawn(r, d)
      /\ \A k \in Kinds : Excl(r, k, H(k))
  BY DEF Sound
<1>2. x \in RingType /\ t \in RingType /\ Index(q) \in Slots
  BY <1>1, ClaimType, TakeType, KindsAre, IndexType
<1>3. Window(t) /\ Lent(t)
  <2>1. Releases(r, x) /\ Releases(x, t)
    BY <1>1, <1>2, ClaimReleases, PoolReleases, KindsAre
  <2> QED BY <1>1, <1>2, <2>1, ReleasesKeep
<1>4. x.pools = r.pools /\ x.display = r.display
  BY <1>1 DEF Claim, WithSlot, RingType
<1>5. Alike(x, t)
  BY <1>2, PoolAlike, KindsAre
<1>6. Advances(r, x) /\ Tidy(x) /\ Tidy(t)
  BY <1>1, <1>2, <1>5, ClaimAdvances, AlikeTidy
<1>7. Drawn(t, d)
  <2>1. Drawn(x, d)
    BY <1>1, <1>2, <1>4, <1>6, DrawnKept
  <2>2. Advances(x, t)
    BY <1>2, <1>5, AlikeAdvances
  <2> QED BY <1>1, <1>2, <1>5, <2>1, <2>2, DrawnKept DEF Alike
<1>8. ASSUME NEW k \in Kinds, NEW i \in Slots
      PROVE  x.slots[i][k] = r.slots[i][k]
  <2> DEFINE c == [SlotOf(r, q) EXCEPT !.claims = @ + 1]
  <2>1. r.slots[Index(q)] \in SlotType /\ SlotOf(r, q) = r.slots[Index(q)]
    BY <1>1, <1>2 DEF SlotOf, RingType
  <2>2. /\ c \in SlotType /\ c.rgb = r.slots[Index(q)].rgb
        /\ c.nv12 = r.slots[Index(q)].nv12 /\ c.jpeg = r.slots[Index(q)].jpeg
    BY <2>1 DEF SlotType
  <2> HIDE DEF c
  <2>3. c[k] = r.slots[Index(q)][k]
    BY <2>2 DEF Kinds
  <2>4. x.slots[i] = IF i = Index(q) THEN c ELSE r.slots[i]
    BY <1>1, <1>2, <2>2, WithSlotFields DEF Claim, c
  <2> QED BY <2>3, <2>4
<1>9. b # NoBuf => /\ \A i \in Slots : r.slots[i]["rgb"] # b
                   /\ \A j \in J : j.rgb # b
  <2>1. Excl(r, "rgb", H("rgb"))
    BY <1>1, KindsAre
  <2>2. b # NoBuf => b \in Bufs
    OBVIOUS
  <2> QED BY <2>1, <2>2 DEF Excl, HeldBy
<1>. e \in JobType
  BY DEF JobType
<1> HIDE DEF e
<1>10. K \in SUBSET JobType
  BY <1>1
<1>11. Claimed(t, K)
  <2>1. Claimed(x, K)
    BY <1>1, <1>9, ClaimedClaim DEF e
  <2>2. Drops(x, t, {})
    BY <1>2, <1>5, AlikeDrops
  <2> HIDE DEF x, t, K
  <2> QED BY <1>2, <1>5, <1>10, <2>1, <2>2, ClaimedKept DEF Alike
<1>12. \A k \in Kinds : Excl(t, k, HeldBy(K, d, s, k))
  <2> DEFINE G(k) == IF k = "rgb" THEN H(k) \cup ({b} \ {NoBuf}) ELSE H(k)
  <2>1. \A k \in Kinds : Excl(x, k, H(k))
    BY <1>1, <1>2, <1>4, <1>8, ExclSame
  <2>2. b # NoBuf => \A i \in Slots : x.slots[i]["rgb"] # b
    BY <1>8, <1>9, KindsAre
  <2>3. \A k \in Kinds : H(k) \in SUBSET Bufs
    BY HeldByType
  <2>4. ASSUME NEW k \in Kinds
        PROVE  Excl(t, k, G(k))
    <3> HIDE DEF x, H
    <3> QED BY <1>2, <2>1, <2>2, <2>3, KindsAre, ExclTake
  <2>5. e.rgb = b
    BY DEF e
  <2>6. \A k \in Kinds : HeldBy(K, d, s, k) = G(k)
    BY <2>5, NoBufAssumption, KindsAre DEF HeldBy
  <2> QED BY <2>4, <2>6
<1> HIDE DEF t, K
<1>13. Sound(t, K, d, s)
  BY <1>1, <1>2, <1>3, <1>6, <1>7, <1>10, <1>11, <1>12 DEF Sound
<1> QED BY <1>13 DEF t, K, e

\* The decoder has finished a frame.
LEMMA SoundDecode ==
  ASSUME NEW r, NEW J, NEW d, NEW s, Sound(r, J, d, s),
         NEW j \in J, ~j.decoded, j.rgb # NoBuf
  PROVE  Sound(r, (J \ {j}) \cup {[j EXCEPT !.decoded = TRUE]}, d, s)
<1> DEFINE e == [j EXCEPT !.decoded = TRUE]
           K == (J \ {j}) \cup {e}
<1>1. r \in RingType /\ J \in SUBSET JobType /\ j \in JobType
  BY DEF Sound
<1>2. e \in JobType /\ e.rgb = j.rgb
  BY <1>1 DEF JobType
<1>3. Claimed(r, K)
  BY <1>1, ClaimedDecode DEF Sound
<1> HIDE DEF e
<1>4. K \in SUBSET JobType /\ \A k : HeldBy(K, d, s, k) = HeldBy(J, d, s, k)
  BY <1>1, <1>2 DEF HeldBy
<1> HIDE DEF K
<1>5. Sound(r, K, d, s)
  BY <1>3, <1>4 DEF Sound
<1> QED BY <1>5 DEF K, e

\* The ring after job j, and after any other that was decoded.
Ended(r, j, t) ==
  \/ ~j.decoded /\ t = DecodeFailed(r, j.seq, j.rgb)
  \/ j.decoded /\ t \in {WriteRgb(r, j.seq, j.rgb), Abandon(r, j.seq, j.rgb)}

LEMMA SoundJobEnd ==
  ASSUME NEW r, NEW J, NEW d, NEW s, Sound(r, J, d, s),
         NEW j \in J, NEW t, Ended(r, j, t)
  PROVE  Sound(t, J \ {j}, d, s)
<1>1. /\ r \in RingType /\ J \in SUBSET JobType /\ d \in DrawType /\ s \in Bufs \cup {NoBuf}
      /\ Tidy(r) /\ Window(r) /\ Lent(r) /\ Claimed(r, J) /\ Drawn(r, d)
      /\ \A k \in Kinds : Excl(r, k, HeldBy(J, d, s, k))
      /\ d.nv12 = s => s = NoBuf
  BY DEF Sound
<1>2. j.seq \in Nat /\ j.rgb \in Bufs \cup {NoBuf} /\ (j.decoded => j.rgb \in Bufs)
  BY <1>1 DEF JobType, Claimed
<1>3. t \in RingType /\ Releases(r, t) /\ Advances(r, t) /\ Tidy(t) /\ t.display = r.display
  <2>1. CASE t = DecodeFailed(r, j.seq, j.rgb)
    BY <1>1, <1>2, <2>1, DecodeFailedType, DecodeFailedReleases, DecodeFailedAdvances,
       DisplayKept, IndexType
  <2>2. CASE j.decoded /\ t = WriteRgb(r, j.seq, j.rgb)
    BY <1>1, <1>2, <2>2, WriteRgbType, WriteRgbReleases, WriteRgbAdvances, DisplayKept, IndexType
  <2>3. CASE t = Abandon(r, j.seq, j.rgb)
    BY <1>1, <1>2, <2>3, AbandonType, AbandonReleases, AbandonAdvances, DisplayKept, IndexType
  <2> QED BY <2>1, <2>2, <2>3 DEF Ended
<1>4. Window(t) /\ Lent(t) /\ Drawn(t, d)
  BY <1>1, <1>3, ReleasesKeep, DrawnKept
<1>5. Claimed(t, J \ {j})
  <2> DEFINE D == IF OwnsSlot(r, j.seq) THEN {Index(j.seq)} ELSE {}
  <2>1. \/ Drops(r, t, D)
        \/ Drops(r, t, {Index(j.seq)}) /\ ~j.decoded
    BY <1>1, <1>2, JobDrops DEF Ended
  <2>2. t.produce = r.produce /\ \A i \in Slots : t.slots[i].seq = r.slots[i].seq
    BY <1>3 DEF Advances
  <2> QED BY <1>1, <1>3, <2>1, <2>2, ClaimedEnd
<1>6. \A k \in Kinds : Excl(t, k, HeldBy(J \ {j}, d, s, k))
  <2> DEFINE H(k) == HeldBy(J, d, s, k)
             G(k) == IF k = "rgb" THEN H(k) \ {j.rgb} ELSE H(k)
  <2>1. j.rgb # NoBuf => j.rgb \in H("rgb")
    BY <1>2 DEF HeldBy
  <2>2. ASSUME NEW k \in Kinds
        PROVE  Excl(t, k, G(k))
    <3>1. /\ Excl(DecodeFailed(r, j.seq, j.rgb), k, G(k))
          /\ Excl(Abandon(r, j.seq, j.rgb), k, G(k))
          /\ Excl(WriteRgb(r, j.seq, j.rgb), k, G(k))
      <4>1. H(k) \in SUBSET Bufs /\ Excl(r, k, H(k))
        BY <1>1, HeldByType
      <4>2. k = "rgb" /\ j.rgb # NoBuf => j.rgb \in H(k)
        BY <2>1
      <4> HIDE DEF H
      <4> QED BY <1>1, <1>2, <4>1, <4>2, ExclJob
    <3> HIDE DEF G
    <3> QED BY <3>1 DEF Ended
  <2>3. \A l \in J : l.rgb = j.rgb /\ l.rgb # NoBuf => l = j
    BY <1>1 DEF Claimed
  <2>4. \A k \in Kinds : HeldBy(J \ {j}, d, s, k) = G(k)
    BY <2>3, NoBufAssumption, KindsAre DEF HeldBy
  <2> QED BY <2>2, <2>4
<1> QED BY <1>1, <1>3, <1>4, <1>5, <1>6 DEF Sound

\* The composer takes two pictures to draw frame q on.
LEMMA SoundBegin ==
  ASSUME NEW r, NEW J, NEW s, Sound(r, J, Idle, s),
         NEW q \in Nat, NEW nb \in Bufs \cup {NoBuf}, NEW jb \in Bufs \cup {NoBuf},
         q > r.display, Renderable(r, q),
         nb # NoBuf => \/ nb \in r.pools["nv12"]
                       \/ /\ nb \notin HeldBy(J, Idle, s, "nv12")
                          /\ \A i \in Slots : r.slots[i].nv12 # nb,
         jb # NoBuf => \/ jb \in r.pools["jpeg"]
                       \/ /\ jb \notin HeldBy(J, Idle, s, "jpeg")
                          /\ \A i \in Slots : r.slots[i].jpeg # jb
  PROVE  Sound(Take(Take(r, "nv12", nb), "jpeg", jb), J,
               [seq |-> q, nv12 |-> nb, jpeg |-> jb], s)
<1> DEFINE x == Take(r, "nv12", nb)
           t == Take(x, "jpeg", jb)
           e == [seq |-> q, nv12 |-> nb, jpeg |-> jb]
           H(k) == HeldBy(J, Idle, s, k)
           H1(k) == IF k = "nv12" THEN H(k) \cup ({nb} \ {NoBuf}) ELSE H(k)
           H2(k) == IF k = "jpeg" THEN H1(k) \cup ({jb} \ {NoBuf}) ELSE H1(k)
<1>1. /\ r \in RingType /\ J \in SUBSET JobType /\ s \in Bufs \cup {NoBuf}
      /\ Tidy(r) /\ Window(r) /\ Lent(r) /\ Claimed(r, J)
      /\ \A k \in Kinds : Excl(r, k, H(k))
  BY DEF Sound
<1>2. x \in RingType /\ t \in RingType
  BY <1>1, TakeType, KindsAre
<1>3. Alike(r, x) /\ Alike(x, t) /\ Alike(r, t)
  BY <1>1, <1>2, PoolAlike, KindsAre DEF Alike
<1>4. Window(t) /\ Lent(t)
  <2>1. Releases(r, x) /\ Releases(x, t)
    BY <1>1, <1>2, PoolReleases, KindsAre
  <2> QED BY <1>1, <1>2, <2>1, ReleasesKeep
<1>5. Tidy(t) /\ Claimed(t, J)
  <2>1. Drops(r, t, {})
    BY <1>1, <1>3, AlikeDrops
  <2> HIDE DEF t
  <2> QED BY <1>1, <1>2, <1>3, <2>1, AlikeTidy, ClaimedKept DEF Alike
<1>6. e \in DrawType /\ e.seq = q /\ e.nv12 = nb /\ e.jpeg = jb
  BY DEF DrawType
<1>7. Drawn(t, e)
  <2>1. q # 0 /\ Index(q) \in Slots /\ r.display \in Nat /\ r.produce \in Nat
    BY <1>1, IndexType DEF RingType
  <2>2. q <= r.produce
    BY <1>1, <2>1 DEF Window, Renderable, SlotOf
  <2> HIDE DEF t, e
  <2> QED BY <1>3, <1>6, <2>1, <2>2 DEF Drawn, Alike, Renderable, SlotOf
<1>8. /\ nb # NoBuf => \A i \in Slots : r.slots[i]["nv12"] # nb
      /\ jb # NoBuf => \A i \in Slots : r.slots[i]["jpeg"] # jb
  BY <1>1, KindsAre DEF Excl
<1>9. \A k \in Kinds : Excl(t, k, H2(k))
  <2>1. \A k \in Kinds : H(k) \in SUBSET Bufs
    BY HeldByType
  <2>2. \A k \in Kinds : Excl(x, k, H1(k)) /\ H1(k) \in SUBSET Bufs
    <3> HIDE DEF H
    <3> QED BY <1>1, <1>8, <2>1, KindsAre, ExclTake
  <2>3. jb # NoBuf => \A i \in Slots : x.slots[i]["jpeg"] # jb
    BY <1>3, <1>8 DEF Alike
  <2> HIDE DEF x, H1
  <2> QED BY <1>2, <2>2, <2>3, KindsAre, ExclTake
<1>10. \A k \in Kinds : HeldBy(J, e, s, k) = H2(k)
  <2> HIDE DEF e
  <2> QED BY <1>6, NoBufAssumption, KindsAre DEF HeldBy, Idle
<1>11. nb = s => s = NoBuf
  <2>1. s # NoBuf => s \in H("nv12")
    BY <1>1 DEF HeldBy
  <2>2. Excl(r, "nv12", H("nv12"))
    BY <1>1, KindsAre
  <2> QED BY <2>1, <2>2 DEF Excl
<1> HIDE DEF t, e, H2
<1>12. Sound(t, J, e, s)
  BY <1>1, <1>2, <1>4, <1>5, <1>6, <1>7, <1>9, <1>10, <1>11 DEF Sound
<1> QED BY <1>12 DEF t, e

LEMMA IdleType == Idle \in DrawType /\ Idle.seq = 0 /\ Idle.nv12 = NoBuf /\ Idle.jpeg = NoBuf
  BY DEF Idle, DrawType

\* The end of a rendering.
LEMMA SoundRendered ==
  ASSUME NEW r, NEW J, NEW d, NEW s, Sound(r, J, d, s), d # Idle, NEW ok \in BOOLEAN
  PROVE  Sound(Rendered(r, d.seq, d.nv12, d.jpeg, ok), J, Idle, s)
<1> DEFINE t == Rendered(r, d.seq, d.nv12, d.jpeg, ok)
           H(k) == HeldBy(J, d, s, k)
           G(k) == IF k = "nv12" THEN H(k) \ {d.nv12}
                   ELSE IF k = "jpeg" THEN H(k) \ {d.jpeg} ELSE H(k)
<1>1. /\ r \in RingType /\ J \in SUBSET JobType /\ s \in Bufs \cup {NoBuf}
      /\ Tidy(r) /\ Window(r) /\ Lent(r) /\ Claimed(r, J) /\ Drawn(r, d)
      /\ \A k \in Kinds : Excl(r, k, H(k)) /\ H(k) \in SUBSET Bufs
      /\ d.nv12 = s => s = NoBuf
  BY HeldByType DEF Sound
<1>2. d.seq \in Nat /\ d.nv12 \in Bufs \cup {NoBuf} /\ d.jpeg \in Bufs \cup {NoBuf}
  BY DEF Sound, DrawType
<1>3. t \in RingType /\ Releases(r, t) /\ Drops(r, t, {})
  BY <1>1, <1>2, RenderedType, RenderedReleases, RenderedDrops
<1>4. Tidy(t)
  BY <1>1, <1>2, RenderedAdvances DEF Drawn
<1>5. /\ d.nv12 # NoBuf => d.nv12 \in H("nv12")
      /\ d.jpeg # NoBuf => d.jpeg \in H("jpeg")
  BY <1>2 DEF HeldBy
<1>6. \A k \in Kinds : Excl(t, k, G(k))
  <2> HIDE DEF H
  <2> QED BY <1>1, <1>2, <1>5, ExclRendered
<1>7. \A k \in Kinds : HeldBy(J, Idle, s, k) = G(k)
  BY <1>1, <1>2, NoBufAssumption, KindsAre, IdleType DEF HeldBy
<1> HIDE DEF t, G
<1>8. Window(t) /\ Lent(t) /\ Claimed(t, J)
  BY <1>1, <1>3, ReleasesKeep, ClaimedKept DEF Releases
<1>9. Drawn(t, Idle)
  BY DEF Drawn
<1>10. Sound(t, J, Idle, s)
  BY <1>1, <1>3, <1>4, <1>6, <1>7, <1>8, <1>9, IdleType DEF Sound
<1> QED BY <1>10 DEF t

\* What the recorder does to the ring, and a change of mode, keep every frame.
LEMMA SoundKept ==
  ASSUME NEW r, NEW J, NEW d, NEW s, Sound(r, J, d, s),
         NEW t \in RingType, Releases(r, t), Drops(r, t, {}), Advances(r, t), Tidy(t),
         t.display = r.display, NEW p \in Bufs \cup {NoBuf},
         \A k \in Kinds : Excl(t, k, HeldBy(J, d, p, k)),
         d.nv12 = p => p = NoBuf
  PROVE  Sound(t, J, d, p)
<1>1. r \in RingType /\ J \in SUBSET JobType /\ d \in DrawType
  BY DEF Sound
<1>2. Window(t) /\ Lent(t) /\ Claimed(t, J)
  BY <1>1, ReleasesKeep, ClaimedKept DEF Releases, Sound
<1>3. Drawn(t, d)
  BY <1>1, DrawnKept DEF Sound
<1> QED BY <1>1, <1>2, <1>3 DEF Sound

LEMMA SoundSteal ==
  ASSUME NEW r, NEW J, NEW d, Sound(r, J, d, NoBuf),
         NEW i \in Slots, r.slots[i].nv12 # NoBuf, r.slots[i].seq # 0
  PROVE  Sound(Steal(r, i), J, d, r.slots[i].nv12)
<1> DEFINE t == Steal(r, i)
           p == r.slots[i].nv12
           H(k) == HeldBy(J, d, NoBuf, k)
<1>1. /\ r \in RingType /\ d \in DrawType /\ Tidy(r)
      /\ \A k \in Kinds : Excl(r, k, H(k)) /\ H(k) \in SUBSET Bufs
  BY HeldByType DEF Sound
<1>2. p \in Bufs
  BY <1>1 DEF RingType, SlotType
<1>3. /\ t \in RingType /\ Releases(r, t) /\ Drops(r, t, {}) /\ Advances(r, t) /\ Tidy(t)
      /\ t.display = r.display
  <2>1. 0 \in Nat /\ NoBuf \in Bufs \cup {NoBuf} /\ TRUE \in BOOLEAN
    OBVIOUS
  <2> QED BY <1>1, <2>1, StealType, StealReleases, StealDrops, StealAdvances, DisplayKept
<1>4. \A k \in Kinds : Excl(t, k, IF k = "nv12" THEN H(k) \cup {p} ELSE H(k))
  <2> HIDE DEF H
  <2> QED BY <1>1, ExclSteal
<1>5. \A k \in Kinds : HeldBy(J, d, p, k) = IF k = "nv12" THEN H(k) \cup {p} ELSE H(k)
  BY <1>2, NoBufAssumption, KindsAre DEF HeldBy
<1>6. d.nv12 # p
  <2>1. d.nv12 # NoBuf => d.nv12 \in H("nv12")
    BY <1>1 DEF HeldBy, DrawType
  <2>2. Excl(r, "nv12", H("nv12"))
    BY <1>1, KindsAre
  <2> HIDE DEF H
  <2> QED BY <2>1, <2>2, KindsAre DEF Excl
<1> HIDE DEF t, p, H
<1> QED BY <1>2, <1>3, <1>4, <1>5, <1>6, SoundKept DEF t, p

LEMMA SoundSkip ==
  ASSUME NEW r, NEW J, NEW d, NEW s, Sound(r, J, d, s), NEW q \in Nat
  PROVE  Sound(MarkConsumed(r, q), J, d, s)
<1> DEFINE t == MarkConsumed(r, q)
<1>1. /\ r \in RingType /\ s \in Bufs \cup {NoBuf} /\ Tidy(r) /\ (d.nv12 = s => s = NoBuf)
      /\ \A k \in Kinds : Excl(r, k, HeldBy(J, d, s, k)) /\ HeldBy(J, d, s, k) \in SUBSET Bufs
  BY HeldByType DEF Sound
<1>2. 0 \in Slots /\ NoBuf \in Bufs \cup {NoBuf} /\ TRUE \in BOOLEAN
  BY NAssumption DEF Slots
<1>3. /\ t \in RingType /\ Releases(r, t) /\ Drops(r, t, {}) /\ Advances(r, t) /\ Tidy(t)
      /\ t.display = r.display
  BY <1>1, <1>2, MarkConsumedType, MarkConsumedReleases, MarkConsumedDrops,
     MarkConsumedAdvances, DisplayKept
<1>4. \A k \in Kinds : Excl(t, k, HeldBy(J, d, s, k))
  BY <1>1, ExclMarkConsumed
<1> HIDE DEF t
<1> QED BY <1>1, <1>3, <1>4, SoundKept DEF t

LEMMA SoundMode ==
  ASSUME NEW r, NEW J, NEW d, NEW s, Sound(r, J, d, s), NEW on \in BOOLEAN
  PROVE  Sound(SetAi(r, on), J, d, s) /\ Sound(SetRec(r, on), J, d, s)
<1> DEFINE T == {SetAi(r, on), SetRec(r, on)}
<1>1. /\ r \in RingType /\ s \in Bufs \cup {NoBuf} /\ Tidy(r) /\ (d.nv12 = s => s = NoBuf)
      /\ \A k \in Kinds : Excl(r, k, HeldBy(J, d, s, k)) /\ HeldBy(J, d, s, k) \in SUBSET Bufs
  BY HeldByType DEF Sound
<1>2. 0 \in Slots /\ 0 \in Nat /\ NoBuf \in Bufs \cup {NoBuf}
  BY NAssumption DEF Slots
<1>3. ASSUME NEW t \in T
      PROVE  Sound(t, J, d, s)
  <2>1. /\ t \in RingType /\ Releases(r, t) /\ Drops(r, t, {}) /\ Advances(r, t) /\ Tidy(t)
        /\ t.display = r.display
    <3>1. SetAi(r, on).display = r.display /\ SetRec(r, on).display = r.display
      BY <1>1, <1>2, DisplayKept
    <3> QED BY <1>1, <3>1, ModeType, ModeReleases, ModeDrops, ModeAdvances
  <2>2. \A k \in Kinds : Excl(t, k, HeldBy(J, d, s, k))
    BY <1>1, ExclMode
  <2> QED BY <1>1, <2>1, <2>2, SoundKept
<1> QED BY <1>3

LEMMA SoundPut ==
  ASSUME NEW r, NEW J, NEW d, NEW s, Sound(r, J, d, s), s # NoBuf
  PROVE  Sound(Put(r, "nv12", s), J, d, NoBuf)
<1> DEFINE t == Put(r, "nv12", s)
           H(k) == HeldBy(J, d, s, k)
<1>1. /\ r \in RingType /\ d \in DrawType /\ s \in Bufs /\ Tidy(r) /\ d.nv12 # s
      /\ \A k \in Kinds : Excl(r, k, H(k)) /\ H(k) \in SUBSET Bufs
  BY HeldByType DEF Sound
<1>2. t \in RingType /\ Releases(r, t) /\ Alike(r, t)
  BY <1>1, PutType, PoolReleases, PoolAlike, KindsAre
<1>3. Drops(r, t, {}) /\ Advances(r, t) /\ Tidy(t) /\ t.display = r.display
  BY <1>1, <1>2, AlikeDrops, AlikeAdvances, AlikeTidy DEF Alike
<1>4. \A k \in Kinds : Excl(t, k, IF k = "nv12" THEN H(k) \ {s} ELSE H(k))
  <2>1. s \in H("nv12")
    BY <1>1 DEF HeldBy
  <2> HIDE DEF H
  <2> QED BY <1>1, <2>1, KindsAre, ExclPut
<1>5. \A k \in Kinds : HeldBy(J, d, NoBuf, k) = IF k = "nv12" THEN H(k) \ {s} ELSE H(k)
  BY <1>1, NoBufAssumption, KindsAre DEF HeldBy
<1>6. \A k \in Kinds : Excl(t, k, HeldBy(J, d, NoBuf, k))
  BY <1>4, <1>5
<1> HIDE DEF t, H
<1> QED BY <1>2, <1>3, <1>6, SoundKept DEF t

LEMMA FullIsSoundNext == FullInv' <=> Sound(ring', jobs', drawing', stolen')
<1>1. \A k : Held(k)' = HeldBy(jobs', drawing', stolen', k)
  BY DEF Held, HeldBy
<1> QED BY <1>1 DEF FullInv, RingInv, HeldInv, TypeOK, Sound, JobType, DrawType

\* What a caller may get is nobody's, or pooled, or nothing.
LEMMA ObtainableBuffers ==
  ASSUME NEW k \in Kinds, NEW b \in Obtainable(k)
  PROVE  /\ b \in Bufs \cup {NoBuf} \/ b \in ring.pools[k]
         /\ b # NoBuf => \/ b \in ring.pools[k]
                         \/ /\ b \notin HeldBy(jobs, drawing, stolen, k)
                            /\ \A i \in Slots : ring.slots[i][k] # b
<1>1. Held(k) = HeldBy(jobs, drawing, stolen, k)
  BY DEF Held, HeldBy
<1> QED BY <1>1 DEF Obtainable, InSlots

\* Every step of a caller keeps the invariant.
LEMMA FullStep == FullInv /\ [Next]_vars => FullInv'
<1> SUFFICES ASSUME Sound(ring, jobs, drawing, stolen), [Next]_vars
             PROVE  Sound(ring', jobs', drawing', stolen')
  BY FullIsSound, FullIsSoundNext
<1>0. /\ ring \in RingType /\ jobs \in SUBSET JobType /\ drawing.seq \in Nat
      /\ stolen \in Bufs \cup {NoBuf} /\ Tidy(ring)
  BY DEF Sound, DrawType
<1>1. CASE StartSession
  BY <1>1, SoundStream DEF StartSession
<1>2. CASE QuiesceBegin
  BY <1>2, SoundStream DEF QuiesceBegin
<1>3. CASE EndSession
  BY <1>3, SoundStream DEF EndSession
<1>4. CASE QuiesceWait \/ ForceClear
  BY <1>4, SoundClear DEF QuiesceWait, ForceClear
<1>5. ASSUME NEW v \in VBufs, NEW z \in Sizes, Capture(v, z)
      PROVE  Sound(ring', jobs', drawing', stolen')
  <2>1. Maintain(ring) = ring
    BY <1>0, SettledIsMaintained DEF Tidy
  <2>2. CASE CanProduce(ring)
    BY <1>5, <2>1, <2>2, SoundPublish DEF Capture
  <2>3. CASE ~CanProduce(ring)
    BY <1>5, <2>1, <2>3 DEF Capture
  <2> QED BY <2>2, <2>3
<1>6. ASSUME NEW q \in 1 .. MaxSeq, NEW b \in Bufs \cup {NoBuf}, ClaimFrame(q, b)
      PROVE  Sound(ring', jobs', drawing', stolen')
  <2>1. q \in Nat /\ Claimable(ring, q) /\ \A j \in jobs : j.decoded
    BY <1>6, BoundAssumption DEF ClaimFrame
  <2>2. b # NoBuf => \/ b \in ring.pools["rgb"]
                     \/ /\ b \notin HeldBy(jobs, drawing, stolen, "rgb")
                        /\ \A i \in Slots : ring.slots[i].rgb # b
    BY <1>6, KindsAre, ObtainableBuffers DEF ClaimFrame
  <2> QED BY <1>6, <2>1, <2>2, SoundClaim DEF ClaimFrame
<1>7. ASSUME NEW j \in jobs, DecodeOk(j)
      PROVE  Sound(ring', jobs', drawing', stolen')
  BY <1>7, SoundDecode DEF DecodeOk
<1>8. ASSUME NEW j \in jobs, DecodeFail(j) \/ WriteJob(j) \/ AbandonJob(j)
      PROVE  Sound(ring', jobs', drawing', stolen')
  <2>1. /\ Ended(ring, j, ring')
        /\ jobs' = jobs \ {j} /\ drawing' = drawing /\ stolen' = stolen
    BY <1>8 DEF DecodeFail, WriteJob, AbandonJob, Ended
  <2> QED BY <2>1, SoundJobEnd
<1>9. ASSUME NEW q \in 1 .. MaxSeq, NEW nb \in Bufs \cup {NoBuf},
             NEW jb \in Bufs \cup {NoBuf}, BeginRender(q, nb, jb)
      PROVE  Sound(ring', jobs', drawing', stolen')
  <2>1. /\ q \in Nat /\ q > ring.display /\ Renderable(ring, q)
        /\ drawing = Idle /\ Sound(ring, jobs, Idle, stolen)
        /\ nb \in Obtainable("nv12") /\ jb \in Obtainable("jpeg")
    BY <1>9, BoundAssumption DEF BeginRender
  <2>2. /\ nb # NoBuf => \/ nb \in ring.pools["nv12"]
                         \/ /\ nb \notin HeldBy(jobs, Idle, stolen, "nv12")
                            /\ \A i \in Slots : ring.slots[i].nv12 # nb
        /\ jb # NoBuf => \/ jb \in ring.pools["jpeg"]
                         \/ /\ jb \notin HeldBy(jobs, Idle, stolen, "jpeg")
                            /\ \A i \in Slots : ring.slots[i].jpeg # jb
    BY <2>1, KindsAre, ObtainableBuffers
  <2> QED BY <1>9, <2>1, <2>2, SoundBegin DEF BeginRender
<1>10. ASSUME NEW ok \in BOOLEAN, EndRender(ok)
       PROVE  Sound(ring', jobs', drawing', stolen')
  BY <1>10, SoundRendered DEF EndRender
<1>11. CASE EncodeTake \/ EncodeSkip
  <2>1. \A i \in EncodePick(ring, 0) : /\ i \in Slots /\ ring.slots[i].seq \in Nat
                                       /\ ring.slots[i].seq # 0 /\ ring.slots[i].nv12 # NoBuf
    BY <1>0 DEF EncodePick, Encodable, RingType, SlotType
  <2> QED BY <1>11, <2>1, SoundSteal, SoundSkip DEF EncodeTake, EncodeSkip
<1>12. CASE EncodeEnd
  BY <1>12, SoundPut DEF EncodeEnd
<1>13. ASSUME NEW aiOn \in BOOLEAN, NEW recOn \in BOOLEAN, SetMode(aiOn, recOn)
       PROVE  Sound(ring', jobs', drawing', stolen')
  BY <1>13, SoundMode DEF SetMode
<1>14. CASE UNCHANGED vars
  BY <1>14 DEF vars
<1> QED BY <1>1, <1>2, <1>3, <1>4, <1>5, <1>6, <1>7, <1>8, <1>9, <1>10, <1>11, <1>12,
           <1>13, <1>14 DEF Next

LEMMA InitFull == Init => Tidy(ring) /\ Claimed(ring, jobs) /\ HeldInv /\ Drawn(ring, drawing)
<1> SUFFICES ASSUME Init
             PROVE  Tidy(ring) /\ Claimed(ring, jobs) /\ HeldInv /\ Drawn(ring, drawing)
  OBVIOUS
<1>1. /\ ring.produce = 0 /\ ring.display = 0 /\ jobs = {} /\ drawing = Idle /\ stolen = NoBuf
      /\ \A i \in Slots : ring.slots[i] = EmptySlot
      /\ \A k \in Kinds : ring.pools[k] = {}
  BY DEF Init, EmptyRing
<1>2. /\ EmptySlot.seq = 0 /\ EmptySlot.rgb = NoBuf /\ EmptySlot.nv12 = NoBuf
      /\ EmptySlot.claims = 0 /\ Reusable(EmptySlot)
  BY DEF EmptySlot, Reusable
<1>3. Tidy(ring)
  BY <1>1, <1>2 DEF Tidy, Settled, Clean, NewestRaw, RawDone, RgbDone, Nv12Done, JpegDone
<1>4. Claimed(ring, jobs)
  BY <1>1, <1>2, FS_EmptySet DEF Claimed
<1>5. \A k \in Kinds : EmptySlot[k] = NoBuf
  BY DEF EmptySlot, Kinds
<1>6. \A k \in Kinds : Held(k) = {}
  BY <1>1, NoBufAssumption DEF Held, Idle
<1>7. HeldInv
  BY <1>1, <1>5, <1>6 DEF HeldInv, Excl
<1> QED BY <1>1, <1>3, <1>4, <1>7 DEF Drawn

\* The whole invariant of the ring and of its callers.
THEOREM FullCorrect == Spec => []FullInv
<1>1. Init /\ RingInv => FullInv
  BY InitFull DEF FullInv, HeldInv
<1> QED BY <1>1, FullStep, RingCorrect, PTL DEF Spec

\* Every buffer and every claim has exactly one owner, in every reachable state.
THEOREM OwnershipCorrect == Spec => []Ownership
<1>1. FullInv => Ownership
  <2> SUFFICES ASSUME FullInv
               PROVE  StageExclusive /\ ClaimsAreJobs
    BY DEF Ownership
  <2>0. /\ ring \in RingType /\ Claimed(ring, jobs)
        /\ \A k \in Kinds : Excl(ring, k, Held(k)) /\ NoBuf \notin ring.pools[k]
        /\ drawing.nv12 = stolen => stolen = NoBuf
    BY SlotBuffer, NoBufAssumption DEF FullInv, HeldInv, RingInv, TypeOK
  <2>1. \A k \in Kinds : ring.pools[k] \cap (Held(k) \cup InSlots(k)) = {}
    BY <2>0 DEF Excl, InSlots
  <2>2. \A k \in Kinds : Held(k) \cap InSlots(k) = {}
    BY <2>0 DEF Excl, InSlots
  <2>3. \A k \in Kinds, i, j \in Slots :
          ring.slots[i][k] = ring.slots[j][k] /\ ring.slots[i][k] # NoBuf => i = j
    BY <2>0 DEF Excl
  <2>4. \A j, l \in jobs : j.rgb = l.rgb /\ j.rgb # NoBuf => j = l
    BY <2>0 DEF Claimed
  <2>5. StageExclusive
    BY <2>0, <2>1, <2>2, <2>3, <2>4 DEF StageExclusive
  <2>6. ClaimsAreJobs
    BY <2>0 DEF Claimed, ClaimsAreJobs, JobsOf
  <2> QED BY <2>5, <2>6
<1> QED BY <1>1, FullCorrect, PTL

-----------------------------------------------------------------------------
(***************************************************************************)
(* What the threads read outside the lock.                                 *)
(***************************************************************************)

\* What a step of a caller may do to the ring.
Turns(r, t) ==
  \/ Releases(r, t)
  \/ \E v \in VBufs, z \in Sizes : CanProduce(r) /\ t = Publish(r, v, z)
  \/ ~r.mapped /\ t = StreamOn(r)
  \/ t = [r EXCEPT !.quiescing = TRUE]
  \/ /\ t = StreamOff(r)
     /\ (\A i \in Slots : r.slots[i].raw = NoBuf) \/ (r.quiescing /\ ~NoClaims(r))
  \/ r.quiescing /\ (NoClaims(r) \/ ~r.mapped) /\ t = ClearAll(r)

\* A job that is not decoded yet is a frame just claimed.
Newly(r, J, t, K) == \A j \in K \ J : ~j.decoded => Claimable(r, j.seq) /\ Releases(r, t)

\* InUse of a step from ring r, jobs J and drawing d to t, K and e.
UseKept(r, J, d, t, K, e) ==
  /\ \A j \in K \ J : ~j.decoded => Readable(t, j.seq)
  /\ \A j \in J \cap K :
       ~j.decoded /\ Readable(r, j.seq) =>
         \/ Readable(t, j.seq) /\ SlotOf(t, j.seq).raw = SlotOf(r, j.seq).raw
         \/ r.quiescing /\ ~NoClaims(r) /\ ~t.mapped
  /\ d # Idle /\ e = d /\ Renderable(r, d.seq)
       => Renderable(t, d.seq) \/ (r.quiescing /\ ~t.quiescing)

LEMMA UseIsKept == UseKept(ring, jobs, drawing, ring', jobs', drawing') <=> DecodeKept /\ DrawKept
<1>1. DecodeKept <=> /\ \A j \in jobs' \ jobs : ~j.decoded => Readable(ring', j.seq)
                     /\ \A j \in jobs \cap jobs' :
                          ~j.decoded /\ Readable(ring, j.seq) =>
                            \/ /\ Readable(ring', j.seq)
                               /\ SlotOf(ring', j.seq).raw = SlotOf(ring, j.seq).raw
                            \/ ring.quiescing /\ ~NoClaims(ring) /\ ~ring'.mapped
  BY Zenon DEF DecodeKept, BeingDecoded
<1> QED BY <1>1, Zenon DEF UseKept, DrawKept

\* The slot of a claimed frame is its own, claimed, and lends a buffer.
LEMMA JobsSlot ==
  ASSUME NEW r \in RingType, NEW J \in SUBSET JobType, Claimed(r, J), Lent(r),
         NEW j \in J, SlotOf(r, j.seq).seq = j.seq
  PROVE  /\ Index(j.seq) \in Slots /\ SlotOf(r, j.seq) = r.slots[Index(j.seq)]
         /\ SlotOf(r, j.seq).claims > 0
         /\ SlotOf(r, j.seq).raw # NoBuf /\ SlotOf(r, j.seq).raw \notin r.queued
<1> DEFINE i == Index(j.seq)
<1>1. i \in Slots /\ SlotOf(r, j.seq) = r.slots[i] /\ j.seq # 0
  BY IndexType DEF SlotOf, JobType, Claimed
<1> HIDE DEF i
<1>2. r.slots[i].claims > 0
  <2>1. r.slots[i].claims = Cardinality(JobsOf(J, j.seq))
    BY <1>1 DEF Claimed
  <2>2. Cardinality(JobsOf(J, j.seq)) > 0
    BY JobsOfCard DEF Claimed
  <2> QED BY <2>1, <2>2
<1>3. r.slots[i].raw # NoBuf /\ r.slots[i].raw \notin r.queued
  BY <1>1, <1>2 DEF Claimed, Lent
<1> QED BY <1>1, <1>2, <1>3 DEF i

LEMMA PublishFields ==
  ASSUME NEW r \in RingType, NEW v \in VBufs, NEW z \in Sizes
  PROVE  Publish(r, v, z).mapped = r.mapped /\ Publish(r, v, z).quiescing = r.quiescing
<1> DEFINE q == r.produce + 1
           s == [EmptySlot EXCEPT !.seq = q, !.raw = v, !.size = z]
           x == WithSlot(r, Index(q), s)
           y == [x EXCEPT !.produce = q, !.queued = @ \ {v}]
<1>1. q \in Nat /\ Index(q) \in Slots
  BY IndexType DEF RingType
<1>2. s \in SlotType
  BY <1>1 DEF SlotType, EmptySlot
<1> HIDE DEF s
<1>3. x \in RingType /\ x.mapped = r.mapped /\ x.quiescing = r.quiescing
  BY <1>1, <1>2, WithSlotType DEF WithSlot, RingType
<1> HIDE DEF x
<1>4. y \in RingType /\ y.mapped = r.mapped /\ y.quiescing = r.quiescing
  BY <1>1, <1>3 DEF RingType
<1> HIDE DEF y
<1>5. Releases(y, Maintain(y)) /\ Publish(r, v, z) = Maintain(y)
  BY <1>4, MaintainReleases DEF Publish, y, x, s
<1> QED BY <1>4, <1>5 DEF Releases

LEMMA UseStep ==
  ASSUME NEW r, NEW J, NEW d, NEW s, Sound(r, J, d, s),
         NEW t, NEW K, NEW e, NEW u, Sound(t, K, e, u),
         Turns(r, t), Newly(r, J, t, K)
  PROVE  UseKept(r, J, d, t, K, e)
<1>0. /\ r \in RingType /\ J \in SUBSET JobType /\ d \in DrawType
      /\ t \in RingType /\ K \in SUBSET JobType
      /\ Claimed(r, J) /\ Lent(r) /\ Claimed(t, K) /\ Lent(t)
      /\ Tidy(r) /\ Window(r) /\ Drawn(t, e)
  BY DEF Sound
<1>1. ASSUME NEW j \in K \ J, ~j.decoded
      PROVE  Readable(t, j.seq)
  <2>1. Claimable(r, j.seq) /\ Releases(r, t)
    BY <1>1 DEF Newly
  <2>2. Index(j.seq) \in Slots
    BY <1>0, IndexType DEF JobType
  <2>3. SlotOf(t, j.seq).seq = j.seq /\ r.mapped /\ t.mapped
    BY <1>0, <2>1, <2>2 DEF Claimable, Releases, SlotOf, Lent
  <2> QED BY <1>0, <2>3, JobsSlot DEF Readable
<1>2. ASSUME NEW j \in J \cap K, ~j.decoded, Readable(r, j.seq),
             ~(r.quiescing /\ ~NoClaims(r) /\ ~t.mapped)
      PROVE  Readable(t, j.seq) /\ SlotOf(t, j.seq).raw = SlotOf(r, j.seq).raw
  <2> DEFINE i == Index(j.seq)
  <2>1. /\ i \in Slots /\ SlotOf(r, j.seq) = r.slots[i] /\ SlotOf(t, j.seq) = t.slots[i]
        /\ r.slots[i].claims > 0 /\ r.slots[i].raw # NoBuf /\ r.slots[i].seq = j.seq
        /\ r.mapped
    BY <1>0, <1>2, JobsSlot DEF Readable, SlotOf
  <2> HIDE DEF i
  <2>2. ~NoClaims(r)
    BY <2>1 DEF NoClaims
  <2>a. ASSUME t.mapped, t.slots[i].seq = j.seq, t.slots[i].raw \in {r.slots[i].raw, NoBuf}
        PROVE  Readable(t, j.seq) /\ SlotOf(t, j.seq).raw = SlotOf(r, j.seq).raw
    BY <1>0, <2>1, <2>a, JobsSlot DEF Readable
  <2>3. CASE Releases(r, t)
    BY <2>1, <2>3, <2>a DEF Releases
  <2>4. ASSUME NEW v \in VBufs, NEW z \in Sizes, CanProduce(r), t = Publish(r, v, z)
        PROVE  Readable(t, j.seq) /\ SlotOf(t, j.seq).raw = SlotOf(r, j.seq).raw
    <3>1. t.mapped = r.mapped
      BY <1>0, <2>4, PublishFields
    <3>2. \/ Reusable(r.slots[i])
          \/ t.slots[i].seq = r.slots[i].seq /\ t.slots[i].raw \in {r.slots[i].raw, NoBuf}
      BY <1>0, <2>1, <2>4, PublishTidies
    <3> QED BY <2>1, <2>a, <3>1, <3>2 DEF Reusable
  <2>5. CASE t = [r EXCEPT !.quiescing = TRUE]
    <3>1. t.mapped = r.mapped /\ t.slots = r.slots
      BY <1>0, <2>5 DEF RingType
    <3> QED BY <2>1, <2>a, <3>1
  <2>6. t = StreamOff(r) => /\ ~(\A k \in Slots : r.slots[k].raw = NoBuf)
                            /\ ~r.quiescing
    <3>1. CASE t = StreamOff(r) /\ r.quiescing
      BY <1>0, <1>2, <2>2, <3>1 DEF StreamOff, RingType
    <3> QED BY <2>1, <3>1
  <2> QED BY <2>1, <2>2, <2>3, <2>4, <2>5, <2>6 DEF Turns
<1>3. ASSUME d # Idle, e = d, Renderable(r, d.seq), ~(r.quiescing /\ ~t.quiescing)
      PROVE  Renderable(t, d.seq)
  <2> DEFINE i == Index(d.seq)
  <2>1. /\ i \in Slots /\ SlotOf(r, d.seq) = r.slots[i] /\ SlotOf(t, d.seq) = t.slots[i]
        /\ r.slots[i].seq = d.seq /\ r.slots[i].rgb # NoBuf
    BY <1>0, <1>3, IndexType DEF Renderable, SlotOf, DrawType
  <2> HIDE DEF i
  <2>a. t.slots[i].seq = d.seq => Renderable(t, d.seq)
    BY <1>0, <1>3, <2>1 DEF Drawn
  <2>2. CASE Releases(r, t)
    BY <2>1, <2>2, <2>a DEF Releases
  <2>3. ASSUME NEW v \in VBufs, NEW z \in Sizes, CanProduce(r), t = Publish(r, v, z)
        PROVE  Renderable(t, d.seq)
    <3>1. Reusable(r.slots[i]) \/ t.slots[i].seq = r.slots[i].seq
      BY <1>0, <2>1, <2>3, PublishTidies
    <3> QED BY <2>1, <2>a, <3>1 DEF Reusable
  <2>4. CASE t = StreamOn(r) \/ t = StreamOff(r) \/ t = [r EXCEPT !.quiescing = TRUE]
    <3>1. t.slots = r.slots
      BY <1>0, <2>4 DEF StreamOn, StreamOff, RingType
    <3> QED BY <2>1, <2>a, <3>1
  <2>5. ~(t = ClearAll(r) /\ r.quiescing)
    BY <1>0, <1>3 DEF ClearAll, RingType
  <2> QED BY <2>2, <2>3, <2>4, <2>5 DEF Turns
<1> QED BY <1>1, <1>2, <1>3 DEF UseKept

\* A step of a caller turns the ring in one of these ways.
LEMMA StepTurns ==
  ASSUME FullInv, FullInv', [Next]_vars
  PROVE  Turns(ring, ring') /\ Newly(ring, jobs, ring', jobs')
<1>0. TypeOK /\ TypeOK' /\ Tidy(ring)
  BY DEF FullInv, RingInv
<1>1. Turns(ring, ring')
  <2>1. CASE Releases(ring, ring')
    BY <2>1 DEF Turns
  <2>2. CASE StartSession \/ QuiesceBegin
    BY <2>2 DEF StartSession, QuiesceBegin, Turns
  <2>3. CASE QuiesceWait \/ ForceClear
    BY <2>3 DEF QuiesceWait, ForceClear, Turns
  <2>4. CASE EndSession
    BY <2>4 DEF EndSession, Turns
  <2>5. ASSUME NEW v \in VBufs, NEW z \in Sizes, Capture(v, z)
        PROVE  Turns(ring, ring')
    <3>1. Maintain(ring) = ring
      BY <1>0, SettledIsMaintained DEF Tidy, TypeOK
    <3>2. ring' = IF CanProduce(ring) THEN Publish(ring, v, z) ELSE ring
      BY <2>5, <3>1 DEF Capture
    <3> QED BY <3>2 DEF Turns, Releases
  <2> QED BY <1>0, <2>1, <2>2, <2>3, <2>4, <2>5, StepKinds
<1>2. Newly(ring, jobs, ring', jobs')
  <2> SUFFICES ASSUME NEW j \in jobs' \ jobs, ~j.decoded
               PROVE  Claimable(ring, j.seq) /\ Releases(ring, ring')
    BY DEF Newly
  <2>1. PICK q \in 1 .. MaxSeq, b \in Bufs \cup {NoBuf} : ClaimFrame(q, b)
    <3>1. ASSUME NEW k \in jobs, DecodeOk(k)
          PROVE  FALSE
      BY <1>0, <3>1 DEF DecodeOk, TypeOK
    <3>2. jobs' # jobs
      OBVIOUS
    <3>3. ~(\E k \in jobs : DecodeFail(k) \/ WriteJob(k) \/ AbandonJob(k))
      BY DEF DecodeFail, WriteJob, AbandonJob
    <3> QED BY <3>1, <3>2, <3>3
        DEF Next, vars, StartSession, QuiesceBegin, QuiesceWait, EndSession, ForceClear,
            Capture, BeginRender, EndRender, EncodeTake, EncodeSkip, EncodeEnd, SetMode
  <2>2. j.seq = q /\ Claimable(ring, q)
    BY <2>1 DEF ClaimFrame
  <2>3. Releases(ring, ring')
    BY <1>0, <2>1, BoundAssumption, ClaimTakesReleases DEF ClaimFrame, TypeOK
  <2> QED BY <2>2, <2>3
<1> QED BY <1>1, <1>2

\* What is decoded or drawn on outside the lock stays, but for a restart, and for
\* the decoder but for one that has given up waiting for it.
THEOREM InUseCorrect == Spec => InUse
<1>1. FullInv /\ FullInv' /\ [Next]_vars => DecodeKept /\ DrawKept
  <2> SUFFICES ASSUME FullInv, FullInv', [Next]_vars
               PROVE  DecodeKept /\ DrawKept
    OBVIOUS
  <2>1. Sound(ring, jobs, drawing, stolen) /\ Sound(ring', jobs', drawing', stolen')
    BY FullIsSound, FullIsSoundNext
  <2>2. Turns(ring, ring') /\ Newly(ring, jobs, ring', jobs')
    BY StepTurns
  <2>3. UseKept(ring, jobs, drawing, ring', jobs', drawing')
    BY <2>1, <2>2, UseStep
  <2> QED BY <2>3, UseIsKept
<1> QED BY <1>1, FullCorrect, PTL DEF Spec, InUse

\* The release rules are exact: nothing stays that may go, and the capture
\* never waits for a buffer that everybody is done with.
THEOREM ReleasesExactCorrect == Spec => []ReleasesExact
<1>1. FullInv => ReleasesExact
  <2> SUFFICES ASSUME FullInv
               PROVE  Maintained /\ NewestKept /\ FullForAReason
    BY DEF ReleasesExact
  <2>0. ring \in RingType /\ Settled(ring) /\ Clean(ring) /\ NewestRaw(ring)
    BY DEF FullInv, HeldInv, RingInv, TypeOK, Tidy
  <2>1. Maintained
    BY <2>0, SettledIsMaintained DEF Maintained
  <2>2. ring.produce \in Nat /\ ring.produce + 1 \in Nat /\ ring.display \in Nat
    BY <2>0 DEF RingType
  <2>3. NewestKept
    <3>1. Index(ring.produce) \in Slots
      BY <2>2, IndexType
    <3> QED BY <2>0, <3>1 DEF NewestKept, NewestRaw, RawNewest, SlotOf
  <2>4. FullForAReason
    <3> DEFINE s == SlotOf(ring, ring.produce + 1)
    <3>1. /\ ~RawDone(ring, s) /\ ~RgbDone(ring, s) /\ ~Nv12Done(ring, s) /\ ~JpegDone(ring, s)
          /\ s.seq = 0 => Reusable(s)
          /\ s.rgb # NoBuf => s.rgbDone
          /\ s.claims \in Nat /\ s.seq \in Nat
      <4>1. Index(ring.produce + 1) \in Slots
        BY <2>2, IndexType
      <4> QED BY <2>0, <4>1 DEF Settled, Clean, SlotOf, RingType, SlotType
    <3> HIDE DEF s
    <3>2. \/ Reusable(s)
          \/ s.claims > 0
          \/ s.seq \in {ring.produce, ring.display}
          \/ s.raw  # NoBuf /\ IF ring.ai THEN ~s.inferDone ELSE ring.rec /\ ~s.encodeDone
          \/ s.rgb  # NoBuf /\ s.seq > ring.display
          \/ s.nv12 # NoBuf /\ ring.rec /\ ~s.encodeDone
      <4> SUFFICES ASSUME ~Reusable(s), s.claims = 0, s.seq # ring.produce, s.seq # ring.display
                   PROVE  \/ s.raw  # NoBuf /\ IF ring.ai THEN ~s.inferDone
                                                          ELSE ring.rec /\ ~s.encodeDone
                          \/ s.rgb  # NoBuf /\ s.seq > ring.display
                          \/ s.nv12 # NoBuf /\ ring.rec /\ ~s.encodeDone
        BY <3>1
      <4>1. CASE s.raw # NoBuf
        BY <3>1, <4>1 DEF RawDone
      <4>2. CASE s.rgb # NoBuf
        BY <2>2, <3>1, <4>2 DEF RgbDone
      <4>3. CASE s.nv12 # NoBuf
        BY <3>1, <4>3 DEF Nv12Done
      <4>4. CASE s.jpeg # NoBuf
        BY <3>1, <4>4 DEF JpegDone
      <4> QED BY <4>1, <4>2, <4>3, <4>4 DEF Reusable
    <3> QED BY <3>2 DEF FullForAReason, CanProduce, s
  <2> QED BY <2>1, <2>3, <2>4
<1> QED BY <1>1, FullCorrect, PTL

\* Frames only move on, and no picture is lost to the recorder.
THEOREM FramesMoveOnCorrect == Spec => FramesMoveOn
<1>1. FullInv /\ [Next]_vars => Forward /\ KeptForRecorder
  <2> SUFFICES ASSUME FullInv, [Next]_vars
               PROVE  Forward /\ KeptForRecorder
    OBVIOUS
  <2>0. /\ ring \in RingType /\ Tidy(ring) /\ Window(ring)
        /\ ring.produce \in Nat /\ ring.display \in Nat
        /\ \A i \in Slots : /\ ring.slots[i].seq \in Nat
                            /\ ring.slots[i].seq # ring.produce + 1
    BY DEF FullInv, HeldInv, RingInv, TypeOK, RingType, SlotType, Window
  <2>1. Moves
    BY StepMoves
  <2>2. CASE Advances(ring, ring')
    BY <2>0, <2>2 DEF Advances, Forward, KeptForRecorder
  <2>3. ASSUME NEW v \in VBufs, NEW z \in Sizes, CanProduce(ring), ring' = Publish(ring, v, z)
        PROVE  Forward /\ KeptForRecorder
    <3>1. /\ ring'.produce = ring.produce + 1 /\ ring'.display = ring.display
          /\ \A i \in Slots : LET s == ring.slots[i]  u == ring'.slots[i] IN
              \/ Reusable(s) /\ u.seq = ring.produce + 1
              \/ /\ u.seq = s.seq /\ u.raw \in {s.raw, NoBuf}
                 /\ u.inferDone = s.inferDone /\ u.rgbDone = s.rgbDone /\ u.nv12 = s.nv12
                 /\ u.displayDone = s.displayDone /\ u.encodeDone = s.encodeDone
      BY <2>0, <2>3, PublishTidies
    <3>2. Forward
      BY <2>0, <3>1 DEF Forward
    <3>3. KeptForRecorder
      BY <3>1 DEF KeptForRecorder, Reusable
    <3> QED BY <3>2, <3>3
  <2>4. CASE ring' = ClearAll(ring)
    <3>1. /\ ring'.produce = ring.produce /\ ring'.display = ring.display
          /\ \A i \in Slots : ring'.slots[i].seq = 0
      BY <2>0, <2>4, ClearAllTidies DEF EmptySlot
    <3> QED BY <2>0, <3>1 DEF Forward, KeptForRecorder
  <2> QED BY <2>1, <2>2, <2>3, <2>4 DEF Moves
<1> QED BY <1>1, FullCorrect, PTL DEF Spec, FramesMoveOn

-----------------------------------------------------------------------------
(* The contract's operators, by the names they have here *)

LEMMA SameRelease ==
  /\ \A r : Contract!Maintain(r) = Maintain(r)
  /\ \A r, q : Contract!SlotOf(r, q) = SlotOf(r, q)
  /\ \A r, i, s : Contract!WithSlot(r, i, s) = WithSlot(r, i, s)
  /\ \A q : Contract!Index(q) = Index(q)
  /\ Contract!Slots = Slots /\ Contract!Kinds = Kinds /\ Contract!EmptySlot = EmptySlot
  BY DEF Contract!Maintain, Contract!Kept, Contract!Requeued, Contract!StageDone,
         Contract!RawDone, Contract!RgbDone, Contract!Nv12Done, Contract!JpegDone,
         Contract!SlotOf, Contract!Index, Contract!WithSlot, Contract!Slots, Contract!Kinds,
         Contract!EmptySlot,
         Maintain, Kept, Requeued, StageDone, RawDone, RgbDone, Nv12Done, JpegDone,
         SlotOf, Index, WithSlot, Slots, Kinds, EmptySlot

LEMMA SamePools ==
  /\ \A r, k, b : Contract!Put(r, k, b) = Put(r, k, b)
  /\ \A r, k, b : Contract!Take(r, k, b) = Take(r, k, b)
  BY DEF Contract!Put, Contract!Take, Put, Take

LEMMA SameCapture ==
  /\ \A r : Contract!CanProduce(r) <=> CanProduce(r)
  /\ \A r, v, z : Contract!Publish(r, v, z) = Publish(r, v, z)
  BY SameRelease, Zenon
     DEF Contract!CanProduce, Contract!Reusable, Contract!Publish, CanProduce, Reusable, Publish

LEMMA SameInfer ==
  /\ \A r, q : Contract!Claimable(r, q) <=> Claimable(r, q)
  /\ \A r, q : Contract!Claim(r, q) = Claim(r, q)
  /\ \A r, i : Contract!Unclaim(r, i) = Unclaim(r, i)
  /\ \A r, q : Contract!OwnsSlot(r, q) <=> OwnsSlot(r, q)
  BY SameRelease, Zenon
     DEF Contract!Claimable, Contract!Claim, Contract!Unclaim, Contract!Unclaimed,
         Contract!OwnsSlot, Claimable, Claim, Unclaim, Unclaimed, OwnsSlot

LEMMA SameJobEnds ==
  /\ \A r, q, b : Contract!DecodeFailed(r, q, b) = DecodeFailed(r, q, b)
  /\ \A r, q, b : Contract!Abandon(r, q, b) = Abandon(r, q, b)
  /\ \A r, q, b : Contract!WriteRgb(r, q, b) = WriteRgb(r, q, b)
  BY SameRelease, SamePools, SameInfer, Zenon
     DEF Contract!DecodeFailed, Contract!Abandon, Contract!WriteRgb,
         DecodeFailed, Abandon, WriteRgb

LEMMA SameDisplay ==
  /\ \A r, q : Contract!Renderable(r, q) <=> Renderable(r, q)
  /\ \A r, i : Contract!DisplayCommit(r, i) = DisplayCommit(r, i)
  /\ \A r, q, nb, jb, ok : Contract!Rendered(r, q, nb, jb, ok) = Rendered(r, q, nb, jb, ok)
<1>1. /\ \A r, q : Contract!Renderable(r, q) <=> Renderable(r, q)
      /\ \A r, i : Contract!DisplayCommit(r, i) = DisplayCommit(r, i)
  BY SameRelease, Zenon
     DEF Contract!Renderable, Contract!DisplayCommit, Renderable, DisplayCommit
<1>2. \A r, q, nb, jb, ok : Contract!Rendered(r, q, nb, jb, ok) = Rendered(r, q, nb, jb, ok)
  <2> TAKE r, q, nb, jb, ok
  <2> DEFINE s == [SlotOf(r, q) EXCEPT !.nv12 = nb, !.jpeg = jb]
             x == Put(Put(r, "nv12", nb), "jpeg", jb)
  <2>1. /\ Contract!SlotOf(r, q) = SlotOf(r, q) /\ Contract!Index(q) = Index(q)
        /\ Contract!WithSlot(r, Index(q), s) = WithSlot(r, Index(q), s)
    BY SameRelease
  <2>2. Contract!Put(Contract!Put(r, "nv12", nb), "jpeg", jb) = x
    BY SamePools
  <2>3. /\ Contract!Rendered(r, q, nb, jb, ok) =
             IF Renderable(r, q) /\ ok
             THEN DisplayCommit(WithSlot(r, Index(q), s), Index(q))
             ELSE IF Renderable(r, q) THEN DisplayCommit(x, Index(q)) ELSE x
    BY <1>1, <2>1, <2>2, Zenon DEF Contract!Rendered
  <2>4. /\ Rendered(r, q, nb, jb, ok) =
             IF Renderable(r, q) /\ ok
             THEN DisplayCommit(WithSlot(r, Index(q), s), Index(q))
             ELSE IF Renderable(r, q) THEN DisplayCommit(x, Index(q)) ELSE x
    BY Zenon DEF Rendered
  <2> HIDE DEF s, x
  <2> QED BY <2>3, <2>4
<1> QED BY <1>1, <1>2

LEMMA SameEncode ==
  /\ \A r, q : Contract!EncodePick(r, q) = EncodePick(r, q)
  /\ \A r, q : Contract!MarkConsumed(r, q) = MarkConsumed(r, q)
  /\ \A r, i : Contract!Steal(r, i) = Steal(r, i)
<1>1. \A r, q : Contract!EncodePick(r, q) = EncodePick(r, q)
  BY DEF Contract!EncodePick, Contract!Encodable, Contract!Slots, EncodePick, Encodable, Slots
<1>2. \A r, q : Contract!MarkConsumed(r, q) = MarkConsumed(r, q)
  BY SameRelease, Zenon DEF Contract!MarkConsumed, MarkConsumed
<1>3. \A r, i : Contract!Steal(r, i) = Steal(r, i)
  BY <1>2, SameRelease, Zenon DEF Contract!Steal, Steal
<1> QED BY <1>1, <1>2, <1>3

LEMMA SameModes ==
  /\ \A r, on : Contract!SetAi(r, on) = SetAi(r, on)
  /\ \A r, on : Contract!SetRec(r, on) = SetRec(r, on)
  /\ \A r : Contract!NoClaims(r) <=> NoClaims(r)
  /\ \A r : Contract!ClearAll(r) = ClearAll(r)
  /\ \A r : Contract!StreamOn(r) = StreamOn(r)
  /\ \A r : Contract!StreamOff(r) = StreamOff(r)
  BY SameRelease, Zenon
     DEF Contract!SetAi, Contract!SetRec, Contract!NoClaims, Contract!ClearAll,
         Contract!StreamOn, Contract!StreamOff,
         SetAi, SetRec, NoClaims, ClearAll, StreamOn, StreamOff

LEMMA SameHeld ==
  /\ \A k : Contract!Held(k) = HeldBy(Jobs, Drawing, rec.nv12, k)
  /\ \A k : Contract!InSlots(k) = {b \in Bufs : \E i \in Slots : ring.slots[i][k] = b}
  /\ Contract!Idle = Idle
  BY DEF Contract!Held, HeldBy, Contract!InSlots, Contract!Slots, Slots, Contract!Idle, Idle

\* A step that the contract allows keeps the invariant of the ring.
LEMMA ContractStep ==
  Sound(ring, Jobs, Drawing, rec.nv12) /\ [Contract!Next]_Contract!vars
    => Sound(ring', Jobs', Drawing', rec'.nv12)
<1> SUFFICES ASSUME Sound(ring, Jobs, Drawing, rec.nv12), [Contract!Next]_Contract!vars
             PROVE  Sound(ring', Jobs', Drawing', rec'.nv12)
  OBVIOUS
<1>0. /\ ring \in RingType /\ Jobs \in SUBSET JobType /\ Drawing.seq \in Nat
      /\ rec.nv12 \in Bufs \cup {NoBuf} /\ Tidy(ring)
  BY DEF Sound, DrawType
<1>a. ASSUME NEW k \in Kinds, NEW b \in Contract!Obtainable(k), b # NoBuf
      PROVE  \/ b \in ring.pools[k]
             \/ /\ b \notin HeldBy(Jobs, Drawing, rec.nv12, k)
                /\ \A i \in Slots : ring.slots[i][k] # b
  BY <1>a, SameHeld DEF Contract!Obtainable
<1>1. CASE Contract!StartSession
  BY <1>1, SoundStream, SameModes DEF Contract!StartSession
<1>2. CASE Contract!QuiesceBegin
  BY <1>2, SoundStream DEF Contract!QuiesceBegin
<1>3. CASE Contract!EndSession
  BY <1>3, SoundStream, SameModes, SameRelease DEF Contract!EndSession
<1>4. CASE Contract!QuiesceWait \/ Contract!ForceClear
  BY <1>4, SoundClear, SameModes DEF Contract!QuiesceWait, Contract!ForceClear
<1>5. ASSUME NEW v \in VBufs, NEW z \in Sizes, Contract!Capture(v, z)
      PROVE  Sound(ring', Jobs', Drawing', rec'.nv12)
  <2>1. Maintain(ring) = ring
    BY <1>0, SettledIsMaintained DEF Tidy
  <2>2. /\ Jobs' = Jobs /\ Drawing' = Drawing /\ rec'.nv12 = rec.nv12
        /\ ring.mapped /\ v \in ring.queued
        /\ ring' = IF CanProduce(ring) THEN Publish(ring, v, z) ELSE ring
    BY <1>5, <2>1, SameRelease, SameCapture DEF Contract!Capture
  <2>3. CASE CanProduce(ring)
    BY <2>2, <2>3, SoundPublish
  <2>4. CASE ~CanProduce(ring)
    BY <2>2, <2>4
  <2> QED BY <2>3, <2>4
<1>6. ASSUME NEW q \in 1 .. MaxSeq, NEW b \in Bufs \cup {NoBuf}, Contract!ClaimFrame(q, b)
      PROVE  Sound(ring', Jobs', Drawing', rec'.nv12)
  <2>1. q \in Nat /\ Claimable(ring, q) /\ \A j \in Jobs : j.decoded
    BY <1>6, BoundAssumption, SameInfer DEF Contract!ClaimFrame
  <2>2. b # NoBuf => \/ b \in ring.pools["rgb"]
                     \/ /\ b \notin HeldBy(Jobs, Drawing, rec.nv12, "rgb")
                        /\ \A i \in Slots : ring.slots[i].rgb # b
    BY <1>6, <1>a, KindsAre DEF Contract!ClaimFrame
  <2>3. /\ ring' = Take(Claim(ring, q), "rgb", b)
        /\ Jobs' = Jobs \cup {[seq |-> q, rgb |-> b, decoded |-> FALSE]}
        /\ Drawing' = Drawing /\ rec'.nv12 = rec.nv12
    BY <1>6, SameInfer, SamePools DEF Contract!ClaimFrame
  <2> QED BY <2>1, <2>2, <2>3, SoundClaim
<1>7. ASSUME NEW j \in Jobs, Contract!DecodeOk(j)
      PROVE  Sound(ring', Jobs', Drawing', rec'.nv12)
  BY <1>7, SoundDecode DEF Contract!DecodeOk
<1>8. ASSUME NEW j \in Jobs,
             Contract!DecodeFail(j) \/ Contract!WriteJob(j) \/ Contract!AbandonJob(j)
      PROVE  Sound(ring', Jobs', Drawing', rec'.nv12)
  <2>1. /\ Ended(ring, j, ring')
        /\ Jobs' = Jobs \ {j} /\ Drawing' = Drawing /\ rec'.nv12 = rec.nv12
    BY <1>8, SameJobEnds
       DEF Contract!DecodeFail, Contract!WriteJob, Contract!AbandonJob, Ended
  <2> QED BY <2>1, SoundJobEnd
<1>9. ASSUME NEW q \in 1 .. MaxSeq, NEW nb \in Bufs \cup {NoBuf},
             NEW jb \in Bufs \cup {NoBuf}, Contract!BeginRender(q, nb, jb)
      PROVE  Sound(ring', Jobs', Drawing', rec'.nv12)
  <2>1. /\ q \in Nat /\ q > ring.display /\ Renderable(ring, q)
        /\ Drawing = Idle /\ Sound(ring, Jobs, Idle, rec.nv12)
        /\ nb \in Contract!Obtainable("nv12") /\ jb \in Contract!Obtainable("jpeg")
    BY <1>9, BoundAssumption, SameDisplay, SameHeld DEF Contract!BeginRender
  <2>2. /\ nb # NoBuf => \/ nb \in ring.pools["nv12"]
                         \/ /\ nb \notin HeldBy(Jobs, Idle, rec.nv12, "nv12")
                            /\ \A i \in Slots : ring.slots[i].nv12 # nb
        /\ jb # NoBuf => \/ jb \in ring.pools["jpeg"]
                         \/ /\ jb \notin HeldBy(Jobs, Idle, rec.nv12, "jpeg")
                            /\ \A i \in Slots : ring.slots[i].jpeg # jb
    BY <1>a, <2>1, KindsAre
  <2>3. /\ ring' = Take(Take(ring, "nv12", nb), "jpeg", jb)
        /\ Drawing' = [seq |-> q, nv12 |-> nb, jpeg |-> jb]
        /\ Jobs' = Jobs /\ rec'.nv12 = rec.nv12
    BY <1>9, SamePools DEF Contract!BeginRender
  <2> QED BY <2>1, <2>2, <2>3, SoundBegin
<1>10. ASSUME NEW ok \in BOOLEAN, Contract!EndRender(ok)
       PROVE  Sound(ring', Jobs', Drawing', rec'.nv12)
  BY <1>10, SoundRendered, SameDisplay, SameHeld DEF Contract!EndRender
<1>11. CASE Contract!EncodeTake \/ Contract!EncodeSkip
  <2>1. \A i \in EncodePick(ring, 0) : /\ i \in Slots /\ ring.slots[i].seq \in Nat
                                       /\ ring.slots[i].seq # 0 /\ ring.slots[i].nv12 # NoBuf
    BY <1>0 DEF EncodePick, Encodable, RingType, SlotType
  <2>2. CASE Contract!EncodeTake
    BY <2>1, <2>2, SoundSteal, SameEncode DEF Contract!EncodeTake
  <2>3. CASE Contract!EncodeSkip
    BY <2>1, <2>3, SoundSkip, SameEncode DEF Contract!EncodeSkip
  <2> QED BY <1>11, <2>2, <2>3
<1>12. CASE Contract!EncodeEnd
  BY <1>12, SoundPut, SamePools DEF Contract!EncodeEnd
<1>13. ASSUME NEW aiOn \in BOOLEAN, NEW recOn \in BOOLEAN, Contract!SetMode(aiOn, recOn)
       PROVE  Sound(ring', Jobs', Drawing', rec'.nv12)
  BY <1>13, SoundMode, SameModes DEF Contract!SetMode
<1>14. CASE UNCHANGED Contract!vars
  BY <1>14 DEF Contract!vars
<1> QED BY <1>1, <1>2, <1>3, <1>4, <1>5, <1>6, <1>7, <1>8, <1>9, <1>10, <1>11, <1>12,
           <1>13, <1>14 DEF Contract!Next

-----------------------------------------------------------------------------
(* The threads' hands *)

Buf == Bufs \cup {NoBuf}
TaskType == [seq : Nat, rgb : Buf]

PipeTypeOK ==
  /\ ring.produce <= MaxSeq
  /\ cam \in [pc : {"init", "loop", "wait", "unmap", "retry"}, sessions : Nat]
  /\ ai \in [pc : {"idle", "claim", "decode", "push", "store"}, last : Nat, seq : Nat, rgb : Buf]
  /\ jobq \in Seq(TaskType) /\ Len(jobq) <= QueueCap
  /\ IsFiniteSet(lost) /\ lost \in SUBSET TaskType
  /\ wk \in [Workers -> [pc : {"gone", "pop", "infer", "write", "result"}, seq : Nat, rgb : Buf]]
  /\ results \in Seq(Nat)
  /\ comp \in [pc : {"gone", "pop", "drain", "pick", "draw"}, item : Nat, next : Nat,
               nv12 : Buf, jpeg : Buf]
  /\ rec \in [on : BOOLEAN, last : Nat, nv12 : Buf, segments : Nat]
  /\ pool \in [running : BOOLEAN, enabled : BOOLEAN, reloads : Nat,
               pc : {"up", "mode", "join", "purge", "reset", "down", "start"}]

\* Where the camera task stands in a session, and what the ring knows of it.
CamPlace ==
  /\ ring.mapped <=> cam.pc \in {"loop", "wait", "unmap"}
  /\ ring.quiescing <=> cam.pc \in {"wait", "retry"}
  /\ cam.pc = "unmap" => \A i \in Slots : ring.slots[i].raw = NoBuf

\* The threads of a pool that was stopped are gone before its jobs are purged.
PoolPlace ==
  /\ pool.running <=> pool.pc \in {"start", "up"}
  /\ pool.pc \in {"purge", "reset", "down"} =>
       comp.pc = "gone" /\ \A w \in Workers : wk[w].pc = "gone"

\* A push that has looked at the pool finds room for its job.  It may store it
\* between the purge and the reset, and there is one such push: no stop of the pool
\* loses more than one job.
LostPlace ==
  /\ pool.reloads <= MaxReloads /\ Cardinality(lost) <= pool.reloads
  /\ pool.pc \in {"mode", "join", "purge", "reset"} => Cardinality(lost) < pool.reloads
  /\ pool.pc = "reset" => Len(jobq) <= 1 /\ (ai.pc = "store" => jobq = <<>>)
  /\ ai.pc = "store" => Len(jobq) < QueueCap

\* The composer only moves on.
CompPlace ==
  /\ ring.display <= comp.next
  /\ comp.pc = "pick" => comp.next < comp.item
  /\ comp.pc = "draw" => comp.item = comp.next /\ comp.item # 0

Holds(t) == t.pc \in {"infer", "write"}

\* No two jobs have the same picture.
Apart(a, q, f) ==
  /\ \A i, j \in 1 .. Len(q) : q[i].rgb = q[j].rgb => i = j
  /\ \A i \in 1 .. Len(q), w \in Workers : Holds(f[w]) => q[i].rgb # f[w].rgb
  /\ \A v, w \in Workers : Holds(f[v]) /\ Holds(f[w]) /\ f[v].rgb = f[w].rgb => v = w
  /\ a.pc \in {"push", "store"} =>
       /\ \A i \in 1 .. Len(q) : q[i].rgb # a.rgb
       /\ \A w \in Workers : Holds(f[w]) => f[w].rgb # a.rgb

\* Nor has a lost job the picture of one that somebody will end.
Adrift(a, q, f, L) ==
  \A j \in L :
    /\ \A i \in 1 .. Len(q) : q[i].rgb # j.rgb
    /\ \A w \in Workers : Holds(f[w]) => f[w].rgb # j.rgb
    /\ a.pc \in {"push", "store"} => a.rgb # j.rgb

PipeInv ==
  /\ PipeTypeOK /\ CamPlace /\ PoolPlace /\ LostPlace /\ CompPlace
  /\ Apart(ai, jobq, wk) /\ Adrift(ai, jobq, wk, lost)
  /\ Sound(ring, Jobs, Drawing, rec.nv12)

Queued(q) == {Decoded(q[i]) : i \in 1 .. Len(q)}
Strayed(L) == {Decoded(j) : j \in L}
Working(f) == {Decoded(f[w]) : w \in {v \in Workers : Holds(f[v])}}
Decoding(a) == [seq |-> a.seq, rgb |-> a.rgb, decoded |-> a.pc \in {"push", "store"}]
InHand(a) == IF a.pc \in {"decode", "push", "store"} THEN {Decoding(a)} ELSE {}

LEMMA JobsAre == Jobs = Queued(jobq) \cup Strayed(lost) \cup Working(wk) \cup InHand(ai)
<1>1. {[seq |-> ai.seq, rgb |-> ai.rgb, decoded |-> ai.pc \in {"push", "store"}] :
         p \in {ai.pc} \cap {"decode", "push", "store"}} = InHand(ai)
  BY DEF InHand, Decoding
<1> QED BY <1>1 DEF Jobs, Queued, Strayed, Working, Holds

LEMMA JobsAreNext ==
  Jobs' = Queued(jobq') \cup Strayed(lost') \cup Working(wk') \cup InHand(ai')
<1>1. {[seq |-> ai'.seq, rgb |-> ai'.rgb, decoded |-> ai'.pc \in {"push", "store"}] :
         p \in {ai'.pc} \cap {"decode", "push", "store"}} = InHand(ai')
  BY DEF InHand, Decoding
<1> QED BY <1>1 DEF Jobs, Queued, Strayed, Working, Holds

LEMMA DecodedFields ==
  \A t : /\ Decoded(t).seq = t.seq /\ Decoded(t).rgb = t.rgb /\ Decoded(t).decoded
         /\ Decoded(Job(t)) = Decoded(t)
  BY DEF Decoded, Job

\* Whether the frame in the AI task's hand is decoded shows in where the task stands.
LEMMA InHandIs ==
  ASSUME NEW a
  PROVE  /\ a.pc = "decode" => InHand(a) = {[seq |-> a.seq, rgb |-> a.rgb, decoded |-> FALSE]}
         /\ a.pc \in {"push", "store"} =>
              InHand(a) = {[seq |-> a.seq, rgb |-> a.rgb, decoded |-> TRUE]}
         /\ a.pc \notin {"decode", "push", "store"} => InHand(a) = {}
<1>1. ASSUME a.pc = "decode"
      PROVE  InHand(a) = {[seq |-> a.seq, rgb |-> a.rgb, decoded |-> FALSE]}
  <2>1. (a.pc \in {"push", "store"}) = FALSE
    BY <1>1
  <2> QED BY <1>1, <2>1, Zenon DEF InHand, Decoding
<1>2. ASSUME a.pc \in {"push", "store"}
      PROVE  InHand(a) = {[seq |-> a.seq, rgb |-> a.rgb, decoded |-> TRUE]}
  <2>1. (a.pc \in {"push", "store"}) = TRUE /\ a.pc \in {"decode", "push", "store"}
    BY <1>2
  <2> QED BY <2>1, Zenon DEF InHand, Decoding
<1> QED BY <1>1, <1>2 DEF InHand

\* A task's queue grows at its end and shrinks at its head.
LEMMA QueuedAppend ==
  ASSUME NEW q \in Seq(TaskType), NEW t \in TaskType
  PROVE  /\ Append(q, t) \in Seq(TaskType) /\ Len(Append(q, t)) = Len(q) + 1
         /\ \A i \in 1 .. Len(q) : Append(q, t)[i] = q[i]
         /\ Append(q, t)[Len(q) + 1] = t
         /\ Queued(Append(q, t)) = Queued(q) \cup {Decoded(t)}
<1> DEFINE p == Append(q, t)
<1>1. /\ p \in Seq(TaskType) /\ Len(p) = Len(q) + 1 /\ Len(q) \in Nat
      /\ \A i \in 1 .. Len(q) : p[i] = q[i]
      /\ p[Len(q) + 1] = t
  BY LenProperties
<1> HIDE DEF p
<1>2. \A i \in 1 .. Len(p) : i \in 1 .. Len(q) \/ i = Len(q) + 1
  BY <1>1
<1>3. Len(q) + 1 \in 1 .. Len(p) /\ \A i \in 1 .. Len(q) : i \in 1 .. Len(p)
  BY <1>1
<1>4. Queued(p) = Queued(q) \cup {Decoded(t)}
  BY <1>1, <1>2, <1>3 DEF Queued
<1> QED BY <1>1, <1>4 DEF p

LEMMA QueuedTail ==
  ASSUME NEW q \in Seq(TaskType), q # <<>>
  PROVE  /\ Tail(q) \in Seq(TaskType) /\ Len(q) \in Nat \ {0} /\ Len(Tail(q)) = Len(q) - 1
         /\ \A i \in 1 .. Len(Tail(q)) : Tail(q)[i] = q[i + 1] /\ i + 1 \in 1 .. Len(q)
         /\ Head(q) = q[1] /\ Head(q) \in TaskType
         /\ Queued(q) = Queued(Tail(q)) \cup {Decoded(Head(q))}
<1> DEFINE p == Tail(q)
<1>1. /\ p \in Seq(TaskType) /\ Len(q) \in Nat \ {0} /\ Len(p) = Len(q) - 1
      /\ \A i \in 1 .. Len(p) : p[i] = q[i + 1]
      /\ Head(q) \in TaskType
  BY HeadTailProperties, EmptySeq
<1>2. Head(q) = q[1]
  BY <1>1
<1> HIDE DEF p
<1>3. \A i \in 1 .. Len(q) : i = 1 \/ (i - 1 \in 1 .. Len(p) /\ p[i - 1] = q[i])
  BY <1>1
<1>4. 1 \in 1 .. Len(q) /\ \A i \in 1 .. Len(p) : i + 1 \in 1 .. Len(q)
  BY <1>1
<1>5. Queued(q) = Queued(p) \cup {Decoded(Head(q))}
  BY <1>1, <1>2, <1>3, <1>4 DEF Queued
<1> QED BY <1>1, <1>2, <1>4, <1>5 DEF p

\* The jobs that nobody will end are no more than the stops of the pool.
LEMMA FewLost ==
  ASSUME PipeInv
  PROVE  /\ IsFiniteSet(Strayed(lost)) /\ Cardinality(Strayed(lost)) \in Nat
         /\ Cardinality(Strayed(lost)) <= MaxReloads
<1> DEFINE S == Strayed(lost)
           f == [j \in lost |-> Decoded(j)]
<1>1. /\ IsFiniteSet(lost) /\ Cardinality(lost) \in Nat
      /\ pool.reloads \in Nat /\ pool.reloads <= MaxReloads /\ MaxReloads \in Nat
      /\ Cardinality(lost) <= pool.reloads
  BY PipelineAssumption, FS_CardinalityType DEF PipeInv, PipeTypeOK, LostPlace
<1>2. f \in Surjection(lost, S)
  BY DEF Surjection, Strayed
<1>3. IsFiniteSet(S) /\ Cardinality(S) <= Cardinality(lost)
  BY <1>1, <1>2, FS_Surjection
<1> HIDE DEF S
<1>4. Cardinality(S) \in Nat
  BY <1>3, FS_CardinalityType
<1> QED BY <1>1, <1>3, <1>4 DEF S

\* What two sets hold together is no more than what each holds.
LEMMA UnionRoom ==
  ASSUME NEW Q, NEW W, IsFiniteSet(Q), IsFiniteSet(W)
  PROVE  /\ IsFiniteSet(Q \cup W) /\ Cardinality(Q \cup W) \in Nat
         /\ Cardinality(Q \cup W) <= Cardinality(Q) + Cardinality(W)
<1>1. IsFiniteSet(Q \cap W)
  BY FS_Subset
<1>2. Cardinality(Q \cap W) \in Nat /\ Cardinality(Q) \in Nat /\ Cardinality(W) \in Nat
  BY <1>1, FS_CardinalityType
<1>3. /\ IsFiniteSet(Q \cup W)
      /\ Cardinality(Q \cup W) = Cardinality(Q) + Cardinality(W) - Cardinality(Q \cap W)
  BY FS_Union
<1>4. Cardinality(Q \cup W) \in Nat
  BY <1>3, FS_CardinalityType
<1> QED BY <1>2, <1>3, <1>4

\* There is room for one more claim: each of the others is a job in the queue, in a
\* worker's hands, or lost.
LEMMA ClaimRoom ==
  ASSUME PipeInv, ai.pc = "claim", NEW q \in Nat
  PROVE  SlotOf(ring, q).claims < Cardinality(Workers) + QueueCap + 1 + MaxReloads
<1> DEFINE i == Index(q)
           s == ring.slots[i]
           Q == Queued(jobq)
           W == Working(wk)
           L == Strayed(lost)
           f == [n \in 1 .. Len(jobq) |-> Decoded(jobq[n])]
           H == {w \in Workers : Holds(wk[w])}
           g == [w \in H |-> Decoded(wk[w])]
<1>1. /\ jobq \in Seq(TaskType) /\ Len(jobq) \in Nat /\ Len(jobq) <= QueueCap /\ QueueCap \in Nat
      /\ IsFiniteSet(Workers) /\ Cardinality(Workers) \in Nat /\ i \in Slots
      /\ Claimed(ring, Jobs) /\ MaxReloads \in Nat
  BY LenProperties, IndexType, PipelineAssumption, FS_CardinalityType
     DEF PipeInv, PipeTypeOK, Sound
<1>2. Jobs = (Q \cup W) \cup L
  BY JobsAre DEF InHand
<1>3. IsFiniteSet(Q) /\ Cardinality(Q) \in Nat /\ Cardinality(Q) <= Len(jobq)
  <2>1. f \in Surjection(1 .. Len(jobq), Q)
    BY DEF Surjection, Queued
  <2>2. IsFiniteSet(1 .. Len(jobq)) /\ Cardinality(1 .. Len(jobq)) = Len(jobq)
    <3>1. 1 \in Int /\ Len(jobq) \in Int /\ (1 > Len(jobq) => Len(jobq) = 0)
      BY <1>1
    <3>2. /\ IsFiniteSet(1 .. Len(jobq))
          /\ Cardinality(1 .. Len(jobq)) = IF 1 > Len(jobq) THEN 0 ELSE Len(jobq) - 1 + 1
      BY <3>1, FS_Interval
    <3> QED BY <1>1, <3>1, <3>2
  <2> QED BY <2>1, <2>2, FS_Surjection, FS_CardinalityType
<1>4. IsFiniteSet(W) /\ Cardinality(W) \in Nat /\ Cardinality(W) <= Cardinality(Workers)
  <2>1. g \in Surjection(H, W)
    BY DEF Surjection, Working
  <2>2. IsFiniteSet(H) /\ Cardinality(H) \in Nat /\ Cardinality(H) <= Cardinality(Workers)
    BY <1>1, FS_Subset, FS_CardinalityType
  <2>3. IsFiniteSet(W) /\ Cardinality(W) <= Cardinality(H)
    BY <2>1, <2>2, FS_Surjection
  <2> HIDE DEF W, H
  <2> QED BY <1>1, <2>2, <2>3, FS_CardinalityType
<1>5. IsFiniteSet(L) /\ Cardinality(L) \in Nat /\ Cardinality(L) <= MaxReloads
  BY FewLost
<1> HIDE DEF Q, W, L
<1>6. /\ IsFiniteSet(Q \cup W) /\ Cardinality(Q \cup W) \in Nat
      /\ Cardinality(Q \cup W) <= Cardinality(Q) + Cardinality(W)
  BY <1>3, <1>4, UnionRoom
<1>7. /\ IsFiniteSet(Jobs) /\ Cardinality(Jobs) \in Nat
      /\ Cardinality(Jobs) <= Cardinality(Q \cup W) + Cardinality(L)
  BY <1>2, <1>5, <1>6, UnionRoom
<1>8. JobsOf(Jobs, s.seq) \in SUBSET Jobs
  BY DEF JobsOf
<1>9. /\ Cardinality(JobsOf(Jobs, s.seq)) \in Nat
      /\ Cardinality(JobsOf(Jobs, s.seq)) <= Cardinality(Jobs)
  BY <1>7, <1>8, FS_Subset, FS_CardinalityType
<1>10. s.claims = IF s.seq = 0 THEN 0 ELSE Cardinality(JobsOf(Jobs, s.seq))
  BY <1>1 DEF Claimed
<1> QED BY <1>1, <1>3, <1>4, <1>5, <1>6, <1>7, <1>9, <1>10 DEF SlotOf

-----------------------------------------------------------------------------
(* Each step of a thread is one that the contract allows, or none *)

LEMMA HandsKept ==
  /\ UNCHANGED <<ai, jobq, lost, wk>> => Jobs' = Jobs
  /\ UNCHANGED comp => Drawing' = Drawing
  BY DEF Jobs, Drawing

LEMMA CamRefines ==
  ASSUME PipeInv, CamStep
  PROVE  Contract!Next
<1>1. UNCHANGED <<ai, jobq, lost, wk, comp, rec>>
  BY DEF CamStep, CamInit, CamSessionEnd, CamCapture, CamQuiesced, CamTimeout, CamUnmap, CamRetry
<1>2. Jobs' = Jobs /\ Drawing' = Drawing /\ rec'.nv12 = rec.nv12
  BY <1>1, HandsKept
<1>3. /\ ring.mapped <=> cam.pc \in {"loop", "wait", "unmap"}
      /\ ring.quiescing <=> cam.pc \in {"wait", "retry"}
      /\ cam.pc = "unmap" => \A i \in Slots : ring.slots[i].raw = NoBuf
  BY DEF PipeInv, CamPlace
<1>4. CASE CamInit
  <2>1. Contract!StartSession
    BY <1>2, <1>3, <1>4, SameModes DEF CamInit, Contract!StartSession
  <2> QED BY <2>1 DEF Contract!Next
<1>5. ASSUME NEW v \in VBufs, NEW z \in Sizes, CamCapture(v, z)
      PROVE  Contract!Next
  <2>1. Contract!Capture(v, z)
    BY <1>2, <1>3, <1>5, SameRelease, SameCapture DEF CamCapture, Contract!Capture
  <2> QED BY <2>1 DEF Contract!Next
<1>6. CASE CamSessionEnd
  <2>1. Contract!QuiesceBegin
    BY <1>2, <1>3, <1>6 DEF CamSessionEnd, Contract!QuiesceBegin
  <2> QED BY <2>1 DEF Contract!Next
<1>7. CASE CamQuiesced
  <2>1. Contract!QuiesceWait
    BY <1>2, <1>3, <1>7, SameModes DEF CamQuiesced, Contract!QuiesceWait
  <2> QED BY <2>1 DEF Contract!Next
<1>8. CASE CamTimeout \/ CamUnmap
  <2>1. Contract!EndSession
    BY <1>2, <1>3, <1>8, SameModes, SameRelease DEF CamTimeout, CamUnmap, Contract!EndSession
  <2> QED BY <2>1 DEF Contract!Next
<1>9. CASE CamRetry
  <2>1. Contract!ForceClear
    BY <1>2, <1>3, <1>9, SameModes DEF CamRetry, Contract!ForceClear
  <2> QED BY <2>1 DEF Contract!Next
<1> QED BY <1>4, <1>5, <1>6, <1>7, <1>8, <1>9 DEF CamStep

\* The frame the AI task decodes is the only one whose job is not decoded.
LEMMA OthersDecoded ==
  /\ \A j \in Queued(jobq) \cup Strayed(lost) \cup Working(wk) : j.decoded
  /\ ai.pc \notin {"decode", "push", "store"} => \A j \in Jobs : j.decoded
<1>1. \A j \in Queued(jobq) \cup Strayed(lost) \cup Working(wk) : j.decoded
  BY DecodedFields DEF Queued, Strayed, Working
<1> QED BY <1>1, JobsAre DEF InHand

LEMMA DecodingDone ==
  ASSUME NEW q, NEW b, NEW j \in [seq : {q}, rgb : {b}, decoded : BOOLEAN]
  PROVE  [j EXCEPT !.decoded = TRUE] = [seq |-> q, rgb |-> b, decoded |-> TRUE]
<1> DEFINE e == [j EXCEPT !.decoded = TRUE]
<1>1. e \in [seq : {q}, rgb : {b}, decoded : {TRUE}]
  OBVIOUS
<1> HIDE DEF e
<1>2. e = [seq |-> q, rgb |-> b, decoded |-> TRUE]
  BY <1>1
<1> QED BY <1>2 DEF e

LEMMA AiRefines ==
  ASSUME PipeInv, AiStep
  PROVE  Contract!Next \/ UNCHANGED Contract!vars
<1>1. UNCHANGED <<lost, wk, comp, rec>>
  BY DEF AiStep, AiSee, AiClaimNone, AiDecodeOk, AiDecodeFail, AiLook, AiPush, AiPushRefused, AiClaim
<1>2. Drawing' = Drawing /\ rec'.nv12 = rec.nv12
  BY <1>1, HandsKept
<1>3. /\ ai \in [pc : {"idle", "claim", "decode", "push", "store"}, last : Nat, seq : Nat, rgb : Buf]
      /\ jobq \in Seq(TaskType) /\ Apart(ai, jobq, wk) /\ Adrift(ai, jobq, wk, lost)
      /\ ring \in RingType /\ ring.produce <= MaxSeq /\ ring.produce \in Nat
      /\ MaxSeq \in Nat
  BY PipelineAssumption DEF PipeInv, PipeTypeOK, Sound, RingType
<1>4. CASE AiSee \/ AiClaimNone
  <2>1. ring' = ring /\ jobq' = jobq /\ InHand(ai') = {} /\ InHand(ai) = {}
    BY <1>3, <1>4 DEF AiSee, AiClaimNone, InHand
  <2>2. Jobs' = Jobs
    BY <1>1, <2>1, JobsAre, JobsAreNext
  <2> QED BY <1>2, <2>1, <2>2 DEF Contract!vars
<1>5. ASSUME NEW b \in Buf, AiClaim(b)
      PROVE  Contract!Next
  <2>1. PICK q \in Claimables :
          /\ ring' = Take(Claim(ring, q), "rgb", b)
          /\ ai' = [pc |-> "decode", last |-> q - 1, seq |-> q, rgb |-> b]
    BY <1>5 DEF AiClaim
  <2>2. q \in 1 .. MaxSeq /\ q \in Nat /\ Claimable(ring, q)
    BY <1>3 DEF Claimables, Claimable
  <2>3. InHand(ai) = {} /\ InHand(ai') = {[seq |-> q, rgb |-> b, decoded |-> FALSE]}
    <3>1. ai.pc = "claim" /\ ai'.pc = "decode" /\ ai'.seq = q /\ ai'.rgb = b
      BY <1>5, <2>1 DEF AiClaim
    <3> QED BY <3>1, InHandIs
  <2>4. Jobs' = Jobs \cup {[seq |-> q, rgb |-> b, decoded |-> FALSE]}
    BY <1>1, <1>5, <2>3, JobsAre, JobsAreNext DEF AiClaim
  <2>5. \A j \in Jobs : j.decoded
    BY <1>5, OthersDecoded DEF AiClaim
  <2>6. SlotOf(ring, q).claims < Cardinality(Workers) + QueueCap + 1 + MaxReloads
    BY <1>5, <2>2, ClaimRoom DEF AiClaim
  <2>7. Contract!ClaimFrame(q, b)
    BY <1>2, <1>5, <2>1, <2>2, <2>4, <2>5, <2>6, SameInfer, SamePools, SameRelease
       DEF AiClaim, Contract!ClaimFrame
  <2> QED BY <2>2, <2>7 DEF Contract!Next, Buf
<1>6. CASE AiDecodeOk
  <2> DEFINE j == [seq |-> ai.seq, rgb |-> ai.rgb, decoded |-> FALSE]
             R == Queued(jobq) \cup Strayed(lost) \cup Working(wk)
  <2>a. /\ ai.pc = "decode" /\ ai'.pc = "push" /\ ai'.seq = ai.seq /\ ai'.rgb = ai.rgb
        /\ jobq' = jobq /\ ring' = ring /\ ai.rgb # NoBuf
    BY <1>3, <1>6 DEF AiDecodeOk
  <2>b. [j EXCEPT !.decoded = TRUE] = [seq |-> ai.seq, rgb |-> ai.rgb, decoded |-> TRUE]
    <3>1. j \in [seq : {ai.seq}, rgb : {ai.rgb}, decoded : BOOLEAN]
      OBVIOUS
    <3> HIDE DEF j
    <3> QED BY <3>1, DecodingDone
  <2>1. /\ InHand(ai) = {j} /\ InHand(ai') = {[j EXCEPT !.decoded = TRUE]}
        /\ jobq' = jobq /\ ring' = ring /\ ai.rgb # NoBuf
    BY <2>a, <2>b, InHandIs
  <2>2. j \notin R
    <3>1. ~j.decoded
      OBVIOUS
    <3> HIDE DEF j
    <3> QED BY <3>1, OthersDecoded
  <2>3. Jobs = R \cup {j} /\ Jobs' = R \cup {[j EXCEPT !.decoded = TRUE]}
    BY <1>1, <2>1, JobsAre, JobsAreNext
  <2>4. ~j.decoded /\ j.rgb # NoBuf
    BY <2>1
  <2> HIDE DEF j, R
  <2>5. Contract!DecodeOk(j)
    BY <1>2, <2>1, <2>2, <2>3, <2>4 DEF Contract!DecodeOk
  <2> QED BY <2>3, <2>5 DEF Contract!Next
<1>7. CASE AiDecodeFail
  <2> DEFINE j == [seq |-> ai.seq, rgb |-> ai.rgb, decoded |-> FALSE]
             R == Queued(jobq) \cup Strayed(lost) \cup Working(wk)
  <2>1. /\ InHand(ai) = {j} /\ InHand(ai') = {}
        /\ jobq' = jobq /\ ring' = DecodeFailed(ring, ai.seq, ai.rgb)
    <3>1. ai.pc = "decode" /\ ai'.pc = "idle"
      BY <1>7 DEF AiDecodeFail
    <3> QED BY <1>7, <3>1, InHandIs DEF AiDecodeFail
  <2>2. j \notin R
    <3>1. ~j.decoded
      OBVIOUS
    <3> HIDE DEF j
    <3> QED BY <3>1, OthersDecoded
  <2>3. Jobs = R \cup {j} /\ Jobs' = R
    BY <1>1, <2>1, JobsAre, JobsAreNext
  <2>4. ~j.decoded /\ j.seq = ai.seq /\ j.rgb = ai.rgb
    BY <2>1
  <2> HIDE DEF j, R
  <2>5. Contract!DecodeFail(j)
    BY <1>2, <2>1, <2>2, <2>3, <2>4, SameJobEnds DEF Contract!DecodeFail
  <2> QED BY <2>3, <2>5 DEF Contract!Next
<1>a. CASE AiLook
  <2>1. /\ ai.pc = "push" /\ ai'.pc = "store" /\ ai'.seq = ai.seq /\ ai'.rgb = ai.rgb
        /\ jobq' = jobq /\ ring' = ring
    BY <1>3, <1>a DEF AiLook
  <2>2. InHand(ai') = InHand(ai)
    BY <2>1 DEF InHand, Decoding
  <2>3. Jobs' = Jobs
    BY <1>1, <2>1, <2>2, JobsAre, JobsAreNext
  <2> QED BY <1>2, <2>1, <2>3 DEF Contract!vars
<1>8. CASE AiPush
  <2>1. /\ ai.pc = "store" /\ jobq' = Append(jobq, Job(ai)) /\ ring' = ring
        /\ InHand(ai') = {}
    BY <1>3, <1>8 DEF AiPush, InHand
  <2>2. InHand(ai) = {Decoded(Job(ai))}
    BY <2>1, InHandIs DEF Decoded, Job
  <2>3. Job(ai) \in TaskType
    BY <1>3 DEF Job, TaskType
  <2>4. Queued(jobq') = Queued(jobq) \cup {Decoded(Job(ai))}
    BY <1>3, <2>1, <2>3, QueuedAppend
  <2>5. Jobs' = Jobs
    BY <1>1, <2>1, <2>2, <2>4, JobsAre, JobsAreNext
  <2> QED BY <1>2, <2>1, <2>5 DEF Contract!vars
<1>9. CASE AiPushRefused
  <2> DEFINE j == [seq |-> ai.seq, rgb |-> ai.rgb, decoded |-> TRUE]
             R == Queued(jobq) \cup Strayed(lost) \cup Working(wk)
  <2>1. /\ ai.pc = "push" /\ InHand(ai) = {j} /\ InHand(ai') = {}
        /\ jobq' = jobq /\ ring' = Abandon(ring, ai.seq, ai.rgb)
    <3>1. ai.pc = "push" /\ ai'.pc = "idle"
      BY <1>3, <1>9 DEF AiPushRefused
    <3> QED BY <1>9, <3>1, InHandIs DEF AiPushRefused
  <2>2. j \notin R
    <3>1. \A l \in R : l.rgb # ai.rgb
      BY <1>3, <2>1, DecodedFields DEF Apart, Adrift, Queued, Strayed, Working
    <3> QED BY <2>1, <3>1
  <2>3. Jobs = R \cup {j} /\ Jobs' = R
    BY <1>1, <2>1, JobsAre, JobsAreNext
  <2>4. j.decoded /\ j.seq = ai.seq /\ j.rgb = ai.rgb
    BY <2>1
  <2> HIDE DEF j, R
  <2>5. Contract!AbandonJob(j)
    BY <1>2, <2>1, <2>2, <2>3, <2>4, SameJobEnds DEF Contract!AbandonJob
  <2> QED BY <2>3, <2>5 DEF Contract!Next
<1> QED BY <1>4, <1>5, <1>6, <1>7, <1>a, <1>8, <1>9 DEF AiStep, Buf

\* The jobs of the workers other than w.
OtherJobs(f, w) == {Decoded(f[v]) : v \in {u \in Workers \ {w} : Holds(f[u])}}

LEMMA WorkingSplit ==
  ASSUME NEW f, NEW g, NEW w \in Workers, \A v \in Workers \ {w} : g[v] = f[v]
  PROVE  /\ Working(f) = OtherJobs(f, w) \cup (IF Holds(f[w]) THEN {Decoded(f[w])} ELSE {})
         /\ OtherJobs(g, w) = OtherJobs(f, w)
  BY DEF Working, OtherJobs

\* A decoded job has one holder only.
LEMMA OneHolder ==
  ASSUME PipeInv
  PROVE  /\ \A w \in Workers : Holds(wk[w]) =>
              Decoded(wk[w]) \notin Queued(jobq) \cup Strayed(lost) \cup OtherJobs(wk, w)
                                      \cup InHand(ai)
         /\ \A i \in 1 .. Len(jobq) :
              /\ Decoded(jobq[i]) \notin Strayed(lost) \cup Working(wk) \cup InHand(ai)
              /\ \A j \in 1 .. Len(jobq) : Decoded(jobq[i]) = Decoded(jobq[j]) => i = j
         /\ \A j \in lost :
              Decoded(j) \notin Queued(jobq) \cup Strayed(lost \ {j}) \cup Working(wk)
                                 \cup InHand(ai)
<1>1. Apart(ai, jobq, wk) /\ Adrift(ai, jobq, wk, lost) /\ lost \in SUBSET TaskType
  BY DEF PipeInv, PipeTypeOK
<1>2. \A t : Decoded(t) \in InHand(ai) => ai.pc \in {"push", "store"} /\ t.rgb = ai.rgb
  BY DEF Decoded, InHand, Decoding
<1>3. ASSUME NEW w \in Workers, Holds(wk[w])
      PROVE  Decoded(wk[w]) \notin Queued(jobq) \cup Strayed(lost) \cup OtherJobs(wk, w)
                                     \cup InHand(ai)
  <2>1. Decoded(wk[w]) \notin Queued(jobq)
    BY <1>1, <1>3, DecodedFields DEF Apart, Queued
  <2>2. Decoded(wk[w]) \notin OtherJobs(wk, w)
    BY <1>1, <1>3, DecodedFields DEF Apart, OtherJobs
  <2>3. Decoded(wk[w]) \notin InHand(ai)
    BY <1>1, <1>2, <1>3 DEF Apart
  <2>4. Decoded(wk[w]) \notin Strayed(lost)
    BY <1>1, <1>3, DecodedFields DEF Adrift, Strayed
  <2> QED BY <2>1, <2>2, <2>3, <2>4
<1>4. ASSUME NEW i \in 1 .. Len(jobq)
      PROVE  /\ Decoded(jobq[i]) \notin Strayed(lost) \cup Working(wk) \cup InHand(ai)
             /\ \A j \in 1 .. Len(jobq) : Decoded(jobq[i]) = Decoded(jobq[j]) => i = j
  <2>1. Decoded(jobq[i]) \notin Working(wk)
    BY <1>1, DecodedFields DEF Apart, Working
  <2>2. Decoded(jobq[i]) \notin InHand(ai)
    BY <1>1, <1>2 DEF Apart
  <2>3. \A j \in 1 .. Len(jobq) : Decoded(jobq[i]) = Decoded(jobq[j]) => i = j
    BY <1>1, DecodedFields DEF Apart
  <2>4. Decoded(jobq[i]) \notin Strayed(lost)
    BY <1>1, DecodedFields DEF Adrift, Strayed
  <2> QED BY <2>1, <2>2, <2>3, <2>4
<1>5. ASSUME NEW j \in lost
      PROVE  Decoded(j) \notin Queued(jobq) \cup Strayed(lost \ {j}) \cup Working(wk)
                                \cup InHand(ai)
  <2>1. Decoded(j) \notin Queued(jobq)
    BY <1>1, DecodedFields DEF Adrift, Queued
  <2>2. Decoded(j) \notin Strayed(lost \ {j})
    <3>1. \A l \in lost : Decoded(l) = Decoded(j) => l = j
      BY <1>1, DecodedFields DEF TaskType
    <3> QED BY <3>1 DEF Strayed
  <2>3. Decoded(j) \notin Working(wk)
    BY <1>1, DecodedFields DEF Adrift, Working
  <2>4. Decoded(j) \notin InHand(ai)
    BY <1>1, <1>2 DEF Adrift
  <2> QED BY <2>1, <2>2, <2>3, <2>4
<1> QED BY <1>3, <1>4, <1>5

LEMMA WkRefines ==
  ASSUME PipeInv, NEW w \in Workers, WkStep(w)
  PROVE  Contract!Next \/ UNCHANGED Contract!vars
<1>1. UNCHANGED <<ai, lost, comp, rec>>
  BY DEF WkStep, WkPop, WkExit, WkInferOk, WkAbandon, WkWrite, WkResult
<1>2. Drawing' = Drawing /\ rec'.nv12 = rec.nv12
  BY <1>1, HandsKept
<1>3. /\ wk \in [Workers -> [pc : {"gone", "pop", "infer", "write", "result"}, seq : Nat, rgb : Buf]]
      /\ jobq \in Seq(TaskType)
  BY DEF PipeInv, PipeTypeOK
<1>4. \A v \in Workers \ {w} : wk'[v] = wk[v]
  BY <1>3 DEF WkStep, WkPop, WkExit, WkInferOk, WkAbandon, WkWrite, WkResult
<1>5. /\ Working(wk) = OtherJobs(wk, w) \cup (IF Holds(wk[w]) THEN {Decoded(wk[w])} ELSE {})
      /\ Working(wk') = OtherJobs(wk, w) \cup (IF Holds(wk'[w]) THEN {Decoded(wk'[w])} ELSE {})
  BY <1>4, WorkingSplit
<1> DEFINE R == Queued(jobq) \cup Strayed(lost) \cup OtherJobs(wk, w) \cup InHand(ai)
           j == Decoded(wk[w])
<1>6. CASE WkPop(w)
  <2>1. /\ ~Holds(wk[w]) /\ Holds(wk'[w]) /\ Decoded(wk'[w]) = Decoded(Head(jobq))
        /\ jobq # <<>> /\ jobq' = Tail(jobq) /\ ring' = ring
    BY <1>3, <1>6 DEF WkPop, Holds, Decoded
  <2>2. Queued(jobq) = Queued(jobq') \cup {Decoded(Head(jobq))}
    BY <1>3, <2>1, QueuedTail
  <2>3. Jobs' = Jobs
    BY <1>1, <1>5, <2>1, <2>2, JobsAre, JobsAreNext
  <2> QED BY <1>2, <2>1, <2>3 DEF Contract!vars
<1>7. CASE WkExit(w) \/ WkResult(w)
  <2>1. ~Holds(wk[w]) /\ ~Holds(wk'[w]) /\ jobq' = jobq /\ ring' = ring
    BY <1>3, <1>7 DEF WkExit, WkResult, Holds
  <2>2. Jobs' = Jobs
    BY <1>1, <1>5, <2>1, JobsAre, JobsAreNext
  <2> QED BY <1>2, <2>1, <2>2 DEF Contract!vars
<1>8. CASE WkInferOk(w)
  <2>1. /\ wk[w].pc = "infer" /\ wk'[w].pc = "write"
        /\ wk'[w].seq = wk[w].seq /\ wk'[w].rgb = wk[w].rgb
        /\ jobq' = jobq /\ ring' = ring
    BY <1>3, <1>8 DEF WkInferOk
  <2>2. Decoded(wk'[w]) = Decoded(wk[w]) /\ Holds(wk[w]) /\ Holds(wk'[w])
    BY <2>1 DEF Decoded, Holds
  <2>3. Jobs' = Jobs
    BY <1>1, <1>5, <2>1, <2>2, JobsAre, JobsAreNext
  <2> QED BY <1>2, <2>1, <2>3 DEF Contract!vars
<1>9. CASE WkAbandon(w) \/ WkWrite(w)
  <2>1. /\ Holds(wk[w]) /\ ~Holds(wk'[w]) /\ jobq' = jobq
        /\ ring' \in {Abandon(ring, wk[w].seq, wk[w].rgb), WriteRgb(ring, wk[w].seq, wk[w].rgb)}
    <3>1. wk'[w].pc \in {"pop", "result"} /\ wk[w].pc \in {"infer", "write"}
      BY <1>3, <1>9 DEF WkAbandon, WkWrite
    <3> QED BY <1>9, <3>1 DEF WkAbandon, WkWrite, Holds
  <2>2. j \notin R
    BY <2>1, OneHolder
  <2>3. Jobs = R \cup {j} /\ Jobs' = R
    BY <1>1, <1>5, <2>1, JobsAre, JobsAreNext
  <2>4. j.decoded /\ j.seq = wk[w].seq /\ j.rgb = wk[w].rgb
    BY DecodedFields
  <2> HIDE DEF j, R
  <2>5. Contract!AbandonJob(j) \/ Contract!WriteJob(j)
    BY <1>2, <2>1, <2>2, <2>3, <2>4, SameJobEnds DEF Contract!AbandonJob, Contract!WriteJob
  <2> QED BY <2>3, <2>5 DEF Contract!Next
<1> QED BY <1>6, <1>7, <1>8, <1>9 DEF WkStep

LEMMA CoRefines ==
  ASSUME PipeInv, CoStep
  PROVE  Contract!Next \/ UNCHANGED Contract!vars
<1>1. UNCHANGED <<ai, jobq, lost, wk, rec>>
  BY DEF CoStep, CoPop, CoExit, CoDrain, CoDrained, CoGone, CoPick, CoCommit
<1>2. Jobs' = Jobs /\ rec'.nv12 = rec.nv12
  BY <1>1, HandsKept
<1>3. /\ comp \in [pc : {"gone", "pop", "drain", "pick", "draw"}, item : Nat, next : Nat,
                   nv12 : Buf, jpeg : Buf]
      /\ CompPlace /\ Window(ring) /\ ring \in RingType
      /\ ring.produce \in Nat /\ ring.produce <= MaxSeq /\ ring.display \in Nat /\ MaxSeq \in Nat
  BY PipelineAssumption DEF PipeInv, PipeTypeOK, Sound, RingType
<1>4. CASE CoPop \/ CoExit \/ CoDrain \/ CoDrained \/ CoGone
  <2>1. comp.pc # "draw" /\ comp'.pc # "draw" /\ ring' = ring
    BY <1>3, <1>4 DEF CoPop, CoExit, CoDrain, CoDrained, CoGone
  <2>2. Drawing' = Drawing
    BY <2>1 DEF Drawing
  <2> QED BY <1>2, <2>1, <2>2 DEF Contract!vars
<1>5. ASSUME NEW nb \in Buf, NEW jb \in Buf, CoPick(nb, jb)
      PROVE  Contract!Next
  <2> DEFINE q == comp.item
  <2>1. q \in Nat /\ q > ring.display /\ q # 0 /\ Renderable(ring, q)
    BY <1>3, <1>5 DEF CoPick, CompPlace
  <2>2. q <= ring.produce
    BY <1>3, <2>1, IndexType DEF Window, Renderable, SlotOf
  <2>3. q \in 1 .. MaxSeq
    BY <1>3, <2>1, <2>2
  <2>4. Drawing = Contract!Idle
    BY <1>5 DEF CoPick, Drawing, Contract!Idle
  <2>5. /\ comp'.pc = "draw" /\ comp'.item = q /\ comp'.nv12 = nb /\ comp'.jpeg = jb
    BY <1>3, <1>5 DEF CoPick
  <2>6. Drawing' = [seq |-> q, nv12 |-> nb, jpeg |-> jb]
    BY <2>5 DEF Drawing
  <2>7. Contract!BeginRender(q, nb, jb)
    BY <1>2, <1>5, <2>1, <2>4, <2>6, SameDisplay, SamePools DEF CoPick, Contract!BeginRender
  <2> QED BY <2>3, <2>7 DEF Contract!Next, Buf
<1>6. ASSUME NEW ok \in BOOLEAN, CoCommit(ok)
      PROVE  Contract!Next
  <2>1. /\ Drawing = [seq |-> comp.item, nv12 |-> comp.nv12, jpeg |-> comp.jpeg]
        /\ comp.item # 0
    BY <1>3, <1>6 DEF CoCommit, Drawing, CompPlace
  <2>2. /\ Drawing.seq = comp.item /\ Drawing.nv12 = comp.nv12 /\ Drawing.jpeg = comp.jpeg
        /\ Drawing # Contract!Idle
    BY <2>1 DEF Contract!Idle
  <2>3. comp'.pc = "pop"
    BY <1>3, <1>6 DEF CoCommit
  <2>4. Drawing' = Contract!Idle
    BY <2>3 DEF Drawing, Contract!Idle
  <2>5. Contract!EndRender(ok)
    BY <1>2, <1>6, <2>2, <2>4, SameDisplay DEF CoCommit, Contract!EndRender
  <2> QED BY <2>5 DEF Contract!Next
<1> QED BY <1>4, <1>5, <1>6 DEF CoStep, Buf

LEMMA RecRefines ==
  ASSUME PipeInv, RecStep
  PROVE  Contract!Next
<1>1. UNCHANGED <<ai, jobq, lost, wk, comp>>
  BY DEF RecStep, RecBegin, RecTake, RecSkip, RecPut, RecEnd
<1>2. Jobs' = Jobs /\ Drawing' = Drawing
  BY <1>1, HandsKept
<1>3. /\ rec \in [on : BOOLEAN, last : Nat, nv12 : Buf, segments : Nat]
      /\ ring \in RingType
  BY DEF PipeInv, PipeTypeOK, Sound
<1>4. CASE RecBegin \/ RecEnd
  <2>1. /\ rec'.nv12 = rec.nv12
        /\ \E on \in BOOLEAN : ring' = SetRec(ring, on)
    BY <1>3, <1>4 DEF RecBegin, RecEnd
  <2>2. \E aiOn, recOn \in BOOLEAN : Contract!SetMode(aiOn, recOn)
    BY <1>2, <2>1, SameModes DEF Contract!SetMode
  <2> QED BY <2>2 DEF Contract!Next
<1>5. CASE RecTake \/ RecSkip
  <2>1. \A i \in EncodePick(ring, rec.last) : i \in EncodePick(ring, 0)
    <3>1. rec.last \in Nat /\ \A i \in Slots : ring.slots[i].seq \in Nat
      BY <1>3 DEF RingType, SlotType
    <3> QED BY <3>1 DEF EncodePick, Encodable
  <2>2. CASE RecTake
    <3>1. PICK i \in EncodePick(ring, rec.last) :
            /\ ring' = Steal(ring, i)
            /\ rec' = [rec EXCEPT !.last = ring.slots[i].seq, !.nv12 = ring.slots[i].nv12]
      BY <2>2 DEF RecTake
    <3>2. rec'.nv12 = ring.slots[i].nv12 /\ rec.nv12 = NoBuf
      BY <1>3, <2>2, <3>1 DEF RecTake
    <3>3. Contract!EncodeTake
      BY <1>2, <2>1, <3>1, <3>2, SameEncode DEF Contract!EncodeTake
    <3> QED BY <3>3 DEF Contract!Next
  <2>3. CASE RecSkip
    <3>1. PICK i \in EncodePick(ring, rec.last) :
            /\ ring' = MarkConsumed(ring, ring.slots[i].seq)
            /\ rec' = [rec EXCEPT !.last = ring.slots[i].seq]
      BY <2>3 DEF RecSkip
    <3>2. rec'.nv12 = rec.nv12 /\ rec.nv12 = NoBuf
      BY <1>3, <2>3, <3>1 DEF RecSkip
    <3>3. Contract!EncodeSkip
      BY <1>2, <2>1, <3>1, <3>2, SameEncode DEF Contract!EncodeSkip
    <3> QED BY <3>3 DEF Contract!Next
  <2> QED BY <1>5, <2>2, <2>3
<1>6. CASE RecPut
  <2>1. rec'.nv12 = NoBuf
    BY <1>3, <1>6 DEF RecPut
  <2>2. Contract!EncodeEnd
    BY <1>2, <1>6, <2>1, SamePools DEF RecPut, Contract!EncodeEnd
  <2> QED BY <2>2 DEF Contract!Next
<1> QED BY <1>4, <1>5, <1>6 DEF RecStep

LEMMA PoolRefines ==
  ASSUME PipeInv, PoolStep
  PROVE  Contract!Next \/ UNCHANGED Contract!vars
<1>1. UNCHANGED rec
  BY DEF PoolStep, PoolStop, PoolMode, PoolJoin, PoolPurge, PoolPurged, PoolDown, PoolStart, PoolStarted
<1>2. /\ wk \in [Workers -> [pc : {"gone", "pop", "infer", "write", "result"}, seq : Nat, rgb : Buf]]
      /\ comp \in [pc : {"gone", "pop", "drain", "pick", "draw"}, item : Nat, next : Nat,
                   nv12 : Buf, jpeg : Buf]
      /\ ai \in [pc : {"idle", "claim", "decode", "push", "store"}, last : Nat, seq : Nat, rgb : Buf]
      /\ jobq \in Seq(TaskType) /\ PoolPlace
  BY DEF PipeInv, PipeTypeOK
<1>3. CASE PoolStop \/ PoolJoin \/ PoolPurged
  BY <1>1, <1>3, HandsKept DEF PoolStop, PoolJoin, PoolPurged, Contract!vars
<1>4. CASE PoolMode \/ PoolStarted
  <2>1. Jobs' = Jobs /\ Drawing' = Drawing /\ \E on \in BOOLEAN : ring' = SetAi(ring, on)
    BY <1>4, HandsKept DEF PoolMode, PoolStarted
  <2>2. \E aiOn, recOn \in BOOLEAN : Contract!SetMode(aiOn, recOn)
    BY <1>1, <2>1, SameModes DEF Contract!SetMode
  <2> QED BY <2>2 DEF Contract!Next
<1>5. ASSUME NEW t, ring' = Abandon(ring, t.seq, t.rgb), UNCHANGED comp,
             NEW R, Decoded(t) \notin R, Jobs = R \cup {Decoded(t)}, Jobs' = R
      PROVE  Contract!Next
  <2> DEFINE j == Decoded(t)
  <2>1. j.decoded /\ j.seq = t.seq /\ j.rgb = t.rgb
    BY DecodedFields
  <2>2. Drawing' = Drawing
    BY <1>5, HandsKept
  <2>3. j \notin R /\ Jobs = R \cup {j}
    BY <1>5
  <2> HIDE DEF j
  <2>4. Contract!AbandonJob(j)
    BY <1>1, <1>5, <2>1, <2>2, <2>3, SameJobEnds DEF Contract!AbandonJob
  <2> QED BY <1>5, <2>3, <2>4 DEF Contract!Next
<1>6. CASE PoolPurge
  <2>1. UNCHANGED <<wk, ai, comp>>
    BY <1>6 DEF PoolPurge
  <2>2. ASSUME jobq # <<>>, jobq' = Tail(jobq), lost' = lost,
               ring' = Abandon(ring, Head(jobq).seq, Head(jobq).rgb)
        PROVE  Contract!Next
    <3> DEFINE j == Decoded(Head(jobq))
               R == Queued(Tail(jobq)) \cup Strayed(lost) \cup Working(wk) \cup InHand(ai)
    <3>1. /\ Queued(jobq) = Queued(Tail(jobq)) \cup {j} /\ Head(jobq) = jobq[1]
          /\ Len(jobq) \in Nat \ {0} /\ Len(Tail(jobq)) = Len(jobq) - 1
          /\ \A i \in 1 .. Len(Tail(jobq)) :
               Tail(jobq)[i] = jobq[i + 1] /\ i + 1 \in 1 .. Len(jobq)
      BY <1>2, <2>2, QueuedTail
    <3>2. 1 \in 1 .. Len(jobq) /\ \A i \in 1 .. Len(Tail(jobq)) : i + 1 # 1
      BY <3>1
    <3>3. j \notin Strayed(lost) \cup Working(wk) \cup InHand(ai)
      BY <3>1, <3>2, OneHolder
    <3>4. j \notin Queued(Tail(jobq))
      BY <3>1, <3>2, OneHolder DEF Queued
    <3>5. j \notin R /\ Jobs = R \cup {j} /\ Jobs' = R
      BY <2>1, <2>2, <3>1, <3>3, <3>4, JobsAre, JobsAreNext
    <3> HIDE DEF R
    <3> QED BY <1>5, <2>1, <2>2, <3>5
  <2>3. ASSUME NEW t \in lost, lost' = lost \ {t}, jobq' = jobq,
               ring' = Abandon(ring, t.seq, t.rgb)
        PROVE  Contract!Next
    <3> DEFINE R == Queued(jobq) \cup Strayed(lost \ {t}) \cup Working(wk) \cup InHand(ai)
    <3>1. Strayed(lost) = Strayed(lost \ {t}) \cup {Decoded(t)}
      BY DEF Strayed
    <3>2. Decoded(t) \notin R
      BY OneHolder
    <3>3. Jobs = R \cup {Decoded(t)} /\ Jobs' = R
      BY <2>1, <2>3, <3>1, JobsAre, JobsAreNext
    <3> HIDE DEF R
    <3> QED BY <1>5, <2>1, <2>3, <3>2, <3>3
  <2> QED BY <1>6, <2>2, <2>3 DEF PoolPurge
<1>8. CASE PoolDown
  <2>1. /\ ai'.pc = ai.pc /\ ai'.seq = ai.seq /\ ai'.rgb = ai.rgb
        /\ jobq' = <<>> /\ lost' = lost \cup {jobq[i] : i \in 1 .. Len(jobq)}
        /\ UNCHANGED <<ring, wk, comp>>
    BY <1>2, <1>8 DEF PoolDown
  <2>2. InHand(ai') = InHand(ai)
    BY <2>1 DEF InHand, Decoding
  <2>3. Queued(jobq') = {} /\ Strayed(lost') = Queued(jobq) \cup Strayed(lost)
    <3>1. Len(jobq') = 0
      BY <2>1, EmptySeq
    <3> QED BY <2>1, <3>1 DEF Queued, Strayed
  <2>4. Jobs' = Jobs
    BY <2>1, <2>2, <2>3, JobsAre, JobsAreNext
  <2>5. Drawing' = Drawing
    BY <2>1, HandsKept
  <2> QED BY <1>1, <2>1, <2>4, <2>5 DEF Contract!vars
<1>7. CASE PoolStart
  <2>1. /\ \A w \in Workers : ~Holds(wk[w]) /\ ~Holds(wk'[w])
        /\ comp.pc = "gone" /\ comp'.pc = "pop"
        /\ UNCHANGED <<ring, ai, jobq, lost>>
    BY <1>2, <1>7 DEF PoolStart, PoolPlace, Holds
  <2>2. Working(wk) = {} /\ Working(wk') = {}
    BY <2>1 DEF Working
  <2>3. Jobs' = Jobs
    BY <2>1, <2>2, JobsAre, JobsAreNext
  <2>4. Drawing' = Drawing
    BY <2>1 DEF Drawing
  <2> QED BY <1>1, <2>1, <2>3, <2>4 DEF Contract!vars
<1> QED BY <1>3, <1>4, <1>6, <1>7, <1>8 DEF PoolStep

\* The threads keep the contract.
LEMMA PipeRefines == PipeInv /\ [PipeNext]_pipeVars => [Contract!Next]_Contract!vars
<1>1. ASSUME UNCHANGED pipeVars
      PROVE  UNCHANGED Contract!vars
  BY <1>1, HandsKept DEF pipeVars, Contract!vars
<1> QED BY <1>1, CamRefines, AiRefines, WkRefines, CoRefines, RecRefines, PoolRefines
        DEF PipeNext

-----------------------------------------------------------------------------
(* The places of the threads *)

\* What a thread other than the camera's and the composer leaves alone.
Quiet(r, t) == Releases(r, t) /\ t.display = r.display

LEMMA QuietSteps ==
  ASSUME NEW r \in RingType, NEW q \in Nat, NEW b \in Buf, NEW c \in Buf,
         NEW i \in Slots, NEW on \in BOOLEAN, NEW k \in Kinds
  PROVE  /\ Quiet(r, r) /\ Quiet(r, Take(Claim(r, q), "rgb", b))
         /\ Quiet(r, DecodeFailed(r, q, b)) /\ Quiet(r, Abandon(r, q, b))
         /\ Quiet(r, WriteRgb(r, q, b))
         /\ Quiet(r, Take(Take(r, "nv12", b), "jpeg", c))
         /\ Quiet(r, Steal(r, i)) /\ Quiet(r, MarkConsumed(r, q)) /\ Quiet(r, Put(r, k, b))
         /\ Quiet(r, SetAi(r, on)) /\ Quiet(r, SetRec(r, on))
<1>. b \in Bufs \cup {NoBuf} /\ c \in Bufs \cup {NoBuf}
  BY DEF Buf
<1>1. Quiet(r, r)
  BY DEF Quiet, Releases
<1>2. Quiet(r, Take(Claim(r, q), "rgb", b))
  <2>1. Claim(r, q) \in RingType /\ Take(Claim(r, q), "rgb", b) \in RingType
    BY KindsAre, ClaimType, TakeType
  <2>2. Releases(r, Claim(r, q)) /\ Releases(Claim(r, q), Take(Claim(r, q), "rgb", b))
    BY <2>1, KindsAre, ClaimReleases, PoolReleases
  <2>3. Releases(r, Take(Claim(r, q), "rgb", b))
    BY <2>1, <2>2, ReleasesTransitive
  <2>4. Claim(r, q).display = r.display
    BY DEF Claim, WithSlot, RingType
  <2>5. Take(Claim(r, q), "rgb", b).display = Claim(r, q).display
    BY <2>1, KindsAre, PoolAlike DEF Alike
  <2> QED BY <2>3, <2>4, <2>5 DEF Quiet
<1>3. /\ Quiet(r, DecodeFailed(r, q, b)) /\ Quiet(r, Abandon(r, q, b))
      /\ Quiet(r, WriteRgb(r, q, b))
  BY DecodeFailedReleases, AbandonReleases, WriteRgbReleases, DisplayKept DEF Quiet
<1>4. Quiet(r, Put(r, k, b))
  BY PoolReleases, PoolAlike DEF Quiet, Alike
<1>5. Quiet(r, Take(Take(r, "nv12", b), "jpeg", c))
  <2> DEFINE x == Take(r, "nv12", b)
  <2>1. x \in RingType /\ Take(x, "jpeg", c) \in RingType
    BY KindsAre, TakeType
  <2>2. Releases(r, x) /\ Releases(x, Take(x, "jpeg", c)) /\ Alike(r, x)
        /\ Alike(x, Take(x, "jpeg", c))
    BY <2>1, KindsAre, PoolReleases, PoolAlike
  <2> QED BY <2>1, <2>2, ReleasesTransitive DEF Quiet, Alike
<1>6. /\ Quiet(r, Steal(r, i)) /\ Quiet(r, MarkConsumed(r, q))
      /\ Quiet(r, SetAi(r, on)) /\ Quiet(r, SetRec(r, on))
  BY StealReleases, MarkConsumedReleases, ModeReleases, DisplayKept DEF Quiet
<1> QED BY <1>1, <1>2, <1>3, <1>4, <1>5, <1>6

\* Only the composer moves the display on, to the frame it has drawn.
LEMMA RenderedDisplay ==
  ASSUME NEW r \in RingType, NEW q \in Nat, NEW ok \in BOOLEAN, NEW nb \in Buf, NEW jb \in Buf
  PROVE  Rendered(r, q, nb, jb, ok).display \in {r.display, q}
<1> DEFINE i == Index(q)
           s == [SlotOf(r, q) EXCEPT !.nv12 = nb, !.jpeg = jb]
           r0 == Put(r, "nv12", nb)
           r1 == Put(r0, "jpeg", jb)
<1>. nb \in Bufs \cup {NoBuf} /\ jb \in Bufs \cup {NoBuf}
  BY DEF Buf
<1>1. i \in Slots /\ r.slots[i] \in SlotType /\ SlotOf(r, q) = r.slots[i]
  BY IndexType DEF SlotOf, RingType
<1>2. s \in SlotType /\ s.seq = r.slots[i].seq
  BY <1>1 DEF SlotType
<1>3. r0 \in RingType /\ r1 \in RingType /\ Alike(r, r0) /\ Alike(r0, r1)
  BY PutType, PoolAlike DEF Kinds
<1>4. ASSUME NEW x \in RingType
      PROVE  DisplayCommit(x, i).display = x.slots[i].seq
  <2> DEFINE u == [x.slots[i] EXCEPT !.displayDone = TRUE]
             y == WithSlot(x, i, u)
             z == [y EXCEPT !.display = x.slots[i].seq]
  <2>1. x.slots[i] \in SlotType /\ x.slots[i].seq \in Nat
    BY <1>1 DEF RingType, SlotType
  <2>2. u \in SlotType
    BY <2>1 DEF SlotType
  <2> HIDE DEF u
  <2>3. y \in RingType
    BY <1>1, <2>2, WithSlotFields
  <2> HIDE DEF y
  <2>4. z \in RingType /\ z.display = x.slots[i].seq
    BY <2>1, <2>3 DEF RingType
  <2> HIDE DEF z
  <2>5. Maintain(z).display = x.slots[i].seq
    BY <2>4, MaintainFields
  <2> QED BY <2>5 DEF DisplayCommit, u, y, z
<1>5. WithSlot(r, i, s) \in RingType /\ WithSlot(r, i, s).slots[i] = s
  BY <1>1, <1>2, WithSlotFields
<1>6. Renderable(r, q) => r.slots[i].seq = q
  BY <1>1 DEF Renderable
<1>7. r1.slots = r.slots /\ r1.display = r.display
  BY <1>3 DEF Alike
<1>8. /\ DisplayCommit(WithSlot(r, i, s), i).display = r.slots[i].seq
      /\ DisplayCommit(r1, i).display = r.slots[i].seq
  <2> HIDE DEF s, r1, i
  <2> QED BY <1>2, <1>3, <1>4, <1>5, <1>7
<1> HIDE DEF s, r0
<1> QED BY <1>6, <1>7, <1>8 DEF Rendered, s, r0

LEMMA AiQuiet ==
  ASSUME PipeInv, AiStep
  PROVE  Quiet(ring, ring')
<1>1. /\ ring \in RingType /\ ai.seq \in Nat /\ ai.rgb \in Buf /\ ring.produce \in Nat
      /\ ai.last \in Nat
  BY DEF PipeInv, PipeTypeOK, Sound, RingType
<1>2. 0 \in Slots /\ 0 \in Nat /\ TRUE \in BOOLEAN /\ "rgb" \in Kinds /\ NoBuf \in Buf
  BY NAssumption, KindsAre DEF Slots, Buf
<1>3. CASE AiSee \/ AiClaimNone \/ AiDecodeOk \/ AiLook \/ AiPush
  <2>1. ring' = ring
    BY <1>3 DEF AiSee, AiClaimNone, AiDecodeOk, AiLook, AiPush
  <2> QED BY <1>1, <1>2, <2>1, QuietSteps
<1>4. ASSUME NEW b \in Buf, AiClaim(b)
      PROVE  Quiet(ring, ring')
  <2>1. PICK q \in Claimables : ring' = Take(Claim(ring, q), "rgb", b)
    BY <1>4 DEF AiClaim
  <2>2. q \in Nat
    BY <1>1 DEF Claimables
  <2> QED BY <1>1, <1>2, <2>1, <2>2, QuietSteps
<1>5. CASE AiDecodeFail \/ AiPushRefused
  <2>1. ring' \in {DecodeFailed(ring, ai.seq, ai.rgb), Abandon(ring, ai.seq, ai.rgb)}
    BY <1>5 DEF AiDecodeFail, AiPushRefused
  <2> QED BY <1>1, <1>2, <2>1, QuietSteps
<1> QED BY <1>3, <1>4, <1>5 DEF AiStep, Buf

LEMMA WkQuiet ==
  ASSUME PipeInv, NEW w \in Workers, WkStep(w)
  PROVE  Quiet(ring, ring')
<1>1. ring \in RingType /\ wk[w].seq \in Nat /\ wk[w].rgb \in Buf
  BY DEF PipeInv, PipeTypeOK, Sound
<1>2. 0 \in Slots /\ TRUE \in BOOLEAN /\ "rgb" \in Kinds /\ NoBuf \in Buf
  BY NAssumption, KindsAre DEF Slots, Buf
<1>3. ring' \in {ring, Abandon(ring, wk[w].seq, wk[w].rgb), WriteRgb(ring, wk[w].seq, wk[w].rgb)}
  BY DEF WkStep, WkPop, WkExit, WkInferOk, WkAbandon, WkWrite, WkResult
<1> QED BY <1>1, <1>2, <1>3, QuietSteps

LEMMA RecQuiet ==
  ASSUME PipeInv, RecStep
  PROVE  Quiet(ring, ring')
<1>1. ring \in RingType /\ rec.nv12 \in Buf /\ \A i \in Slots : ring.slots[i].seq \in Nat
  BY DEF PipeInv, PipeTypeOK, Sound, RingType, SlotType
<1>2. 0 \in Slots /\ 0 \in Nat /\ TRUE \in BOOLEAN /\ "nv12" \in Kinds /\ NoBuf \in Buf
  BY NAssumption, KindsAre DEF Slots, Buf
<1>3. CASE RecTake \/ RecSkip
  <2>1. PICK i \in Slots : ring' \in {Steal(ring, i), MarkConsumed(ring, ring.slots[i].seq)}
    BY <1>3 DEF RecTake, RecSkip, EncodePick
  <2>2. ring.slots[i].seq \in Nat
    BY <1>1
  <2> QED BY <1>1, <1>2, <2>1, <2>2, QuietSteps
<1>4. CASE RecBegin \/ RecEnd \/ RecPut
  <2>1. ring' \in {SetRec(ring, TRUE), SetRec(ring, FALSE), Put(ring, "nv12", rec.nv12)}
    BY <1>4 DEF RecBegin, RecEnd, RecPut
  <2> QED BY <1>1, <1>2, <2>1, QuietSteps
<1> QED BY <1>3, <1>4 DEF RecStep

\* A purge abandons a job of the queue, or a lost one.
LEMMA PurgedJob ==
  ASSUME PipeInv, PoolPurge
  PROVE  \E t \in TaskType : ring' = Abandon(ring, t.seq, t.rgb)
<1>1. jobq \in Seq(TaskType) /\ lost \in SUBSET TaskType
  BY DEF PipeInv, PipeTypeOK
<1>2. jobq # <<>> => Head(jobq) \in TaskType
  BY <1>1, QueuedTail
<1> QED BY <1>1, <1>2 DEF PoolPurge

LEMMA PoolQuiet ==
  ASSUME PipeInv, PoolStep
  PROVE  Quiet(ring, ring')
<1>1. ring \in RingType
  BY DEF PipeInv, Sound
<1>2. 0 \in Slots /\ 0 \in Nat /\ TRUE \in BOOLEAN /\ "rgb" \in Kinds /\ NoBuf \in Buf
  BY NAssumption, KindsAre DEF Slots, Buf
<1>3. CASE PoolPurge
  <2>1. PICK t \in TaskType : ring' = Abandon(ring, t.seq, t.rgb)
    BY <1>3, PurgedJob
  <2>2. t.seq \in Nat /\ t.rgb \in Buf
    BY DEF TaskType
  <2> QED BY <1>1, <1>2, <2>1, <2>2, QuietSteps
<1>4. CASE ~PoolPurge
  <2>1. ring' \in {ring, SetAi(ring, TRUE), SetAi(ring, FALSE)}
    BY <1>4 DEF PoolStep, PoolStop, PoolMode, PoolJoin, PoolPurged, PoolDown, PoolStart,
                PoolStarted
  <2> QED BY <1>1, <1>2, <2>1, QuietSteps
<1> QED BY <1>3, <1>4

LEMMA CoQuiet ==
  ASSUME PipeInv, CoStep
  PROVE  Releases(ring, ring') /\ ring'.display <= comp'.next
<1>1. /\ ring \in RingType /\ CompPlace /\ ring.display \in Nat
      /\ comp \in [pc : {"gone", "pop", "drain", "pick", "draw"}, item : Nat, next : Nat,
                   nv12 : Buf, jpeg : Buf]
  BY DEF PipeInv, PipeTypeOK, Sound, RingType
<1>2. 0 \in Slots /\ 0 \in Nat /\ TRUE \in BOOLEAN /\ "rgb" \in Kinds /\ NoBuf \in Buf
  BY NAssumption, KindsAre DEF Slots, Buf
<1>3. CASE CoPop \/ CoExit \/ CoDrain \/ CoDrained \/ CoGone
  <2>1. ring' = ring /\ comp'.next = comp.next
    BY <1>1, <1>3 DEF CoPop, CoExit, CoDrain, CoDrained, CoGone
  <2> QED BY <1>1, <1>2, <2>1, QuietSteps DEF Quiet, CompPlace
<1>4. ASSUME NEW nb \in Buf, NEW jb \in Buf, CoPick(nb, jb)
      PROVE  Releases(ring, ring') /\ ring'.display <= comp'.next
  <2>1. /\ ring' = Take(Take(ring, "nv12", nb), "jpeg", jb)
        /\ comp'.next = comp.item /\ ring.display <= comp.next /\ comp.next < comp.item
    BY <1>1, <1>4 DEF CoPick, CompPlace
  <2>2. Quiet(ring, ring')
    BY <1>1, <1>2, <2>1, QuietSteps
  <2> QED BY <1>1, <2>1, <2>2 DEF Quiet
<1>5. ASSUME NEW ok \in BOOLEAN, CoCommit(ok)
      PROVE  Releases(ring, ring') /\ ring'.display <= comp'.next
  <2>1. /\ ring' = Rendered(ring, comp.item, comp.nv12, comp.jpeg, ok)
        /\ comp'.next = comp.next /\ comp.item = comp.next /\ ring.display <= comp.next
    BY <1>1, <1>5 DEF CoCommit, CompPlace
  <2>2. Releases(ring, ring') /\ ring'.display \in {ring.display, comp.item}
    BY <1>1, <2>1, RenderedReleases, RenderedDisplay DEF Buf
  <2> QED BY <1>1, <2>1, <2>2
<1> QED BY <1>3, <1>4, <1>5 DEF CoStep, Buf

LEMMA PublishStays ==
  ASSUME NEW r \in RingType, NEW v \in VBufs, NEW z \in Sizes
  PROVE  /\ Publish(r, v, z).mapped = r.mapped
         /\ Publish(r, v, z).quiescing = r.quiescing
<1> DEFINE q == r.produce + 1
           s == [EmptySlot EXCEPT !.seq = q, !.raw = v, !.size = z]
           x == WithSlot(r, Index(q), s)
           y == [x EXCEPT !.produce = q, !.queued = @ \ {v}]
<1>1. q \in Nat /\ Index(q) \in Slots
  BY IndexType DEF RingType
<1>2. s \in SlotType
  BY <1>1 DEF SlotType, EmptySlot
<1> HIDE DEF s, q
<1>3. x \in RingType /\ x.mapped = r.mapped /\ x.quiescing = r.quiescing
  BY <1>1, <1>2, WithSlotType DEF WithSlot, RingType
<1> HIDE DEF x
<1>4. y \in RingType /\ y.mapped = r.mapped /\ y.quiescing = r.quiescing
  BY <1>1, <1>3 DEF RingType
<1> HIDE DEF y
<1>5. Maintain(y).mapped = r.mapped /\ Maintain(y).quiescing = r.quiescing
  BY <1>4, MaintainFields
<1> QED BY <1>5 DEF Publish, q, s, x, y

LEMMA CamPlaces ==
  ASSUME PipeInv, CamStep
  PROVE  CamPlace' /\ ring'.produce <= MaxSeq /\ ring'.display = ring.display
<1>1. /\ ring \in RingType /\ ring.produce \in Nat /\ ring.produce <= MaxSeq /\ MaxSeq \in Nat
      /\ CamPlace /\ Tidy(ring) /\ Window(ring)
      /\ cam \in [pc : {"init", "loop", "wait", "unmap", "retry"}, sessions : Nat]
  BY PipelineAssumption DEF PipeInv, PipeTypeOK, Sound, RingType
<1>2. /\ StreamOn(ring).mapped /\ ~StreamOff(ring).mapped
      /\ StreamOn(ring).quiescing = ring.quiescing /\ StreamOff(ring).quiescing = ring.quiescing
      /\ StreamOn(ring).produce = ring.produce /\ StreamOff(ring).produce = ring.produce
      /\ StreamOn(ring).display = ring.display /\ StreamOff(ring).display = ring.display
      /\ StreamOff(ring).slots = ring.slots
  BY <1>1 DEF StreamOn, StreamOff, RingType
<1>3. /\ ClearAll(ring).mapped = ring.mapped /\ ~ClearAll(ring).quiescing
      /\ ClearAll(ring).produce = ring.produce /\ ClearAll(ring).display = ring.display
      /\ \A i \in Slots : ClearAll(ring).slots[i].raw = NoBuf
  BY <1>1, ClearAllTidies DEF ClearAll, RingType, EmptySlot
<1>4. CASE CamInit
  <2>1. ring' = StreamOn(ring) /\ cam.pc = "init" /\ cam'.pc = "loop"
    BY <1>4 DEF CamInit
  <2> QED BY <1>1, <1>2, <2>1 DEF CamPlace
<1>5. ASSUME NEW v \in VBufs, NEW z \in Sizes, CamCapture(v, z)
      PROVE  CamPlace' /\ ring'.produce <= MaxSeq /\ ring'.display = ring.display
  <2>1. Maintain(ring) = ring
    BY <1>1, SettledIsMaintained DEF Tidy
  <2>2. /\ cam.pc = "loop" /\ cam' = cam /\ ring.produce < MaxSeq
        /\ ring' = IF CanProduce(ring) THEN Publish(ring, v, z) ELSE ring
    BY <1>5, <2>1 DEF CamCapture
  <2>3. CASE CanProduce(ring)
    <3>1. /\ ring'.mapped = ring.mapped /\ ring'.quiescing = ring.quiescing
          /\ ring'.produce = ring.produce + 1 /\ ring'.display = ring.display
      BY <1>1, <2>2, <2>3, PublishStays, PublishTidies
    <3> QED BY <1>1, <2>2, <3>1 DEF CamPlace
  <2>4. CASE ~CanProduce(ring)
    BY <1>1, <2>2, <2>4 DEF CamPlace
  <2> QED BY <2>3, <2>4
<1>6. CASE CamSessionEnd
  <2>1. cam.pc = "loop" /\ cam'.pc = "wait"
    BY <1>1, <1>6 DEF CamSessionEnd
  <2>2. /\ ring'.mapped = ring.mapped /\ ring'.quiescing
        /\ ring'.produce = ring.produce /\ ring'.display = ring.display
    BY <1>1, <1>6 DEF CamSessionEnd, RingType
  <2> QED BY <1>1, <2>1, <2>2 DEF CamPlace
<1>7. CASE CamQuiesced
  <2>1. ring' = ClearAll(ring) /\ cam.pc = "wait" /\ cam'.pc = "unmap"
    BY <1>1, <1>7 DEF CamQuiesced
  <2> QED BY <1>1, <1>3, <2>1 DEF CamPlace
<1>8. CASE CamTimeout \/ CamUnmap
  <2>1. /\ ring' = StreamOff(ring)
        /\ \/ cam.pc = "wait" /\ cam'.pc = "retry"
           \/ cam.pc = "unmap" /\ cam'.pc = "init"
    BY <1>1, <1>8 DEF CamTimeout, CamUnmap
  <2> QED BY <1>1, <1>2, <2>1 DEF CamPlace
<1>9. CASE CamRetry
  <2>1. ring' = ClearAll(ring) /\ cam.pc = "retry" /\ cam'.pc = "init"
    BY <1>1, <1>9 DEF CamRetry
  <2> QED BY <1>1, <1>3, <2>1 DEF CamPlace
<1> QED BY <1>4, <1>5, <1>6, <1>7, <1>8, <1>9 DEF CamStep

\* A step of another thread keeps the camera's place.
LEMMA CamPlaceKept ==
  ASSUME PipeInv, Releases(ring, ring'), cam' = cam
  PROVE  CamPlace' /\ ring'.produce <= MaxSeq
<1>1. CamPlace /\ ring.produce <= MaxSeq
  BY DEF PipeInv, PipeTypeOK
<1>2. CamPlace'
  BY <1>1 DEF CamPlace, Releases
<1> QED BY <1>1, <1>2 DEF Releases

LEMMA PlacesKept ==
  ASSUME PipeInv, [PipeNext]_pipeVars
  PROVE  CamPlace' /\ PoolPlace' /\ CompPlace' /\ ring'.produce <= MaxSeq
<1>1. /\ CamPlace /\ PoolPlace /\ CompPlace /\ ring.produce <= MaxSeq /\ ring \in RingType
      /\ ring.display \in Nat
      /\ wk \in [Workers -> [pc : {"gone", "pop", "infer", "write", "result"}, seq : Nat, rgb : Buf]]
      /\ comp \in [pc : {"gone", "pop", "drain", "pick", "draw"}, item : Nat, next : Nat,
                   nv12 : Buf, jpeg : Buf]
      /\ pool \in [running : BOOLEAN, enabled : BOOLEAN, reloads : Nat,
                   pc : {"up", "mode", "join", "purge", "reset", "down", "start"}]
  BY DEF PipeInv, PipeTypeOK, Sound, RingType
<1>2. CASE CamStep
  <2>1. UNCHANGED <<comp, wk, pool>>
    BY <1>2 DEF CamStep, CamInit, CamSessionEnd, CamCapture, CamQuiesced, CamTimeout, CamUnmap,
                CamRetry
  <2> QED BY <1>1, <1>2, <2>1, CamPlaces DEF PoolPlace, CompPlace
<1>3. CASE AiStep \/ RecStep
  <2>1. UNCHANGED <<cam, comp, wk, pool>>
    BY <1>3 DEF AiStep, AiSee, AiClaimNone, AiDecodeOk, AiDecodeFail, AiLook, AiPush, AiPushRefused, AiClaim,
                RecStep, RecBegin, RecTake, RecSkip, RecPut, RecEnd
  <2>2. Quiet(ring, ring')
    BY <1>3, AiQuiet, RecQuiet
  <2> QED BY <1>1, <2>1, <2>2, CamPlaceKept DEF PoolPlace, CompPlace, Quiet
<1>4. ASSUME NEW w \in Workers, WkStep(w)
      PROVE  CamPlace' /\ PoolPlace' /\ CompPlace' /\ ring'.produce <= MaxSeq
  <2>1. UNCHANGED <<cam, comp, pool>> /\ wk[w].pc # "gone"
    BY <1>4 DEF WkStep, WkPop, WkExit, WkInferOk, WkAbandon, WkWrite, WkResult
  <2>2. Quiet(ring, ring')
    BY <1>4, WkQuiet
  <2>3. PoolPlace' /\ CompPlace'
    BY <1>1, <2>1, <2>2 DEF PoolPlace, CompPlace, Quiet
  <2> QED BY <2>1, <2>2, <2>3, CamPlaceKept DEF Quiet
<1>5. CASE CoStep
  <2>1. UNCHANGED <<cam, wk, pool>> /\ comp.pc # "gone"
    BY <1>5 DEF CoStep, CoPop, CoExit, CoDrain, CoDrained, CoGone, CoPick, CoCommit
  <2>2. Releases(ring, ring') /\ ring'.display <= comp'.next
    BY <1>5, CoQuiet
  <2>3. PoolPlace'
    BY <1>1, <2>1 DEF PoolPlace
  <2>4. /\ comp'.pc = "pick" => comp'.next < comp'.item
        /\ comp'.pc = "draw" => comp'.item = comp'.next /\ comp'.item # 0
    <3>1. CASE CoPop \/ CoExit \/ CoDrain \/ CoGone \/ \E ok \in BOOLEAN : CoCommit(ok)
      <4>1. comp'.pc \in {"pop", "gone", "drain"}
        BY <1>1, <3>1 DEF CoPop, CoExit, CoDrain, CoGone, CoCommit
      <4> QED BY <4>1
    <3>2. CASE CoDrained
      <4>1. comp.item > comp.next
              => comp'.pc = "pick" /\ comp'.item = comp.item /\ comp'.next = comp.next
        BY <1>1, <3>2 DEF CoDrained
      <4>2. ~(comp.item > comp.next) => comp'.pc = "pop"
        BY <1>1, <3>2 DEF CoDrained
      <4> QED BY <1>1, <4>1, <4>2
    <3>3. ASSUME NEW nb \in Buf, NEW jb \in Buf, CoPick(nb, jb)
          PROVE  /\ comp'.pc = "pick" => comp'.next < comp'.item
                 /\ comp'.pc = "draw" => comp'.item = comp'.next /\ comp'.item # 0
      <4>1. comp'.pc = "draw" /\ comp'.item = comp.item /\ comp'.next = comp.item
        BY <1>1, <3>3 DEF CoPick
      <4>2. comp.next < comp.item
        BY <1>1, <3>3 DEF CoPick, CompPlace
      <4> QED BY <1>1, <4>1, <4>2
    <3> QED BY <1>5, <3>1, <3>2, <3>3 DEF CoStep, Buf
  <2>5. CompPlace'
    BY <2>2, <2>4 DEF CompPlace
  <2> QED BY <2>1, <2>2, <2>3, <2>5, CamPlaceKept
<1>6. CASE PoolStep
  <2>1. Quiet(ring, ring')
    BY <1>6, PoolQuiet
  <2>2. cam' = cam /\ comp'.next = comp.next /\ comp'.item = comp.item
    BY <1>1, <1>6 DEF PoolStep, PoolStop, PoolMode, PoolJoin, PoolPurge, PoolPurged, PoolDown, PoolStart,
                      PoolStarted
  <2>3. comp' = comp \/ comp'.pc = "pop"
    BY <1>1, <1>6 DEF PoolStep, PoolStop, PoolMode, PoolJoin, PoolPurge, PoolPurged, PoolDown, PoolStart,
                      PoolStarted
  <2>4. PoolPlace'
    <3>1. CASE PoolStop \/ PoolMode
      <4>1. pool'.pc \in {"mode", "join"} /\ ~pool'.running
        BY <1>1, <3>1 DEF PoolStop, PoolMode, PoolPlace
      <4> QED BY <4>1 DEF PoolPlace
    <3>2. CASE PoolJoin
      <4>1. pool'.pc = "purge" /\ ~pool'.running /\ UNCHANGED <<comp, wk>>
            /\ comp.pc = "gone" /\ \A w \in Workers : wk[w].pc = "gone"
        BY <1>1, <3>2 DEF PoolJoin, PoolPlace
      <4> QED BY <4>1 DEF PoolPlace
    <3>3. CASE PoolPurge \/ PoolPurged \/ PoolDown
      <4>1. /\ pool'.pc \in {"purge", "reset", "down"} /\ ~pool'.running
            /\ pool.pc \in {"purge", "reset"} /\ UNCHANGED <<comp, wk>>
        BY <1>1, <3>3 DEF PoolPurge, PoolPurged, PoolDown, PoolPlace
      <4> QED BY <1>1, <4>1 DEF PoolPlace
    <3>4. CASE PoolStart \/ PoolStarted
      <4>1. pool'.pc \in {"start", "up"} /\ pool'.running
        BY <1>1, <3>4 DEF PoolStart, PoolStarted, PoolPlace
      <4> QED BY <4>1 DEF PoolPlace
    <3> QED BY <1>6, <3>1, <3>2, <3>3, <3>4 DEF PoolStep
  <2>5. CompPlace'
    BY <1>1, <2>1, <2>2, <2>3 DEF CompPlace, Quiet
  <2> QED BY <2>1, <2>2, <2>4, <2>5, CamPlaceKept DEF Quiet
<1>7. CASE UNCHANGED pipeVars
  BY <1>1, <1>7 DEF pipeVars, CamPlace, PoolPlace, CompPlace
<1> QED BY <1>2, <1>3, <1>4, <1>5, <1>6, <1>7 DEF PipeNext

\* No stop of the pool loses more than one job.
LEMMA LostKept ==
  ASSUME PipeInv, [PipeNext]_pipeVars
  PROVE  LostPlace'
<1>1. /\ ai \in [pc : {"idle", "claim", "decode", "push", "store"}, last : Nat, seq : Nat, rgb : Buf]
      /\ pool \in [running : BOOLEAN, enabled : BOOLEAN, reloads : Nat,
                   pc : {"up", "mode", "join", "purge", "reset", "down", "start"}]
      /\ jobq \in Seq(TaskType) /\ Len(jobq) \in Nat /\ Len(jobq) <= QueueCap
      /\ QueueCap \in Nat \ {0} /\ MaxReloads \in Nat /\ pool.reloads \in Nat
      /\ IsFiniteSet(lost) /\ Cardinality(lost) \in Nat
      /\ PoolPlace /\ LostPlace
  BY PipelineAssumption, LenProperties, FS_CardinalityType DEF PipeInv, PipeTypeOK
<1>2. CASE UNCHANGED <<ai, jobq, lost, pool>>
  BY <1>1, <1>2 DEF LostPlace
<1>3. CASE AiStep
  <2>1. UNCHANGED <<lost, pool>>
    BY <1>3 DEF AiStep, AiSee, AiClaimNone, AiDecodeOk, AiDecodeFail, AiLook, AiPush,
                AiPushRefused, AiClaim
  <2>2. CASE AiLook
    <3>1. jobq' = jobq /\ Len(jobq) < QueueCap /\ pool.pc \in {"start", "up"}
      BY <1>1, <2>2 DEF AiLook, PoolPlace
    <3> QED BY <1>1, <2>1, <3>1 DEF LostPlace
  <2>3. CASE AiPush
    <3>1. /\ ai.pc = "store" /\ ai'.pc = "idle" /\ jobq' = Append(jobq, Job(ai))
          /\ Job(ai) \in TaskType
      BY <1>1, <2>3 DEF AiPush, Job, TaskType
    <3>2. Len(jobq') = Len(jobq) + 1
      BY <1>1, <3>1, QueuedAppend
    <3>3. pool.pc = "reset" => Len(jobq) = 0
      BY <1>1, <3>1, EmptySeq DEF LostPlace
    <3> QED BY <1>1, <2>1, <3>1, <3>2, <3>3 DEF LostPlace
  <2>4. CASE AiSee \/ AiClaimNone \/ AiDecodeOk \/ AiDecodeFail \/ AiPushRefused
    <3>1. jobq' = jobq /\ ai'.pc # "store"
      <4>1. CASE AiSee
        BY <1>1, <4>1 DEF AiSee
      <4>2. CASE AiClaimNone
        BY <1>1, <4>2 DEF AiClaimNone
      <4>3. CASE AiDecodeOk
        BY <1>1, <4>3 DEF AiDecodeOk
      <4>4. CASE AiDecodeFail
        BY <4>4 DEF AiDecodeFail
      <4>5. CASE AiPushRefused
        BY <1>1, <4>5 DEF AiPushRefused
      <4> QED BY <2>4, <4>1, <4>2, <4>3, <4>4, <4>5
    <3> QED BY <1>1, <2>1, <3>1 DEF LostPlace
  <2>5. ASSUME NEW b \in Buf, AiClaim(b)
        PROVE  LostPlace'
    <3>1. jobq' = jobq /\ ai'.pc # "store"
      BY <2>5 DEF AiClaim
    <3> QED BY <1>1, <2>1, <3>1 DEF LostPlace
  <2> QED BY <1>3, <2>2, <2>3, <2>4, <2>5 DEF AiStep, Buf
<1>4. ASSUME NEW w \in Workers, WkStep(w)
      PROVE  LostPlace'
  <2>1. UNCHANGED <<ai, lost, pool>>
    BY <1>4 DEF WkStep, WkPop, WkExit, WkInferOk, WkAbandon, WkWrite, WkResult
  <2>2. CASE WkPop(w)
    <3>1. jobq # <<>> /\ jobq' = Tail(jobq) /\ ai.pc # "store"
      BY <2>2 DEF WkPop
    <3>2. Len(jobq') = Len(jobq) - 1
      BY <1>1, <3>1, QueuedTail
    <3> QED BY <1>1, <2>1, <3>1, <3>2 DEF LostPlace
  <2>3. CASE ~WkPop(w)
    <3>1. jobq' = jobq
      BY <1>4, <2>3 DEF WkStep, WkExit, WkInferOk, WkAbandon, WkWrite, WkResult
    <3> QED BY <1>2, <2>1, <3>1
  <2> QED BY <2>2, <2>3
<1>5. CASE PoolStop
  <2> DEFINE n == pool.reloads + 1
  <2>1. /\ n \in Nat /\ pool.pc = "up" /\ pool.reloads < MaxReloads
        /\ UNCHANGED <<ai, jobq, lost>>
        /\ pool' = [pool EXCEPT !.running = FALSE, !.pc = "mode", !.reloads = n]
    BY <1>1, <1>5 DEF PoolStop
  <2>2. pool'.pc = "mode" /\ pool'.reloads = n
    <3> HIDE DEF n
    <3> QED BY <1>1, <2>1
  <2> QED BY <1>1, <2>1, <2>2 DEF LostPlace
<1>6. CASE PoolMode \/ PoolJoin
  <2>1. /\ pool'.pc \in {"join", "purge"} /\ pool'.reloads = pool.reloads
        /\ pool.pc \in {"mode", "join"} /\ UNCHANGED <<ai, jobq, lost>>
    BY <1>1, <1>6 DEF PoolMode, PoolJoin
  <2> QED BY <1>1, <2>1 DEF LostPlace
<1>7. CASE PoolPurge
  <2>1. UNCHANGED <<ai, pool>> /\ pool.pc = "purge" /\ lost' \in SUBSET lost
    BY <1>7 DEF PoolPurge
  <2>2. Cardinality(lost') \in Nat /\ Cardinality(lost') <= Cardinality(lost)
    BY <1>1, <2>1, FS_Subset, FS_CardinalityType
  <2>3. jobq # <<>> => Len(Tail(jobq)) = Len(jobq) - 1
    BY <1>1, QueuedTail
  <2>4. Len(jobq') \in Int /\ Len(jobq') <= Len(jobq)
    BY <1>1, <1>7, <2>3 DEF PoolPurge
  <2> QED BY <1>1, <2>1, <2>2, <2>4 DEF LostPlace
<1>8. CASE PoolPurged
  <2>1. /\ pool'.pc = "reset" /\ pool'.reloads = pool.reloads /\ pool.pc = "purge"
        /\ jobq = <<>> /\ UNCHANGED <<ai, jobq, lost>>
    BY <1>1, <1>8 DEF PoolPurged
  <2>2. Len(jobq) = 0
    BY <1>1, <2>1, EmptySeq
  <2> QED BY <1>1, <2>1, <2>2 DEF LostPlace
<1>9. CASE PoolDown
  <2> DEFINE Q == {jobq[i] : i \in 1 .. Len(jobq)}
  <2>1. /\ pool'.pc = "down" /\ pool'.reloads = pool.reloads /\ pool.pc = "reset"
        /\ jobq' = <<>> /\ lost' = lost \cup Q
    BY <1>1, <1>9 DEF PoolDown
  <2>2. Q = {} \/ Q = {jobq[1]}
    <3>1. Len(jobq) <= 1
      BY <1>1, <2>1 DEF LostPlace
    <3>2. Len(jobq) = 0 \/ Len(jobq) = 1
      <4> HIDE DEF Q
      <4>1. Len(jobq) \in Nat
        BY <1>1
      <4> DEFINE n == Len(jobq)
      <4> HIDE DEF n
      <4>2. n \in Nat /\ n <= 1 => n = 0 \/ n = 1
        OBVIOUS
      <4> QED BY <3>1, <4>1, <4>2 DEF n
    <3> QED BY <3>2
  <2> HIDE DEF Q
  <2>3. Cardinality(lost') \in Nat /\ Cardinality(lost') <= Cardinality(lost) + 1
    <3>1. CASE Q = {}
      <4>1. lost' = lost
        BY <2>1, <3>1
      <4> QED BY <1>1, <4>1
    <3>2. CASE Q = {jobq[1]}
      <4>1. lost' = lost \cup {jobq[1]}
        BY <2>1, <3>2
      <4>2. /\ IsFiniteSet(lost \cup {jobq[1]})
            /\ Cardinality(lost \cup {jobq[1]}) \in {Cardinality(lost), Cardinality(lost) + 1}
        BY <1>1, FS_AddElement
      <4> QED BY <1>1, <4>1, <4>2
    <3> QED BY <2>2, <3>1, <3>2
  <2>4. Len(jobq') = 0
    BY <2>1, EmptySeq
  <2> QED BY <1>1, <2>1, <2>3, <2>4 DEF LostPlace
<1>10. CASE PoolStart \/ PoolStarted
  <2>1. /\ pool'.pc \in {"start", "up"} /\ pool'.reloads = pool.reloads
        /\ UNCHANGED <<ai, jobq, lost>>
    BY <1>1, <1>10 DEF PoolStart, PoolStarted
  <2> QED BY <1>1, <2>1 DEF LostPlace
<1>11. CASE CamStep \/ CoStep \/ RecStep \/ UNCHANGED pipeVars
  <2>1. UNCHANGED <<ai, jobq, lost, pool>>
    BY <1>11 DEF CamStep, CamInit, CamSessionEnd, CamCapture, CamQuiesced, CamTimeout, CamUnmap,
                 CamRetry, CoStep, CoPop, CoExit, CoDrain, CoDrained, CoGone, CoPick, CoCommit,
                 RecStep, RecBegin, RecTake, RecSkip, RecPut, RecEnd, pipeVars
  <2> QED BY <1>2, <2>1
<1> QED BY <1>3, <1>4, <1>5, <1>6, <1>7, <1>8, <1>9, <1>10, <1>11 DEF PipeNext, PoolStep

LEMMA TypesKept ==
  ASSUME PipeInv, [PipeNext]_pipeVars
  PROVE  PipeTypeOK'
<1>1. /\ ring \in RingType /\ PipeTypeOK /\ ring.produce \in Nat
      /\ \A i \in Slots : ring.slots[i].seq \in Nat /\ ring.slots[i].nv12 \in Buf
  BY DEF PipeInv, Sound, RingType, SlotType, Buf
<1>2. ring'.produce <= MaxSeq
  BY PlacesKept
<1>3. NoBuf \in Buf
  BY DEF Buf
<1>4. CASE CamStep
  <2>1. UNCHANGED <<ai, jobq, lost, wk, results, comp, rec, pool>>
    BY <1>4 DEF CamStep, CamInit, CamSessionEnd, CamCapture, CamQuiesced, CamTimeout, CamUnmap,
                CamRetry
  <2>2. cam' \in [pc : {"init", "loop", "wait", "unmap", "retry"}, sessions : Nat]
    BY <1>1, <1>4 DEF PipeTypeOK, CamStep, CamInit, CamSessionEnd, CamCapture, CamQuiesced,
                      CamTimeout, CamUnmap, CamRetry
  <2> QED BY <1>1, <1>2, <2>1, <2>2 DEF PipeTypeOK
<1>5. CASE AiStep
  <2>1. UNCHANGED <<cam, lost, wk, results, comp, rec, pool>>
    BY <1>5 DEF AiStep, AiSee, AiClaimNone, AiDecodeOk, AiDecodeFail, AiLook, AiPush,
                AiPushRefused, AiClaim
  <2>2. ai' \in [pc : {"idle", "claim", "decode", "push", "store"}, last : Nat, seq : Nat, rgb : Buf]
    <3>1. CASE AiSee \/ AiClaimNone
      BY <1>1, <3>1 DEF PipeTypeOK, AiSee, AiClaimNone
    <3>2. CASE AiDecodeOk \/ AiDecodeFail \/ AiLook
      <4>1. ai \in [pc : {"idle", "claim", "decode", "push", "store"}, last : Nat, seq : Nat, rgb : Buf]
        BY <1>1 DEF PipeTypeOK
      <4>2. CASE AiDecodeOk
        BY <4>1, <4>2 DEF AiDecodeOk
      <4>3. CASE AiDecodeFail
        BY <1>3, <4>1, <4>3 DEF AiDecodeFail
      <4>4. CASE AiLook
        BY <4>1, <4>4 DEF AiLook
      <4> QED BY <3>2, <4>2, <4>3, <4>4
    <3>3. CASE AiPush \/ AiPushRefused
      <4>1. ai \in [pc : {"idle", "claim", "decode", "push", "store"}, last : Nat, seq : Nat, rgb : Buf]
        BY <1>1 DEF PipeTypeOK
      <4>2. ai' = [ai EXCEPT !.pc = "idle", !.seq = 0, !.rgb = NoBuf]
        BY <3>3 DEF AiPush, AiPushRefused
      <4> QED BY <1>3, <4>1, <4>2
    <3>4. ASSUME NEW b \in Buf, AiClaim(b)
          PROVE  ai' \in [pc : {"idle", "claim", "decode", "push", "store"}, last : Nat, seq : Nat,
                          rgb : Buf]
      <4>1. PICK q \in ai.last + 1 .. ring.produce :
              ai' = [pc |-> "decode", last |-> q - 1, seq |-> q, rgb |-> b]
        BY <3>4 DEF AiClaim, Claimables
      <4>2. ai.last \in Nat
        BY <1>1 DEF PipeTypeOK
      <4>3. q \in Nat /\ q - 1 \in Nat
        BY <1>1, <4>2
      <4> QED BY <4>1, <4>3
    <3> QED BY <1>5, <3>1, <3>2, <3>3, <3>4 DEF AiStep, Buf
  <2>3. jobq' \in Seq(TaskType) /\ Len(jobq') <= QueueCap
    <3>1. CASE AiPush
      <4>1. Job(ai) \in TaskType
        BY <1>1 DEF PipeTypeOK, Job, TaskType
      <4>2. jobq' = Append(jobq, Job(ai)) /\ Len(jobq) < QueueCap /\ Len(jobq) \in Nat
        BY <1>1, <3>1, LenProperties DEF AiPush, PipeTypeOK, PipeInv, LostPlace
      <4> QED BY <1>1, <4>1, <4>2, QueuedAppend, PipelineAssumption DEF PipeTypeOK
    <3>2. CASE ~AiPush
      <4>1. jobq' = jobq
        BY <1>5, <3>2 DEF AiStep, AiSee, AiClaimNone, AiDecodeOk, AiDecodeFail, AiLook,
                          AiPushRefused, AiClaim
      <4> QED BY <1>1, <4>1 DEF PipeTypeOK
    <3> QED BY <3>1, <3>2
  <2> QED BY <1>1, <1>2, <2>1, <2>2, <2>3 DEF PipeTypeOK
<1>6. ASSUME NEW w \in Workers, WkStep(w)
      PROVE  PipeTypeOK'
  <2>1. UNCHANGED <<cam, ai, lost, comp, rec, pool>>
    BY <1>6 DEF WkStep, WkPop, WkExit, WkInferOk, WkAbandon, WkWrite, WkResult
  <2>a. /\ wk \in [Workers -> [pc : {"gone", "pop", "infer", "write", "result"}, seq : Nat, rgb : Buf]]
        /\ jobq \in Seq(TaskType) /\ Len(jobq) <= QueueCap /\ results \in Seq(Nat)
    BY <1>1 DEF PipeTypeOK
  <2>2. CASE WkPop(w)
    <3>1. Head(jobq) \in TaskType /\ jobq' = Tail(jobq) /\ results' = results
      BY <2>a, <2>2, QueuedTail DEF WkPop
    <3>2. jobq' \in Seq(TaskType) /\ Len(jobq') <= QueueCap
      BY <2>a, <2>2, <3>1, QueuedTail, PipelineAssumption DEF WkPop
    <3>3. wk' \in [Workers -> [pc : {"gone", "pop", "infer", "write", "result"}, seq : Nat, rgb : Buf]]
      BY <2>a, <2>2, <3>1 DEF WkPop, TaskType
    <3> QED BY <1>1, <1>2, <2>1, <3>1, <3>2, <3>3 DEF PipeTypeOK
  <2>3. CASE WkExit(w) \/ WkInferOk(w) \/ WkAbandon(w) \/ WkWrite(w)
    <3>1. jobq' = jobq /\ results' = results
      BY <2>3 DEF WkExit, WkInferOk, WkAbandon, WkWrite
    <3>2. wk' \in [Workers -> [pc : {"gone", "pop", "infer", "write", "result"}, seq : Nat, rgb : Buf]]
      <4>1. CASE WkExit(w)
        BY <2>a, <4>1 DEF WkExit
      <4>2. CASE WkInferOk(w)
        BY <2>a, <4>2 DEF WkInferOk
      <4>3. CASE WkAbandon(w)
        BY <1>3, <2>a, <4>3 DEF WkAbandon
      <4>4. CASE WkWrite(w)
        BY <1>3, <2>a, <4>4 DEF WkWrite
      <4> QED BY <2>3, <4>1, <4>2, <4>3, <4>4
    <3> QED BY <1>1, <1>2, <2>1, <3>1, <3>2 DEF PipeTypeOK
  <2>4. CASE WkResult(w)
    <3>1. wk[w].seq \in Nat /\ jobq' = jobq
      BY <2>a, <2>4 DEF WkResult
    <3>2. results' \in Seq(Nat)
      <4>1. \A q \in Nat : Append(results, q) \in Seq(Nat)
        BY <2>a, AppendProperties
      <4>2. results' = results \/ results' = Append(results, wk[w].seq)
        BY <2>4 DEF WkResult
      <4> QED BY <2>a, <3>1, <4>1, <4>2
    <3>3. wk' \in [Workers -> [pc : {"gone", "pop", "infer", "write", "result"}, seq : Nat, rgb : Buf]]
      BY <1>3, <2>a, <2>4 DEF WkResult
    <3> QED BY <1>1, <1>2, <2>1, <3>1, <3>2, <3>3 DEF PipeTypeOK
  <2> QED BY <1>6, <2>2, <2>3, <2>4 DEF WkStep
<1>7. CASE CoStep
  <2>1. UNCHANGED <<cam, ai, jobq, lost, wk, rec, pool>>
    BY <1>7 DEF CoStep, CoPop, CoExit, CoDrain, CoDrained, CoGone, CoPick, CoCommit
  <2>2. results' \in Seq(Nat) /\ (results # <<>> => Head(results) \in Nat)
    <3>1. results \in Seq(Nat)
      BY <1>1 DEF PipeTypeOK
    <3>2. results # <<>> => Head(results) \in Nat /\ Tail(results) \in Seq(Nat)
      BY <3>1, HeadTailProperties
    <3> QED BY <1>7, <3>1, <3>2 DEF CoStep, CoPop, CoExit, CoDrain, CoDrained, CoGone, CoPick, CoCommit
  <2>3. comp' \in [pc : {"gone", "pop", "drain", "pick", "draw"}, item : Nat, next : Nat,
                   nv12 : Buf, jpeg : Buf]
    <3>a. comp \in [pc : {"gone", "pop", "drain", "pick", "draw"}, item : Nat, next : Nat,
                    nv12 : Buf, jpeg : Buf]
      BY <1>1 DEF PipeTypeOK
    <3>1. CASE CoPop \/ CoDrain
      <4>1. Head(results) \in Nat
        BY <2>2, <3>1 DEF CoPop, CoDrain
      <4>2. comp' \in {[comp EXCEPT !.pc = "drain", !.item = Head(results)],
                       [comp EXCEPT !.item = Head(results)]}
        BY <3>1 DEF CoPop, CoDrain
      <4> QED BY <3>a, <4>1, <4>2
    <3>2. CASE CoExit \/ CoDrained \/ CoGone
      <4>1. CASE CoExit
        BY <3>a, <4>1 DEF CoExit
      <4>2. CASE CoDrained
        BY <3>a, <4>2 DEF CoDrained
      <4>3. CASE CoGone
        BY <3>a, <4>3 DEF CoGone
      <4> QED BY <3>2, <4>1, <4>2, <4>3
    <3>3. ASSUME NEW nb \in Buf, NEW jb \in Buf, CoPick(nb, jb)
          PROVE  comp' \in [pc : {"gone", "pop", "drain", "pick", "draw"}, item : Nat, next : Nat,
                            nv12 : Buf, jpeg : Buf]
      BY <3>a, <3>3 DEF CoPick
    <3>4. ASSUME NEW ok \in BOOLEAN, CoCommit(ok)
          PROVE  comp' \in [pc : {"gone", "pop", "drain", "pick", "draw"}, item : Nat, next : Nat,
                            nv12 : Buf, jpeg : Buf]
      BY <1>3, <3>a, <3>4 DEF CoCommit
    <3> QED BY <1>7, <3>1, <3>2, <3>3, <3>4 DEF CoStep, Buf
  <2> QED BY <1>1, <1>2, <2>1, <2>2, <2>3 DEF PipeTypeOK
<1>8. CASE RecStep
  <2>1. UNCHANGED <<cam, ai, jobq, lost, wk, results, comp, pool>>
    BY <1>8 DEF RecStep, RecBegin, RecTake, RecSkip, RecPut, RecEnd
  <2>2. rec' \in [on : BOOLEAN, last : Nat, nv12 : Buf, segments : Nat]
    <3>a. rec \in [on : BOOLEAN, last : Nat, nv12 : Buf, segments : Nat]
      BY <1>1 DEF PipeTypeOK
    <3>1. CASE RecTake
      <4>1. PICK i \in Slots : rec' = [rec EXCEPT !.last = ring.slots[i].seq,
                                                 !.nv12 = ring.slots[i].nv12]
        BY <3>1 DEF RecTake, EncodePick
      <4> QED BY <1>1, <3>a, <4>1
    <3>2. CASE RecSkip
      <4>1. PICK i \in Slots : rec' = [rec EXCEPT !.last = ring.slots[i].seq]
        BY <3>2 DEF RecSkip, EncodePick
      <4> QED BY <1>1, <3>a, <4>1
    <3>3. CASE RecBegin
      <4> DEFINE n == rec.segments + 1
      <4>1. n \in Nat
        BY <3>a
      <4>2. rec' = [rec EXCEPT !.on = TRUE, !.segments = n]
        BY <3>3 DEF RecBegin
      <4> HIDE DEF n
      <4> QED BY <3>a, <4>1, <4>2
    <3>4. CASE RecPut
      BY <1>3, <3>a, <3>4 DEF RecPut
    <3>5. CASE RecEnd
      BY <3>a, <3>5 DEF RecEnd
    <3> QED BY <1>8, <3>1, <3>2, <3>3, <3>4, <3>5 DEF RecStep
  <2> QED BY <1>1, <1>2, <2>1, <2>2 DEF PipeTypeOK
<1>9. CASE PoolStep
  <2>1. UNCHANGED <<cam, rec>>
    BY <1>9 DEF PoolStep, PoolStop, PoolMode, PoolJoin, PoolPurge, PoolPurged, PoolDown, PoolStart, PoolStarted
  <2>2. pool' \in [running : BOOLEAN, enabled : BOOLEAN, reloads : Nat,
                   pc : {"up", "mode", "join", "purge", "reset", "down", "start"}]
    <3>1. pool \in [running : BOOLEAN, enabled : BOOLEAN, reloads : Nat,
                   pc : {"up", "mode", "join", "purge", "reset", "down", "start"}]
      BY <1>1 DEF PipeTypeOK
    <3>2. CASE PoolStop
      <4> DEFINE n == pool.reloads + 1
      <4>1. n \in Nat
        BY <3>1
      <4>2. pool' = [pool EXCEPT !.running = FALSE, !.pc = "mode", !.reloads = n]
        BY <3>2 DEF PoolStop
      <4> HIDE DEF n
      <4> QED BY <3>1, <4>1, <4>2
    <3>3. CASE PoolMode \/ PoolJoin
      BY <3>1, <3>3 DEF PoolMode, PoolJoin
    <3>4. CASE PoolPurge \/ PoolPurged \/ PoolDown
      BY <3>1, <3>4 DEF PoolPurge, PoolPurged, PoolDown
    <3>5. CASE PoolStart \/ PoolStarted
      BY <3>1, <3>5 DEF PoolStart, PoolStarted
    <3> QED BY <1>9, <3>2, <3>3, <3>4, <3>5 DEF PoolStep
  <2>3. CASE PoolStop \/ PoolMode \/ PoolJoin \/ PoolPurged \/ PoolStarted
    <3>1. UNCHANGED <<ai, jobq, lost, wk, results, comp>>
      BY <2>3 DEF PoolStop, PoolMode, PoolJoin, PoolPurged, PoolStarted
    <3> QED BY <1>1, <1>2, <2>1, <2>2, <3>1 DEF PipeTypeOK
  <2>4. CASE PoolPurge
    <3>1. /\ UNCHANGED <<ai, wk, results, comp>> /\ lost' \in SUBSET lost
          /\ jobq' = jobq \/ (jobq # <<>> /\ jobq' = Tail(jobq))
      BY <2>4 DEF PoolPurge
    <3>2. jobq' \in Seq(TaskType) /\ Len(jobq') <= QueueCap
      <4>1. jobq \in Seq(TaskType) /\ Len(jobq) \in Nat /\ Len(jobq) <= QueueCap /\ QueueCap \in Nat
        BY <1>1, LenProperties, PipelineAssumption DEF PipeTypeOK
      <4>2. jobq # <<>> => Tail(jobq) \in Seq(TaskType) /\ Len(Tail(jobq)) = Len(jobq) - 1
        BY <4>1, QueuedTail
      <4> QED BY <3>1, <4>1, <4>2
    <3>3. IsFiniteSet(lost') /\ lost' \in SUBSET TaskType
      BY <1>1, <3>1, FS_Subset DEF PipeTypeOK
    <3> QED BY <1>1, <1>2, <2>1, <2>2, <3>1, <3>2, <3>3 DEF PipeTypeOK
  <2>5. CASE PoolDown
    <3>1. /\ UNCHANGED <<wk, comp>> /\ results' = <<>> /\ jobq' = <<>>
          /\ lost' = lost \cup {jobq[i] : i \in 1 .. Len(jobq)}
      BY <2>5 DEF PoolDown
    <3>2. ai' \in [pc : {"idle", "claim", "decode", "push", "store"}, last : Nat, seq : Nat, rgb : Buf]
      BY <1>1, <2>5 DEF PoolDown, PipeTypeOK
    <3>3. <<>> \in Seq(Nat) /\ <<>> \in Seq(TaskType) /\ Len(<<>>) = 0
      BY EmptySeq
    <3>4. Len(jobq) \in Nat /\ \A i \in 1 .. Len(jobq) : jobq[i] \in TaskType
      BY <1>1, LenProperties, ElementOfSeq DEF PipeTypeOK
    <3>5. IsFiniteSet(lost') /\ lost' \in SUBSET TaskType
      <4> DEFINE Q == {jobq[i] : i \in 1 .. Len(jobq)}
                 f == [i \in 1 .. Len(jobq) |-> jobq[i]]
      <4>1. IsFiniteSet(1 .. Len(jobq))
        BY <3>4, FS_Interval
      <4>2. f \in Surjection(1 .. Len(jobq), Q)
        BY DEF Surjection
      <4>3. IsFiniteSet(Q)
        BY <4>1, <4>2, FS_Surjection
      <4>4. Q \in SUBSET TaskType
        BY <3>4
      <4> HIDE DEF Q
      <4> QED BY <1>1, <3>1, <4>3, <4>4, FS_Union DEF PipeTypeOK, Q
    <3>6. Len(jobq') <= QueueCap /\ jobq' \in Seq(TaskType) /\ results' \in Seq(Nat)
      BY <3>1, <3>3, PipelineAssumption
    <3> QED BY <1>1, <1>2, <2>1, <2>2, <3>1, <3>2, <3>5, <3>6 DEF PipeTypeOK
  <2>6. CASE PoolStart
    <3>1. UNCHANGED <<ai, jobq, lost, results>>
      BY <2>6 DEF PoolStart
    <3>2. comp' \in [pc : {"gone", "pop", "drain", "pick", "draw"}, item : Nat, next : Nat,
                     nv12 : Buf, jpeg : Buf]
      BY <1>1, <2>6 DEF PoolStart, PipeTypeOK
    <3>3. wk' \in [Workers -> [pc : {"gone", "pop", "infer", "write", "result"}, seq : Nat, rgb : Buf]]
      BY <1>1, <2>6 DEF PoolStart, PipeTypeOK
    <3> QED BY <1>1, <1>2, <2>1, <2>2, <3>1, <3>2, <3>3 DEF PipeTypeOK
  <2> QED BY <1>9, <2>3, <2>4, <2>5, <2>6 DEF PoolStep
<1>10. CASE UNCHANGED pipeVars
  BY <1>1, <1>10 DEF pipeVars, PipeTypeOK
<1> QED BY <1>4, <1>5, <1>6, <1>7, <1>8, <1>9, <1>10 DEF PipeNext

\* A job passes from hand to hand, and never into two.
LEMMA ApartKept ==
  ASSUME PipeInv, [PipeNext]_pipeVars
  PROVE  Apart(ai', jobq', wk')
<1>1. /\ Apart(ai, jobq, wk) /\ jobq \in Seq(TaskType) /\ PoolPlace
      /\ ai \in [pc : {"idle", "claim", "decode", "push", "store"}, last : Nat, seq : Nat, rgb : Buf]
      /\ wk \in [Workers -> [pc : {"gone", "pop", "infer", "write", "result"}, seq : Nat, rgb : Buf]]
  BY DEF PipeInv, PipeTypeOK
<1>2. CASE UNCHANGED <<ai, jobq, wk>>
  BY <1>1, <1>2
<1>3. CASE AiStep
  <2>1. wk' = wk
    BY <1>3 DEF AiStep, AiSee, AiClaimNone, AiDecodeOk, AiDecodeFail, AiLook, AiPush, AiPushRefused, AiClaim
  <2>2. CASE AiDecodeOk
    <3>1. ai.pc = "decode" /\ jobq' = jobq /\ ai'.rgb = ai.rgb /\ ai.rgb # NoBuf
      BY <1>1, <2>2 DEF AiDecodeOk
    <3>2. /\ Decoding(ai) \in Jobs /\ ~Decoding(ai).decoded /\ Decoding(ai).rgb = ai.rgb
      BY <3>1, JobsAre DEF InHand, Decoding
    <3>3. \A j \in Jobs : j.decoded => j.rgb # ai.rgb
      BY <3>1, <3>2 DEF PipeInv, Sound, Claimed
    <3>4. \A i \in 1 .. Len(jobq) : jobq[i].rgb # ai.rgb
      <4> TAKE i \in 1 .. Len(jobq)
      <4>1. Decoded(jobq[i]) \in Jobs
        BY JobsAre DEF Queued
      <4> QED BY <3>3, <4>1, DecodedFields
    <3>5. \A w \in Workers : Holds(wk[w]) => wk[w].rgb # ai.rgb
      <4> SUFFICES ASSUME NEW w \in Workers, Holds(wk[w])
                   PROVE  wk[w].rgb # ai.rgb
        OBVIOUS
      <4>1. Decoded(wk[w]) \in Jobs
        BY JobsAre DEF Working
      <4> QED BY <3>3, <4>1, DecodedFields
    <3> QED BY <1>1, <2>1, <3>1, <3>4, <3>5 DEF Apart
  <2>3. CASE AiPush
    <3>1. /\ ai.pc = "store" /\ ai'.pc = "idle" /\ jobq' = Append(jobq, Job(ai))
          /\ Job(ai) \in TaskType /\ Job(ai).rgb = ai.rgb
      BY <1>1, <2>3 DEF AiPush, Job, TaskType
    <3>2. /\ Len(jobq') = Len(jobq) + 1 /\ Len(jobq) \in Nat
          /\ \A i \in 1 .. Len(jobq) : jobq'[i] = jobq[i]
          /\ jobq'[Len(jobq) + 1].rgb = ai.rgb
      BY <1>1, <3>1, QueuedAppend, LenProperties
    <3>3. \A i \in 1 .. Len(jobq') : i \in 1 .. Len(jobq) \/ i = Len(jobq) + 1
      BY <3>2
    <3>4. \A i, j \in 1 .. Len(jobq') : jobq'[i].rgb = jobq'[j].rgb => i = j
      BY <1>1, <3>1, <3>2, <3>3 DEF Apart
    <3>5. \A i \in 1 .. Len(jobq'), w \in Workers : Holds(wk[w]) => jobq'[i].rgb # wk[w].rgb
      BY <1>1, <3>1, <3>2, <3>3 DEF Apart
    <3> QED BY <1>1, <2>1, <3>1, <3>4, <3>5 DEF Apart
  <2>4. CASE AiSee \/ AiClaimNone \/ AiDecodeFail \/ AiPushRefused \/ \E b \in Buf : AiClaim(b)
    <3>1. ai'.pc \in {"idle", "claim", "decode"} /\ jobq' = jobq
      <4>1. CASE AiSee
        BY <1>1, <4>1 DEF AiSee
      <4>2. CASE AiClaimNone
        BY <1>1, <4>2 DEF AiClaimNone
      <4>3. CASE AiDecodeFail
        BY <4>3 DEF AiDecodeFail
      <4>4. CASE AiPushRefused
        BY <1>1, <4>4 DEF AiPushRefused
      <4>5. ASSUME NEW b \in Buf, AiClaim(b)
            PROVE  ai'.pc \in {"idle", "claim", "decode"} /\ jobq' = jobq
        BY <4>5 DEF AiClaim
      <4> QED BY <2>4, <4>1, <4>2, <4>3, <4>4, <4>5
    <3> QED BY <1>1, <2>1, <3>1 DEF Apart
  <2>5. CASE AiLook
    <3>1. ai.pc = "push" /\ ai'.rgb = ai.rgb /\ jobq' = jobq
      BY <1>1, <2>5 DEF AiLook
    <3> QED BY <1>1, <2>1, <3>1 DEF Apart
  <2> QED BY <1>3, <2>2, <2>3, <2>4, <2>5 DEF AiStep, Buf
<1>4. ASSUME NEW w \in Workers, WkStep(w)
      PROVE  Apart(ai', jobq', wk')
  <2>1. ai' = ai
    BY <1>4 DEF WkStep, WkPop, WkExit, WkInferOk, WkAbandon, WkWrite, WkResult
  <2>2. \A v \in Workers \ {w} : wk'[v] = wk[v]
    BY <1>1, <1>4 DEF WkStep, WkPop, WkExit, WkInferOk, WkAbandon, WkWrite, WkResult
  <2>3. CASE WkPop(w)
    <3>1. /\ ~Holds(wk[w]) /\ wk'[w].rgb = Head(jobq).rgb
          /\ jobq # <<>> /\ jobq' = Tail(jobq)
      BY <1>1, <2>3 DEF WkPop, Holds
    <3>2. /\ Len(jobq) \in Nat \ {0} /\ Len(jobq') = Len(jobq) - 1 /\ Head(jobq) = jobq[1]
          /\ \A i \in 1 .. Len(jobq') : jobq'[i] = jobq[i + 1] /\ i + 1 \in 1 .. Len(jobq)
      BY <1>1, <3>1, QueuedTail
    <3>3. 1 \in 1 .. Len(jobq) /\ \A i, j \in 1 .. Len(jobq') : i + 1 # 1 /\ (i + 1 = j + 1 => i = j)
      BY <3>2
    <3>4. \A i, j \in 1 .. Len(jobq') : jobq'[i].rgb = jobq'[j].rgb => i = j
      BY <1>1, <3>2, <3>3 DEF Apart
    <3>5. \A i \in 1 .. Len(jobq'), v \in Workers : Holds(wk'[v]) => jobq'[i].rgb # wk'[v].rgb
      BY <1>1, <2>2, <3>1, <3>2, <3>3 DEF Apart
    <3>6. \A u, v \in Workers : Holds(wk'[u]) /\ Holds(wk'[v]) /\ wk'[u].rgb = wk'[v].rgb => u = v
      BY <1>1, <2>2, <3>1, <3>2, <3>3 DEF Apart
    <3>7. ai.pc \in {"push", "store"} =>
            /\ \A i \in 1 .. Len(jobq') : jobq'[i].rgb # ai.rgb
            /\ \A v \in Workers : Holds(wk'[v]) => wk'[v].rgb # ai.rgb
      BY <1>1, <2>2, <3>1, <3>2, <3>3 DEF Apart
    <3> QED BY <2>1, <3>4, <3>5, <3>6, <3>7 DEF Apart
  <2>4. CASE ~WkPop(w)
    <3>1. jobq' = jobq
      BY <1>4, <2>4 DEF WkStep, WkExit, WkInferOk, WkAbandon, WkWrite, WkResult
    <3>2. Holds(wk'[w]) => Holds(wk[w]) /\ wk'[w].rgb = wk[w].rgb
      BY <1>1, <1>4, <2>4 DEF WkStep, WkExit, WkInferOk, WkAbandon, WkWrite, WkResult, Holds
    <3>3. \A v \in Workers : Holds(wk'[v]) => Holds(wk[v]) /\ wk'[v].rgb = wk[v].rgb
      BY <2>2, <3>2
    <3> QED BY <1>1, <2>1, <3>1, <3>3 DEF Apart
  <2> QED BY <2>3, <2>4
<1>5. CASE PoolStep
  <2>1. CASE PoolPurge
    <3>1. ai' = ai /\ wk' = wk /\ (jobq' = jobq \/ (jobq # <<>> /\ jobq' = Tail(jobq)))
      BY <2>1 DEF PoolPurge
    <3>a. CASE jobq' = jobq
      BY <1>2, <3>1, <3>a
    <3>b. CASE jobq # <<>> /\ jobq' = Tail(jobq)
      <4>1. /\ Len(jobq) \in Nat \ {0} /\ Len(jobq') = Len(jobq) - 1
            /\ \A i \in 1 .. Len(jobq') : jobq'[i] = jobq[i + 1] /\ i + 1 \in 1 .. Len(jobq)
        BY <1>1, <3>b, QueuedTail
      <4>2. \A i, j \in 1 .. Len(jobq') : i + 1 = j + 1 => i = j
        BY <4>1
      <4>3. \A i, j \in 1 .. Len(jobq') : jobq'[i].rgb = jobq'[j].rgb => i = j
        <5>1. \A k, l \in 1 .. Len(jobq) : jobq[k].rgb = jobq[l].rgb => k = l
          BY <1>1 DEF Apart
        <5>2. ASSUME NEW i \in 1 .. Len(jobq'), NEW j \in 1 .. Len(jobq'),
                     jobq'[i].rgb = jobq'[j].rgb
              PROVE  i = j
          <6>1. jobq[i + 1].rgb = jobq[j + 1].rgb /\ i + 1 \in 1 .. Len(jobq) /\ j + 1 \in 1 .. Len(jobq)
            BY <4>1, <5>2
          <6>2. i + 1 = j + 1
            BY <5>1, <6>1
          <6> QED BY <4>2, <6>2
        <5> QED BY <5>2
      <4>4. \A i \in 1 .. Len(jobq'), w \in Workers : Holds(wk[w]) => jobq'[i].rgb # wk[w].rgb
        <5>1. \A i \in 1 .. Len(jobq), w \in Workers : Holds(wk[w]) => jobq[i].rgb # wk[w].rgb
          BY <1>1 DEF Apart
        <5> QED BY <4>1, <5>1
      <4>5. ai.pc \in {"push", "store"} => \A i \in 1 .. Len(jobq') : jobq'[i].rgb # ai.rgb
        <5>1. ai.pc \in {"push", "store"} => \A i \in 1 .. Len(jobq) : jobq[i].rgb # ai.rgb
          BY <1>1 DEF Apart
        <5> QED BY <4>1, <5>1
      <4>6. /\ \A v, w \in Workers : Holds(wk[v]) /\ Holds(wk[w]) /\ wk[v].rgb = wk[w].rgb => v = w
            /\ ai.pc \in {"push", "store"} => \A w \in Workers : Holds(wk[w]) => wk[w].rgb # ai.rgb
        BY <1>1 DEF Apart
      <4> QED BY <3>1, <4>3, <4>4, <4>5, <4>6 DEF Apart
    <3> QED BY <3>1, <3>a, <3>b
  <2>2. CASE PoolDown
    <3>1. jobq' = <<>> /\ wk' = wk
      BY <2>2 DEF PoolDown
    <3>2. Len(jobq') = 0
      BY <3>1, EmptySeq
    <3>3. \A w \in Workers : ~Holds(wk[w])
      BY <1>1, <2>2 DEF PoolDown, PoolPlace, Holds
    <3> QED BY <1>1, <3>1, <3>2, <3>3 DEF Apart
  <2>3. CASE PoolStart
    <3>1. jobq' = jobq /\ ai' = ai /\ \A w \in Workers : ~Holds(wk'[w])
      BY <1>1, <2>3 DEF PoolStart, Holds
    <3> QED BY <1>1, <3>1 DEF Apart
  <2>4. CASE PoolStop \/ PoolMode \/ PoolJoin \/ PoolPurged \/ PoolStarted
    <3>1. UNCHANGED <<ai, jobq, wk>>
      BY <2>4 DEF PoolStop, PoolMode, PoolJoin, PoolPurged, PoolStarted
    <3> QED BY <1>2, <3>1
  <2> QED BY <1>5, <2>1, <2>2, <2>3, <2>4 DEF PoolStep
<1>6. CASE CamStep \/ CoStep \/ RecStep \/ UNCHANGED pipeVars
  <2>1. UNCHANGED <<ai, jobq, wk>>
    BY <1>6 DEF CamStep, CamInit, CamSessionEnd, CamCapture, CamQuiesced, CamTimeout, CamUnmap,
                CamRetry, CoStep, CoPop, CoExit, CoDrain, CoDrained, CoGone, CoPick, CoCommit,
                RecStep, RecBegin, RecTake, RecSkip, RecPut, RecEnd, pipeVars
  <2> QED BY <1>2, <2>1
<1> QED BY <1>3, <1>4, <1>5, <1>6 DEF PipeNext

\* A lost job's picture is never handed out again.
LEMMA AdriftKept ==
  ASSUME PipeInv, [PipeNext]_pipeVars
  PROVE  Adrift(ai', jobq', wk', lost')
<1>1. /\ Apart(ai, jobq, wk) /\ Adrift(ai, jobq, wk, lost) /\ jobq \in Seq(TaskType)
      /\ lost \in SUBSET TaskType /\ PoolPlace
      /\ ai \in [pc : {"idle", "claim", "decode", "push", "store"}, last : Nat, seq : Nat, rgb : Buf]
      /\ wk \in [Workers -> [pc : {"gone", "pop", "infer", "write", "result"}, seq : Nat, rgb : Buf]]
  BY DEF PipeInv, PipeTypeOK
<1>2. CASE UNCHANGED <<ai, jobq, lost, wk>>
  BY <1>1, <1>2
<1>3. CASE AiStep
  <2>1. lost' = lost /\ wk' = wk
    BY <1>3 DEF AiStep, AiSee, AiClaimNone, AiDecodeOk, AiDecodeFail, AiLook, AiPush,
                AiPushRefused, AiClaim
  <2>2. CASE AiDecodeOk
    <3>1. ai.pc = "decode" /\ jobq' = jobq /\ ai'.rgb = ai.rgb /\ ai.rgb # NoBuf
      BY <1>1, <2>2 DEF AiDecodeOk
    <3>2. /\ Decoding(ai) \in Jobs /\ ~Decoding(ai).decoded /\ Decoding(ai).rgb = ai.rgb
      BY <3>1, JobsAre DEF InHand, Decoding
    <3>3. \A j \in Jobs : j.decoded => j.rgb # ai.rgb
      BY <3>1, <3>2 DEF PipeInv, Sound, Claimed
    <3>4. \A j \in lost : j.rgb # ai.rgb
      <4> TAKE j \in lost
      <4>1. Decoded(j) \in Jobs
        BY JobsAre DEF Strayed
      <4> QED BY <3>3, <4>1, DecodedFields
    <3> QED BY <1>1, <2>1, <3>1, <3>4 DEF Adrift
  <2>3. CASE AiPush
    <3>1. /\ ai.pc = "store" /\ ai'.pc = "idle" /\ jobq' = Append(jobq, Job(ai))
          /\ Job(ai) \in TaskType /\ Job(ai).rgb = ai.rgb
      BY <1>1, <2>3 DEF AiPush, Job, TaskType
    <3>2. /\ Len(jobq') = Len(jobq) + 1 /\ Len(jobq) \in Nat
          /\ \A i \in 1 .. Len(jobq) : jobq'[i] = jobq[i]
          /\ jobq'[Len(jobq) + 1].rgb = ai.rgb
      BY <1>1, <3>1, QueuedAppend, LenProperties
    <3>3. \A i \in 1 .. Len(jobq') : i \in 1 .. Len(jobq) \/ i = Len(jobq) + 1
      BY <3>2
    <3>4. \A j \in lost, i \in 1 .. Len(jobq') : jobq'[i].rgb # j.rgb
      BY <1>1, <3>1, <3>2, <3>3 DEF Adrift
    <3> QED BY <1>1, <2>1, <3>1, <3>4 DEF Adrift
  <2>4. CASE AiLook
    <3>1. ai.pc = "push" /\ ai'.rgb = ai.rgb /\ jobq' = jobq
      BY <1>1, <2>4 DEF AiLook
    <3> QED BY <1>1, <2>1, <3>1 DEF Adrift
  <2>5. CASE AiSee \/ AiClaimNone \/ AiDecodeFail \/ AiPushRefused
    <3>1. ai'.pc \in {"idle", "claim"} /\ jobq' = jobq
      <4>1. CASE AiSee
        BY <1>1, <4>1 DEF AiSee
      <4>2. CASE AiClaimNone
        BY <1>1, <4>2 DEF AiClaimNone
      <4>3. CASE AiDecodeFail
        BY <4>3 DEF AiDecodeFail
      <4>4. CASE AiPushRefused
        BY <1>1, <4>4 DEF AiPushRefused
      <4> QED BY <2>5, <4>1, <4>2, <4>3, <4>4
    <3> QED BY <1>1, <2>1, <3>1 DEF Adrift
  <2>6. ASSUME NEW b \in Buf, AiClaim(b)
        PROVE  Adrift(ai', jobq', wk', lost')
    <3>1. ai'.pc = "decode" /\ jobq' = jobq
      BY <2>6 DEF AiClaim
    <3> QED BY <1>1, <2>1, <3>1 DEF Adrift
  <2> QED BY <1>3, <2>2, <2>3, <2>4, <2>5, <2>6 DEF AiStep, Buf
<1>4. ASSUME NEW w \in Workers, WkStep(w)
      PROVE  Adrift(ai', jobq', wk', lost')
  <2>1. ai' = ai /\ lost' = lost
    BY <1>4 DEF WkStep, WkPop, WkExit, WkInferOk, WkAbandon, WkWrite, WkResult
  <2>2. \A v \in Workers \ {w} : wk'[v] = wk[v]
    BY <1>1, <1>4 DEF WkStep, WkPop, WkExit, WkInferOk, WkAbandon, WkWrite, WkResult
  <2>3. CASE WkPop(w)
    <3>1. wk'[w].rgb = Head(jobq).rgb /\ jobq # <<>> /\ jobq' = Tail(jobq)
      BY <1>1, <2>3 DEF WkPop
    <3>2. /\ Len(jobq) \in Nat \ {0} /\ Len(jobq') = Len(jobq) - 1 /\ Head(jobq) = jobq[1]
          /\ \A i \in 1 .. Len(jobq') : jobq'[i] = jobq[i + 1] /\ i + 1 \in 1 .. Len(jobq)
      BY <1>1, <3>1, QueuedTail
    <3>3. 1 \in 1 .. Len(jobq)
      BY <3>2
    <3>4. \A j \in lost : Head(jobq).rgb # j.rgb
      BY <1>1, <3>2, <3>3 DEF Adrift
    <3>5. \A j \in lost : \A i \in 1 .. Len(jobq') : jobq'[i].rgb # j.rgb
      <4>1. \A j \in lost : \A i \in 1 .. Len(jobq) : jobq[i].rgb # j.rgb
        BY <1>1 DEF Adrift
      <4> QED BY <3>2, <4>1
    <3>6. \A j \in lost : \A v \in Workers : Holds(wk'[v]) => wk'[v].rgb # j.rgb
      BY <1>1, <2>2, <3>1, <3>4 DEF Adrift
    <3> QED BY <1>1, <2>1, <3>5, <3>6 DEF Adrift
  <2>4. CASE ~WkPop(w)
    <3>1. jobq' = jobq
      BY <1>4, <2>4 DEF WkStep, WkExit, WkInferOk, WkAbandon, WkWrite, WkResult
    <3>2. Holds(wk'[w]) => Holds(wk[w]) /\ wk'[w].rgb = wk[w].rgb
      BY <1>1, <1>4, <2>4 DEF WkStep, WkExit, WkInferOk, WkAbandon, WkWrite, WkResult, Holds
    <3>3. \A v \in Workers : Holds(wk'[v]) => Holds(wk[v]) /\ wk'[v].rgb = wk[v].rgb
      BY <2>2, <3>2
    <3> QED BY <1>1, <2>1, <3>1, <3>3 DEF Adrift
  <2> QED BY <2>3, <2>4
<1>5. CASE PoolPurge
  <2>1. /\ ai' = ai /\ wk' = wk /\ lost' \in SUBSET lost
        /\ jobq' = jobq \/ (jobq # <<>> /\ jobq' = Tail(jobq))
    BY <1>5 DEF PoolPurge
  <2>2. CASE jobq' = jobq
    BY <1>1, <2>1, <2>2 DEF Adrift
  <2>3. CASE jobq # <<>> /\ jobq' = Tail(jobq)
    <3>1. \A i \in 1 .. Len(jobq') : jobq'[i] = jobq[i + 1] /\ i + 1 \in 1 .. Len(jobq)
      BY <1>1, <2>3, QueuedTail
    <3> QED BY <1>1, <2>1, <3>1 DEF Adrift
  <2> QED BY <2>1, <2>2, <2>3
<1>6. CASE PoolDown
  <2>1. /\ jobq' = <<>> /\ wk' = wk /\ ai'.pc = ai.pc /\ ai'.rgb = ai.rgb
        /\ lost' = lost \cup {jobq[i] : i \in 1 .. Len(jobq)}
    BY <1>1, <1>6 DEF PoolDown
  <2>2. Len(jobq') = 0
    BY <2>1, EmptySeq
  <2>3. \A w \in Workers : ~Holds(wk[w])
    BY <1>1, <1>6 DEF PoolDown, PoolPlace, Holds
  <2>4. ai.pc \in {"push", "store"} => \A j \in lost' : j.rgb # ai.rgb
    BY <1>1, <2>1 DEF Adrift, Apart
  <2> QED BY <2>1, <2>2, <2>3, <2>4 DEF Adrift
<1>7. CASE PoolStart
  <2>1. /\ jobq' = jobq /\ ai' = ai /\ lost' = lost /\ \A w \in Workers : ~Holds(wk'[w])
    BY <1>1, <1>7 DEF PoolStart, Holds
  <2> QED BY <1>1, <2>1 DEF Adrift
<1>8. CASE PoolStop \/ PoolMode \/ PoolJoin \/ PoolPurged \/ PoolStarted
  <2>1. UNCHANGED <<ai, jobq, lost, wk>>
    BY <1>8 DEF PoolStop, PoolMode, PoolJoin, PoolPurged, PoolStarted
  <2> QED BY <1>2, <2>1
<1>9. CASE CamStep \/ CoStep \/ RecStep \/ UNCHANGED pipeVars
  <2>1. UNCHANGED <<ai, jobq, lost, wk>>
    BY <1>9 DEF CamStep, CamInit, CamSessionEnd, CamCapture, CamQuiesced, CamTimeout, CamUnmap,
                CamRetry, CoStep, CoPop, CoExit, CoDrain, CoDrained, CoGone, CoPick, CoCommit,
                RecStep, RecBegin, RecTake, RecSkip, RecPut, RecEnd, pipeVars
  <2> QED BY <1>2, <2>1
<1> QED BY <1>3, <1>4, <1>5, <1>6, <1>7, <1>8, <1>9 DEF PipeNext, PoolStep

\* The empty ring, and nothing held.
LEMMA SoundStart == Sound(EmptyRing, {}, Idle, NoBuf)
<1> DEFINE r == EmptyRing
<1>1. /\ r.produce = 0 /\ r.display = 0 /\ ~r.mapped /\ ~r.quiescing
      /\ r.queued = {}
      /\ \A i \in Slots : r.slots[i] = EmptySlot
      /\ \A k \in Kinds : r.pools[k] = {}
  BY DEF EmptyRing
<1>2. /\ EmptySlot.seq = 0 /\ EmptySlot.raw = NoBuf /\ EmptySlot.rgb = NoBuf
      /\ EmptySlot.nv12 = NoBuf /\ EmptySlot.claims = 0 /\ Reusable(EmptySlot)
  BY DEF EmptySlot, Reusable
<1>3. Tidy(r)
  BY <1>1, <1>2 DEF Tidy, Settled, Clean, NewestRaw, RawDone, RgbDone, Nv12Done, JpegDone
<1>4. Claimed(r, {})
  BY <1>1, <1>2, FS_EmptySet DEF Claimed, JobsOf
<1>5. \A k \in Kinds : EmptySlot[k] = NoBuf
  BY DEF EmptySlot, Kinds
<1>6. \A k : HeldBy({}, Idle, NoBuf, k) = {}
  BY NoBufAssumption DEF HeldBy, Idle
<1>7. \A k \in Kinds : Excl(r, k, HeldBy({}, Idle, NoBuf, k))
  BY <1>1, <1>5, <1>6 DEF Excl
<1>8. Window(r) /\ Lent(r)
  BY <1>1, <1>2 DEF Window, Lent
<1> QED BY <1>3, <1>4, <1>7, <1>8, EmptyType, IdleType DEF Sound, Drawn

LEMMA PipeStep == PipeInv /\ [PipeNext]_pipeVars => PipeInv'
<1> SUFFICES ASSUME PipeInv, [PipeNext]_pipeVars
             PROVE  PipeInv'
  OBVIOUS
<1>1. Sound(ring, Jobs, Drawing, rec.nv12)
  BY DEF PipeInv
<1>2. Sound(ring', Jobs', Drawing', rec'.nv12)
  BY <1>1, PipeRefines, ContractStep
<1>3. Sound(ring, Jobs, Drawing, rec.nv12)'
  BY <1>2
<1>4. Apart(ai, jobq, wk)' /\ Adrift(ai, jobq, wk, lost)'
  BY ApartKept, AdriftKept
<1> QED BY <1>3, <1>4, TypesKept, PlacesKept, LostKept DEF PipeInv

\* Nothing is held before the threads start.
LEMMA PipeStart == PipeInit => Contract!Init /\ PipeInv
<1> SUFFICES ASSUME PipeInit
             PROVE  Contract!Init /\ PipeInv
  OBVIOUS
<1>1. /\ ring = EmptyRing /\ jobq = <<>> /\ lost = {} /\ results = <<>>
      /\ cam = [pc |-> "init", sessions |-> 0]
      /\ ai = [pc |-> "idle", last |-> 0, seq |-> 0, rgb |-> NoBuf]
      /\ wk = [w \in Workers |-> [pc |-> "gone", seq |-> 0, rgb |-> NoBuf]]
      /\ comp = [pc |-> "gone", item |-> 0, next |-> 0, nv12 |-> NoBuf, jpeg |-> NoBuf]
      /\ rec = [on |-> FALSE, last |-> 0, nv12 |-> NoBuf, segments |-> 0]
      /\ pool = [running |-> FALSE, enabled |-> FALSE, pc |-> "down", reloads |-> 0]
  BY DEF PipeInit
<1>2. Len(jobq) = 0 /\ jobq \in Seq(TaskType) /\ results \in Seq(Nat)
  BY <1>1, EmptySeq
<1>3. Jobs = {}
  <2>1. Queued(jobq) = {}
    BY <1>2 DEF Queued
  <2>2. Strayed(lost) = {} /\ Working(wk) = {} /\ InHand(ai) = {}
    BY <1>1 DEF Strayed, Working, Holds, InHand
  <2> QED BY <2>1, <2>2, JobsAre
<1>4. Drawing = Idle
  BY <1>1 DEF Drawing, Idle
<1>5. Contract!Init
  <2>1. ring = Contract!EmptyRing
    BY <1>1 DEF EmptyRing, EmptySlot, Slots, Kinds,
                Contract!EmptyRing, Contract!EmptySlot, Contract!Slots, Contract!Kinds
  <2>2. Drawing = Contract!Idle
    BY <1>4 DEF Contract!Idle, Idle
  <2> QED BY <1>1, <1>3, <2>1, <2>2 DEF Contract!Init
<1>6. Sound(ring, Jobs, Drawing, rec.nv12)
  BY <1>1, <1>3, <1>4, SoundStart
<1>7. NoBuf \in Buf
  BY DEF Buf
<1>8. ring.produce = 0 /\ ring.display = 0 /\ ~ring.mapped /\ ~ring.quiescing
  BY <1>1 DEF EmptyRing
<1>9. PipeTypeOK
  BY <1>1, <1>2, <1>7, <1>8, FS_EmptySet, PipelineAssumption DEF PipeTypeOK
<1>10. CamPlace /\ PoolPlace /\ LostPlace /\ CompPlace
  <2>1. Cardinality(lost) = 0 /\ MaxReloads \in Nat
    BY <1>1, FS_EmptySet, PipelineAssumption
  <2>2. ai.pc = "idle" /\ pool.pc = "down" /\ pool.reloads = 0
    BY <1>1
  <2>3. LostPlace
    BY <2>1, <2>2 DEF LostPlace
  <2> QED BY <1>1, <1>8, <2>3 DEF CamPlace, PoolPlace, CompPlace
<1>11. Apart(ai, jobq, wk) /\ Adrift(ai, jobq, wk, lost)
  BY <1>1, <1>2 DEF Apart, Adrift, Holds
<1> QED BY <1>5, <1>6, <1>9, <1>10, <1>11 DEF PipeInv

\* The invariant of the threads and of the ring they share.
THEOREM PipelineCorrect == PipeSpec => []PipeInv
  BY PipeStart, PipeStep, PTL DEF PipeSpec

\* The camera, AI, worker, composer, recorder and reload threads, in any
\* interleaving, do to the ring only what its contract allows: FrameRing's
\* properties hold of them.
THEOREM ContractCorrect == PipeSpec => ImplementsContract
<1>1. PipeInit => Contract!Init
  BY PipeStart
<1> QED BY <1>1, PipelineCorrect, PipeRefines, PTL DEF PipeSpec, ImplementsContract, Contract!Spec

-----------------------------------------------------------------------------
(* The AI task's cursor forgets no frame *)

Attended(s) == s.claims > 0 \/ s.inferDone

\* A frame that was attended to stays so.
Attends(r, t) ==
  \A i \in Slots : LET s == r.slots[i]  u == t.slots[i] IN
    u.seq = s.seq /\ u.raw \in {s.raw, NoBuf} /\ (Attended(s) => Attended(u))

LEMMA DropsAttend ==
  ASSUME NEW r \in RingType, NEW t, NEW D, Advances(r, t), Drops(r, t, D),
         \A i \in D \cap Slots : t.slots[i].inferDone
  PROVE  Attends(r, t)
<1>1. \A i \in Slots : r.slots[i].claims \in Nat
  BY DEF RingType, SlotType
<1> QED BY <1>1 DEF Advances, Drops, Attends, Attended

\* A claim is dropped only where the frame is marked done.
LEMMA UnclaimMarks ==
  ASSUME NEW r \in RingType, NEW i \in Slots
  PROVE  Unclaim(r, i).slots[i].inferDone
<1> DEFINE y == WithSlot(r, i, Unclaimed(r.slots[i]))
<1>1. r.slots[i] \in SlotType
  BY DEF RingType
<1>2. y \in RingType /\ y.slots[i] = Unclaimed(r.slots[i]) /\ y.slots[i].inferDone
  BY <1>1, UnclaimedFields, WithSlotFields
<1> HIDE DEF y
<1>3. Maintain(y).slots[i] = Kept(y, y.slots[i]) /\ y.slots[i] \in SlotType
  BY <1>2, MaintainFields
<1>4. Maintain(y).slots[i].inferDone
  BY <1>2, <1>3, KeptFields
<1> QED BY <1>4 DEF Unclaim, y

LEMMA JobMarks ==
  ASSUME NEW r \in RingType, NEW q \in Nat, NEW b \in Buf
  PROVE  /\ DecodeFailed(r, q, b).slots[Index(q)].inferDone
         /\ OwnsSlot(r, q) => /\ Abandon(r, q, b).slots[Index(q)].inferDone
                              /\ WriteRgb(r, q, b).slots[Index(q)].inferDone
<1> DEFINE i == Index(q)
           x == Put(r, "rgb", b)
           y == Unclaim(r, i)
           s == [r.slots[i] EXCEPT !.rgb = b, !.rgbDone = TRUE]
           z == WithSlot(r, i, s)
<1>1. i \in Slots /\ b \in Bufs \cup {NoBuf} /\ SlotOf(r, q) = r.slots[i] /\ r.slots[i] \in SlotType
  BY IndexType DEF Buf, SlotOf, RingType
<1>2. x \in RingType /\ y \in RingType
  BY <1>1, KindsAre, PutType, UnclaimType
<1>3. s \in SlotType
  BY <1>1 DEF SlotType
<1>4. z \in RingType
  BY <1>1, <1>3, WithSlotType
<1> HIDE DEF x, y, z, s
<1>5. DecodeFailed(r, q, b).slots[i].inferDone
  BY <1>1, <1>2, UnclaimMarks DEF DecodeFailed, x
<1>6. ASSUME OwnsSlot(r, q)
      PROVE  Abandon(r, q, b).slots[i].inferDone /\ WriteRgb(r, q, b).slots[i].inferDone
  <2>1. Abandon(r, q, b) = Put(y, "rgb", b) /\ WriteRgb(r, q, b) = Unclaim(z, i)
    BY <1>1, <1>6 DEF Abandon, WriteRgb, y, z, s
  <2>2. y.slots[i].inferDone /\ Unclaim(z, i).slots[i].inferDone
    BY <1>1, <1>4, UnclaimMarks DEF y
  <2>3. Put(y, "rgb", b).slots = y.slots
    BY <1>2, KindsAre, PoolAlike DEF Alike
  <2> QED BY <2>1, <2>2, <2>3
<1> QED BY <1>5, <1>6

LEMMA StepsAttend ==
  ASSUME NEW r \in RingType, NEW q \in Nat, NEW b \in Buf, NEW c \in Buf,
         NEW i \in Slots, NEW on \in BOOLEAN, NEW k \in Kinds, Tidy(r)
  PROVE  /\ Attends(r, r)
         /\ Attends(r, DecodeFailed(r, q, b)) /\ Attends(r, Abandon(r, q, b))
         /\ b # NoBuf => Attends(r, WriteRgb(r, q, b))
         /\ Attends(r, Take(Take(r, "nv12", b), "jpeg", c))
         /\ (Renderable(r, q) => r.display < q) => Attends(r, Rendered(r, q, b, c, on))
         /\ r.slots[i].seq # 0 => Attends(r, Steal(r, i))
         /\ Attends(r, MarkConsumed(r, q)) /\ Attends(r, Put(r, k, b))
         /\ Attends(r, SetAi(r, on)) /\ Attends(r, SetRec(r, on))
<1>0. b \in Bufs \cup {NoBuf} /\ c \in Bufs \cup {NoBuf}
  BY DEF Buf
<1>1. Attends(r, r)
  BY DEF Attends
<1>2. Attends(r, DecodeFailed(r, q, b))
  <2>1. Drops(r, DecodeFailed(r, q, b), {Index(q)})
    BY <1>0, JobDrops
  <2>2. \A j \in {Index(q)} \cap Slots : DecodeFailed(r, q, b).slots[j].inferDone
    BY JobMarks
  <2> QED BY <1>0, <2>1, <2>2, DecodeFailedAdvances, DropsAttend
<1>3. Attends(r, Abandon(r, q, b))
  <2> DEFINE D == IF OwnsSlot(r, q) THEN {Index(q)} ELSE {}
  <2>1. Drops(r, Abandon(r, q, b), D)
    BY <1>0, JobDrops
  <2>2. \A j \in D \cap Slots : Abandon(r, q, b).slots[j].inferDone
    BY JobMarks
  <2> HIDE DEF D
  <2> QED BY <1>0, <2>1, <2>2, AbandonAdvances, DropsAttend
<1>4. ASSUME b # NoBuf
      PROVE  Attends(r, WriteRgb(r, q, b))
  <2> DEFINE D == IF OwnsSlot(r, q) THEN {Index(q)} ELSE {}
  <2>1. Drops(r, WriteRgb(r, q, b), D)
    BY <1>0, JobDrops
  <2>2. \A j \in D \cap Slots : WriteRgb(r, q, b).slots[j].inferDone
    BY JobMarks
  <2>3. b \in Bufs
    BY <1>0, <1>4
  <2> HIDE DEF D
  <2> QED BY <2>1, <2>2, <2>3, WriteRgbAdvances, DropsAttend
<1>5. Attends(r, Take(Take(r, "nv12", b), "jpeg", c)) /\ Attends(r, Put(r, k, b))
  <2> DEFINE x == Take(r, "nv12", b)
  <2>1. x \in RingType /\ Alike(r, x)
    BY KindsAre, TakeType, PoolAlike
  <2>2. Alike(x, Take(x, "jpeg", c)) /\ Alike(r, Put(r, k, b))
    BY <2>1, KindsAre, PoolAlike
  <2> QED BY <2>1, <2>2 DEF Alike, Attends
<1>6. ASSUME Renderable(r, q) => r.display < q
      PROVE  Attends(r, Rendered(r, q, b, c, on))
  BY <1>0, <1>6, RenderedAdvances, RenderedDrops, DropsAttend
<1>7. ASSUME r.slots[i].seq # 0
      PROVE  Attends(r, Steal(r, i))
  BY <1>7, StealAdvances, StealDrops, DropsAttend
<1>8. Attends(r, MarkConsumed(r, q))
  BY MarkConsumedAdvances, MarkConsumedDrops, DropsAttend
<1>9. Attends(r, SetAi(r, on)) /\ Attends(r, SetRec(r, on))
  BY ModeAdvances, ModeDrops, DropsAttend
<1> QED BY <1>1, <1>2, <1>3, <1>4, <1>5, <1>6, <1>7, <1>8, <1>9

\* The threads that have no hand in the cursor attend to what was attended to.
LEMMA OthersAttend ==
  ASSUME PipeInv, (\E w \in Workers : WkStep(w)) \/ CoStep \/ RecStep \/ PoolStep
  PROVE  Attends(ring, ring')
<1>1. /\ ring \in RingType /\ Tidy(ring) /\ rec.nv12 \in Buf /\ jobq \in Seq(TaskType)
      /\ \A i \in Slots : ring.slots[i].seq \in Nat
      /\ wk \in [Workers -> [pc : {"gone", "pop", "infer", "write", "result"}, seq : Nat, rgb : Buf]]
      /\ comp \in [pc : {"gone", "pop", "drain", "pick", "draw"}, item : Nat, next : Nat,
                   nv12 : Buf, jpeg : Buf]
  BY DEF PipeInv, PipeTypeOK, Sound, RingType, SlotType
<1>2. 0 \in Slots /\ 0 \in Nat /\ TRUE \in BOOLEAN /\ "nv12" \in Kinds /\ NoBuf \in Buf
  BY NAssumption, KindsAre DEF Slots, Buf
<1>3. ASSUME NEW w \in Workers, WkStep(w)
      PROVE  Attends(ring, ring')
  <2>1. CASE WkWrite(w)
    <3>1. wk[w].seq \in Nat /\ wk[w].rgb \in Buf /\ ring' = WriteRgb(ring, wk[w].seq, wk[w].rgb)
      BY <1>1, <2>1 DEF WkWrite
    <3>2. wk[w].rgb # NoBuf
      <4>1. Decoded(wk[w]) \in Jobs
        BY <2>1, JobsAre DEF Working, Holds, WkWrite
      <4> QED BY <4>1, DecodedFields DEF PipeInv, Sound, Claimed
    <3> QED BY <1>1, <1>2, <3>1, <3>2, StepsAttend
  <2>2. CASE ~WkWrite(w)
    <3>1. ring' \in {ring, Abandon(ring, wk[w].seq, wk[w].rgb)}
      BY <1>3, <2>2 DEF WkStep, WkPop, WkExit, WkInferOk, WkAbandon, WkResult
    <3>2. wk[w].seq \in Nat /\ wk[w].rgb \in Buf
      BY <1>1
    <3>3. Attends(ring, ring) /\ Attends(ring, Abandon(ring, wk[w].seq, wk[w].rgb))
      BY <1>1, <1>2, <3>2, StepsAttend
    <3> QED BY <3>1, <3>3
  <2> QED BY <2>1, <2>2
<1>4. CASE CoStep
  <2>1. CASE CoPop \/ CoExit \/ CoDrain \/ CoDrained \/ CoGone
    <3>1. ring' = ring
      BY <2>1 DEF CoPop, CoExit, CoDrain, CoDrained, CoGone
    <3> QED BY <1>1, <1>2, <3>1, StepsAttend
  <2>2. ASSUME NEW nb \in Buf, NEW jb \in Buf, CoPick(nb, jb)
        PROVE  Attends(ring, ring')
    BY <1>1, <1>2, <2>2, StepsAttend DEF CoPick
  <2>3. ASSUME NEW ok \in BOOLEAN, CoCommit(ok)
        PROVE  Attends(ring, ring')
    <3>1. /\ ring' = Rendered(ring, comp.item, comp.nv12, comp.jpeg, ok)
          /\ comp.pc = "draw" /\ comp.item # 0
      BY <2>3 DEF CoCommit, PipeInv, CompPlace
    <3>2. Drawing.seq = comp.item
      BY <3>1 DEF Drawing
    <3>3. ring.display < comp.item
      BY <3>1, <3>2, IdleType DEF PipeInv, Sound, Drawn
    <3> QED BY <1>1, <1>2, <3>1, <3>3, StepsAttend
  <2> QED BY <1>4, <2>1, <2>2, <2>3 DEF CoStep, Buf
<1>5. CASE RecStep
  <2>1. CASE RecTake \/ RecSkip
    <3>1. PICK i \in Slots : /\ ring' \in {Steal(ring, i), MarkConsumed(ring, ring.slots[i].seq)}
                             /\ ring.slots[i].seq > rec.last
      BY <2>1 DEF RecTake, RecSkip, EncodePick, Encodable
    <3>2. ring.slots[i].seq \in Nat /\ ring.slots[i].seq # 0
      BY <1>1, <3>1 DEF PipeInv, PipeTypeOK
    <3> QED BY <1>1, <1>2, <3>1, <3>2, StepsAttend
  <2>2. CASE RecBegin \/ RecEnd \/ RecPut
    <3>1. ring' \in {SetRec(ring, TRUE), SetRec(ring, FALSE), Put(ring, "nv12", rec.nv12)}
      BY <2>2 DEF RecBegin, RecEnd, RecPut
    <3>2. /\ \A on \in BOOLEAN : Attends(ring, SetRec(ring, on))
          /\ Attends(ring, Put(ring, "nv12", rec.nv12))
      <4>1. \A on \in BOOLEAN : Attends(ring, SetRec(ring, on))
        BY <1>1, <1>2, StepsAttend
      <4>2. Attends(ring, Put(ring, "nv12", rec.nv12))
        BY <1>1, <1>2, StepsAttend
      <4> QED BY <4>1, <4>2
    <3> QED BY <3>1, <3>2
  <2> QED BY <1>5, <2>1, <2>2 DEF RecStep
<1>6. CASE PoolStep
  <2>1. CASE PoolPurge
    <3>1. PICK t \in TaskType : ring' = Abandon(ring, t.seq, t.rgb)
      BY <2>1, PurgedJob
    <3>2. t.seq \in Nat /\ t.rgb \in Buf
      BY DEF TaskType
    <3> QED BY <1>1, <1>2, <3>1, <3>2, StepsAttend
  <2>2. CASE ~PoolPurge
    <3>1. ring' \in {ring, SetAi(ring, TRUE), SetAi(ring, FALSE)}
      BY <1>6, <2>2 DEF PoolStep, PoolStop, PoolMode, PoolJoin, PoolPurged, PoolDown, PoolStart,
                        PoolStarted
    <3> QED BY <1>1, <1>2, <3>1, StepsAttend
  <2> QED BY <2>1, <2>2
<1> QED BY <1>3, <1>4, <1>5, <1>6

\* The frames the AI task has behind it.
Seen(a, q) == q <= a.last \/ (a.pc = "decode" /\ q < a.seq)

SeenInv ==
  /\ ai.last <= ring.produce
  /\ ai.pc = "decode" => ai.last < ai.seq
  /\ ring.quiescing \/ \A i \in Slots : LET s == ring.slots[i] IN
       s.raw # NoBuf /\ Seen(ai, s.seq) => Attended(s)

AiType == [pc : {"idle", "claim", "decode", "push", "store"}, last : Nat, seq : Nat, rgb : Buf]

\* The frame in the AI task's hands.
LEMMA InHandFrame ==
  ASSUME PipeInv, ai.pc \in {"decode", "push", "store"}
  PROVE  /\ ai.seq # 0 /\ ai.seq <= ring.produce
         /\ \A i \in Slots : ring.slots[i].seq = ai.seq => ring.slots[i].claims > 0
<1>1. Decoding(ai) \in Jobs /\ Decoding(ai).seq = ai.seq
  BY JobsAre DEF InHand, Decoding
<1>2. Claimed(ring, Jobs) /\ IsFiniteSet(Jobs)
  BY DEF PipeInv, Sound, Claimed
<1>3. ai.seq # 0 /\ ai.seq <= ring.produce
  BY <1>1, <1>2 DEF Claimed
<1>4. Cardinality(JobsOf(Jobs, ai.seq)) > 0
  BY <1>1, <1>2, JobsOfCard
<1> QED BY <1>2, <1>3, <1>4 DEF Claimed

\* A frame that nobody may claim although it is there was quiesced.
LEMMA BehindClaim ==
  ASSUME PipeInv, ~ring.quiescing, NEW i \in Slots,
         ring.slots[i].raw # NoBuf, ring.slots[i].seq > ai.last
  PROVE  ring.slots[i].seq \in Claimables
<1> DEFINE q == ring.slots[i].seq
<1>1. /\ ring \in RingType /\ ai.last \in Nat /\ Window(ring) /\ q \in Nat /\ ring.produce \in Nat
  BY DEF PipeInv, PipeTypeOK, Sound, RingType, SlotType
<1>2. q # 0 /\ q <= ring.produce /\ Index(q) = i
  BY <1>1 DEF Window
<1>3. Claimable(ring, q)
  BY <1>2 DEF Claimable, SlotOf
<1> HIDE DEF q
<1>4. q \in Claimables
  BY <1>1, <1>2, <1>3 DEF Claimables, q
<1> QED BY <1>4 DEF q

\* Where the cursor is left alone and no frame is published.
LEMMA SeenKept ==
  ASSUME PipeInv, SeenInv, Attends(ring, ring'), ring'.produce = ring.produce,
         ring'.quiescing = ring.quiescing, ai'.last <= ring.produce,
         ai'.pc = "decode" => ai'.last < ai'.seq,
         ~ring.quiescing =>
           \A i \in Slots : ring.slots[i].raw # NoBuf /\ Seen(ai', ring.slots[i].seq) =>
             Seen(ai, ring.slots[i].seq) \/ Attended(ring.slots[i]) \/ Attended(ring'.slots[i])
  PROVE  SeenInv'
<1>1. ring'.quiescing \/ \A i \in Slots :
        ring'.slots[i].raw # NoBuf /\ Seen(ai', ring'.slots[i].seq) => Attended(ring'.slots[i])
  <2> SUFFICES ASSUME ~ring'.quiescing, NEW i \in Slots, ring'.slots[i].raw # NoBuf,
                      Seen(ai', ring'.slots[i].seq)
               PROVE  Attended(ring'.slots[i])
    OBVIOUS
  <2>1. /\ ring'.slots[i].seq = ring.slots[i].seq /\ ring.slots[i].raw # NoBuf
        /\ Attended(ring.slots[i]) => Attended(ring'.slots[i])
    BY DEF Attends
  <2>2. Seen(ai, ring.slots[i].seq) => Attended(ring.slots[i])
    BY <2>1 DEF SeenInv
  <2> QED BY <2>1, <2>2
<1> QED BY <1>1 DEF SeenInv, Seen, Attended

LEMMA CamSees ==
  ASSUME PipeInv, SeenInv, CamStep
  PROVE  SeenInv'
<1>1. /\ ring \in RingType /\ ring.produce \in Nat /\ ai \in AiType
      /\ CamPlace /\ Tidy(ring) /\ Window(ring) /\ Lent(ring)
      /\ \A i \in Slots : ring.slots[i].claims \in Nat
  BY DEF PipeInv, PipeTypeOK, Sound, RingType, SlotType, AiType
<1>2. ai' = ai
  BY DEF CamStep, CamInit, CamSessionEnd, CamCapture, CamQuiesced, CamTimeout, CamUnmap, CamRetry
<1>3. /\ ai.last <= ring.produce /\ ai.last \in Nat /\ ai.seq \in Nat
      /\ ai.pc = "decode" => ai.last < ai.seq /\ ai.seq <= ring.produce
  BY <1>1, InHandFrame DEF SeenInv, AiType
<1>4. ASSUME ring'.produce = ring.produce,
             ring'.quiescing \/ \A i \in Slots : ring'.slots[i].raw = NoBuf
      PROVE  SeenInv'
  BY <1>2, <1>3, <1>4 DEF SeenInv, Seen, Attended
<1>5. CASE CamInit
  <2>1. ring' = StreamOn(ring) /\ cam.pc = "init"
    BY <1>5 DEF CamInit
  <2>2. ~ring.mapped /\ ~ring.quiescing
    BY <1>1, <2>1 DEF CamPlace
  <2>3. \A i \in Slots : ring.slots[i].raw = NoBuf
    BY <1>1, <2>2 DEF Lent
  <2>4. ring'.produce = ring.produce /\ ring'.slots = ring.slots
    BY <1>1, <2>1, StreamAlike DEF Alike
  <2> QED BY <1>4, <2>3, <2>4
<1>6. ASSUME NEW v \in VBufs, NEW z \in Sizes, CamCapture(v, z)
      PROVE  SeenInv'
  <2>1. Maintain(ring) = ring
    BY <1>1, SettledIsMaintained DEF Tidy
  <2>2. ring' = IF CanProduce(ring) THEN Publish(ring, v, z) ELSE ring
    BY <1>6, <2>1 DEF CamCapture
  <2>3. CASE CanProduce(ring)
    <3>1. /\ ring'.produce = ring.produce + 1 /\ ring'.quiescing = ring.quiescing
          /\ \A i \in Slots : LET s == ring.slots[i]  u == ring'.slots[i] IN
               \/ u.seq = ring.produce + 1
               \/ /\ u.seq = s.seq /\ u.raw \in {s.raw, NoBuf} /\ u.claims = s.claims
                  /\ u.inferDone = s.inferDone
      BY <1>1, <2>2, <2>3, PublishStays, PublishTidies
    <3>2. ~Seen(ai, ring.produce + 1)
      BY <1>1, <1>3 DEF Seen
    <3>3. ring'.quiescing \/ \A i \in Slots :
            ring'.slots[i].raw # NoBuf /\ Seen(ai, ring'.slots[i].seq) => Attended(ring'.slots[i])
      BY <3>1, <3>2 DEF SeenInv, Attended
    <3> QED BY <1>1, <1>2, <1>3, <3>1, <3>3 DEF SeenInv, Seen, Attended
  <2>4. CASE ~CanProduce(ring)
    BY <1>2, <2>2, <2>4 DEF SeenInv, Seen, Attended
  <2> QED BY <2>3, <2>4
<1>7. CASE CamSessionEnd
  <2>1. ring'.quiescing /\ ring'.produce = ring.produce
    BY <1>1, <1>7 DEF CamSessionEnd, RingType
  <2> QED BY <1>4, <2>1
<1>8. CASE CamQuiesced \/ CamRetry
  <2>1. ring' = ClearAll(ring)
    BY <1>8 DEF CamQuiesced, CamRetry
  <2>2. ring'.produce = ring.produce /\ \A i \in Slots : ring'.slots[i].raw = NoBuf
    BY <1>1, <2>1, ClearAllTidies DEF EmptySlot
  <2> QED BY <1>4, <2>2
<1>9. CASE CamTimeout
  <2>1. ring' = StreamOff(ring) /\ ring.quiescing
    BY <1>1, <1>9 DEF CamTimeout, CamPlace
  <2>2. ring'.produce = ring.produce /\ ring'.quiescing
    BY <1>1, <2>1 DEF StreamOff, RingType
  <2> QED BY <1>4, <2>2
<1>10. CASE CamUnmap
  <2>1. ring' = StreamOff(ring) /\ \A i \in Slots : ring.slots[i].raw = NoBuf
    BY <1>1, <1>10 DEF CamUnmap, CamPlace
  <2>2. ring'.produce = ring.produce /\ ring'.slots = ring.slots
    BY <1>1, <2>1, StreamAlike DEF Alike
  <2> QED BY <1>4, <2>1, <2>2
<1> QED BY <1>5, <1>6, <1>7, <1>8, <1>9, <1>10 DEF CamStep

LEMMA AiSees ==
  ASSUME PipeInv, SeenInv, AiStep
  PROVE  SeenInv'
<1>1. /\ ring \in RingType /\ ring.produce \in Nat /\ ai \in AiType /\ ai.last \in Nat
      /\ ai.seq \in Nat /\ ai.rgb \in Buf /\ Tidy(ring) /\ Window(ring)
      /\ \A i \in Slots : ring.slots[i].seq \in Nat /\ ring.slots[i].claims \in Nat
      /\ ai.last <= ring.produce
  BY DEF PipeInv, PipeTypeOK, Sound, RingType, SlotType, AiType, SeenInv
<1>2. ring'.produce = ring.produce /\ ring'.quiescing = ring.quiescing
  BY AiQuiet DEF Quiet, Releases
<1>3. 0 \in Slots /\ TRUE \in BOOLEAN /\ "rgb" \in Kinds /\ NoBuf \in Buf
  BY NAssumption, KindsAre DEF Slots, Buf
<1>4. CASE AiSee \/ AiLook \/ AiPush \/ AiPushRefused
  <2>1. ai'.pc # "decode" /\ ai'.last = ai.last
    <3>1. CASE AiSee
      BY <1>1, <3>1 DEF AiSee, AiType
    <3>2. CASE AiPush \/ AiPushRefused
      BY <1>1, <3>2 DEF AiPush, AiPushRefused, AiType
    <3>3. CASE AiLook
      BY <1>1, <3>3 DEF AiLook, AiType
    <3> QED BY <1>4, <3>1, <3>2, <3>3
  <2>2. ring' \in {ring, Abandon(ring, ai.seq, ai.rgb)}
    BY <1>4 DEF AiSee, AiLook, AiPush, AiPushRefused
  <2>3. Attends(ring, ring) /\ Attends(ring, Abandon(ring, ai.seq, ai.rgb))
    BY <1>1, <1>3, StepsAttend
  <2>4. \A q : Seen(ai', q) => Seen(ai, q)
    BY <2>1 DEF Seen
  <2> QED BY <1>1, <1>2, <2>1, <2>2, <2>3, <2>4, SeenKept
<1>5. ASSUME NEW b \in Buf, AiClaim(b)
      PROVE  SeenInv'
  <2>1. PICK q \in Claimables :
          /\ \A p \in Claimables : q <= p
          /\ ring' = Take(Claim(ring, q), "rgb", b)
          /\ ai' = [pc |-> "decode", last |-> q - 1, seq |-> q, rgb |-> b]
    BY <1>5 DEF AiClaim
  <2>2. q \in Nat /\ q > ai.last /\ q <= ring.produce /\ Claimable(ring, q)
    BY <1>1, <2>1 DEF Claimables
  <2>3. /\ ai'.last = q - 1 /\ ai'.seq = q /\ ai'.pc = "decode"
        /\ ai'.last < ai'.seq /\ ai'.last <= ring.produce
    BY <1>1, <2>1, <2>2
  <2>4. Attends(ring, ring')
    <3>1. \A i \in Slots : Claim(ring, q).slots[i] =
            IF i = Index(q) THEN [ring.slots[i] EXCEPT !.claims = @ + 1] ELSE ring.slots[i]
      BY <1>1 DEF Claim, WithSlot, SlotOf, RingType
    <3>2. Claim(ring, q) \in RingType
      BY <1>1, <2>2, ClaimType
    <3>3. ring'.slots = Claim(ring, q).slots
      BY <1>3, <2>1, <3>2, PoolAlike DEF Alike
    <3>4. \A i \in Slots : ring.slots[i] \in SlotType
      BY <1>1 DEF RingType
    <3>5. Advances(ring, Claim(ring, q))
      BY <1>1, <2>2, ClaimAdvances
    <3>6. \A i \in Slots : ring.slots[i].claims > 0 => Claim(ring, q).slots[i].claims > 0
      <4> SUFFICES ASSUME NEW i \in Slots, ring.slots[i].claims > 0
                   PROVE  Claim(ring, q).slots[i].claims > 0
        OBVIOUS
      <4>1. CASE i = Index(q)
        <5>1. Claim(ring, q).slots[i].claims = ring.slots[i].claims + 1
          BY <3>1, <3>4, <4>1 DEF SlotType
        <5> QED BY <1>1, <5>1
      <4>2. CASE i # Index(q)
        BY <3>1, <4>2
      <4> QED BY <4>1, <4>2
    <3> QED BY <3>3, <3>5, <3>6 DEF Advances, Attends, Attended
  <2>5. ~ring.quiescing =>
          \A i \in Slots : ring.slots[i].raw # NoBuf /\ Seen(ai', ring.slots[i].seq) =>
            Seen(ai, ring.slots[i].seq)
    <3> SUFFICES ASSUME ~ring.quiescing, NEW i \in Slots, ring.slots[i].raw # NoBuf,
                        Seen(ai', ring.slots[i].seq), ~Seen(ai, ring.slots[i].seq)
                 PROVE  FALSE
      OBVIOUS
    <3>1. ring.slots[i].seq > ai.last /\ ring.slots[i].seq < q
      BY <1>1, <2>2, <2>3 DEF Seen
    <3>2. ring.slots[i].seq \in Claimables
      BY <3>1, BehindClaim
    <3> QED BY <1>1, <2>1, <2>2, <3>1, <3>2
  <2> QED BY <1>2, <2>3, <2>4, <2>5, SeenKept
<1>6. CASE AiClaimNone
  <2>1. /\ ai'.pc = "idle" /\ ai'.last = ring.produce /\ ring' = ring
    BY <1>1, <1>6 DEF AiClaimNone, AiType
  <2>2. Attends(ring, ring)
    BY <1>1, <1>3, StepsAttend
  <2>3. ~ring.quiescing =>
          \A i \in Slots : ring.slots[i].raw # NoBuf => Seen(ai, ring.slots[i].seq)
    <3> SUFFICES ASSUME ~ring.quiescing, NEW i \in Slots, ring.slots[i].raw # NoBuf,
                        ~Seen(ai, ring.slots[i].seq)
                 PROVE  FALSE
      OBVIOUS
    <3>1. ring.slots[i].seq > ai.last
      BY <1>1 DEF Seen
    <3>2. ring.slots[i].seq \in Claimables
      BY <3>1, BehindClaim
    <3> QED BY <1>6, <3>2 DEF AiClaimNone
  <2> QED BY <1>1, <2>1, <2>2, <2>3, SeenKept
<1>7. CASE AiDecodeOk
  <2>1. ai.pc = "decode" /\ ai'.pc = "push" /\ ai'.last = ai.seq /\ ring' = ring
    BY <1>1, <1>7 DEF AiDecodeOk, AiType
  <2>2. Attends(ring, ring)
    BY <1>1, <1>3, StepsAttend
  <2>3. /\ ai.seq <= ring.produce
        /\ \A i \in Slots : ring.slots[i].seq = ai.seq => Attended(ring.slots[i])
    BY <2>1, InHandFrame DEF Attended
  <2>4. \A i \in Slots : Seen(ai', ring.slots[i].seq) =>
          Seen(ai, ring.slots[i].seq) \/ ring.slots[i].seq = ai.seq
    BY <1>1, <2>1 DEF Seen
  <2> QED BY <1>1, <2>1, <2>2, <2>3, <2>4, SeenKept
<1>8. CASE AiDecodeFail
  <2>1. /\ ai.pc = "decode" /\ ai'.pc = "idle" /\ ai'.last = ai.seq
        /\ ring' = DecodeFailed(ring, ai.seq, ai.rgb)
    BY <1>8 DEF AiDecodeFail
  <2>2. Attends(ring, ring') /\ ring'.slots[Index(ai.seq)].inferDone
    BY <1>1, <1>3, <2>1, StepsAttend, JobMarks
  <2>3. ai.seq <= ring.produce /\ ai.seq # 0
    BY <2>1, InHandFrame
  <2>4. \A i \in Slots : ring.slots[i].seq = ai.seq => Attended(ring'.slots[i])
    BY <1>1, <2>2, <2>3 DEF Window, Attended
  <2>5. \A i \in Slots : Seen(ai', ring.slots[i].seq) =>
          Seen(ai, ring.slots[i].seq) \/ ring.slots[i].seq = ai.seq
    BY <1>1, <2>1 DEF Seen
  <2> QED BY <1>2, <2>1, <2>2, <2>3, <2>4, <2>5, SeenKept
<1> QED BY <1>4, <1>5, <1>6, <1>7, <1>8 DEF AiStep, Buf

LEMMA SeenStep == PipeInv /\ SeenInv /\ [PipeNext]_pipeVars => SeenInv'
<1> SUFFICES ASSUME PipeInv, SeenInv, [PipeNext]_pipeVars
             PROVE  SeenInv'
  OBVIOUS
<1>1. ai \in AiType /\ ai.last <= ring.produce /\ ring.produce \in Nat /\ ai.last \in Nat
      /\ ai.seq \in Nat
  BY DEF PipeInv, PipeTypeOK, AiType, SeenInv, Sound, RingType
<1>2. CASE CamStep
  BY <1>2, CamSees
<1>3. CASE AiStep
  BY <1>3, AiSees
<1>4. CASE (\E w \in Workers : WkStep(w)) \/ CoStep \/ RecStep \/ PoolStep
  <2>1. Attends(ring, ring')
    BY <1>4, OthersAttend
  <2>2. ring'.produce = ring.produce /\ ring'.quiescing = ring.quiescing
    BY <1>4, WkQuiet, CoQuiet, RecQuiet, PoolQuiet DEF Quiet, Releases
  <2>3. CASE ai' = ai
    BY <2>1, <2>2, <2>3, SeenKept DEF SeenInv
  <2>4. CASE ai' # ai
    <3>1. PoolDown
      BY <1>4, <2>4 DEF WkStep, WkPop, WkExit, WkInferOk, WkAbandon, WkWrite, WkResult,
           CoStep, CoPop, CoExit, CoDrain, CoDrained, CoGone, CoPick, CoCommit,
           RecStep, RecBegin, RecTake, RecSkip, RecPut, RecEnd,
           PoolStep, PoolStop, PoolMode, PoolJoin, PoolPurge, PoolPurged, PoolStart, PoolStarted
    <3>2. ai'.pc = ai.pc /\ ai'.last = 0 /\ ai'.seq = ai.seq
      BY <1>1, <3>1 DEF PoolDown, AiType
    <3>3. ai'.pc = "decode" => ai'.last < ai'.seq
      BY <1>1, <3>2, InHandFrame
    <3>4. \A q \in Nat : Seen(ai', q) => Seen(ai, q)
      BY <1>1, <3>2 DEF Seen
    <3>5. \A i \in Slots : ring.slots[i].seq \in Nat
      BY DEF PipeInv, Sound, RingType, SlotType
    <3> QED BY <1>1, <2>1, <2>2, <3>2, <3>3, <3>4, <3>5, SeenKept
  <2> QED BY <2>3, <2>4
<1>5. CASE UNCHANGED pipeVars
  BY <1>5 DEF pipeVars, SeenInv, Seen, Attended
<1> QED BY <1>2, <1>3, <1>4, <1>5 DEF PipeNext

\* A frame behind the AI task's cursor is claimed or done with.
THEOREM NoneForgottenCorrect == PipeSpec => []NoneForgotten
<1>1. PipeInit => SeenInv
  <2> SUFFICES ASSUME PipeInit
               PROVE  SeenInv
    OBVIOUS
  <2>1. /\ ai.pc = "idle" /\ ai.last = 0 /\ ring.produce = 0
        /\ \A i \in Slots : ring.slots[i].raw = NoBuf
    BY DEF PipeInit, EmptyRing, EmptySlot
  <2> QED BY <2>1 DEF SeenInv
<1>2. SeenInv => NoneForgotten
  BY DEF SeenInv, Seen, Attended, NoneForgotten
<1> QED BY <1>1, <1>2, SeenStep, PipelineCorrect, PTL DEF PipeSpec

-----------------------------------------------------------------------------
(* No buffer is lost *)

\* The buffers of kind k in the ring: pooled, or in a slot.
Shelved(r, k) == r.pools[k] \cup {r.slots[i][k] : i \in Slots}

\* A function takes no buffer of kind k out of the ring but those of X.
Keeps(r, t, k, X) == \A b \in Bufs : b \in Shelved(r, k) => b \in Shelved(t, k) \/ b \in X

LEMMA KeepsSame ==
  ASSUME NEW r \in RingType, NEW t \in RingType, NEW k \in Kinds, NEW X,
         r.pools[k] \subseteq t.pools[k],
         \A i \in Slots : \/ t.slots[i][k] = r.slots[i][k]
                          \/ r.slots[i][k] \in X \cup {NoBuf} \cup t.pools[k]
  PROVE  Keeps(r, t, k, X)
  BY NoBufAssumption DEF Keeps, Shelved

LEMMA KeepsTransitive ==
  ASSUME NEW r, NEW x, NEW t, NEW k, NEW X, Keeps(r, x, k, X), Keeps(x, t, k, {})
  PROVE  Keeps(r, t, k, X)
  BY DEF Keeps

\* A buffer taken out of its slot is pooled.
LEMMA MaintainKeeps ==
  ASSUME NEW r \in RingType, NEW k \in Kinds
  PROVE  Keeps(r, Maintain(r), k, {})
<1> DEFINE t == Maintain(r)
           G == {j \in Slots : StageDone(r, r.slots[j], k)}
<1>1. /\ t \in RingType
      /\ \A i \in Slots : r.slots[i] \in SlotType /\ t.slots[i] = Kept(r, r.slots[i])
      /\ t.pools[k] = r.pools[k] \cup {r.slots[i][k] : i \in G}
  BY MaintainFields
<1>2. ASSUME NEW i \in Slots
      PROVE  t.slots[i][k] = (IF i \in G THEN NoBuf ELSE r.slots[i][k])
  <2> DEFINE s == r.slots[i]
             u == t.slots[i]
  <2>1. /\ u.rgb = (IF RgbDone(r, s) THEN NoBuf ELSE s.rgb)
        /\ u.nv12 = (IF Nv12Done(r, s) THEN NoBuf ELSE s.nv12)
        /\ u.jpeg = (IF JpegDone(r, s) THEN NoBuf ELSE s.jpeg)
    BY <1>1, KeptFields
  <2>2. i \in G <=> StageDone(r, s, k)
    OBVIOUS
  <2> HIDE DEF s, u, G
  <2>3. u[k] = (IF i \in G THEN NoBuf ELSE s[k])
    <3>1. CASE k = "rgb"
      BY <2>1, <2>2, <3>1 DEF StageDone
    <3>2. CASE k = "nv12"
      BY <2>1, <2>2, <3>2 DEF StageDone
    <3>3. CASE k = "jpeg"
      BY <2>1, <2>2, <3>3 DEF StageDone
    <3> QED BY <3>1, <3>2, <3>3 DEF Kinds
  <2> QED BY <2>3 DEF s, u
<1> HIDE DEF t, G
<1> QED BY <1>1, <1>2, KeepsSame DEF t

LEMMA PoolKeeps ==
  ASSUME NEW r \in RingType, NEW k \in Kinds, NEW l \in Kinds, NEW b \in Buf
  PROVE  /\ Keeps(r, Put(r, l, b), k, {}) /\ Keeps(r, Take(r, l, b), k, {c \in {b} : k = l})
         /\ b \in Bufs => b \in Shelved(Put(r, l, b), l)
<1>1. b \in Bufs \cup {NoBuf}
  BY DEF Buf
<1>2. /\ Put(r, l, b) \in RingType /\ Take(r, l, b) \in RingType
      /\ Put(r, l, b).slots = r.slots /\ Take(r, l, b).slots = r.slots
      /\ Put(r, l, b).pools[k] = IF k = l THEN r.pools[k] \cup ({b} \ {NoBuf}) ELSE r.pools[k]
      /\ Take(r, l, b).pools[k] = IF k = l THEN r.pools[k] \ {b} ELSE r.pools[k]
      /\ Put(r, l, b).pools[l] = r.pools[l] \cup ({b} \ {NoBuf})
  <2>1. r.pools \in [Kinds -> SUBSET Bufs]
    BY DEF RingType
  <2>2. /\ Put(r, l, b).slots = r.slots /\ Take(r, l, b).slots = r.slots
        /\ Put(r, l, b).pools = [r.pools EXCEPT ![l] = @ \cup ({b} \ {NoBuf})]
        /\ Take(r, l, b).pools = [r.pools EXCEPT ![l] = @ \ {b}]
    BY DEF Put, Take, RingType
  <2>3. Put(r, l, b) \in RingType /\ Take(r, l, b) \in RingType
    BY <1>1, PutType, TakeType
  <2> HIDE DEF Put, Take
  <2> QED BY <2>1, <2>2, <2>3
<1> HIDE DEF Put, Take
<1>3. Keeps(r, Put(r, l, b), k, {}) /\ Keeps(r, Take(r, l, b), k, {c \in {b} : k = l})
  BY <1>2 DEF Keeps, Shelved
<1>4. b \in Bufs => b \in Shelved(Put(r, l, b), l)
  BY <1>2, NoBufAssumption DEF Shelved
<1> QED BY <1>3, <1>4

LEMMA ClaimKeeps ==
  ASSUME NEW r \in RingType, NEW q \in Nat, NEW k \in Kinds
  PROVE  Claim(r, q) \in RingType /\ Keeps(r, Claim(r, q), k, {})
<1> DEFINE i == Index(q)
           s == [SlotOf(r, q) EXCEPT !.claims = @ + 1]
           y == WithSlot(r, i, s)
<1>1. i \in Slots /\ r.slots[i] \in SlotType /\ SlotOf(r, q) = r.slots[i]
  BY IndexType DEF SlotOf, RingType
<1>2. /\ s \in SlotType /\ s.rgb = r.slots[i].rgb
      /\ s.nv12 = r.slots[i].nv12 /\ s.jpeg = r.slots[i].jpeg
  BY <1>1 DEF SlotType
<1> HIDE DEF s, i
<1>3. s[k] = r.slots[i][k]
  BY <1>2 DEF Kinds
<1>4. /\ y \in RingType /\ y.pools = r.pools
      /\ y.slots[i] = s /\ \A j \in Slots : j # i => y.slots[j] = r.slots[j]
  BY <1>1, <1>2, WithSlotFields
<1> HIDE DEF y
<1>5. \A j \in Slots : y.slots[j][k] = r.slots[j][k]
  BY <1>3, <1>4
<1> QED BY <1>4, <1>5, KeepsSame DEF Claim, y, s, i

LEMMA UnclaimKeeps ==
  ASSUME NEW r \in RingType, NEW i \in Slots, NEW k \in Kinds
  PROVE  Unclaim(r, i) \in RingType /\ Keeps(r, Unclaim(r, i), k, {})
<1> DEFINE y == WithSlot(r, i, Unclaimed(r.slots[i]))
<1>1. r.slots[i] \in SlotType
  BY DEF RingType
<1>2. /\ Unclaimed(r.slots[i]) \in SlotType
      /\ Unclaimed(r.slots[i]).rgb = r.slots[i].rgb
      /\ Unclaimed(r.slots[i]).nv12 = r.slots[i].nv12
      /\ Unclaimed(r.slots[i]).jpeg = r.slots[i].jpeg
  BY <1>1, UnclaimedFields
<1>3. Unclaimed(r.slots[i])[k] = r.slots[i][k]
  BY <1>2 DEF Kinds
<1>4. /\ y \in RingType /\ y.pools = r.pools /\ y.slots[i] = Unclaimed(r.slots[i])
      /\ \A j \in Slots : j # i => y.slots[j] = r.slots[j]
  BY <1>2, WithSlotFields
<1> HIDE DEF y
<1>5. \A j \in Slots : y.slots[j][k] = r.slots[j][k]
  BY <1>3, <1>4
<1>6. Keeps(r, y, k, {})
  BY <1>4, <1>5, KeepsSame
<1>7. Keeps(y, Maintain(y), k, {})
  BY <1>4, MaintainKeeps
<1> QED BY <1>6, <1>7, KeepsTransitive, UnclaimType DEF Unclaim, y

\* A job's buffer ends in its slot or in the pool; only a second decoding of
\* the same frame takes the place of another buffer.
LEMMA JobKeeps ==
  ASSUME NEW r \in RingType, NEW q \in Nat, NEW b \in Buf, NEW k \in Kinds
  PROVE  /\ Keeps(r, DecodeFailed(r, q, b), k, {}) /\ Keeps(r, Abandon(r, q, b), k, {})
         /\ Keeps(r, WriteRgb(r, q, b), k, {c \in {SlotOf(r, q).rgb} : k = "rgb"})
         /\ b \in Bufs => /\ b \in Shelved(DecodeFailed(r, q, b), "rgb")
                          /\ b \in Shelved(Abandon(r, q, b), "rgb")
                          /\ b \in Shelved(WriteRgb(r, q, b), "rgb")
<1> DEFINE i == Index(q)
<1>1. /\ i \in Slots /\ r.slots[i] \in SlotType /\ SlotOf(r, q) = r.slots[i] /\ "rgb" \in Kinds
      /\ b \in Bufs \cup {NoBuf}
  BY IndexType DEF SlotOf, RingType, Kinds, Buf
<1> HIDE DEF i
<1>2. /\ Keeps(r, DecodeFailed(r, q, b), k, {})
      /\ b \in Bufs => b \in Shelved(DecodeFailed(r, q, b), "rgb")
  <2> DEFINE x == Put(r, "rgb", b)
  <2>1. x \in RingType /\ Keeps(r, x, k, {}) /\ (b \in Bufs => b \in Shelved(x, "rgb"))
    BY <1>1, PutType, PoolKeeps
  <2> HIDE DEF x
  <2>2. Keeps(x, Unclaim(x, i), k, {}) /\ Keeps(x, Unclaim(x, i), "rgb", {})
    BY <1>1, <2>1, UnclaimKeeps
  <2>3. Keeps(r, Unclaim(x, i), k, {})
    BY <2>1, <2>2, KeepsTransitive
  <2>4. b \in Bufs => b \in Shelved(Unclaim(x, i), "rgb")
    BY <2>1, <2>2 DEF Keeps
  <2> QED BY <2>3, <2>4 DEF DecodeFailed, x, i
<1>3. /\ Keeps(r, Abandon(r, q, b), k, {})
      /\ b \in Bufs => b \in Shelved(Abandon(r, q, b), "rgb")
  <2> DEFINE x == IF OwnsSlot(r, q) THEN Unclaim(r, i) ELSE r
  <2>1. Keeps(r, r, k, {})
    BY DEF Keeps
  <2>2. x \in RingType /\ Keeps(r, x, k, {})
    BY <1>1, <2>1, UnclaimKeeps
  <2> HIDE DEF x
  <2>3. Keeps(x, Put(x, "rgb", b), k, {}) /\ (b \in Bufs => b \in Shelved(Put(x, "rgb", b), "rgb"))
    BY <1>1, <2>2, PoolKeeps
  <2>4. Keeps(r, Put(x, "rgb", b), k, {})
    BY <2>2, <2>3, KeepsTransitive
  <2> QED BY <2>3, <2>4 DEF Abandon, x, i
<1>4. /\ Keeps(r, WriteRgb(r, q, b), k, {c \in {SlotOf(r, q).rgb} : k = "rgb"})
      /\ b \in Bufs => b \in Shelved(WriteRgb(r, q, b), "rgb")
  <2> DEFINE s == [r.slots[i] EXCEPT !.rgb = b, !.rgbDone = TRUE]
             x == WithSlot(r, i, s)
             X == {c \in {r.slots[i].rgb} : k = "rgb"}
  <2>1. s \in SlotType /\ s.rgb = b /\ s.nv12 = r.slots[i].nv12 /\ s.jpeg = r.slots[i].jpeg
    BY <1>1 DEF SlotType
  <2> HIDE DEF s
  <2>2. s[k] = IF k = "rgb" THEN b ELSE r.slots[i][k]
    BY <2>1 DEF Kinds
  <2>3. /\ x \in RingType /\ x.pools = r.pools
        /\ x.slots[i] = s /\ \A j \in Slots : j # i => x.slots[j] = r.slots[j]
    BY <1>1, <2>1, WithSlotFields
  <2> HIDE DEF x
  <2>4. \A j \in Slots : x.slots[j][k] = r.slots[j][k] \/ r.slots[j][k] \in X
    BY <2>2, <2>3
  <2>5. Keeps(r, x, k, X)
    <3> HIDE DEF X
    <3> QED BY <2>3, <2>4, KeepsSame
  <2>6. Keeps(x, Unclaim(x, i), k, {}) /\ Keeps(x, Unclaim(x, i), "rgb", {})
    BY <1>1, <2>3, UnclaimKeeps
  <2>7. Keeps(r, Unclaim(x, i), k, X)
    BY <2>5, <2>6, KeepsTransitive
  <2>8. b \in Bufs => b \in Shelved(Unclaim(x, i), "rgb")
    <3>1. b \in Shelved(x, "rgb")
      BY <1>1, <2>1, <2>3 DEF Shelved
    <3> QED BY <2>6, <3>1 DEF Keeps
  <2>9. ASSUME OwnsSlot(r, q)
        PROVE  WriteRgb(r, q, b) = Unclaim(x, i)
    BY <1>1, <2>9 DEF WriteRgb, x, s, i
  <2>10. Keeps(r, Put(r, "rgb", b), k, X) /\ (b \in Bufs => b \in Shelved(Put(r, "rgb", b), "rgb"))
    <3>1. Keeps(r, Put(r, "rgb", b), k, {}) /\ (b \in Bufs => b \in Shelved(Put(r, "rgb", b), "rgb"))
      BY <1>1, PoolKeeps
    <3> QED BY <3>1 DEF Keeps
  <2>11. X = {c \in {SlotOf(r, q).rgb} : k = "rgb"}
    BY <1>1
  <2> HIDE DEF X
  <2>12. CASE OwnsSlot(r, q)
    BY <2>7, <2>8, <2>9, <2>11, <2>12
  <2>13. CASE ~OwnsSlot(r, q)
    <3>1. WriteRgb(r, q, b) = Put(r, "rgb", b)
      BY <2>13 DEF WriteRgb
    <3> QED BY <2>10, <2>11, <3>1
  <2> QED BY <2>12, <2>13
<1> QED BY <1>2, <1>3, <1>4

LEMMA DisplayCommitKeeps ==
  ASSUME NEW r \in RingType, NEW i \in Slots, NEW k \in Kinds
  PROVE  Keeps(r, DisplayCommit(r, i), k, {})
<1> DEFINE u == [r.slots[i] EXCEPT !.displayDone = TRUE]
           w == WithSlot(r, i, u)
           y == [w EXCEPT !.display = r.slots[i].seq]
<1>1. r.slots[i] \in SlotType /\ r.slots[i].seq \in Nat
  BY DEF RingType, SlotType
<1>2. /\ u \in SlotType /\ u.rgb = r.slots[i].rgb
      /\ u.nv12 = r.slots[i].nv12 /\ u.jpeg = r.slots[i].jpeg
  BY <1>1 DEF SlotType
<1> HIDE DEF u
<1>3. u[k] = r.slots[i][k]
  BY <1>2 DEF Kinds
<1>4. /\ w \in RingType /\ w.pools = r.pools
      /\ w.slots[i] = u /\ \A j \in Slots : j # i => w.slots[j] = r.slots[j]
  BY <1>1, <1>2, WithSlotFields
<1> HIDE DEF w
<1>5. y \in RingType /\ y.slots = w.slots /\ y.pools = r.pools
  BY <1>1, <1>4 DEF RingType
<1> HIDE DEF y
<1>6. \A j \in Slots : y.slots[j][k] = r.slots[j][k]
  BY <1>3, <1>4, <1>5
<1>7. Keeps(r, y, k, {})
  BY <1>5, <1>6, KeepsSame
<1>8. Keeps(y, Maintain(y), k, {})
  BY <1>5, MaintainKeeps
<1> QED BY <1>7, <1>8, KeepsTransitive DEF DisplayCommit, u, w, y

\* What the composer drew on ends in the slot, which had no picture, or in the
\* pools.
LEMMA RenderedKeeps ==
  ASSUME NEW r \in RingType, NEW q \in Nat, NEW ok \in BOOLEAN, NEW nb \in Buf, NEW jb \in Buf,
         NEW k \in Kinds, Tidy(r), r.display < q
  PROVE  /\ Keeps(r, Rendered(r, q, nb, jb, ok), k, {})
         /\ nb \in Bufs => nb \in Shelved(Rendered(r, q, nb, jb, ok), "nv12")
         /\ jb \in Bufs => jb \in Shelved(Rendered(r, q, nb, jb, ok), "jpeg")
<1> DEFINE i == Index(q)
           s == [SlotOf(r, q) EXCEPT !.nv12 = nb, !.jpeg = jb]
           x == WithSlot(r, i, s)
           r0 == Put(r, "nv12", nb)
           r1 == Put(r0, "jpeg", jb)
           Good(t) == /\ Keeps(r, t, k, {}) /\ (nb \in Bufs => nb \in Shelved(t, "nv12"))
                      /\ (jb \in Bufs => jb \in Shelved(t, "jpeg"))
<1>1. /\ i \in Slots /\ r.slots[i] \in SlotType /\ SlotOf(r, q) = r.slots[i]
      /\ nb \in Bufs \cup {NoBuf} /\ jb \in Bufs \cup {NoBuf} /\ r.display \in Nat
  BY IndexType DEF SlotOf, RingType, Buf
<1>2. s \in SlotType /\ s.rgb = r.slots[i].rgb /\ s.nv12 = nb /\ s.jpeg = jb
  BY <1>1 DEF SlotType
<1> HIDE DEF s, i
<1>3. s[k] = IF k = "nv12" THEN nb ELSE IF k = "jpeg" THEN jb ELSE r.slots[i][k]
  BY <1>2 DEF Kinds
<1>4. /\ x \in RingType /\ x.pools = r.pools
      /\ x.slots[i] = s /\ \A j \in Slots : j # i => x.slots[j] = r.slots[j]
  BY <1>1, <1>2, WithSlotFields
<1> HIDE DEF x
<1>5. ASSUME Renderable(r, q)
      PROVE  Good(x)
  <2>1. r.slots[i].seq = q /\ q # 0 /\ r.display # q
    BY <1>1, <1>5 DEF Renderable
  <2>2. r.slots[i].nv12 = NoBuf
    BY <1>1, <2>1 DEF Tidy, Clean
  <2>3. r.slots[i].jpeg = NoBuf
    BY <1>1, <2>1 DEF Tidy, Settled, JpegDone
  <2>4. \A j \in Slots : x.slots[j][k] = r.slots[j][k] \/ r.slots[j][k] = NoBuf
    BY <1>3, <1>4, <2>2, <2>3 DEF Kinds
  <2>5. Keeps(r, x, k, {})
    BY <1>4, <2>4, KeepsSame
  <2> QED BY <1>1, <1>2, <1>4, <2>5 DEF Shelved
<1>6. r0 \in RingType /\ r1 \in RingType /\ Good(r1)
  <2>1. r0 \in RingType /\ Keeps(r, r0, k, {}) /\ (nb \in Bufs => nb \in Shelved(r0, "nv12"))
    BY <1>1, KindsAre, PutType, PoolKeeps
  <2> HIDE DEF r0
  <2>2. /\ r1 \in RingType /\ Keeps(r0, r1, k, {}) /\ Keeps(r0, r1, "nv12", {})
        /\ (jb \in Bufs => jb \in Shelved(r1, "jpeg"))
    BY <1>1, <2>1, KindsAre, PutType, PoolKeeps
  <2> HIDE DEF r1
  <2>3. Keeps(r, r1, k, {})
    BY <2>1, <2>2, KeepsTransitive
  <2>4. nb \in Bufs => nb \in Shelved(r1, "nv12")
    BY <2>1, <2>2 DEF Keeps
  <2> QED BY <2>1, <2>2, <2>3, <2>4
<1> HIDE DEF r1
<1>7. ASSUME NEW y \in RingType, Good(y)
      PROVE  Good(DisplayCommit(y, i))
  <2>1. /\ Keeps(y, DisplayCommit(y, i), k, {}) /\ Keeps(y, DisplayCommit(y, i), "nv12", {})
        /\ Keeps(y, DisplayCommit(y, i), "jpeg", {})
    BY <1>1, KindsAre, DisplayCommitKeeps
  <2>2. Keeps(r, DisplayCommit(y, i), k, {})
    BY <1>7, <2>1, KeepsTransitive
  <2>3. nb \in Bufs => nb \in Shelved(DisplayCommit(y, i), "nv12")
    BY <1>7, <2>1 DEF Keeps
  <2>4. jb \in Bufs => jb \in Shelved(DisplayCommit(y, i), "jpeg")
    BY <1>7, <2>1 DEF Keeps
  <2> QED BY <2>2, <2>3, <2>4
<1>8. Rendered(r, q, nb, jb, ok) = IF Renderable(r, q) /\ ok THEN DisplayCommit(x, i)
                                   ELSE IF Renderable(r, q) THEN DisplayCommit(r1, i) ELSE r1
  BY DEF Rendered, i, s, x, r0, r1
<1>9. CASE Renderable(r, q) /\ ok
  <2>1. Good(DisplayCommit(x, i)) /\ Rendered(r, q, nb, jb, ok) = DisplayCommit(x, i)
    BY <1>4, <1>5, <1>7, <1>8, <1>9
  <2> QED BY <2>1
<1>10. CASE ~(Renderable(r, q) /\ ok)
  <2>1. Good(DisplayCommit(r1, i)) /\ Rendered(r, q, nb, jb, ok) \in {DisplayCommit(r1, i), r1}
    BY <1>6, <1>7, <1>8, <1>10
  <2> QED BY <1>6, <2>1
<1> QED BY <1>9, <1>10

LEMMA MarkConsumedKeeps ==
  ASSUME NEW r \in RingType, NEW q \in Nat, NEW k \in Kinds
  PROVE  Keeps(r, MarkConsumed(r, q), k, {})
<1> DEFINE m == [i \in Slots |-> IF r.slots[i].seq # 0 /\ r.slots[i].seq <= q
                                 THEN [r.slots[i] EXCEPT !.encodeDone = TRUE]
                                 ELSE r.slots[i]]
           y == [r EXCEPT !.slots = m]
<1>1. ASSUME NEW i \in Slots
      PROVE  /\ m[i] \in SlotType /\ m[i].rgb = r.slots[i].rgb
             /\ m[i].nv12 = r.slots[i].nv12 /\ m[i].jpeg = r.slots[i].jpeg
  <2>1. r.slots[i] \in SlotType
    BY DEF RingType
  <2> QED BY <2>1 DEF SlotType
<1>2. m \in [Slots -> SlotType]
  BY <1>1
<1> HIDE DEF m
<1>3. y \in RingType /\ y.slots = m /\ y.pools = r.pools
  BY <1>2 DEF RingType
<1> HIDE DEF y
<1>4. \A i \in Slots : y.slots[i][k] = r.slots[i][k]
  BY <1>1, <1>3 DEF Kinds
<1>5. Keeps(r, y, k, {})
  BY <1>3, <1>4, KeepsSame
<1>6. Keeps(y, Maintain(y), k, {})
  BY <1>3, MaintainKeeps
<1> QED BY <1>5, <1>6, KeepsTransitive DEF MarkConsumed, m, y

LEMMA StealKeeps ==
  ASSUME NEW r \in RingType, NEW i \in Slots, NEW k \in Kinds
  PROVE  Keeps(r, Steal(r, i), k, {c \in {r.slots[i].nv12} : k = "nv12"})
<1> DEFINE X == {c \in {r.slots[i].nv12} : k = "nv12"}
           s == [r.slots[i] EXCEPT !.nv12 = NoBuf]
           x == WithSlot(r, i, s)
<1>1. r.slots[i] \in SlotType /\ r.slots[i].seq \in Nat
  BY DEF RingType, SlotType
<1>2. /\ s \in SlotType /\ s.rgb = r.slots[i].rgb /\ s.nv12 = NoBuf /\ s.jpeg = r.slots[i].jpeg
  BY <1>1 DEF SlotType
<1> HIDE DEF s
<1>3. s[k] = IF k = "nv12" THEN NoBuf ELSE r.slots[i][k]
  BY <1>2 DEF Kinds
<1>4. /\ x \in RingType /\ x.pools = r.pools
      /\ x.slots[i] = s /\ \A j \in Slots : j # i => x.slots[j] = r.slots[j]
  BY <1>1, <1>2, WithSlotFields
<1> HIDE DEF x
<1>5. \A j \in Slots : x.slots[j][k] = r.slots[j][k] \/ r.slots[j][k] \in X
  BY <1>3, <1>4
<1> HIDE DEF X
<1>6. Keeps(r, x, k, X)
  BY <1>4, <1>5, KeepsSame
<1>7. Keeps(x, MarkConsumed(x, r.slots[i].seq), k, {})
  BY <1>1, <1>4, MarkConsumedKeeps
<1> QED BY <1>6, <1>7, KeepsTransitive DEF Steal, s, x, X

LEMMA ModeKeeps ==
  ASSUME NEW r \in RingType, NEW on \in BOOLEAN, NEW k \in Kinds
  PROVE  Keeps(r, SetAi(r, on), k, {}) /\ Keeps(r, SetRec(r, on), k, {})
<1> DEFINE a == [r EXCEPT !.ai = on]
           c == [r EXCEPT !.rec = on]
<1>1. /\ a \in RingType /\ a.slots = r.slots /\ a.pools = r.pools
      /\ c \in RingType /\ c.slots = r.slots /\ c.pools = r.pools
  BY DEF RingType
<1> HIDE DEF a, c
<1>2. Keeps(r, r, k, {}) /\ Keeps(r, a, k, {}) /\ Keeps(r, c, k, {})
  BY <1>1 DEF Keeps, Shelved
<1>3. Keeps(a, Maintain(a), k, {}) /\ Keeps(c, Maintain(c), k, {})
  BY <1>1, MaintainKeeps
<1>4. Keeps(r, Maintain(a), k, {}) /\ Keeps(r, Maintain(c), k, {})
  BY <1>2, <1>3, KeepsTransitive
<1> QED BY <1>2, <1>4 DEF SetAi, SetRec, a, c

LEMMA PublishKeepsBuffers ==
  ASSUME NEW r \in RingType, NEW v \in VBufs, NEW z \in Sizes, CanProduce(r), NEW k \in Kinds
  PROVE  Keeps(r, Publish(r, v, z), k, {})
<1> DEFINE q == r.produce + 1
           n == Index(q)
           s == [EmptySlot EXCEPT !.seq = q, !.raw = v, !.size = z]
           x == WithSlot(r, n, s)
           y == [x EXCEPT !.produce = q, !.queued = @ \ {v}]
<1>1. q \in Nat /\ n \in Slots /\ r.slots[n] \in SlotType
  BY IndexType DEF RingType
<1>2. s \in SlotType
  BY <1>1 DEF SlotType, EmptySlot
<1>3. r.slots[n].rgb = NoBuf /\ r.slots[n].nv12 = NoBuf /\ r.slots[n].jpeg = NoBuf
  BY DEF CanProduce, SlotOf, Reusable
<1>4. r.slots[n][k] = NoBuf
  BY <1>3 DEF Kinds
<1> HIDE DEF s, n
<1>5. /\ x \in RingType /\ x.pools = r.pools
      /\ x.slots[n] = s /\ \A j \in Slots : j # n => x.slots[j] = r.slots[j]
  BY <1>1, <1>2, WithSlotFields
<1> HIDE DEF x, q
<1>6. y \in RingType /\ y.slots = x.slots /\ y.pools = r.pools
  BY <1>1, <1>5 DEF RingType
<1> HIDE DEF y
<1>7. \A j \in Slots : y.slots[j][k] = r.slots[j][k] \/ r.slots[j][k] = NoBuf
  BY <1>4, <1>5, <1>6
<1>8. Keeps(r, y, k, {})
  BY <1>6, <1>7, KeepsSame
<1>9. Keeps(y, Maintain(y), k, {})
  BY <1>6, MaintainKeeps
<1> QED BY <1>8, <1>9, KeepsTransitive DEF Publish, q, n, s, x, y

LEMMA ClearKeeps ==
  ASSUME NEW r \in RingType, NEW k \in Kinds
  PROVE  Keeps(r, ClearAll(r), k, {})
<1>1. ClearAll(r).pools[k] = r.pools[k] \cup ({r.slots[i][k] : i \in Slots} \ {NoBuf})
  BY DEF ClearAll, RingType
<1> QED BY <1>1, NoBufAssumption DEF Keeps, Shelved

\* The buffers in the threads' hands: pictures of jobs that are not lost, and of the
\* two that draw and encode.
RgbInHand(a, q, f, b) ==
  \/ \E i \in 1 .. Len(q) : q[i].rgb = b
  \/ \E w \in Workers : Holds(f[w]) /\ f[w].rgb = b
  \/ a.pc \in {"decode", "push", "store"} /\ a.rgb = b

InHands(a, q, f, c, s, k, b) ==
  \/ k = "rgb"  /\ RgbInHand(a, q, f, b)
  \/ k = "nv12" /\ (s.nv12 = b \/ (c.pc = "draw" /\ c.nv12 = b))
  \/ k = "jpeg" /\ c.pc = "draw" /\ c.jpeg = b

\* The jobs in J, the lost ones and the AI task's among them, have a picture each.
PictureEach(J, L, a) ==
  /\ Strayed(L) \in SUBSET J /\ InHand(a) \in SUBSET J
  /\ \A j, l \in J : j.rgb = l.rgb /\ j.rgb # NoBuf => j = l

\* A picture in a thread's hands is not that of a lost job.
LEMMA NotStray ==
  ASSUME NEW a, NEW q, NEW f, NEW L, NEW J, NEW b \in Bufs,
         Adrift(a, q, f, L), PictureEach(J, L, a), RgbInHand(a, q, f, b)
  PROVE  \A j \in L : j.rgb # b
<1>1. CASE \/ \E i \in 1 .. Len(q) : q[i].rgb = b
           \/ \E w \in Workers : Holds(f[w]) /\ f[w].rgb = b
           \/ a.pc \in {"push", "store"} /\ a.rgb = b
  BY <1>1 DEF Adrift
<1>2. CASE a.pc = "decode" /\ a.rgb = b
  <2> SUFFICES ASSUME NEW j \in L, j.rgb = b
               PROVE  FALSE
    OBVIOUS
  <2>1. Decoding(a) \in J /\ Decoding(a).rgb = b /\ ~Decoding(a).decoded
    BY <1>2 DEF PictureEach, InHand, Decoding
  <2>2. Decoded(j) \in J /\ Decoded(j).rgb = b /\ Decoded(j).decoded
    BY DecodedFields DEF PictureEach, Strayed
  <2> QED BY <2>1, <2>2, NoBufAssumption DEF PictureEach
<1> QED BY <1>1, <1>2 DEF RgbInHand

LEMMA HandsAre ==
  ASSUME NEW b \in Bufs
  PROVE  /\ PipeInv => ((\E j \in Jobs : j.rgb = b) /\ (\A j \in lost : j.rgb # b)
                          <=> RgbInHand(ai, jobq, wk, b))
         /\ PipeInv' => ((\E j \in Jobs' : j.rgb = b) /\ (\A j \in lost' : j.rgb # b)
                          <=> RgbInHand(ai', jobq', wk', b))
<1>1. ASSUME NEW q
      PROVE  (\E j \in Queued(q) : j.rgb = b) <=> (\E i \in 1 .. Len(q) : q[i].rgb = b)
  BY DecodedFields DEF Queued
<1>2. ASSUME NEW f
      PROVE  (\E j \in Working(f) : j.rgb = b) <=> (\E w \in Workers : Holds(f[w]) /\ f[w].rgb = b)
  BY DecodedFields DEF Working
<1>3. ASSUME NEW a
      PROVE  (\E j \in InHand(a) : j.rgb = b) <=> (a.pc \in {"decode", "push", "store"} /\ a.rgb = b)
  <2>1. Decoding(a).rgb = a.rgb
    BY DEF Decoding
  <2> QED BY <2>1 DEF InHand
<1>4. ASSUME NEW L
      PROVE  (\E j \in Strayed(L) : j.rgb = b) <=> (\E j \in L : j.rgb = b)
  BY DecodedFields DEF Strayed
<1>5. ASSUME PipeInv
      PROVE  (\E j \in Jobs : j.rgb = b) /\ (\A j \in lost : j.rgb # b)
               <=> RgbInHand(ai, jobq, wk, b)
  <2>1. /\ Adrift(ai, jobq, wk, lost)
        /\ \A j, l \in Jobs : j.rgb = l.rgb /\ j.rgb # NoBuf => j = l
    BY <1>5 DEF PipeInv, Sound, Claimed
  <2>2. Strayed(lost) \in SUBSET Jobs /\ InHand(ai) \in SUBSET Jobs
    BY JobsAre
  <2>3. ASSUME RgbInHand(ai, jobq, wk, b)
        PROVE  \A j \in lost : j.rgb # b
    <3>1. PictureEach(Jobs, lost, ai)
      BY <2>1, <2>2 DEF PictureEach
    <3> QED BY <2>1, <2>3, <3>1, NotStray
  <2>4. (\E j \in Jobs : j.rgb = b)
          <=> (\E j \in lost : j.rgb = b) \/ RgbInHand(ai, jobq, wk, b)
    <3>1. (\E j \in Jobs : j.rgb = b)
            <=> \/ \E j \in Queued(jobq) : j.rgb = b
                \/ \E j \in Strayed(lost) : j.rgb = b
                \/ \E j \in Working(wk) : j.rgb = b
                \/ \E j \in InHand(ai) : j.rgb = b
      BY JobsAre
    <3>2. (\E j \in Queued(jobq) : j.rgb = b)
            <=> (\E i \in 1 .. Len(jobq) : jobq[i].rgb = b)
      BY <1>1
    <3>3. (\E j \in Working(wk) : j.rgb = b)
            <=> (\E w \in Workers : Holds(wk[w]) /\ wk[w].rgb = b)
      BY <1>2
    <3>4. (\E j \in InHand(ai) : j.rgb = b)
            <=> (ai.pc \in {"decode", "push", "store"} /\ ai.rgb = b)
      BY <1>3
    <3>5. (\E j \in Strayed(lost) : j.rgb = b) <=> (\E j \in lost : j.rgb = b)
      BY <1>4
    <3> QED BY <3>1, <3>2, <3>3, <3>4, <3>5 DEF RgbInHand
  <2> QED BY <2>3, <2>4
<1>6. ASSUME PipeInv'
      PROVE  (\E j \in Jobs' : j.rgb = b) /\ (\A j \in lost' : j.rgb # b)
               <=> RgbInHand(ai', jobq', wk', b)
  <2>0. Sound(ring, Jobs, Drawing, rec.nv12)' /\ Adrift(ai, jobq, wk, lost)'
    BY <1>6 DEF PipeInv
  <2>a. Sound(ring', Jobs', Drawing', rec'.nv12)
    BY <2>0
  <2>1. /\ Adrift(ai', jobq', wk', lost')
        /\ \A j, l \in Jobs' : j.rgb = l.rgb /\ j.rgb # NoBuf => j = l
    BY <2>0, <2>a DEF Sound, Claimed
  <2>2. Strayed(lost') \in SUBSET Jobs' /\ InHand(ai') \in SUBSET Jobs'
    BY JobsAreNext
  <2>3. ASSUME RgbInHand(ai', jobq', wk', b)
        PROVE  \A j \in lost' : j.rgb # b
    <3>1. PictureEach(Jobs', lost', ai')
      BY <2>1, <2>2 DEF PictureEach
    <3> QED BY <2>1, <2>3, <3>1, NotStray
  <2>4. (\E j \in Jobs' : j.rgb = b)
          <=> (\E j \in lost' : j.rgb = b) \/ RgbInHand(ai', jobq', wk', b)
    <3>1. (\E j \in Jobs' : j.rgb = b)
            <=> \/ \E j \in Queued(jobq') : j.rgb = b
                \/ \E j \in Strayed(lost') : j.rgb = b
                \/ \E j \in Working(wk') : j.rgb = b
                \/ \E j \in InHand(ai') : j.rgb = b
      BY JobsAreNext
    <3>2. (\E j \in Queued(jobq') : j.rgb = b)
            <=> (\E i \in 1 .. Len(jobq') : jobq'[i].rgb = b)
      BY <1>1
    <3>3. (\E j \in Working(wk') : j.rgb = b)
            <=> (\E w \in Workers : Holds(wk'[w]) /\ wk'[w].rgb = b)
      BY <1>2
    <3>4. (\E j \in InHand(ai') : j.rgb = b)
            <=> (ai'.pc \in {"decode", "push", "store"} /\ ai'.rgb = b)
      BY <1>3
    <3>5. (\E j \in Strayed(lost') : j.rgb = b) <=> (\E j \in lost' : j.rgb = b)
      BY <1>4
    <3> QED BY <3>1, <3>2, <3>3, <3>4, <3>5 DEF RgbInHand
  <2> QED BY <2>3, <2>4
<1> QED BY <1>5, <1>6

\* Every buffer is pooled, in a slot or in a thread's hands, before a step and
\* after it.
LEMMA OwnedAre ==
  ASSUME PipeInv, NEW k \in Kinds, NEW b
  PROVE  b \in Owned(k) <=> b \in Bufs /\ (\/ b \in Shelved(ring, k)
                                          \/ InHands(ai, jobq, wk, comp, rec, k, b))
<1>0. ring \in RingType
  BY DEF PipeInv, Sound
<1>1. b \in Owned(k) <=> b \in Bufs /\ (b \in Shelved(ring, k)
                                        \/ (/\ b \in HeldBy(Jobs, Drawing, rec.nv12, k)
                                            /\ b \notin Stray(k)))
  BY <1>0, SameHeld DEF Owned, RingType, Shelved, HeldBy
<1>2. ASSUME b \in Bufs
      PROVE  b \in HeldBy(Jobs, Drawing, rec.nv12, k) /\ b \notin Stray(k)
               <=> InHands(ai, jobq, wk, comp, rec, k, b)
  <2>1. b # NoBuf
    BY <1>2, NoBufAssumption
  <2>2. /\ Drawing.nv12 = b <=> (comp.pc = "draw" /\ comp.nv12 = b)
        /\ Drawing.jpeg = b <=> (comp.pc = "draw" /\ comp.jpeg = b)
    BY <2>1 DEF Drawing
  <2>3. (\E j \in Jobs : j.rgb = b) /\ (\A j \in lost : j.rgb # b)
          <=> RgbInHand(ai, jobq, wk, b)
    BY <1>2, HandsAre
  <2>4. b \notin Stray(k) <=> (k = "rgb" => \A j \in lost : j.rgb # b)
    BY DEF Stray
  <2> QED BY <1>2, <2>2, <2>3, <2>4 DEF HeldBy, InHands
<1> QED BY <1>1, <1>2

LEMMA OwnedAreNext ==
  ASSUME PipeInv', NEW k \in Kinds, NEW b
  PROVE  b \in Owned(k)' <=> b \in Bufs /\ (\/ b \in Shelved(ring', k)
                                           \/ InHands(ai', jobq', wk', comp', rec', k, b))
<1>0. ring' \in RingType
  BY DEF PipeInv, Sound
<1>1. /\ Contract!Held(k)' = HeldBy(Jobs', Drawing', rec'.nv12, k)
      /\ Contract!InSlots(k)' = {c \in Bufs : \E i \in Slots : ring'.slots[i][k] = c}
      /\ b \notin Stray(k)' <=> (k = "rgb" => \A j \in lost' : j.rgb # b)
  BY DEF Contract!Held, HeldBy, Contract!InSlots, Contract!Slots, Slots, Stray
<1>2. b \in Owned(k)' <=> b \in Bufs /\ (b \in Shelved(ring', k)
                                         \/ (/\ b \in HeldBy(Jobs', Drawing', rec'.nv12, k)
                                             /\ b \notin Stray(k)'))
  BY <1>0, <1>1 DEF Owned, RingType, Shelved, HeldBy
<1>3. ASSUME b \in Bufs
      PROVE  b \in HeldBy(Jobs', Drawing', rec'.nv12, k) /\ b \notin Stray(k)'
               <=> InHands(ai', jobq', wk', comp', rec', k, b)
  <2>1. b # NoBuf
    BY <1>3, NoBufAssumption
  <2>2. /\ Drawing'.nv12 = b <=> (comp'.pc = "draw" /\ comp'.nv12 = b)
        /\ Drawing'.jpeg = b <=> (comp'.pc = "draw" /\ comp'.jpeg = b)
    BY <2>1 DEF Drawing
  <2>3. (\E j \in Jobs' : j.rgb = b) /\ (\A j \in lost' : j.rgb # b)
          <=> RgbInHand(ai', jobq', wk', b)
    BY <1>3, HandsAre
  <2> QED BY <1>1, <1>3, <2>2, <2>3 DEF HeldBy, InHands
<1> QED BY <1>2, <1>3

\* A step that takes nothing out of the ring and leaves everything in the hands
\* it is in, or shelves it, loses nothing.
LEMMA NothingLost ==
  ASSUME PipeInv, PipeInv', NEW k \in Kinds, NEW b \in Owned(k),
         NEW X, Keeps(ring, ring', k, X),
         b \in Bufs /\ b \in X => InHands(ai', jobq', wk', comp', rec', k, b),
         b \in Bufs /\ InHands(ai, jobq, wk, comp, rec, k, b) =>
           b \in Shelved(ring', k) \/ InHands(ai', jobq', wk', comp', rec', k, b)
  PROVE  b \in Owned(k)'
<1>1. b \in Bufs /\ (b \in Shelved(ring, k) \/ InHands(ai, jobq, wk, comp, rec, k, b))
  BY OwnedAre
<1>2. b \in Shelved(ring', k) \/ InHands(ai', jobq', wk', comp', rec', k, b)
  BY <1>1 DEF Keeps
<1> QED BY <1>1, <1>2, OwnedAreNext

LEMMA SameKeeps == \A r, k : Keeps(r, r, k, {})
  BY DEF Keeps

LEMMA CamLosesNone ==
  ASSUME PipeInv, PipeInv', CamStep, NEW k \in Kinds, NEW b \in Owned(k)
  PROVE  b \in Owned(k)'
<1>1. ring \in RingType /\ UNCHANGED <<ai, jobq, lost, wk, comp, rec>>
  BY DEF PipeInv, Sound, CamStep, CamInit, CamSessionEnd, CamCapture, CamQuiesced, CamTimeout,
         CamUnmap, CamRetry
<1>2. Keeps(ring, ring', k, {})
  <2>1. CASE CamInit \/ CamSessionEnd \/ CamTimeout \/ CamUnmap
    <3>1. ring'.slots = ring.slots /\ ring'.pools = ring.pools
      BY <1>1, <2>1 DEF CamInit, CamSessionEnd, CamTimeout, CamUnmap, StreamOn, StreamOff, RingType
    <3> QED BY <3>1 DEF Keeps, Shelved
  <2>2. ASSUME NEW v \in VBufs, NEW z \in Sizes, CamCapture(v, z)
        PROVE  Keeps(ring, ring', k, {})
    <3> DEFINE r == Maintain(ring)
    <3>1. r \in RingType /\ Keeps(ring, r, k, {})
      BY <1>1, MaintainFields, MaintainKeeps
    <3>2. ring' = IF CanProduce(r) THEN Publish(r, v, z) ELSE r
      BY <2>2 DEF CamCapture
    <3> HIDE DEF r
    <3>3. CASE CanProduce(r)
      <4>1. Keeps(r, Publish(r, v, z), k, {})
        BY <3>1, <3>3, PublishKeepsBuffers
      <4> QED BY <3>1, <3>2, <3>3, <4>1, KeepsTransitive
    <3> QED BY <3>1, <3>2, <3>3
  <2>3. CASE CamQuiesced \/ CamRetry
    BY <1>1, <2>3, ClearKeeps DEF CamQuiesced, CamRetry
  <2> QED BY <2>1, <2>2, <2>3 DEF CamStep
<1> QED BY <1>1, <1>2, NothingLost DEF InHands

LEMMA AiLosesNone ==
  ASSUME PipeInv, PipeInv', AiStep, NEW k \in Kinds, NEW b \in Owned(k)
  PROVE  b \in Owned(k)'
<1>1. /\ ring \in RingType /\ ring.produce \in Nat /\ jobq \in Seq(TaskType)
      /\ ai \in [pc : {"idle", "claim", "decode", "push", "store"}, last : Nat, seq : Nat, rgb : Buf]
      /\ ai.seq \in Nat /\ ai.rgb \in Buf
  BY DEF PipeInv, PipeTypeOK, Sound, RingType
<1>2. UNCHANGED <<wk, comp, rec>>
  BY DEF AiStep, AiSee, AiClaimNone, AiDecodeOk, AiDecodeFail, AiLook, AiPush, AiPushRefused, AiClaim
<1>3. ASSUME \A c \in Bufs : RgbInHand(ai, jobq, wk, c) => RgbInHand(ai', jobq', wk', c),
             Keeps(ring, ring', k, {})
      PROVE  b \in Owned(k)'
  BY <1>1, <1>2, <1>3, NothingLost DEF InHands
<1>4. CASE AiSee \/ AiClaimNone
  <2>1. /\ ring' = ring /\ jobq' = jobq
        /\ ai.pc \notin {"decode", "push", "store"}
    BY <1>4 DEF AiSee, AiClaimNone
  <2> QED BY <1>2, <1>3, <2>1, SameKeeps DEF RgbInHand
<1>5. CASE AiDecodeOk \/ AiLook
  <2>1. ring' = ring /\ jobq' = jobq /\ ai'.pc \in {"push", "store"} /\ ai'.rgb = ai.rgb
    <3>1. CASE AiDecodeOk
      BY <1>1, <3>1 DEF AiDecodeOk
    <3>2. CASE AiLook
      BY <1>1, <3>2 DEF AiLook
    <3> QED BY <1>5, <3>1, <3>2
  <2> QED BY <1>2, <1>3, <2>1, SameKeeps DEF RgbInHand
<1>6. CASE AiPush
  <2>1. ring' = ring /\ jobq' = Append(jobq, Job(ai)) /\ Job(ai) \in TaskType /\ Job(ai).rgb = ai.rgb
    BY <1>1, <1>6 DEF AiPush, Job, TaskType
  <2>2. /\ Len(jobq') = Len(jobq) + 1 /\ Len(jobq) \in Nat
        /\ \A i \in 1 .. Len(jobq) : jobq'[i] = jobq[i]
        /\ jobq'[Len(jobq) + 1] = Job(ai)
    BY <1>1, <2>1, QueuedAppend, LenProperties
  <2>3. \A i \in 1 .. Len(jobq) : i \in 1 .. Len(jobq') /\ jobq'[i] = jobq[i]
    BY <2>2
  <2>4. Len(jobq) + 1 \in 1 .. Len(jobq') /\ jobq'[Len(jobq) + 1].rgb = ai.rgb
    BY <2>1, <2>2
  <2>5. \A c \in Bufs : RgbInHand(ai, jobq, wk, c) => RgbInHand(ai', jobq', wk', c)
    BY <1>2, <2>3, <2>4 DEF RgbInHand
  <2> QED BY <1>3, <2>1, <2>5, SameKeeps
<1>7. CASE AiDecodeFail \/ AiPushRefused
  <2>1. /\ ring' \in {DecodeFailed(ring, ai.seq, ai.rgb), Abandon(ring, ai.seq, ai.rgb)}
        /\ jobq' = jobq
    BY <1>7 DEF AiDecodeFail, AiPushRefused
  <2>2. Keeps(ring, ring', k, {}) /\ (ai.rgb \in Bufs => ai.rgb \in Shelved(ring', "rgb"))
    <3> DEFINE f == DecodeFailed(ring, ai.seq, ai.rgb)
               a == Abandon(ring, ai.seq, ai.rgb)
    <3>1. /\ Keeps(ring, f, k, {}) /\ Keeps(ring, a, k, {})
          /\ ai.rgb \in Bufs => ai.rgb \in Shelved(f, "rgb") /\ ai.rgb \in Shelved(a, "rgb")
      BY <1>1, JobKeeps
    <3>2. ring' = f \/ ring' = a
      BY <2>1
    <3> HIDE DEF f, a
    <3> QED BY <3>1, <3>2
  <2>3. \A c \in Bufs : RgbInHand(ai, jobq, wk, c) => c = ai.rgb \/ RgbInHand(ai', jobq', wk', c)
    BY <1>2, <2>1 DEF RgbInHand
  <2> QED BY <1>1, <1>2, <2>2, <2>3, NothingLost DEF InHands
<1>8. ASSUME NEW x \in Buf, AiClaim(x)
      PROVE  b \in Owned(k)'
  <2>1. PICK q \in Claimables :
          /\ ring' = Take(Claim(ring, q), "rgb", x)
          /\ ai' = [pc |-> "decode", last |-> q - 1, seq |-> q, rgb |-> x]
    BY <1>8 DEF AiClaim
  <2>2. q \in Nat /\ jobq' = jobq /\ ai.pc = "claim" /\ ai'.pc = "decode" /\ ai'.rgb = x
    BY <1>1, <1>8, <2>1 DEF AiClaim, Claimables
  <2> DEFINE y == Claim(ring, q)
             X == {c \in {x} : k = "rgb"}
  <2>3. y \in RingType /\ Keeps(ring, y, k, {})
    BY <1>1, <2>2, ClaimKeeps
  <2> HIDE DEF y
  <2>4. Keeps(y, Take(y, "rgb", x), k, {c \in {x} : k = "rgb"})
    BY <2>3, KindsAre, PoolKeeps
  <2>5. Keeps(ring, Take(y, "rgb", x), k, X)
    BY <2>3, <2>4 DEF Keeps
  <2>6. Keeps(ring, ring', k, X)
    BY <2>1, <2>5 DEF y
  <2>7. /\ \A c \in Bufs : RgbInHand(ai, jobq, wk, c) => RgbInHand(ai', jobq', wk', c)
        /\ RgbInHand(ai', jobq', wk', x)
    BY <1>2, <2>2 DEF RgbInHand
  <2>8. \A c \in X : k = "rgb" /\ c = x
    OBVIOUS
  <2> HIDE DEF X
  <2> QED BY <1>1, <1>2, <2>6, <2>7, <2>8, NothingLost DEF InHands
<1> QED BY <1>4, <1>5, <1>6, <1>7, <1>8 DEF AiStep, Buf

\* Only a second decoding of a frame takes the place of a picture.
LEMMA WkLosesRewritten ==
  ASSUME PipeInv, PipeInv', NEW w \in Workers, WkStep(w),
         NEW k \in Kinds, NEW b \in Owned(k), b \notin Owned(k)'
  PROVE  /\ k = "rgb" /\ wk[w].pc = "write" /\ wk'[w].pc = "result"
         /\ SlotOf(ring, wk[w].seq).rgb = b /\ SlotOf(ring, wk[w].seq).rgbDone
<1>1. /\ ring \in RingType /\ jobq \in Seq(TaskType) /\ Tidy(ring)
      /\ wk \in [Workers -> [pc : {"gone", "pop", "infer", "write", "result"}, seq : Nat, rgb : Buf]]
      /\ wk[w].seq \in Nat /\ wk[w].rgb \in Buf
  BY DEF PipeInv, PipeTypeOK, Sound, RingType
<1>2. UNCHANGED <<ai, comp, rec>> /\ \A v \in Workers : v # w => wk'[v] = wk[v]
  BY <1>1 DEF WkStep, WkPop, WkExit, WkInferOk, WkAbandon, WkWrite, WkResult
<1>3. ASSUME NEW X, Keeps(ring, ring', k, X),
             b \in Bufs => b \notin X,
             \A c \in Bufs : RgbInHand(ai, jobq, wk, c) =>
               RgbInHand(ai', jobq', wk', c) \/ c \in Shelved(ring', "rgb")
      PROVE  FALSE
  <2>1. InHands(ai, jobq, wk, comp, rec, k, b) /\ b \in Bufs =>
          b \in Shelved(ring', k) \/ InHands(ai', jobq', wk', comp', rec', k, b)
    BY <1>2, <1>3 DEF InHands
  <2> QED BY <1>1, <1>3, <2>1, NothingLost
<1>4. CASE WkPop(w)
  <2>1. ring' = ring /\ jobq # <<>> /\ jobq' = Tail(jobq)
        /\ wk'[w].pc = "infer" /\ wk'[w].rgb = Head(jobq).rgb
        /\ wk[w].pc = "pop"
    BY <1>1, <1>4 DEF WkPop
  <2>2. \A i \in 1 .. Len(jobq) :
          i = 1 \/ \E j \in 1 .. Len(Tail(jobq)) : Tail(jobq)[j] = jobq[i]
    <3> TAKE i \in 1 .. Len(jobq)
    <3>1. CASE i # 1
      <4>1. i - 1 \in 1 .. Len(Tail(jobq)) /\ Tail(jobq)[i - 1] = jobq[(i - 1) + 1]
        BY <1>1, <2>1, <3>1, QueuedTail
      <4> QED BY <4>1
    <3> QED BY <3>1
  <2>3. jobq[1] = Head(jobq)
    BY <1>1, <2>1, QueuedTail
  <2>4. \A v \in Workers : Holds(wk[v]) => v # w
    BY <2>1 DEF Holds
  <2>5. Holds(wk'[w])
    BY <2>1 DEF Holds
  <2>6. \A c \in Bufs : RgbInHand(ai, jobq, wk, c) => RgbInHand(ai', jobq', wk', c)
    BY <1>2, <2>1, <2>2, <2>3, <2>4, <2>5 DEF RgbInHand
  <2> QED BY <1>3, <2>1, <2>6, SameKeeps
<1>5. CASE WkExit(w) \/ WkInferOk(w) \/ WkResult(w)
  <2>1. /\ ring' = ring /\ jobq' = jobq
        /\ Holds(wk[w]) => Holds(wk'[w]) /\ wk'[w].rgb = wk[w].rgb
    <3>1. CASE WkExit(w)
      BY <1>1, <3>1 DEF WkExit, Holds
    <3>2. CASE WkInferOk(w)
      BY <1>1, <3>2 DEF WkInferOk, Holds
    <3>3. CASE WkResult(w)
      BY <1>1, <3>3 DEF WkResult, Holds
    <3> QED BY <1>5, <3>1, <3>2, <3>3
  <2>2. \A c \in Bufs : RgbInHand(ai, jobq, wk, c) => RgbInHand(ai', jobq', wk', c)
    BY <1>2, <2>1 DEF RgbInHand
  <2> QED BY <1>3, <2>1, <2>2, SameKeeps
<1>6. \A c \in Bufs : RgbInHand(ai, jobq, wk, c) /\ jobq' = jobq
                        => RgbInHand(ai', jobq', wk', c) \/ c = wk[w].rgb
  BY <1>2 DEF RgbInHand
<1>7. CASE WkAbandon(w)
  <2>1. ring' = Abandon(ring, wk[w].seq, wk[w].rgb) /\ jobq' = jobq
    BY <1>7 DEF WkAbandon
  <2>2. Keeps(ring, ring', k, {}) /\ (wk[w].rgb \in Bufs => wk[w].rgb \in Shelved(ring', "rgb"))
    BY <1>1, <2>1, JobKeeps
  <2> QED BY <1>3, <1>6, <2>1, <2>2
<1>8. CASE WkWrite(w)
  <2> DEFINE s == SlotOf(ring, wk[w].seq)
             X == {c \in {s.rgb} : k = "rgb"}
  <2>1. /\ ring' = WriteRgb(ring, wk[w].seq, wk[w].rgb) /\ jobq' = jobq
        /\ wk[w].pc = "write" /\ wk'[w].pc = "result"
    BY <1>1, <1>8 DEF WkWrite
  <2>2. Keeps(ring, ring', k, X) /\ (wk[w].rgb \in Bufs => wk[w].rgb \in Shelved(ring', "rgb"))
    <3> DEFINE q == wk[w].seq
               p == wk[w].rgb
    <3>1. ring \in RingType /\ q \in Nat /\ p \in Buf
      BY <1>1
    <3> HIDE DEF q, p
    <3>2. /\ Keeps(ring, WriteRgb(ring, q, p), k, {c \in {SlotOf(ring, q).rgb} : k = "rgb"})
          /\ p \in Bufs => p \in Shelved(WriteRgb(ring, q, p), "rgb")
      BY <3>1, JobKeeps
    <3> QED BY <2>1, <3>2 DEF q, p
  <2>3. \A c \in X : k = "rgb" /\ s.rgb = c
    OBVIOUS
  <2>4. s.rgb # NoBuf => s.rgbDone
    BY <1>1, IndexType DEF Tidy, Clean, SlotOf
  <2> HIDE DEF X, s
  <2>5. b \in Bufs /\ b \in X
    BY <1>3, <1>6, <2>1, <2>2
  <2> QED BY <2>1, <2>3, <2>4, <2>5, NoBufAssumption DEF s
<1> QED BY <1>4, <1>5, <1>7, <1>8 DEF WkStep

LEMMA CoLosesNone ==
  ASSUME PipeInv, PipeInv', CoStep, NEW k \in Kinds, NEW b \in Owned(k)
  PROVE  b \in Owned(k)'
<1>1. /\ ring \in RingType /\ Tidy(ring) /\ CompPlace /\ ring.display \in Nat
      /\ comp \in [pc : {"gone", "pop", "drain", "pick", "draw"}, item : Nat, next : Nat,
                   nv12 : Buf, jpeg : Buf]
      /\ Drawn(ring, Drawing)
  BY DEF PipeInv, PipeTypeOK, Sound, RingType
<1>2. UNCHANGED <<ai, jobq, lost, wk, rec>>
  BY DEF CoStep, CoPop, CoExit, CoDrain, CoDrained, CoGone, CoPick, CoCommit
<1>3. CASE CoPop \/ CoExit \/ CoDrain \/ CoDrained \/ CoGone
  <2>1. ring' = ring /\ comp.pc # "draw"
    BY <1>3 DEF CoPop, CoExit, CoDrain, CoDrained, CoGone
  <2> QED BY <1>1, <1>2, <2>1, SameKeeps, NothingLost DEF InHands
<1>4. ASSUME NEW nb \in Buf, NEW jb \in Buf, CoPick(nb, jb)
      PROVE  b \in Owned(k)'
  <2> DEFINE x == Take(ring, "nv12", nb)
             X == {c \in {nb} : k = "nv12"} \cup {c \in {jb} : k = "jpeg"}
  <2>1. /\ ring' = Take(x, "jpeg", jb)
        /\ comp.pc = "pick" /\ comp'.pc = "draw" /\ comp'.nv12 = nb /\ comp'.jpeg = jb
    BY <1>1, <1>4 DEF CoPick
  <2>2. nb \in Bufs \cup {NoBuf}
    BY DEF Buf
  <2>3. x \in RingType /\ Keeps(ring, x, k, {c \in {nb} : k = "nv12"})
    BY <1>1, <2>2, KindsAre, TakeType, PoolKeeps
  <2> HIDE DEF x
  <2>4. Keeps(x, Take(x, "jpeg", jb), k, {c \in {jb} : k = "jpeg"})
    BY <2>3, KindsAre, PoolKeeps
  <2>5. Keeps(ring, ring', k, X)
    BY <2>1, <2>3, <2>4 DEF Keeps
  <2>6. \A c \in X : (k = "nv12" /\ c = nb) \/ (k = "jpeg" /\ c = jb)
    OBVIOUS
  <2> HIDE DEF X
  <2>7. b \in X => InHands(ai', jobq', wk', comp', rec', k, b)
    BY <2>1, <2>6 DEF InHands
  <2>8. InHands(ai, jobq, wk, comp, rec, k, b) => InHands(ai', jobq', wk', comp', rec', k, b)
    BY <1>2, <2>1 DEF InHands
  <2> QED BY <1>1, <2>5, <2>7, <2>8, NothingLost
<1>5. ASSUME NEW ok \in BOOLEAN, CoCommit(ok)
      PROVE  b \in Owned(k)'
  <2>1. /\ ring' = Rendered(ring, comp.item, comp.nv12, comp.jpeg, ok) /\ comp.pc = "draw"
        /\ comp.item \in Nat /\ comp.nv12 \in Buf /\ comp.jpeg \in Buf /\ comp.item # 0
    BY <1>1, <1>5 DEF CoCommit, CompPlace
  <2>2. Drawing.seq = comp.item
    BY <2>1 DEF Drawing
  <2>3. ring.display < comp.item
    <3>1. Drawing # Idle
      BY <2>1, <2>2 DEF Idle
    <3> QED BY <1>1, <2>2, <3>1 DEF Drawn
  <2>4. /\ Keeps(ring, ring', k, {})
        /\ comp.nv12 \in Bufs => comp.nv12 \in Shelved(ring', "nv12")
        /\ comp.jpeg \in Bufs => comp.jpeg \in Shelved(ring', "jpeg")
    BY <1>1, <2>1, <2>3, RenderedKeeps
  <2>5. b \in Bufs /\ InHands(ai, jobq, wk, comp, rec, k, b) =>
          b \in Shelved(ring', k) \/ InHands(ai', jobq', wk', comp', rec', k, b)
    BY <1>2, <2>4 DEF InHands
  <2> QED BY <1>1, <2>4, <2>5, NothingLost
<1> QED BY <1>3, <1>4, <1>5 DEF CoStep, Buf

LEMMA RecLosesNone ==
  ASSUME PipeInv, PipeInv', RecStep, NEW k \in Kinds, NEW b \in Owned(k)
  PROVE  b \in Owned(k)'
<1>1. /\ ring \in RingType /\ \A i \in Slots : ring.slots[i].seq \in Nat
      /\ rec \in [on : BOOLEAN, last : Nat, nv12 : Buf, segments : Nat] /\ rec.nv12 \in Buf
  BY DEF PipeInv, PipeTypeOK, Sound, RingType, SlotType
<1>2. UNCHANGED <<ai, jobq, lost, wk, comp>>
  BY DEF RecStep, RecBegin, RecTake, RecSkip, RecPut, RecEnd
<1>3. ASSUME NEW X, Keeps(ring, ring', k, X),
             b \in Bufs /\ b \in X => k = "nv12" /\ rec'.nv12 = b,
             b \in Bufs /\ k = "nv12" /\ rec.nv12 = b => rec'.nv12 = b \/ b \in Shelved(ring', k)
      PROVE  b \in Owned(k)'
  BY <1>1, <1>2, <1>3, NothingLost DEF InHands
<1>4. CASE RecBegin \/ RecEnd
  <2>1. ring' \in {SetRec(ring, TRUE), SetRec(ring, FALSE)} /\ rec'.nv12 = rec.nv12
    BY <1>1, <1>4 DEF RecBegin, RecEnd
  <2>2. Keeps(ring, ring', k, {})
    BY <1>1, <2>1, ModeKeeps
  <2> QED BY <1>3, <2>1, <2>2
<1>5. CASE RecTake
  <2>1. PICK i \in Slots : ring' = Steal(ring, i) /\ rec'.nv12 = ring.slots[i].nv12
                           /\ rec.nv12 = NoBuf
    BY <1>1, <1>5 DEF RecTake, EncodePick
  <2> DEFINE X == {c \in {ring.slots[i].nv12} : k = "nv12"}
  <2>2. Keeps(ring, ring', k, X)
    BY <1>1, <2>1, StealKeeps
  <2>3. \A c \in X : k = "nv12" /\ rec'.nv12 = c
    BY <2>1
  <2> HIDE DEF X
  <2> QED BY <1>3, <2>1, <2>2, <2>3, NoBufAssumption
<1>6. CASE RecSkip
  <2>1. PICK i \in Slots : ring' = MarkConsumed(ring, ring.slots[i].seq) /\ rec'.nv12 = rec.nv12
    BY <1>1, <1>6 DEF RecSkip, EncodePick
  <2>2. Keeps(ring, ring', k, {})
    BY <1>1, <2>1, MarkConsumedKeeps
  <2> QED BY <1>3, <2>1, <2>2
<1>7. CASE RecPut
  <2>1. ring' = Put(ring, "nv12", rec.nv12)
    BY <1>7 DEF RecPut
  <2>2. Keeps(ring, ring', k, {}) /\ (rec.nv12 \in Bufs => rec.nv12 \in Shelved(ring', "nv12"))
    BY <1>1, <2>1, KindsAre, PoolKeeps
  <2> QED BY <1>3, <2>2
<1> QED BY <1>4, <1>5, <1>6, <1>7 DEF RecStep

\* Stopping the pool loses what was pushed after the purge.
LEMMA PoolLosesPushed ==
  ASSUME PipeInv, PipeInv', PoolStep, NEW k \in Kinds, NEW b \in Owned(k)
  PROVE  b \in Owned(k)' \/ ResetLoses(k, b)
<1>1. /\ ring \in RingType /\ jobq \in Seq(TaskType) /\ PoolPlace
      /\ lost \in SUBSET TaskType
      /\ ai \in [pc : {"idle", "claim", "decode", "push", "store"}, last : Nat, seq : Nat, rgb : Buf]
      /\ pool \in [running : BOOLEAN, enabled : BOOLEAN, reloads : Nat,
                   pc : {"up", "mode", "join", "purge", "reset", "down", "start"}]
  BY DEF PipeInv, PipeTypeOK, Sound
<1>2. CASE PoolStop \/ PoolMode \/ PoolJoin \/ PoolPurged \/ PoolStarted
  <2>1. /\ UNCHANGED <<ai, jobq, wk, comp, rec>>
        /\ ring' \in {ring, SetAi(ring, TRUE), SetAi(ring, FALSE)}
    BY <1>2 DEF PoolStop, PoolMode, PoolJoin, PoolPurged, PoolStarted
  <2>2. Keeps(ring, ring', k, {})
    BY <1>1, <2>1, ModeKeeps, SameKeeps
  <2> QED BY <2>1, <2>2, NothingLost DEF InHands
<1>3. CASE PoolPurge
  <2>1. UNCHANGED <<ai, wk, comp, rec>>
    BY <1>3 DEF PoolPurge
  <2>2. ASSUME jobq # <<>>, jobq' = Tail(jobq),
               ring' = Abandon(ring, Head(jobq).seq, Head(jobq).rgb)
        PROVE  b \in Owned(k)'
    <3>1. Head(jobq).seq \in Nat /\ Head(jobq).rgb \in Buf /\ jobq[1] = Head(jobq)
      BY <1>1, <2>2, QueuedTail DEF TaskType
    <3>2. /\ Keeps(ring, ring', k, {})
          /\ Head(jobq).rgb \in Bufs => Head(jobq).rgb \in Shelved(ring', "rgb")
      BY <1>1, <2>2, <3>1, JobKeeps
    <3>3. \A i \in 1 .. Len(jobq) :
            i = 1 \/ \E j \in 1 .. Len(Tail(jobq)) : Tail(jobq)[j] = jobq[i]
      <4> TAKE i \in 1 .. Len(jobq)
      <4>1. CASE i # 1
        <5>1. i - 1 \in 1 .. Len(Tail(jobq)) /\ Tail(jobq)[i - 1] = jobq[(i - 1) + 1]
          BY <1>1, <2>2, <4>1, QueuedTail
        <5> QED BY <5>1
      <4> QED BY <4>1
    <3>4. \A c \in Bufs : RgbInHand(ai, jobq, wk, c) =>
                            RgbInHand(ai', jobq', wk', c) \/ c = Head(jobq).rgb
      BY <2>1, <2>2, <3>1, <3>3 DEF RgbInHand
    <3> QED BY <2>1, <3>2, <3>4, NothingLost DEF InHands
  <2>3. ASSUME NEW j \in lost, ring' = Abandon(ring, j.seq, j.rgb), jobq' = jobq
        PROVE  b \in Owned(k)'
    <3>1. j.seq \in Nat /\ j.rgb \in Buf
      BY <1>1 DEF TaskType
    <3>2. Keeps(ring, ring', k, {})
      BY <1>1, <2>3, <3>1, JobKeeps
    <3> QED BY <2>1, <2>3, <3>2, NothingLost DEF InHands
  <2> QED BY <1>3, <2>2, <2>3 DEF PoolPurge
<1>4. CASE PoolDown
  <2> SUFFICES ASSUME ~ResetLoses(k, b)
               PROVE  b \in Owned(k)'
    OBVIOUS
  <2>1. /\ UNCHANGED <<ring, wk, comp, rec>> /\ ai'.pc = ai.pc /\ ai'.rgb = ai.rgb
        /\ pool.pc = "reset" /\ pool'.pc = "down"
    BY <1>1, <1>4 DEF PoolDown
  <2>2. k = "rgb" => \A i \in 1 .. Len(jobq) : jobq[i].rgb # b
    BY <2>1 DEF ResetLoses
  <2>3. k = "rgb" /\ RgbInHand(ai, jobq, wk, b) => RgbInHand(ai', jobq', wk', b)
    BY <2>1, <2>2 DEF RgbInHand
  <2> QED BY <2>1, <2>3, SameKeeps, NothingLost DEF InHands
<1>5. CASE PoolStart
  <2>1. /\ UNCHANGED <<ring, ai, jobq, rec>>
        /\ comp.pc = "gone" /\ \A w \in Workers : wk[w].pc = "gone"
    BY <1>1, <1>5 DEF PoolStart, PoolPlace
  <2>2. \A c \in Bufs : RgbInHand(ai, jobq, wk, c) => RgbInHand(ai', jobq', wk', c)
    BY <2>1 DEF RgbInHand, Holds
  <2> QED BY <2>1, <2>2, SameKeeps, NothingLost DEF InHands
<1> QED BY <1>2, <1>3, <1>4, <1>5 DEF PoolStep

\* No buffer is lost between the stages, but the rgb that a second decoding of
\* its frame is written over, and that of a job pushed between the purge of a stopped
\* pool and the reset of its queue.
THEOREM OnlySlipsLoseCorrect == PipeSpec => OnlySlipsLose
<1>1. PipeInv /\ PipeInv' /\ [PipeNext]_pipeVars => [LostBySlips]_pipeVars
  <2> SUFFICES ASSUME PipeInv, PipeInv', PipeNext,
                      NEW k \in Kinds, NEW b \in Owned(k), b \notin Owned(k)'
               PROVE  RewriteLoses(k, b) \/ ResetLoses(k, b)
    BY DEF LostBySlips
  <2>1. CASE PoolStep
    BY <2>1, PoolLosesPushed
  <2>2. CASE ~PoolStep
    <3>1. PICK w \in Workers : WkStep(w)
      BY <2>2, CamLosesNone, AiLosesNone, CoLosesNone, RecLosesNone DEF PipeNext
    <3>2. /\ k = "rgb" /\ wk[w].pc = "write" /\ wk'[w].pc = "result"
          /\ SlotOf(ring, wk[w].seq).rgb = b /\ SlotOf(ring, wk[w].seq).rgbDone
      BY <3>1, WkLosesRewritten
    <3> QED BY <3>2 DEF RewriteLoses
  <2> QED BY <2>1, <2>2
<1> QED BY <1>1, PipelineCorrect, PTL DEF PipeSpec, OnlySlipsLose

-----------------------------------------------------------------------------
(* What the ring's contract promises, of the threads *)

LEMMA SameCardinality == \A S : Contract!Cardinality(S) = Cardinality(S)
  BY Zenon DEF Contract!Cardinality, Cardinality

LEMMA SoundIsSafe ==
  Sound(ring, Jobs, Drawing, rec.nv12) =>
    Contract!SlotWindow /\ Contract!ZeroCopy /\ Contract!Ownership
<1> SUFFICES ASSUME Sound(ring, Jobs, Drawing, rec.nv12)
             PROVE  Contract!SlotWindow /\ Contract!ZeroCopy /\ Contract!Ownership
  OBVIOUS
<1>1. /\ ring \in RingType /\ Jobs \in SUBSET JobType
      /\ Window(ring) /\ Lent(ring) /\ Claimed(ring, Jobs) /\ Drawn(ring, Drawing)
      /\ \A k \in Kinds : Excl(ring, k, HeldBy(Jobs, Drawing, rec.nv12, k))
      /\ Drawing.nv12 = rec.nv12 => rec.nv12 = NoBuf
  BY DEF Sound
<1>2. /\ Contract!Slots = Slots /\ Contract!Kinds = Kinds
      /\ \A q : Contract!Index(q) = Index(q)
      /\ \A r, q : Contract!SlotOf(r, q) = SlotOf(r, q)
      /\ \A r, q : Contract!Renderable(r, q) <=> Renderable(r, q)
      /\ \A k : Contract!Held(k) = HeldBy(Jobs, Drawing, rec.nv12, k)
      /\ \A k : Contract!InSlots(k) = {b \in Bufs : \E i \in Slots : ring.slots[i][k] = b}
      /\ Contract!Idle = Idle
  BY SameRelease, SameDisplay, SameHeld
<1>3. Contract!SlotWindow
  BY <1>1, <1>2 DEF Contract!SlotWindow, Window
<1>4. Contract!ZeroCopy
  BY <1>1, <1>2 DEF Contract!ZeroCopy, Lent
<1>5. Contract!StageExclusive
  <2>1. \A k \in Kinds : NoBuf \notin ring.pools[k]
    BY <1>1, NoBufAssumption DEF RingType
  <2>2. \A k \in Kinds :
          /\ ring.pools[k] \cap (Contract!Held(k) \cup Contract!InSlots(k)) = {}
          /\ Contract!Held(k) \cap Contract!InSlots(k) = {}
    BY <1>1, <1>2, <2>1 DEF Excl
  <2>3. \A k \in Kinds, i, j \in Slots :
          ring.slots[i][k] = ring.slots[j][k] /\ ring.slots[i][k] # NoBuf => i = j
    BY <1>1 DEF Excl
  <2>4. \A j, l \in Jobs : j.rgb = l.rgb /\ j.rgb # NoBuf => j = l
    BY <1>1 DEF Claimed
  <2> QED BY <1>1, <1>2, <2>2, <2>3, <2>4 DEF Contract!StageExclusive
<1>6. Contract!ClaimsAreJobs
  BY <1>1, <1>2, SameCardinality DEF Claimed, Contract!ClaimsAreJobs, JobsOf
<1> QED BY <1>3, <1>4, <1>5, <1>6 DEF Contract!Ownership

\* What a step that the contract allows does to the ring.
LEMMA ContractTurns ==
  ASSUME Sound(ring, Jobs, Drawing, rec.nv12), Sound(ring', Jobs', Drawing', rec'.nv12),
         [Contract!Next]_Contract!vars
  PROVE  Turns(ring, ring') /\ Newly(ring, Jobs, ring', Jobs')
<1>0. /\ ring \in RingType /\ ring' \in RingType /\ Jobs \in SUBSET JobType /\ Tidy(ring)
      /\ Drawing.seq \in Nat /\ Drawing.nv12 \in Bufs \cup {NoBuf}
      /\ Drawing.jpeg \in Bufs \cup {NoBuf} /\ rec.nv12 \in Bufs \cup {NoBuf}
  BY DEF Sound, DrawType
<1>a. ASSUME Turns(ring, ring'), \A j \in Jobs' \ Jobs : j.decoded
      PROVE  Turns(ring, ring') /\ Newly(ring, Jobs, ring', Jobs')
  BY <1>a DEF Newly
<1>b. ASSUME Turns(ring, ring'), Jobs' = Jobs
      PROVE  Turns(ring, ring') /\ Newly(ring, Jobs, ring', Jobs')
  BY <1>a, <1>b
<1>1. CASE Contract!StartSession
  BY <1>1, <1>b, SameModes DEF Contract!StartSession, Turns
<1>2. CASE Contract!QuiesceBegin
  BY <1>2, <1>b DEF Contract!QuiesceBegin, Turns
<1>3. CASE Contract!EndSession
  BY <1>3, <1>b, SameModes, SameRelease DEF Contract!EndSession, Turns
<1>4. CASE Contract!QuiesceWait \/ Contract!ForceClear
  BY <1>4, <1>b, SameModes DEF Contract!QuiesceWait, Contract!ForceClear, Turns
<1>5. ASSUME NEW v \in VBufs, NEW z \in Sizes, Contract!Capture(v, z)
      PROVE  Turns(ring, ring') /\ Newly(ring, Jobs, ring', Jobs')
  <2>1. Maintain(ring) = ring
    BY <1>0, SettledIsMaintained DEF Tidy
  <2>2. Jobs' = Jobs /\ ring' = IF CanProduce(ring) THEN Publish(ring, v, z) ELSE ring
    BY <1>5, <2>1, SameRelease, SameCapture DEF Contract!Capture
  <2>3. Turns(ring, ring')
    BY <2>2 DEF Turns, Releases
  <2> QED BY <1>b, <2>2, <2>3
<1>6. ASSUME NEW q \in 1 .. MaxSeq, NEW b \in Bufs \cup {NoBuf}, Contract!ClaimFrame(q, b)
      PROVE  Turns(ring, ring') /\ Newly(ring, Jobs, ring', Jobs')
  <2>1. /\ q \in Nat /\ Claimable(ring, q)
        /\ ring' = Take(Claim(ring, q), "rgb", b)
        /\ Jobs' = Jobs \cup {[seq |-> q, rgb |-> b, decoded |-> FALSE]}
    BY <1>6, BoundAssumption, SameInfer, SamePools DEF Contract!ClaimFrame
  <2>2. Releases(ring, ring')
    BY <1>0, <2>1, ClaimTakesReleases
  <2>3. \A j \in Jobs' \ Jobs : j.seq = q
    BY <2>1
  <2> QED BY <2>1, <2>2, <2>3 DEF Turns, Newly
<1>7. ASSUME NEW j \in Jobs, Contract!DecodeOk(j)
      PROVE  Turns(ring, ring') /\ Newly(ring, Jobs, ring', Jobs')
  <2>1. ring' = ring /\ Jobs' = (Jobs \ {j}) \cup {[j EXCEPT !.decoded = TRUE]}
    BY <1>7 DEF Contract!DecodeOk
  <2>2. \A k \in Jobs' \ Jobs : k.decoded
    BY <1>0, <2>1 DEF JobType
  <2> QED BY <1>a, <2>1, <2>2 DEF Turns, Releases
<1>8. ASSUME NEW j \in Jobs,
             Contract!DecodeFail(j) \/ Contract!WriteJob(j) \/ Contract!AbandonJob(j)
      PROVE  Turns(ring, ring') /\ Newly(ring, Jobs, ring', Jobs')
  <2>1. /\ ring' \in {DecodeFailed(ring, j.seq, j.rgb), WriteRgb(ring, j.seq, j.rgb),
                      Abandon(ring, j.seq, j.rgb)}
        /\ Jobs' = Jobs \ {j}
    BY <1>8, SameJobEnds DEF Contract!DecodeFail, Contract!WriteJob, Contract!AbandonJob
  <2>2. j.seq \in Nat /\ j.rgb \in Bufs \cup {NoBuf}
    BY <1>0 DEF JobType
  <2>3. Releases(ring, ring')
    BY <1>0, <2>1, <2>2, DecodeFailedReleases, WriteRgbReleases, AbandonReleases
  <2> QED BY <1>a, <2>1, <2>3 DEF Turns
<1>9. ASSUME NEW q \in 1 .. MaxSeq, NEW nb \in Bufs \cup {NoBuf},
             NEW jb \in Bufs \cup {NoBuf}, Contract!BeginRender(q, nb, jb)
      PROVE  Turns(ring, ring') /\ Newly(ring, Jobs, ring', Jobs')
  <2> DEFINE x == Take(ring, "nv12", nb)
  <2>1. x \in RingType /\ Releases(ring, x) /\ Releases(x, Take(x, "jpeg", jb))
    BY <1>0, TakeType, PoolReleases DEF Kinds
  <2>2. ring' = Take(x, "jpeg", jb) /\ Jobs' = Jobs
    BY <1>9, SamePools DEF Contract!BeginRender
  <2>3. Releases(ring, ring')
    BY <1>0, <2>1, <2>2, ReleasesTransitive
  <2> QED BY <1>b, <2>2, <2>3 DEF Turns
<1>10. ASSUME NEW ok \in BOOLEAN, Contract!EndRender(ok)
       PROVE  Turns(ring, ring') /\ Newly(ring, Jobs, ring', Jobs')
  <2>1. /\ ring' = Rendered(ring, Drawing.seq, Drawing.nv12, Drawing.jpeg, ok)
        /\ Jobs' = Jobs
    BY <1>10, SameDisplay DEF Contract!EndRender
  <2>2. Releases(ring, ring')
    BY <1>0, <2>1, RenderedReleases
  <2> QED BY <1>b, <2>1, <2>2 DEF Turns
<1>11. CASE Contract!EncodeTake \/ Contract!EncodeSkip
  <2>1. \A i \in EncodePick(ring, 0) : i \in Slots /\ ring.slots[i].seq \in Nat
    BY <1>0 DEF EncodePick, RingType, SlotType
  <2>2. /\ Jobs' = Jobs
        /\ \E i \in EncodePick(ring, 0) :
             ring' = Steal(ring, i) \/ ring' = MarkConsumed(ring, ring.slots[i].seq)
    BY <1>11, SameEncode DEF Contract!EncodeTake, Contract!EncodeSkip
  <2>3. Releases(ring, ring')
    BY <1>0, <2>1, <2>2, StealReleases, MarkConsumedReleases
  <2> QED BY <1>b, <2>2, <2>3 DEF Turns
<1>12. CASE Contract!EncodeEnd
  <2>1. Jobs' = Jobs /\ ring' = Put(ring, "nv12", rec.nv12)
    BY <1>12, SamePools DEF Contract!EncodeEnd
  <2>2. Releases(ring, ring')
    BY <1>0, <2>1, PoolReleases, KindsAre
  <2> QED BY <1>b, <2>1, <2>2 DEF Turns
<1>13. ASSUME NEW aiOn \in BOOLEAN, NEW recOn \in BOOLEAN, Contract!SetMode(aiOn, recOn)
       PROVE  Turns(ring, ring') /\ Newly(ring, Jobs, ring', Jobs')
  <2>1. Jobs' = Jobs /\ ring' \in {SetAi(ring, aiOn), SetRec(ring, recOn)}
    BY <1>13, SameModes DEF Contract!SetMode
  <2>2. Releases(ring, ring')
    BY <1>0, <2>1, ModeReleases
  <2> QED BY <1>b, <2>1, <2>2 DEF Turns
<1>14. CASE UNCHANGED Contract!vars
  BY <1>14, <1>b DEF Contract!vars, Turns, Releases
<1> QED BY <1>1, <1>2, <1>3, <1>4, <1>5, <1>6, <1>7, <1>8, <1>9, <1>10, <1>11, <1>12,
           <1>13, <1>14 DEF Contract!Next

LEMMA SameUse ==
  UseKept(ring, Jobs, Drawing, ring', Jobs', Drawing')
    => Contract!DecodeKept /\ Contract!DrawKept
<1>1. /\ \A r, q : Contract!Readable(r, q) <=> Readable(r, q)
      /\ \A r, q : Contract!SlotOf(r, q) = SlotOf(r, q)
      /\ \A r, q : Contract!Renderable(r, q) <=> Renderable(r, q)
      /\ \A r : Contract!NoClaims(r) <=> NoClaims(r)
      /\ Contract!Idle = Idle
  BY SameRelease, SameDisplay, SameModes, SameHeld DEF Contract!Readable, Readable
<1> QED BY <1>1, Zenon DEF UseKept, Contract!DecodeKept, Contract!BeingDecoded, Contract!DrawKept

\* With the threads as they are, no buffer is in two places and no claim is without
\* a job; what the AI task decodes and the composer draws on outside the ring's
\* mutex stays there, but for a restart, and for the decoder but for one that has
\* given up waiting for it.
THEOREM ThreadsShareSafely ==
  PipeSpec => /\ [](Contract!SlotWindow /\ Contract!ZeroCopy /\ Contract!Ownership)
              /\ Contract!InUse
<1>1. PipeInv => Contract!SlotWindow /\ Contract!ZeroCopy /\ Contract!Ownership
  BY SoundIsSafe DEF PipeInv
<1>2. PipeInv /\ PipeInv' /\ [PipeNext]_pipeVars
        => [Contract!DecodeKept /\ Contract!DrawKept]_Contract!vars
  <2> SUFFICES ASSUME PipeInv, PipeInv', [PipeNext]_pipeVars
               PROVE  Contract!DecodeKept /\ Contract!DrawKept
    OBVIOUS
  <2>1. [Contract!Next]_Contract!vars
    BY PipeRefines
  <2>2. Sound(ring, Jobs, Drawing, rec.nv12) /\ Sound(ring, Jobs, Drawing, rec.nv12)'
    BY DEF PipeInv
  <2>3. Sound(ring', Jobs', Drawing', rec'.nv12)
    BY <2>2
  <2>4. Turns(ring, ring') /\ Newly(ring, Jobs, ring', Jobs')
    BY <2>1, <2>2, <2>3, ContractTurns
  <2>5. UseKept(ring, Jobs, Drawing, ring', Jobs', Drawing')
    BY <2>2, <2>3, <2>4, UseStep
  <2> QED BY <2>5, SameUse
<1> QED BY <1>1, <1>2, PipelineCorrect, PTL DEF PipeSpec, Contract!InUse

=============================================================================
