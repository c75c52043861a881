--------------------------- MODULE Recorder_proofs ---------------------------
(***************************************************************************)
(* The recorder: the muxer's tables are true of what was written, a segment*)
(* has the bit rate of the configuration and its file the status names, and*)
(* no recording is written over.                                           *)
(***************************************************************************)
EXTENDS Recorder, SequenceTheorems, FiniteSetTheorems, TLAPS

\* What a file is made of, and the muxer's tables.
Units == {"sps", "pps", "idr", "slice", "torn"}
Samples == [offset : Nat, size : Nat \ {0}]
Muxes == [units : Seq(Units), samples : Seq(Samples), keys : Seq(Nat),
          sets : SUBSET ParamSets, len : Nat]

\* The tables are true of the data: the samples lie one behind the other within it,
\* and the key frames are where the table has them.
Told(units, samples, keys) ==
  \A i \in 1 .. Len(samples) :
    /\ samples[i].offset
         = IF i = 1 THEN 0 ELSE samples[i - 1].offset + samples[i - 1].size
    /\ samples[i].offset + samples[i].size <= Len(units)
    /\ i \in Range(keys) <=>
         "idr" \in Range(SubSeq(units, samples[i].offset + 1,
                                       samples[i].offset + samples[i].size))

\* ... and say all there is: no data behind the last sample, no key frame too many.
AllTold(units, samples, keys) ==
  /\ samples = <<>> => Len(units) = 0
  /\ samples # <<>> =>
       samples[Len(samples)].offset + samples[Len(samples)].size = Len(units)
  /\ Range(keys) \subseteq 1 .. Len(samples)

\* A muxer whose tables are true; and one whose tables say all there is.
Muxed(m) == m \in Muxes /\ Told(m.units, m.samples, m.keys)
Whole(m) == m.len = Len(m.units) /\ AllTold(m.units, m.samples, m.keys)

\* What is written behind the data changes nothing for the samples that are there.
LEMMA ToldOfMore ==
  ASSUME NEW units \in Seq(Units), NEW more \in Seq(Units), NEW samples \in Seq(Samples),
         NEW keys \in Seq(Nat), NEW more_keys \in Seq(Nat),
         Told(units, samples, keys),
         \A i \in 1 .. Len(samples) : i \in Range(more_keys) <=> i \in Range(keys)
  PROVE  Told(units \o more, samples, more_keys)
<1> SUFFICES ASSUME NEW i \in 1 .. Len(samples)
             PROVE  /\ samples[i].offset
                         = IF i = 1 THEN 0 ELSE samples[i - 1].offset + samples[i - 1].size
                    /\ samples[i].offset + samples[i].size <= Len(units \o more)
                    /\ i \in Range(more_keys) <=>
                         "idr" \in Range(SubSeq(units \o more, samples[i].offset + 1,
                                                samples[i].offset + samples[i].size))
  BY DEF Told
<1> DEFINE a == samples[i].offset + 1
           b == samples[i].offset + samples[i].size
<1>1. /\ samples[i].offset
           = IF i = 1 THEN 0 ELSE samples[i - 1].offset + samples[i - 1].size
      /\ b <= Len(units)
      /\ i \in Range(keys) <=> "idr" \in Range(SubSeq(units, a, b))
  BY DEF Told
<1>2. samples[i] \in Samples /\ Len(samples) \in Nat /\ Len(units) \in Nat /\ Len(more) \in Nat
  <2>1. samples[i] \in Samples
    BY ElementOfSeq
  <2>2. Len(samples) \in Nat /\ Len(units) \in Nat /\ Len(more) \in Nat
    BY LenProperties
  <2> QED
    BY <2>1, <2>2
<1>3. a \in 1 .. Len(units) /\ b \in 1 .. Len(units)
  <2>1. PICK o \in Nat, n \in Nat \ {0} : samples[i].offset = o /\ samples[i].size = n
    BY <1>2 DEF Samples
  <2>2. a = o + 1 /\ b = o + n /\ b <= Len(units) /\ Len(units) \in Nat
    BY <1>1, <1>2, <2>1
  <2> HIDE DEF a, b
  <2> QED
    BY <2>2
<1>4. Len(units \o more) = Len(units) + Len(more)
  BY ConcatProperties
<1> HIDE DEF a, b
<1>5. SubSeq(units \o more, a, b) = SubSeq(units, a, b)
  BY <1>3, SubSeqOfConcat1
<1>6. b <= Len(units \o more)
  BY <1>1, <1>2, <1>3, <1>4
<1> QED
  BY <1>1, <1>5, <1>6 DEF a, b

\* A sample that is put into the table with the key frame that it is.
LEMMA KeyTold ==
  ASSUME NEW keys \in Seq(Nat), NEW n \in Nat
  PROVE  /\ Append(keys, n) \in Seq(Nat)
         /\ Range(Append(keys, n)) = Range(keys) \cup {n}
<1>1. Append(keys, n) \in Seq(Nat) /\ Append(keys, n) = keys \o <<n>>
  BY AppendProperties, AppendIsConcat
<1>2. Range(keys \o <<n>>) = Range(keys) \cup Range(<<n>>)
  <2>1. <<n>> \in Seq(Nat)
    OBVIOUS
  <2> QED
    BY <2>1, RangeConcatenation
<1>3. Range(<<n>>) = {n}
  BY DEF Range
<1> QED
  BY <1>1, <1>2, <1>3

\* A whole frame: the tables are true again, and say all there is.
LEMMA ToldOfWritten ==
  ASSUME NEW units \in Seq(Units), NEW frame \in Seq(Units), frame # <<>>,
         NEW samples \in Seq(Samples), NEW keys \in Seq(Nat), NEW key \in BOOLEAN,
         key <=> "idr" \in Range(frame),
         Told(units, samples, keys), AllTold(units, samples, keys),
         NEW sample, sample = [offset |-> Len(units), size |-> Len(frame)],
         NEW all, all = (IF key THEN Append(keys, Len(samples) + 1) ELSE keys)
  PROVE  /\ Append(samples, sample) \in Seq(Samples) /\ all \in Seq(Nat)
         /\ Told(units \o frame, Append(samples, sample), all)
         /\ AllTold(units \o frame, Append(samples, sample), all)
<1> DEFINE pos == Len(samples) + 1
           table == Append(samples, sample)
           data == units \o frame
<1>1. Len(units) \in Nat /\ Len(samples) \in Nat /\ Len(frame) \in Nat \ {0}
  BY LenProperties, EmptySeq
<1>2. sample \in Samples /\ sample.offset = Len(units) /\ sample.size = Len(frame)
  BY <1>1 DEF Samples
<1>3. /\ table \in Seq(Samples) /\ table # <<>> /\ Len(table) = pos
      /\ \A i \in 1 .. Len(samples) : table[i] = samples[i]
      /\ table[pos] = sample
  BY <1>2, AppendProperties
<1>4. data \in Seq(Units) /\ Len(data) = Len(units) + Len(frame)
  BY ConcatProperties
<1>5. all \in Seq(Nat) /\ Range(all) = IF key THEN Range(keys) \cup {pos} ELSE Range(keys)
  <2>1. pos \in Nat
    BY <1>1
  <2> QED
    BY <2>1, KeyTold
<1>6. Range(keys) \subseteq 1 .. Len(samples)
  BY DEF AllTold
<1>7. Told(data, samples, all)
  <2>1. \A i \in 1 .. Len(samples) : i \in Range(all) <=> i \in Range(keys)
    BY <1>1, <1>5
  <2> QED
    BY <1>5, <2>1, ToldOfMore
<1>8. sample.offset = IF pos = 1 THEN 0 ELSE table[pos - 1].offset + table[pos - 1].size
  <2>1. CASE samples = <<>>
    <3>1. Len(samples) = 0 /\ Len(units) = 0
      BY <2>1, EmptySeq DEF AllTold
    <3> QED
      BY <1>2, <3>1
  <2>2. CASE samples # <<>>
    <3>1. Len(samples) \in Nat \ {0}
      BY <2>2, EmptySeq
    <3>2. samples[Len(samples)].offset + samples[Len(samples)].size = Len(units)
      BY <2>2 DEF AllTold
    <3>3. pos # 1 /\ pos - 1 = Len(samples) /\ table[Len(samples)] = samples[Len(samples)]
      BY <1>3, <3>1
    <3> QED
      BY <1>2, <3>2, <3>3
  <2> QED
    BY <2>1, <2>2
<1>9. SubSeq(data, sample.offset + 1, sample.offset + sample.size) = frame
  <2>1. SubSeq(data, Len(units) + 1, Len(units) + Len(frame)) = SubSeq(frame, 1, Len(frame))
    <3>1. /\ Len(units) + 1 \in Len(units) + 1 .. Len(units) + Len(frame)
          /\ Len(units) + Len(frame) \in Len(units) + 1 .. Len(units) + Len(frame)
      BY <1>1
    <3>2. SubSeq(data, Len(units) + 1, Len(units) + Len(frame))
          = SubSeq(frame, Len(units) + 1 - Len(units), Len(units) + Len(frame) - Len(units))
      BY <3>1, SubSeqOfConcat2
    <3>3. Len(units) + 1 - Len(units) = 1 /\ Len(units) + Len(frame) - Len(units) = Len(frame)
      BY <1>1
    <3> QED
      BY <3>2, <3>3
  <2> QED
    BY <1>2, <2>1, SubSeqFull
<1>10. pos \in Range(all) <=> "idr" \in Range(frame)
  BY <1>1, <1>5, <1>6
<1> HIDE DEF table, data, pos
<1>11. Told(data, table, all)
  <2> SUFFICES ASSUME NEW i \in 1 .. Len(table)
               PROVE  /\ table[i].offset
                           = IF i = 1 THEN 0 ELSE table[i - 1].offset + table[i - 1].size
                      /\ table[i].offset + table[i].size <= Len(data)
                      /\ i \in Range(all) <=>
                           "idr" \in Range(SubSeq(data, table[i].offset + 1,
                                                  table[i].offset + table[i].size))
    BY DEF Told
  <2>1. CASE i = pos
    <3>1. sample.offset + sample.size <= Len(data)
      BY <1>1, <1>2, <1>4
    <3> QED
      BY <1>3, <1>8, <1>9, <1>10, <2>1, <3>1
  <2>2. CASE i # pos
    <3>1. i \in 1 .. Len(samples) /\ table[i] = samples[i]
      BY <1>1, <1>3, <2>2 DEF pos
    <3>2. i # 1 => table[i - 1] = samples[i - 1]
      <4>1. i # 1 => i - 1 \in 1 .. Len(samples)
        BY <1>1, <3>1
      <4> QED
        BY <1>3, <4>1
    <3> QED
      BY <1>7, <3>1, <3>2 DEF Told
  <2> QED
    BY <2>1, <2>2
<1>12. AllTold(data, table, all)
  <2>1. table[Len(table)].offset + table[Len(table)].size = Len(data)
    BY <1>2, <1>3, <1>4
  <2>2. Range(all) \subseteq 1 .. Len(table)
    BY <1>1, <1>3, <1>5, <1>6 DEF pos
  <2> QED
    BY <1>3, <2>1, <2>2 DEF AllTold
<1> QED
  BY <1>3, <1>5, <1>11, <1>12 DEF table, data

\* An empty file (rec_mp4_create).
LEMMA CreatedMuxed == Muxed(Created) /\ Whole(Created)
<1>1. Created \in Muxes
  BY EmptySeq DEF Created, Muxes
<1>2. Created.units = <<>> /\ Created.samples = <<>> /\ Created.keys = <<>> /\ Created.len = 0
  BY DEF Created
<1>3. Len(<<>>) = 0 /\ Range(<<>>) = {}
  <2>1. Len(<<>>) = 0
    BY EmptySeq
  <2> QED
    BY <2>1 DEF Range
<1>4. Told(<<>>, <<>>, <<>>)
  BY <1>3 DEF Told
<1>5. AllTold(<<>>, <<>>, <<>>)
  BY <1>3 DEF AllTold
<1> QED
  BY <1>1, <1>2, <1>3, <1>4, <1>5 DEF Muxed, Whole

\* The fields of a muxer.
LEMMA MuxFields ==
  ASSUME NEW m \in Muxes
  PROVE  /\ m.units \in Seq(Units) /\ m.samples \in Seq(Samples) /\ m.keys \in Seq(Nat)
         /\ m.sets \in SUBSET ParamSets /\ m.len \in Nat
BY DEF Muxes

\* The tables when a frame is about to be written.
LEMMA AnnouncedFields ==
  ASSUME NEW m \in Muxes, NEW frame \in Seq(Units), NEW key \in BOOLEAN
  PROVE  LET a == Announced(m, frame, key)
         IN /\ a \in Muxes
            /\ a.units = m.units /\ a.samples = m.samples /\ a.len = m.len
            /\ a.keys = IF key THEN Append(m.keys, Len(m.samples) + 1) ELSE m.keys
<1> DEFINE s == m.sets \cup (ParamSets \cap Range(frame))
           k == IF key THEN Append(m.keys, Len(m.samples) + 1) ELSE m.keys
<1>1. s \in SUBSET ParamSets
  BY MuxFields
<1>2. k \in Seq(Nat)
  <2>1. Len(m.samples) + 1 \in Nat
    <3>1. Len(m.samples) \in Nat
      BY MuxFields, LenProperties
    <3> QED
      BY <3>1
  <2> QED
    BY <2>1, MuxFields, KeyTold
<1>3. Announced(m, frame, key) = [m EXCEPT !.sets = s, !.keys = k]
  BY DEF Announced
<1> HIDE DEF s, k
<1>4. LET a == [m EXCEPT !.sets = s, !.keys = k]
      IN /\ a \in Muxes
         /\ a.units = m.units /\ a.samples = m.samples /\ a.len = m.len
         /\ a.keys = k
  BY <1>1, <1>2 DEF Muxes
<1> QED
  BY <1>3, <1>4 DEF k

\* A frame that was written is where the tables have it (rec_mp4_write_annexb).
LEMMA WrittenMuxed ==
  ASSUME NEW m, Muxed(m), Whole(m), NEW frame \in Seq(Units), frame # <<>>,
         NEW key \in BOOLEAN, key <=> "idr" \in Range(frame)
  PROVE  Muxed(Written(m, frame, key)) /\ Whole(Written(m, frame, key))
<1> DEFINE a == Announced(m, frame, key)
           sample == [offset |-> Len(m.units), size |-> Len(frame)]
           u == m.units \o frame
           s == Append(m.samples, sample)
           l == m.len + Len(frame)
           k == IF key THEN Append(m.keys, Len(m.samples) + 1) ELSE m.keys
<1>1. m \in Muxes /\ Told(m.units, m.samples, m.keys) /\ m.len = Len(m.units)
      /\ AllTold(m.units, m.samples, m.keys)
  BY DEF Muxed, Whole
<1>2. a \in Muxes /\ a.units = m.units /\ a.samples = m.samples /\ a.len = m.len /\ a.keys = k
  BY <1>1, AnnouncedFields
<1>3. Written(m, frame, key) = [a EXCEPT !.units = a.units \o frame,
                                         !.samples = Append(a.samples, sample),
                                         !.len = a.len + Len(frame)]
  BY DEF Written
<1>4. Written(m, frame, key) = [a EXCEPT !.units = u, !.samples = s, !.len = l]
  BY <1>2, <1>3
<1>5. m.units \in Seq(Units) /\ m.samples \in Seq(Samples) /\ m.keys \in Seq(Nat)
  BY <1>1, MuxFields
<1>6. s \in Seq(Samples) /\ k \in Seq(Nat) /\ Told(u, s, k) /\ AllTold(u, s, k)
  <2> HIDE DEF sample, k
  <2>1. sample = [offset |-> Len(m.units), size |-> Len(frame)]
        /\ k = (IF key THEN Append(m.keys, Len(m.samples) + 1) ELSE m.keys)
    BY DEF sample, k
  <2> QED
    BY <1>1, <1>5, <2>1, ToldOfWritten
<1>7. u \in Seq(Units) /\ Len(u) = Len(m.units) + Len(frame)
  BY <1>5, ConcatProperties
<1>8. l \in Nat /\ l = Len(u)
  BY <1>1, <1>5, <1>7, LenProperties
<1> DEFINE w == Written(m, frame, key)
<1> HIDE DEF a, u, s, l, k, sample
<1>9. [a EXCEPT !.units = u, !.samples = s, !.len = l] \in Muxes
  BY <1>2, <1>6, <1>7, <1>8 DEF Muxes
<1>10. LET b == [a EXCEPT !.units = u, !.samples = s, !.len = l]
       IN b.units = u /\ b.samples = s /\ b.len = l /\ b.keys = a.keys
  BY <1>2 DEF Muxes
<1>11. w \in Muxes /\ w.units = u /\ w.samples = s /\ w.len = l /\ w.keys = k
  BY <1>2, <1>4, <1>9, <1>10
<1> HIDE DEF w
<1>12. Muxed(w) /\ Whole(w)
  BY <1>6, <1>8, <1>11 DEF Muxed, Whole
<1> QED
  BY <1>12 DEF w

\* Writing one thing after the other.
LEMMA UnitsConcat ==
  ASSUME NEW a \in Seq(Units), NEW b \in Seq(Units), NEW c \in Seq(Units)
  PROVE  (a \o b) \o c = a \o (b \o c)
BY ConcatAssociative

\* A frame that was not: what the tables say of the others is still true.
LEMMA SpoiltMuxed ==
  ASSUME NEW m, Muxed(m), Whole(m), NEW frame \in Seq(Units), NEW key \in BOOLEAN,
         NEW n \in 0 .. Len(frame)
  PROVE  Muxed(Spoilt(m, frame, key, n))
<1> DEFINE a == Announced(m, frame, key)
           more == SubSeq(frame, 1, n) \o (IF n < Len(frame) THEN <<"torn">> ELSE <<>>)
           u == m.units \o more
           k == IF key THEN Append(m.keys, Len(m.samples) + 1) ELSE m.keys
<1>1. m \in Muxes /\ Told(m.units, m.samples, m.keys)
      /\ AllTold(m.units, m.samples, m.keys)
  BY DEF Muxed, Whole
<1>2. a \in Muxes /\ a.units = m.units /\ a.samples = m.samples /\ a.keys = k
  BY <1>1, AnnouncedFields
<1>3. m.units \in Seq(Units) /\ m.samples \in Seq(Samples) /\ m.keys \in Seq(Nat)
  BY <1>1, MuxFields
<1>4. SubSeq(frame, 1, n) \in Seq(Units)
  <2>1. \A i \in 1 .. n : frame[i] \in Units
    <3>1. Len(frame) \in Nat
      BY LenProperties
    <3>2. \A i \in 1 .. n : i \in 1 .. Len(frame)
      BY <3>1
    <3> QED
      BY <3>2, ElementOfSeq
  <2>2. n \in Int /\ 1 \in Int
    BY LenProperties
  <2> QED
    BY <2>1, <2>2, SubSeqProperties
<1>5. more \in Seq(Units) /\ Spoilt(m, frame, key, n) = [a EXCEPT !.units = u]
  <2> DEFINE rest == IF n < Len(frame) THEN <<"torn">> ELSE <<>>
  <2>1. rest \in Seq(Units)
    <3>1. "torn" \in Units
      BY DEF Units
    <3>2. <<"torn">> \in Seq(Units) /\ <<>> \in Seq(Units)
      BY <3>1, EmptySeq
    <3> QED
      BY <3>2
  <2>2. more \in Seq(Units) /\ more = SubSeq(frame, 1, n) \o rest
    <3> HIDE DEF rest
    <3>1. SubSeq(frame, 1, n) \o rest \in Seq(Units)
      BY <1>4, <2>1, ConcatProperties
    <3> QED
      BY <3>1 DEF rest
  <2>3. (m.units \o SubSeq(frame, 1, n)) \o rest = m.units \o (SubSeq(frame, 1, n) \o rest)
    <3> DEFINE t == SubSeq(frame, 1, n)
    <3>1. t \in Seq(Units) /\ m.units \in Seq(Units)
      BY <1>3, <1>4
    <3> HIDE DEF rest, t
    <3>2. (m.units \o t) \o rest = m.units \o (t \o rest)
      <4> DEFINE v == m.units
      <4>1. v \in Seq(Units) /\ t \in Seq(Units) /\ rest \in Seq(Units)
        BY <2>1, <3>1
      <4> HIDE DEF v
      <4>2. (v \o t) \o rest = v \o (t \o rest)
        BY <4>1, UnitsConcat
      <4> QED
        BY <4>2 DEF v
    <3> QED
      BY <3>2 DEF t
  <2>4. Spoilt(m, frame, key, n) = [a EXCEPT !.units = (a.units \o SubSeq(frame, 1, n)) \o rest]
    BY DEF Spoilt
  <2> QED
    BY <1>2, <2>2, <2>3, <2>4
<1>6. u \in Seq(Units)
  <2> HIDE DEF more
  <2> QED
    BY <1>3, <1>5, ConcatProperties
<1>7. k \in Seq(Nat) /\ \A i \in 1 .. Len(m.samples) : i \in Range(k) <=> i \in Range(m.keys)
  <2>1. Len(m.samples) \in Nat
    BY <1>3, LenProperties
  <2>2. Len(m.samples) + 1 \in Nat
    BY <2>1
  <2>3. k \in Seq(Nat)
        /\ Range(k) = IF key THEN Range(m.keys) \cup {Len(m.samples) + 1} ELSE Range(m.keys)
    BY <1>3, <2>2, KeyTold
  <2> QED
    BY <2>1, <2>3
<1> HIDE DEF a, more, k
<1>8. Told(u, m.samples, k)
  BY <1>1, <1>3, <1>5, <1>7, ToldOfMore
<1> HIDE DEF u
<1>9. [a EXCEPT !.units = u] \in Muxes
  BY <1>2, <1>6 DEF Muxes
<1>10. LET b == [a EXCEPT !.units = u]
       IN b.units = u /\ b.samples = a.samples /\ b.keys = a.keys
  BY <1>2 DEF Muxes
<1> DEFINE w == Spoilt(m, frame, key, n)
<1>11. w \in Muxes /\ w.units = u /\ w.samples = m.samples /\ w.keys = k
  BY <1>2, <1>5, <1>9, <1>10
<1> HIDE DEF w
<1>12. Muxed(w)
  BY <1>8, <1>11 DEF Muxed
<1> QED
  BY <1>12 DEF w

\* A file that was finished: its samples are found, and when nothing failed it plays
\* as a whole (rec_mp4_finalize).
LEMMA FinishedPlays ==
  ASSUME NEW m, Muxed(m), Kept(m)
  PROVE  SamplesFound(Finished(m)) /\ (Whole(m) => PlaysWhole(Finished(m)))
<1> DEFINE f == Finished(m)
<1>1. m \in Muxes /\ Told(m.units, m.samples, m.keys) /\ m.samples # <<>>
  BY DEF Muxed, Kept
<1>2. f.units = m.units /\ f.mdat = m.len /\ f.samples = m.samples /\ f.keys = m.keys
  BY DEF Finished
<1>3. DOMAIN m.samples = 1 .. Len(m.samples)
  BY <1>1, MuxFields, LenProperties
<1> HIDE DEF f
<1>4. SamplesFound(f)
  BY <1>1, <1>2, <1>3 DEF SamplesFound, SampleData, Told
<1>5. ASSUME Whole(m) PROVE PlaysWhole(f)
  <2>1. m.len = Len(m.units) /\ AllTold(m.units, m.samples, m.keys)
    BY <1>5 DEF Whole
  <2>2. m.samples[Len(m.samples)].offset + m.samples[Len(m.samples)].size = Len(m.units)
        /\ Range(m.keys) \subseteq 1 .. Len(m.samples)
    BY <1>1, <2>1 DEF AllTold
  <2> QED
    BY <1>2, <1>3, <1>4, <2>1, <2>2 DEF PlaysWhole
<1> QED
  BY <1>4, <1>5 DEF f

\* What the encoder returns: a frame is a key frame when its last unit says so.
LEMMA FrameFacts ==
  ASSUME NEW frame \in Frames
  PROVE  /\ frame \in Seq(Units) /\ IsKey(frame) \in BOOLEAN
         /\ IsKey(frame) <=> "idr" \in Range(frame)
<1>1. CASE frame = <<"sps", "pps", "idr">>
  <2>1. frame \in Seq(Units) /\ Len(frame) = 3 /\ frame # <<>>
    BY <1>1 DEF Units
  <2>2. frame[3] = "idr" /\ 3 \in DOMAIN frame
    BY <1>1
  <2> QED
    BY <2>1, <2>2 DEF IsKey, Range
<1>2. CASE frame = <<"idr">>
  <2>1. frame \in Seq(Units) /\ Len(frame) = 1 /\ frame # <<>>
    BY <1>2 DEF Units
  <2>2. frame[1] = "idr" /\ 1 \in DOMAIN frame
    BY <1>2
  <2> QED
    BY <2>1, <2>2 DEF IsKey, Range
<1>3. CASE frame = <<"slice">>
  <2>1. frame \in Seq(Units) /\ Len(frame) = 1 /\ frame # <<>>
    BY <1>3 DEF Units
  <2>2. frame[1] = "slice" /\ DOMAIN frame = {1}
    BY <1>3
  <2> QED
    BY <2>1, <2>2 DEF IsKey, Range
<1>4. CASE frame = <<>>
  BY <1>4, EmptySeq DEF IsKey, Range
<1> QED
  BY <1>1, <1>2, <1>3, <1>4 DEF Frames

\* The values of the variables of Recorder.
Pcs == {"top", "dims", "encoder", "file", "announce", "loop", "ending", "closing", "end"}
Rates == {"low", "high"}
Files == {"none", "open", "closed", "cut"}

Tasks == [pc : Pcs, auto : BOOLEAN, size : {"small", "large"}, rate : Rates,
          name : 0 .. MaxFiles, mp4 : Muxes, torn : BOOLEAN]

CfgType == cfg \in [size : {"small", "large"}, rate : Rates]
StatusType == rec \in [cmd : {"none", "start", "stop"}, recording : BOOLEAN, file : 0 .. MaxFiles]
DirType == dir \in [Names -> Files]
HttpType ==
  http \in [pc : {"none", "cycle", "delete", "clear"}, name : 0 .. MaxFiles,
            spared : 0 .. MaxFiles, seen : 0 .. MaxFiles]
HistType == hist \in [changes : Nat, crashes : Nat, missed : BOOLEAN, cut : BOOLEAN]

\* The types of what the properties are about.
RecorderType == CfgType /\ StatusType /\ task \in Tasks /\ DirType /\ HttpType /\ HistType

\* The muxer's tables are true, and say all there is unless a write failed; the
\* segment ends then.
Muxing ==
  /\ Muxed(task.mp4)
  /\ IF task.torn THEN task.pc = "ending" ELSE Whole(task.mp4)

\* The file of the segment is in the directory, unless a request took it away.
Filed ==
  task.pc \in {"announce", "loop", "ending"} =>
    task.name \in Names /\ (dir[task.name] = "open" \/ hist.cut)

\* The status names the file of the segment from its announcement to its end.
Named ==
  rec.file # NoName => task.name = rec.file /\ task.pc \in {"loop", "ending", "closing"}

\* What the HTTP thread holds while it removes files: never the one it saw recorded.
Requests ==
  /\ http.pc = "delete" => http.name \in Names /\ http.name # http.seen
  /\ http.pc = "clear" => http.seen = http.spared

\* From the creation of the encoder on, a segment has the configured bit rate, or its
\* end has been requested, or is being, or the request found it not yet announced.
Rated ==
  /\ task.pc \in {"file", "announce"} \/ (task.pc = "loop" /\ rec.recording)
  /\ http.pc # "cycle"
  => cfg.rate = task.rate \/ hist.missed

\* The inductive invariant of the recorder.
RecorderInv == RecorderType /\ Muxing /\ Filed /\ Named /\ Requests /\ Rated /\ KeptFilesPlay

\* Names, and the value that is none.
LEMMA NamesFacts ==
  /\ 0 \in Names /\ NoName \notin Names /\ NoName \in 0 .. MaxFiles
  /\ Names \subseteq 0 .. MaxFiles
BY RecorderAssumption DEF Names, NoName

\* The recording thread at the top of its loop; its next steps from there.
LEMMA NoTaskFields ==
  NoTask \in Tasks /\ NoTask.mp4 = Created /\ NoTask.torn = FALSE /\ NoTask.name = NoName
  /\ NoTask.pc = "top"
<1>1. Created \in Muxes
  BY CreatedMuxed DEF Muxed
<1> QED
  BY <1>1, NamesFacts DEF NoTask, Tasks, Pcs, Rates

LEMMA FreshAt ==
  ASSUME NEW auto \in BOOLEAN, NEW pc \in Pcs
  PROVE  LET t == [NoTask EXCEPT !.auto = auto, !.pc = pc]
         IN t \in Tasks /\ t.pc = pc /\ t.mp4 = Created /\ t.torn = FALSE /\ t.name = NoName
BY NoTaskFields DEF Tasks

LEMMA Fresh ==
  ASSUME NEW auto \in BOOLEAN
  PROVE  LET t == [NoTask EXCEPT !.auto = auto]
         IN t \in Tasks /\ t.pc = "top" /\ t.mp4 = Created /\ t.torn = FALSE /\ t.name = NoName
BY NoTaskFields DEF Tasks

\* Its fields, and what the updates of its steps leave in them.
LEMMA TaskFields ==
  ASSUME NEW t \in Tasks
  PROVE  /\ t.pc \in Pcs /\ t.auto \in BOOLEAN /\ t.rate \in Rates
         /\ t.name \in 0 .. MaxFiles /\ t.mp4 \in Muxes /\ t.torn \in BOOLEAN
BY DEF Tasks

LEMMA TaskAt ==
  ASSUME NEW t \in Tasks, NEW pc \in Pcs
  PROVE  LET u == [t EXCEPT !.pc = pc]
         IN /\ u \in Tasks /\ u.pc = pc /\ u.name = t.name /\ u.mp4 = t.mp4
            /\ u.torn = t.torn /\ u.rate = t.rate
BY DEF Tasks

LEMMA TaskWrites ==
  ASSUME NEW t \in Tasks, NEW m \in Muxes
  PROVE  LET u == [t EXCEPT !.mp4 = m]
         IN /\ u \in Tasks /\ u.pc = t.pc /\ u.name = t.name /\ u.mp4 = m
            /\ u.torn = t.torn /\ u.rate = t.rate
BY DEF Tasks

LEMMA TaskTears ==
  ASSUME NEW t \in Tasks, NEW m \in Muxes
  PROVE  LET u == [t EXCEPT !.mp4 = m, !.torn = TRUE, !.pc = "ending"]
         IN /\ u \in Tasks /\ u.pc = "ending" /\ u.name = t.name /\ u.mp4 = m
            /\ u.torn = TRUE /\ u.rate = t.rate
BY DEF Tasks, Pcs

LEMMA TaskSized ==
  ASSUME NEW t \in Tasks, NEW size \in {"small", "large"}
  PROVE  LET u == [t EXCEPT !.size = size, !.pc = "encoder"]
         IN u \in Tasks /\ u.pc = "encoder" /\ u.mp4 = t.mp4 /\ u.torn = t.torn
BY DEF Tasks, Pcs

LEMMA TaskRated ==
  ASSUME NEW t \in Tasks, NEW rate \in Rates
  PROVE  LET u == [t EXCEPT !.rate = rate, !.pc = "file"]
         IN u \in Tasks /\ u.pc = "file" /\ u.mp4 = t.mp4 /\ u.torn = t.torn /\ u.rate = rate
BY DEF Tasks, Pcs

\* A set of natural numbers has a least element.
LEMMA Least ==
  ASSUME NEW S \in SUBSET Nat, S # {}
  PROVE  \E m \in S : \A k \in S : m <= k
<1> DEFINE R == StrictSubsetOrdering(Nat)
           T == {0 .. n : n \in S}
<1>1. IsWellFoundedOn(R, FiniteSubsetsOf(Nat))
  BY FS_StrictSubsetOrderingWellFounded
<1>2. T \subseteq FiniteSubsetsOf(Nat) /\ T # {}
  <2>1. \A n \in S : 0 .. n \in SUBSET Nat /\ IsFiniteSet(0 .. n)
    BY FS_Interval
  <2> QED
    BY <2>1 DEF FiniteSubsetsOf
<1>3. PICK I \in T : \A J \in T : ~(<<J, I>> \in R)
  <2> HIDE DEF R, T
  <2> QED BY <1>1, <1>2, WFMin
<1>4. PICK m \in S : I = 0 .. m
  OBVIOUS
<1>5. ASSUME NEW k \in S, k < m PROVE FALSE
  <2>1. 0 .. k \subseteq 0 .. m /\ 0 .. k # 0 .. m
    BY <1>5
  <2>2. <<0 .. k, 0 .. m>> \in R
    BY <2>1 DEF StrictSubsetOrdering
  <2> QED
    BY <2>2, <1>3, <1>4
<1> QED
  BY <1>5

\* The name that rec_mp4_create finds is that of no file.
LEMMA FreeNameFree ==
  ASSUME dir \in [Names -> Files], NameFree
  PROVE  FreeName \in Names /\ dir[FreeName] = "none"
<1> DEFINE S == {n \in Names : dir[n] = "none"}
<1>1. S \in SUBSET Nat /\ S # {}
  BY DEF Names, NameFree
<1>2. PICK m \in S : \A k \in S : m <= k
  <2> HIDE DEF S
  <2> QED
    BY <1>1, Least
<1>3. \A k \in 0 .. m - 1 : dir[k] # "none"
  BY <1>1, <1>2, RecorderAssumption DEF Names
<1>4. m \in Names /\ dir[m] = "none" /\ \A k \in 0 .. m - 1 : dir[k] # "none"
  BY <1>2, <1>3
<1> QED
  BY <1>4 DEF FreeName

\* The name that it picks: a free one, or else the last.
LEMMA NewNameFree ==
  ASSUME dir \in [Names -> Files]
  PROVE  /\ NewName \in Names
         /\ dir[NewName] = "none" \/ (~NameFree /\ NewName = MaxFiles - 1)
<1>1. MaxFiles - 1 \in Names
  BY RecorderAssumption DEF Names
<1>2. CASE NameFree
  BY <1>2, FreeNameFree DEF NewName
<1>3. CASE ~NameFree
  BY <1>1, <1>3 DEF NewName
<1> QED
  BY <1>2, <1>3

\* What the recorder encodes and writes keeps the muxer's tables true.
LEMMA RecordTells ==
  ASSUME RecorderInv, NEW frame \in Frames, Record(frame)
  PROVE  \/ task' = [task EXCEPT !.pc = "ending"]
         \/ \E m \in Muxes : task' = [task EXCEPT !.mp4 = m] /\ Muxed(m) /\ Whole(m)
<1>1. task.torn = FALSE /\ Muxed(task.mp4) /\ Whole(task.mp4)
  <2>1. task.pc = "loop" /\ task.torn \in BOOLEAN
    BY TaskFields DEF RecorderInv, RecorderType, Record, Recording
  <2> QED
    BY <2>1 DEF RecorderInv, Muxing
<1>2. CASE Full(task.mp4, frame)
  BY <1>2 DEF Record
<1>3. CASE ~Full(task.mp4, frame)
  <2> DEFINE m == Written(task.mp4, frame, IsKey(frame))
  <2>1. frame # <<>> /\ task' = [task EXCEPT !.mp4 = m]
    BY <1>3 DEF Record
  <2>2. Muxed(m) /\ Whole(m)
    BY <1>1, <2>1, FrameFacts, WrittenMuxed
  <2>3. m \in Muxes
    BY <2>2 DEF Muxed
  <2> QED
    BY <2>1, <2>2, <2>3
<1> QED
  BY <1>2, <1>3

\* ... and a write that fails leaves them true.
LEMMA RecordFailsTells ==
  ASSUME RecorderInv, RecordFails
  PROVE  \/ task' = [task EXCEPT !.pc = "ending"]
         \/ \E m \in Muxes : /\ Muxed(m)
                             /\ task' = [task EXCEPT !.mp4 = m, !.torn = TRUE, !.pc = "ending"]
<1>1. task.torn = FALSE /\ Muxed(task.mp4) /\ Whole(task.mp4)
  <2>1. task.pc = "loop" /\ task.torn \in BOOLEAN
    BY TaskFields DEF RecorderInv, RecorderType, RecordFails, Recording
  <2> QED
    BY <2>1 DEF RecorderInv, Muxing
<1>2. CASE Goto("ending")
  BY <1>2 DEF Goto
<1>3. CASE ~Goto("ending")
  <2>1. PICK frame \in Frames : \E n \in 0 .. Len(frame) :
               task' = [task EXCEPT !.mp4 = Spoilt(@, frame, IsKey(frame), n),
                                       !.torn = TRUE, !.pc = "ending"]
    BY <1>3 DEF RecordFails
  <2>2. PICK n \in 0 .. Len(frame) :
               task' = [task EXCEPT !.mp4 = Spoilt(@, frame, IsKey(frame), n),
                                       !.torn = TRUE, !.pc = "ending"]
    BY <2>1
  <2> DEFINE m == Spoilt(task.mp4, frame, IsKey(frame), n)
  <2>3. task' = [task EXCEPT !.mp4 = m, !.torn = TRUE, !.pc = "ending"]
    BY <2>2
  <2>4. Muxed(m)
    BY <1>1, FrameFacts, SpoiltMuxed
  <2>5. m \in Muxes
    BY <2>4 DEF Muxed
  <2> HIDE DEF m
  <2> QED
    BY <2>3, <2>4, <2>5
<1> QED
  BY <1>2, <1>3

\* What each step of the recording thread does to its own state, and to what it shares.
LEMMA TaskSteps ==
  ASSUME RecorderInv, Task
  PROVE  /\ task' \in Tasks /\ Muxing'
         /\ UNCHANGED <<cfg, http>>
<1>1. task \in Tasks /\ Muxing /\ cfg.size \in {"small", "large"} /\ cfg.rate \in Rates
  BY DEF RecorderInv, RecorderType, CfgType
<1>2. /\ task.auto \in BOOLEAN /\ task.name \in 0 .. MaxFiles /\ task.torn \in BOOLEAN
      /\ task.mp4 \in Muxes
  BY <1>1, TaskFields
<1>3. ASSUME NEW t \in Tasks, task' = t, t.mp4 = Created, t.torn = FALSE
      PROVE  task' \in Tasks /\ Muxing'
  BY <1>3, CreatedMuxed DEF Muxing
<1>4. CASE TakeCmd
  <2> DEFINE auto == (task.auto \/ rec.cmd = "start") /\ rec.cmd # "stop"
             t == [NoTask EXCEPT !.auto = auto, !.pc = IF auto THEN "dims" ELSE "top"]
  <2>1. auto \in BOOLEAN /\ (IF auto THEN "dims" ELSE "top") \in Pcs
    BY <1>2 DEF Pcs
  <2>2. task' = t
    BY <1>4 DEF TakeCmd
  <2>3. t \in Tasks /\ t.mp4 = Created /\ t.torn = FALSE
    <3> HIDE DEF auto
    <3> QED
      BY <2>1, FreshAt, NamesFacts
  <2> QED
    BY <1>3, <1>4, <2>2, <2>3 DEF TakeCmd
<1>5. CASE TaskEnd
  <2>1. task' = [NoTask EXCEPT !.auto = task.auto, !.pc = "end"] /\ "end" \in Pcs
    BY <1>5 DEF TaskEnd, Pcs
  <2>2. task' \in Tasks /\ task'.mp4 = Created /\ task'.torn = FALSE
    BY <1>2, <2>1, FreshAt, NamesFacts
  <2> QED
    BY <1>3, <1>5, <2>2 DEF TaskEnd
<1>6. CASE BeginFails \/ SegmentEnd
  <2>1. task' = [NoTask EXCEPT !.auto = task.auto]
    BY <1>6 DEF BeginFails, SegmentEnd
  <2>2. task' \in Tasks /\ task'.mp4 = Created /\ task'.torn = FALSE
    BY <1>2, <2>1, Fresh, NamesFacts DEF Pcs
  <2> QED
    BY <1>3, <1>6, <2>2 DEF BeginFails, SegmentEnd
<1>7. CASE Finalize
  <2>1. task' = [NoTask EXCEPT !.auto = task.auto, !.name = task.name, !.pc = "closing"]
        /\ "closing" \in Pcs
    BY <1>7 DEF Finalize, Pcs
  <2>2. task' \in Tasks /\ task'.mp4 = Created /\ task'.torn = FALSE
    <3> DEFINE auto == task.auto
               name == task.name
               pc == "closing"
    <3>1. auto \in BOOLEAN /\ name \in 0 .. MaxFiles /\ pc \in Pcs
          /\ task' = [NoTask EXCEPT !.auto = auto, !.name = name, !.pc = pc]
      BY <1>2, <2>1
    <3> HIDE DEF auto, name, pc
    <3> QED
      BY <3>1, NoTaskFields DEF Tasks
  <2> QED
    BY <1>3, <1>7, <2>2 DEF Finalize
<1>8. CASE ReadSize
  <2>1. /\ task.pc = "dims" /\ task' = [task EXCEPT !.size = cfg.size, !.pc = "encoder"]
        /\ UNCHANGED <<cfg, http>>
    BY <1>8 DEF ReadSize
  <2> QED
    BY <1>1, <2>1, TaskSized DEF Muxing
<1>9. CASE CreateEncoder
  <2>1. /\ task.pc = "encoder" /\ task' = [task EXCEPT !.rate = cfg.rate, !.pc = "file"]
        /\ UNCHANGED <<cfg, http>>
    BY <1>9 DEF CreateEncoder
  <2> QED
    BY <1>1, <2>1, TaskRated DEF Muxing
<1>10. CASE CreateFile
  <2>1. NewName \in 0 .. MaxFiles
    BY <1>10, NewNameFree, NamesFacts DEF CreateFile, RecorderInv, RecorderType, DirType
  <2>2. /\ task.pc = "file" /\ UNCHANGED <<cfg, http>>
        /\ task' = [task EXCEPT !.name = NewName, !.mp4 = Created, !.pc = "announce"]
    BY <1>10 DEF CreateFile
  <2>3. Created \in Muxes
    BY CreatedMuxed DEF Muxed
  <2>4. task' \in Tasks /\ task'.mp4 = Created /\ task'.torn = task.torn
    <3> DEFINE n == NewName
               m == Created
    <3>1. n \in 0 .. MaxFiles /\ m \in Muxes
          /\ task' = [task EXCEPT !.name = n, !.mp4 = m, !.pc = "announce"]
      BY <2>1, <2>2, <2>3
    <3> HIDE DEF n, m
    <3>2. task' \in Tasks /\ task'.mp4 = m /\ task'.torn = task.torn
      BY <1>1, <3>1 DEF Tasks, Pcs
    <3> QED
      BY <3>2 DEF m
  <2> QED
    BY <1>1, <2>2, <2>4, CreatedMuxed DEF Muxing
<1>11. CASE Announce \/ Stall \/ LoopEnds
  <2>1. PICK pc \in {"loop", "ending"} : task' = [task EXCEPT !.pc = pc]
    BY <1>11 DEF Announce, Stall, LoopEnds, Goto
  <2>2. task.pc \in {"announce", "loop"} /\ UNCHANGED <<cfg, http>>
    BY <1>11 DEF Announce, Stall, LoopEnds, Recording
  <2>3. pc \in Pcs
    BY <2>1 DEF Pcs
  <2> QED
    BY <1>1, <2>1, <2>2, <2>3, TaskAt DEF Muxing
<1>12. ASSUME NEW frame \in Frames, Record(frame)
       PROVE  task' \in Tasks /\ Muxing' /\ UNCHANGED <<cfg, http>>
  <2>1. task.pc = "loop" /\ UNCHANGED <<cfg, http>> /\ "ending" \in Pcs
    BY <1>12 DEF Record, Recording, Pcs
  <2>2. CASE task' = [task EXCEPT !.pc = "ending"]
    BY <1>1, <2>1, <2>2, TaskAt DEF Muxing
  <2>3. ASSUME NEW m \in Muxes, task' = [task EXCEPT !.mp4 = m], Muxed(m), Whole(m)
        PROVE  task' \in Tasks /\ Muxing'
    BY <1>1, <2>1, <2>3, TaskWrites DEF Muxing
  <2> QED
    BY <1>12, <2>1, <2>2, <2>3, RecordTells
<1>13. CASE RecordFails
  <2>1. task.pc = "loop" /\ UNCHANGED <<cfg, http>> /\ "ending" \in Pcs
    BY <1>13 DEF RecordFails, Recording, Pcs
  <2>2. CASE task' = [task EXCEPT !.pc = "ending"]
    BY <1>1, <2>1, <2>2, TaskAt DEF Muxing
  <2>3. ASSUME NEW m \in Muxes, Muxed(m),
               task' = [task EXCEPT !.mp4 = m, !.torn = TRUE, !.pc = "ending"]
        PROVE  task' \in Tasks /\ Muxing'
    BY <1>1, <2>3, TaskTears DEF Muxing
  <2> QED
    BY <1>13, <2>1, <2>2, <2>3, RecordFailsTells
<1> QED
  BY <1>4, <1>5, <1>6, <1>7, <1>8, <1>9, <1>10, <1>11, <1>12, <1>13 DEF Task

\* What a step of the recording thread keeps, beside its own state.
SegmentKept == StatusType /\ HistType /\ DirType /\ Filed /\ Named /\ Rated /\ KeptFilesPlay

\* A step before the file is there, or after its end.
LEMMA OutsideKeeps ==
  ASSUME RecorderInv, TakeCmd \/ TaskEnd \/ ReadSize \/ BeginFails \/ SegmentEnd
  PROVE  SegmentKept'
<1>1. task \in Tasks /\ StatusType /\ HistType /\ DirType /\ Named /\ KeptFilesPlay
  BY DEF RecorderInv, RecorderType
<1>2. HistType' /\ DirType' /\ KeptFilesPlay'
  BY <1>1 DEF TakeCmd, TaskEnd, ReadSize, BeginFails, SegmentEnd, HistType, DirType, KeptFilesPlay
<1>3. StatusType'
  <2>1. CASE TakeCmd
    BY <1>1, <2>1 DEF TakeCmd, StatusType
  <2>2. CASE SegmentEnd
    BY <1>1, <2>2, NamesFacts DEF SegmentEnd, StatusType
  <2> QED
    BY <1>1, <2>1, <2>2 DEF StatusType, TaskEnd, ReadSize, BeginFails
<1>4. rec'.file = NoName
  <2>1. CASE TakeCmd
    <3>1. rec.file = NoName
      BY <1>1, <2>1 DEF TakeCmd, Named
    <3> QED
      BY <1>1, <2>1, <3>1 DEF TakeCmd, StatusType
  <2>2. CASE SegmentEnd
    BY <1>1, <2>2 DEF SegmentEnd, StatusType
  <2> QED
    BY <1>1, <2>1, <2>2 DEF Named, TaskEnd, ReadSize, BeginFails
<1>5. task'.pc \in {"top", "dims", "encoder", "end"}
  <2>1. task.auto \in BOOLEAN
    BY <1>1, TaskFields
  <2>2. CASE TakeCmd
    <3> DEFINE auto == (task.auto \/ rec.cmd = "start") /\ rec.cmd # "stop"
               pc == IF auto THEN "dims" ELSE "top"
    <3>1. task' = [NoTask EXCEPT !.auto = auto, !.pc = pc] /\ auto \in BOOLEAN
      BY <2>1, <2>2 DEF TakeCmd
    <3>2. pc \in {"top", "dims"} /\ pc \in Pcs
      BY DEF Pcs
    <3> HIDE DEF auto, pc
    <3> QED
      BY <3>1, <3>2, FreshAt
  <2>3. CASE TaskEnd
    BY <2>1, <2>3, FreshAt DEF TaskEnd, Pcs
  <2>4. CASE ReadSize
    BY <1>1, <2>4 DEF ReadSize, Tasks
  <2>5. CASE BeginFails \/ SegmentEnd
    <3>1. task' = [NoTask EXCEPT !.auto = task.auto]
      BY <2>5 DEF BeginFails, SegmentEnd
    <3> QED
      BY <2>1, <3>1, Fresh
  <2> QED
    BY <2>2, <2>3, <2>4, <2>5
<1> QED
  BY <1>2, <1>3, <1>4, <1>5 DEF SegmentKept, Filed, Named, Rated

\* The encoder has the configured bit rate.
LEMMA CreateEncoderKeeps ==
  ASSUME RecorderInv, CreateEncoder
  PROVE  SegmentKept'
<1>1. task \in Tasks /\ StatusType /\ HistType /\ DirType /\ CfgType /\ Named /\ KeptFilesPlay
  BY DEF RecorderInv, RecorderType
<1>2. UNCHANGED <<cfg, rec, dir, last, http, hist>> /\ task.pc = "encoder"
  BY DEF CreateEncoder
<1>3. task'.pc = "file" /\ task'.rate = cfg.rate
  <2>1. cfg.rate \in Rates
    BY <1>1 DEF CfgType
  <2> QED
    BY <1>1, <2>1, TaskRated DEF CreateEncoder
<1>4. rec.file = NoName
  BY <1>1, <1>2 DEF Named
<1>5. StatusType' /\ HistType' /\ DirType' /\ KeptFilesPlay'
  BY <1>1, <1>2 DEF StatusType, HistType, DirType, KeptFilesPlay
<1> QED
  BY <1>2, <1>3, <1>4, <1>5 DEF SegmentKept, Filed, Named, Rated

\* The file is new; the status names none.
LEMMA CreateFileKeeps ==
  ASSUME RecorderInv, CreateFile
  PROVE  SegmentKept'
<1>1. task \in Tasks /\ StatusType /\ HistType /\ DirType /\ Named /\ Rated
  BY DEF RecorderInv, RecorderType
<1>2. /\ UNCHANGED <<cfg, rec, http>> /\ task.pc = "file" /\ last' = NoFile
      /\ dir' = [dir EXCEPT ![NewName] = "open"] /\ hist' = [hist EXCEPT !.cut = FALSE]
  BY DEF CreateFile
<1>3. NewName \in Names
  BY <1>1, NewNameFree DEF CreateFile, DirType
<1>4. task'.pc = "announce" /\ task'.name = NewName /\ task'.rate = task.rate
  BY <1>1 DEF CreateFile, Tasks
<1>5. HistType' /\ hist'.missed = hist.missed
  BY <1>1, <1>2 DEF HistType
<1>6. DirType' /\ dir'[NewName] = "open"
  BY <1>1, <1>2, <1>3 DEF DirType, Files
<1>7. rec.file = NoName
  BY <1>1, <1>2 DEF Named
<1>8. Rated'
  BY <1>1, <1>2, <1>4, <1>5 DEF Rated
<1>9. KeptFilesPlay' /\ StatusType' /\ Named'
  BY <1>1, <1>2, <1>7 DEF KeptFilesPlay, StatusType, Named
<1>10. Filed'
  BY <1>3, <1>4, <1>6 DEF Filed
<1> QED
  BY <1>5, <1>6, <1>8, <1>9, <1>10 DEF SegmentKept

\* The status names the file that is being written.
LEMMA AnnounceKeeps ==
  ASSUME RecorderInv, Announce
  PROVE  SegmentKept'
<1>1. task \in Tasks /\ StatusType /\ HistType /\ DirType /\ Filed /\ Rated /\ KeptFilesPlay
  BY DEF RecorderInv, RecorderType
<1>2. UNCHANGED <<cfg, dir, last, http, hist>> /\ task.pc = "announce"
  BY DEF Announce
<1>3. task'.pc = "loop" /\ task'.name = task.name /\ task'.rate = task.rate
  BY <1>1, TaskAt DEF Announce, Goto, Pcs
<1>4. StatusType' /\ rec'.file = task.name
  <2>1. task.name \in 0 .. MaxFiles
    BY <1>1, TaskFields
  <2> QED
    BY <1>1, <2>1 DEF Announce, StatusType
<1>5. HistType' /\ DirType' /\ KeptFilesPlay'
  BY <1>1, <1>2 DEF HistType, DirType, KeptFilesPlay
<1>6. Filed' /\ Named'
  BY <1>1, <1>2, <1>3, <1>4 DEF Filed, Named
<1>7. Rated'
  BY <1>1, <1>2, <1>3 DEF Rated
<1> QED
  BY <1>4, <1>5, <1>6, <1>7 DEF SegmentKept

\* Recording, and its end.
LEMMA RecordKeeps ==
  ASSUME RecorderInv, Stall \/ LoopEnds \/ RecordFails \/ \E frame \in Frames : Record(frame)
  PROVE  SegmentKept'
<1>1. /\ task \in Tasks /\ StatusType /\ HistType /\ DirType
      /\ Filed /\ Named /\ Rated /\ KeptFilesPlay
  BY DEF RecorderInv, RecorderType
<1>2. UNCHANGED <<cfg, rec, dir, last, http, hist>> /\ task.pc = "loop"
  BY DEF Stall, LoopEnds, Record, RecordFails, Recording
<1>3. task'.pc \in {"loop", "ending"} /\ task'.name = task.name /\ task'.rate = task.rate
  <2>1. CASE task' = [task EXCEPT !.pc = "ending"]
    BY <1>1, <2>1, TaskAt DEF Pcs
  <2>2. ASSUME NEW m \in Muxes, task' = [task EXCEPT !.mp4 = m]
        PROVE  task'.pc = task.pc /\ task'.name = task.name /\ task'.rate = task.rate
    BY <1>1, <2>2, TaskWrites
  <2>3. ASSUME NEW m \in Muxes, task' = [task EXCEPT !.mp4 = m, !.torn = TRUE, !.pc = "ending"]
        PROVE  task'.pc = "ending" /\ task'.name = task.name /\ task'.rate = task.rate
    BY <1>1, <2>3 DEF Tasks
  <2>4. CASE Stall \/ LoopEnds
    BY <2>1, <2>4 DEF Stall, LoopEnds, Goto
  <2>5. CASE RecordFails
    BY <2>1, <2>3, <2>5, RecordFailsTells
  <2>6. CASE \E frame \in Frames : Record(frame)
    BY <1>2, <2>1, <2>2, <2>6, RecordTells
  <2> QED
    BY <2>4, <2>5, <2>6
<1>4. StatusType' /\ HistType' /\ DirType' /\ KeptFilesPlay'
  BY <1>1, <1>2 DEF StatusType, HistType, DirType, KeptFilesPlay
<1>5. Filed' /\ Named'
  BY <1>1, <1>2, <1>3 DEF Filed, Named
<1>6. Rated'
  BY <1>1, <1>2, <1>3 DEF Rated
<1> QED
  BY <1>4, <1>5, <1>6 DEF SegmentKept

\* The file that is kept plays.
LEMMA FinalizeKeeps ==
  ASSUME RecorderInv, Finalize
  PROVE  SegmentKept'
<1>1. /\ task \in Tasks /\ StatusType /\ HistType /\ DirType /\ Named /\ Muxing
  BY DEF RecorderInv, RecorderType
<1>2. UNCHANGED <<cfg, rec, http, hist>> /\ task.pc = "ending"
  BY DEF Finalize
<1>3. task'.pc = "closing" /\ task'.name = task.name
  <2>1. task.auto \in BOOLEAN /\ task.name \in 0 .. MaxFiles
    BY <1>1, TaskFields
  <2>2. task' = [NoTask EXCEPT !.auto = task.auto, !.name = task.name, !.pc = "closing"]
    BY DEF Finalize
  <2> QED
    BY <2>1, <2>2, NoTaskFields DEF Tasks
<1> DEFINE kept == dir[task.name] = "open" /\ Kept(task.mp4)
<1>4. DirType'
  <2>1. dir' = [dir EXCEPT ![task.name] = IF kept THEN "closed" ELSE "none"]
    BY DEF Finalize
  <2> HIDE DEF kept
  <2> QED
    BY <1>1, <2>1 DEF DirType, Files
<1>5. KeptFilesPlay'
  <2>1. last' = IF kept THEN [file |-> Finished(task.mp4), torn |-> task.torn] ELSE NoFile
    BY DEF Finalize
  <2>2. CASE kept
    <3> DEFINE f == Finished(task.mp4)
    <3>1. SamplesFound(f) /\ (Whole(task.mp4) => PlaysWhole(f))
      BY <1>1, <2>2, FinishedPlays DEF Muxing
    <3>2. task.torn \/ Whole(task.mp4)
      BY <1>1 DEF Muxing
    <3> HIDE DEF f
    <3>3. last' = [file |-> f, torn |-> task.torn]
      BY <2>1, <2>2 DEF f
    <3>4. last'.file = f /\ last'.torn = task.torn
      BY <3>3
    <3> QED
      BY <3>1, <3>2, <3>4 DEF KeptFilesPlay
  <2>3. CASE ~kept
    BY <2>1, <2>3 DEF KeptFilesPlay
  <2> QED
    BY <2>2, <2>3
<1>6. StatusType' /\ HistType' /\ Filed' /\ Named' /\ Rated'
  BY <1>1, <1>2, <1>3 DEF StatusType, HistType, Filed, Named, Rated
<1> QED
  BY <1>4, <1>5, <1>6 DEF SegmentKept

\* Every step of the recording thread keeps the invariant.
LEMMA TaskKeeps ==
  ASSUME RecorderInv, Task
  PROVE  RecorderInv'
<1>1. SegmentKept'
  <2>1. CASE TakeCmd \/ TaskEnd \/ ReadSize \/ BeginFails \/ SegmentEnd
    BY <2>1, OutsideKeeps
  <2>2. CASE Stall \/ LoopEnds \/ RecordFails \/ \E frame \in Frames : Record(frame)
    BY <2>2, RecordKeeps
  <2> QED
    BY <2>1, <2>2, CreateEncoderKeeps, CreateFileKeeps, AnnounceKeeps, FinalizeKeeps DEF Task
<1>2. task' \in Tasks /\ Muxing' /\ UNCHANGED <<cfg, http>>
  BY TaskSteps
<1>3. CfgType' /\ HttpType' /\ Requests'
  BY <1>2 DEF RecorderInv, RecorderType, CfgType, HttpType, Requests
<1>4. RecorderType'
  BY <1>1, <1>2, <1>3 DEF RecorderType, SegmentKept
<1> QED
  BY <1>1, <1>2, <1>3, <1>4 DEF RecorderInv, SegmentKept

\* A step that leaves the recording thread alone.
LEMMA OthersKeep ==
  ASSUME RecorderInv, UNCHANGED <<task, last>>, CfgType', StatusType', DirType', HttpType',
         HistType', Requests', Filed', Named', Rated'
  PROVE  RecorderInv'
<1>1. task' \in Tasks /\ Muxing' /\ KeptFilesPlay'
  BY DEF RecorderInv, RecorderType, Muxing, KeptFilesPlay
<1>2. RecorderType'
  BY <1>1 DEF RecorderType
<1> QED
  BY <1>1, <1>2 DEF RecorderInv

\* Every step of a request keeps it.
LEMMA HttpKeeps ==
  ASSUME RecorderInv, Http
  PROVE  RecorderInv'
<1>1. /\ CfgType /\ StatusType /\ DirType /\ HttpType /\ HistType
      /\ Requests /\ Filed /\ Named /\ Rated
  BY DEF RecorderInv, RecorderType
<1>2. NoRequest \in [pc : {"none", "cycle", "delete", "clear"}, name : 0 .. MaxFiles,
               spared : 0 .. MaxFiles, seen : 0 .. MaxFiles] /\ NoRequest.pc = "none"
  BY NamesFacts DEF NoRequest
<1>3. CASE Start \/ Stop
  <2>1. UNCHANGED <<cfg, task, dir, last, http, hist>>
    BY <1>3 DEF Start, Stop
  <2>2. StatusType' /\ rec'.recording = rec.recording /\ rec'.file = rec.file
    BY <1>1, <1>3 DEF Start, Stop, StatusType
  <2>3. CfgType' /\ DirType' /\ HttpType' /\ HistType' /\ Requests' /\ Filed'
    BY <1>1, <2>1 DEF CfgType, DirType, HttpType, HistType, Requests, Filed
  <2>4. Named' /\ Rated'
    BY <1>1, <2>1, <2>2 DEF Named, Rated
  <2> QED
    BY <2>1, <2>2, <2>3, <2>4, OthersKeep
<1>4. CASE ChangeRate
  <2>1. UNCHANGED <<rec, task, dir, last>>
    BY <1>4 DEF ChangeRate
  <2>2. CfgType'
    <3>1. PICK r \in Rates : cfg' = [cfg EXCEPT !.rate = r]
      BY <1>4 DEF ChangeRate, Rates
    <3> QED
      BY <1>1, <3>1 DEF CfgType
  <2>3. HttpType' /\ http'.pc = "cycle"
    BY <1>2, <1>4 DEF ChangeRate, HttpType
  <2>4. HistType' /\ hist'.cut = hist.cut
    BY <1>1, <1>4 DEF ChangeRate, Counted, HistType
  <2>5. StatusType' /\ DirType' /\ Requests' /\ Filed' /\ Named' /\ Rated'
    BY <1>1, <2>1, <2>3, <2>4 DEF StatusType, DirType, Requests, Filed, Named, Rated
  <2> QED
    BY <2>1, <2>2, <2>3, <2>4, <2>5, OthersKeep
<1>5. CASE CycleSession
  <2>1. UNCHANGED <<cfg, task, dir, last>> /\ http' = NoRequest
    BY <1>5 DEF CycleSession
  <2>2. StatusType' /\ rec'.recording = FALSE /\ rec'.file = rec.file
    BY <1>1, <1>5 DEF CycleSession, StatusType
  <2>3. HistType' /\ hist'.cut = hist.cut
        /\ (task.pc \in {"file", "announce"} => hist'.missed)
    <3> DEFINE b == task.pc \in {"file", "announce"}
    <3>1. b \in BOOLEAN /\ hist' = [hist EXCEPT !.missed = b]
      BY <1>5 DEF CycleSession
    <3> HIDE DEF b
    <3>2. HistType' /\ hist'.cut = hist.cut /\ hist'.missed = b
      BY <1>1, <3>1 DEF HistType
    <3> QED
      BY <3>2 DEF b
  <2>4. CfgType' /\ DirType' /\ HttpType' /\ Requests'
    BY <1>1, <1>2, <2>1 DEF CfgType, DirType, HttpType, Requests
  <2>5. Filed' /\ Named' /\ Rated'
    BY <1>1, <2>1, <2>2, <2>3 DEF Filed, Named, Rated
  <2> QED
    BY <2>1, <2>2, <2>3, <2>4, <2>5, OthersKeep
<1>6. CASE ChangeSize
  <2>1. UNCHANGED <<rec, task, dir, last, http>>
    BY <1>6 DEF ChangeSize
  <2>2. CfgType' /\ cfg'.rate = cfg.rate
    <3>1. PICK s \in {"small", "large"} : cfg' = [cfg EXCEPT !.size = s]
      BY <1>6 DEF ChangeSize
    <3> QED
      BY <1>1, <3>1 DEF CfgType
  <2>3. HistType' /\ hist'.cut = hist.cut /\ hist'.missed = hist.missed
    BY <1>1, <1>6 DEF ChangeSize, Counted, HistType
  <2>4. StatusType' /\ DirType' /\ HttpType' /\ Requests' /\ Filed' /\ Named' /\ Rated'
    BY <1>1, <2>1, <2>2, <2>3 DEF StatusType, DirType, HttpType, Requests, Filed, Named, Rated
  <2> QED
    BY <2>1, <2>2, <2>3, <2>4, OthersKeep
<1>7. ASSUME NEW n \in Names, DeleteBegin(n)
      PROVE  RecorderInv'
  <2>1. UNCHANGED <<cfg, rec, task, dir, last, hist>> /\ http.pc = "none"
        /\ http' = [NoRequest EXCEPT !.pc = "delete", !.name = n, !.seen = Active]
        /\ ~(rec.recording /\ rec.file = n)
    BY <1>7 DEF DeleteBegin, Idle
  <2>2. Active \in 0 .. MaxFiles /\ Active # n
    BY <1>1, <2>1, NamesFacts DEF StatusType, Active
  <2>3. HttpType' /\ http'.pc = "delete" /\ http'.name = n /\ http'.seen = Active
    BY <1>2, <2>1, <2>2, NamesFacts DEF HttpType
  <2>5. Requests' /\ Rated'
    BY <1>1, <2>1, <2>2, <2>3 DEF Requests, Rated
  <2>4. CfgType' /\ StatusType' /\ DirType' /\ HistType' /\ Filed' /\ Named'
    BY <1>1, <2>1 DEF CfgType, StatusType, DirType, HistType, Filed, Named
  <2> QED
    BY <2>1, <2>3, <2>4, <2>5, OthersKeep
<1>8. CASE DeleteEnd
  <2>1. /\ UNCHANGED <<cfg, rec, task, last>> /\ http' = NoRequest /\ http.pc = "delete"
        /\ dir' = [dir EXCEPT ![http.name] = "none"]
        /\ hist' = [hist EXCEPT !.cut = @ \/ (dir[http.name] = "open"
                                               /\ http.name # http.seen)]
    BY <1>8 DEF DeleteEnd
  <2>2. HistType' /\ hist'.missed = hist.missed
        /\ hist'.cut = (hist.cut \/ dir[http.name] = "open")
    <3>1. http.name # http.seen
      BY <1>1, <2>1 DEF Requests
    <3> QED
      BY <1>1, <2>1, <3>1 DEF HistType
  <2>3. DirType' /\ \A n \in Names : n # http.name => dir'[n] = dir[n]
    BY <1>1, <2>1 DEF DirType, Files
  <2>4. Filed'
    BY <1>1, <2>1, <2>2, <2>3 DEF Filed
  <2>5. HttpType' /\ Requests' /\ Rated'
    BY <1>1, <1>2, <2>1, <2>2 DEF HttpType, Requests, Rated
  <2>6. CfgType' /\ StatusType' /\ Named'
    BY <1>1, <2>1 DEF CfgType, StatusType, Named
  <2> QED
    BY <2>1, <2>2, <2>3, <2>4, <2>5, <2>6, OthersKeep
<1>9. CASE ClearBegin
  <2>1. UNCHANGED <<cfg, rec, task, dir, last, hist>> /\ http.pc = "none"
    BY <1>9 DEF ClearBegin, Idle
  <2>2. PICK named \in 0 .. MaxFiles :
          http' = [pc |-> "clear", name |-> NoName, spared |-> named, seen |-> named]
    BY <1>1, <1>9, NamesFacts DEF ClearBegin, StatusType, Active
  <2>3. HttpType' /\ http'.pc = "clear" /\ http'.seen = http'.spared
    BY <2>2, NamesFacts DEF HttpType
  <2>4. Requests' /\ Rated'
    BY <1>1, <2>1, <2>3 DEF Requests, Rated
  <2>5. CfgType' /\ StatusType' /\ DirType' /\ HistType' /\ Filed' /\ Named'
    BY <1>1, <2>1 DEF CfgType, StatusType, DirType, HistType, Filed, Named
  <2> QED
    BY <2>1, <2>3, <2>4, <2>5, OthersKeep
<1>10. ASSUME NEW n \in Names, Unlink(n)
       PROVE  RecorderInv'
  <2>1. /\ UNCHANGED <<cfg, rec, task, last, http>>
        /\ http.pc = "clear" /\ n # http.spared
        /\ dir' = [dir EXCEPT ![n] = "none"]
        /\ hist' = [hist EXCEPT !.cut = @ \/ (dir[n] = "open" /\ n # http.seen)]
    BY <1>10 DEF Unlink
  <2>2. n # http.seen
    BY <1>1, <2>1 DEF Requests
  <2>3. HistType' /\ hist'.missed = hist.missed /\ hist'.cut = (hist.cut \/ dir[n] = "open")
    BY <1>1, <2>1, <2>2 DEF HistType
  <2>4. DirType' /\ \A k \in Names : k # n => dir'[k] = dir[k]
    BY <1>1, <2>1 DEF DirType, Files
  <2>5. Filed'
    BY <1>1, <2>1, <2>3, <2>4 DEF Filed
  <2>6. CfgType' /\ StatusType' /\ HttpType' /\ Requests' /\ Named' /\ Rated'
    BY <1>1, <2>1, <2>3 DEF CfgType, StatusType, HttpType, Requests, Named, Rated
  <2> QED
    BY <2>1, <2>3, <2>4, <2>5, <2>6, OthersKeep
<1>11. CASE ClearEnd
  <2>1. /\ UNCHANGED <<cfg, rec, task, dir, last, hist>> /\ http' = NoRequest
        /\ http.pc = "clear"
    BY <1>11 DEF ClearEnd
  <2>2. HttpType' /\ Requests' /\ Rated'
    BY <1>1, <1>2, <2>1 DEF HttpType, Requests, Rated
  <2>3. CfgType' /\ StatusType' /\ DirType' /\ HistType' /\ Filed' /\ Named'
    BY <1>1, <2>1 DEF CfgType, StatusType, DirType, HistType, Filed, Named
  <2> QED
    BY <2>1, <2>2, <2>3, OthersKeep
<1> QED
  BY <1>3, <1>4, <1>5, <1>6, <1>7, <1>8, <1>9, <1>10, <1>11 DEF Http

\* The surroundings, and steps of nobody.
LEMMA RestKeeps ==
  ASSUME RecorderInv, CameraRestart \/ AiToggle \/ Shutdown \/ UNCHANGED vars
  PROVE  RecorderInv'
<1>1. UNCHANGED <<cfg, rec, task, dir, last, http, hist>>
  BY DEF CameraRestart, AiToggle, Shutdown, vars
<1>2. /\ CfgType /\ StatusType /\ DirType /\ HttpType /\ HistType
      /\ Requests /\ Filed /\ Named /\ Rated
  BY DEF RecorderInv, RecorderType
<1>3. /\ CfgType' /\ StatusType' /\ DirType' /\ HttpType' /\ HistType'
      /\ Requests' /\ Filed' /\ Named' /\ Rated'
  BY <1>1, <1>2 DEF CfgType, StatusType, DirType, HttpType, HistType, Requests, Filed,
                    Named, Rated
<1> QED
  BY <1>1, <1>3, OthersKeep

\* A kill cuts the open file; nothing else outlives it.
LEMMA CrashKeeps ==
  ASSUME RecorderInv, Crash
  PROVE  RecorderInv'
<1>1. CfgType /\ DirType /\ HistType
  BY DEF RecorderInv, RecorderType
<1>2. /\ rec' = NoRec /\ task' = NoTask /\ http' = NoRequest /\ last' = NoFile /\ cfg' = cfg
      /\ dir' = [n \in Names |-> IF dir[n] = "open" THEN "cut" ELSE dir[n]]
      /\ hist' = [hist EXCEPT !.crashes = @ + 1, !.missed = FALSE, !.cut = FALSE]
  BY DEF Crash
<1>3. DirType'
  BY <1>1, <1>2 DEF DirType, Files
<1>4. StatusType' /\ HttpType' /\ rec'.file = NoName /\ http'.pc = "none"
  BY <1>2, NamesFacts DEF NoRec, NoRequest, StatusType, HttpType
<1>5. HistType' /\ CfgType'
  <2>1. CfgType'
    BY <1>1, <1>2 DEF CfgType
  <2>2. hist.crashes \in Nat
    BY <1>1 DEF HistType
  <2> DEFINE n == hist.crashes + 1
  <2>3. n \in Nat /\ hist' = [hist EXCEPT !.crashes = n, !.missed = FALSE, !.cut = FALSE]
    BY <1>2, <2>2
  <2> HIDE DEF n
  <2>4. HistType'
    BY <1>1, <2>3 DEF HistType
  <2> QED
    BY <2>1, <2>4
<1>6. task' \in Tasks /\ task'.pc = "top" /\ Muxing'
  BY <1>2, NoTaskFields, CreatedMuxed DEF Muxing
<1>7. KeptFilesPlay'
  BY <1>2 DEF KeptFilesPlay
<1>8. Filed' /\ Named' /\ Requests' /\ Rated'
  BY <1>4, <1>6 DEF Filed, Named, Requests, Rated
<1>9. RecorderType'
  BY <1>3, <1>4, <1>5, <1>6 DEF RecorderType
<1> QED
  BY <1>6, <1>7, <1>8, <1>9 DEF RecorderInv

\* The program starts with it.
LEMMA InitHolds ==
  ASSUME Init
  PROVE  RecorderInv
<1>1. /\ rec = NoRec /\ task = NoTask /\ http = NoRequest /\ last = NoFile
      /\ dir = [n \in Names |-> "none"]
  BY DEF Init
<1>2. CfgType /\ HistType /\ DirType
  BY DEF Init, CfgType, HistType, DirType, Rates, Files
<1>3. StatusType /\ HttpType /\ rec.file = NoName /\ http.pc = "none"
  BY <1>1, NamesFacts DEF NoRec, NoRequest, StatusType, HttpType
<1>4. task \in Tasks /\ task.pc = "top" /\ Muxing
  BY <1>1, NoTaskFields, CreatedMuxed DEF Muxing
<1>5. KeptFilesPlay
  BY <1>1 DEF KeptFilesPlay
<1>6. Filed /\ Named /\ Requests /\ Rated
  BY <1>3, <1>4 DEF Filed, Named, Requests, Rated
<1> QED
  BY <1>2, <1>3, <1>4, <1>5, <1>6 DEF RecorderInv, RecorderType

\* The inductive invariant of the recorder holds for any number of names, any limits
\* of the muxer (REC_MAX_SAMPLES, REC_MAX_MDAT), and any number of configuration
\* changes and kills.
THEOREM RecorderCorrect == Spec => []RecorderInv
<1>1. Init => RecorderInv
  BY InitHolds
<1>2. RecorderInv /\ [Next]_vars => RecorderInv'
  BY TaskKeeps, HttpKeeps, RestKeeps, CrashKeeps DEF Next
<1> QED
  BY <1>1, <1>2, PTL DEF Spec

\* Every recording that is kept plays: moov behind mdat, each sample where its table
\* has it (rec_mp4_write_annexb, rec_mp4_finalize), for any number of samples, any
\* sequence of frames the encoder may return, and a write that fails at any of them.
THEOREM KeptFilesPlayCorrect == Spec => []KeptFilesPlay
<1>1. RecorderInv => KeptFilesPlay
  BY DEF RecorderInv
<1> QED
  BY <1>1, RecorderCorrect, PTL

\* While the status names a file, it is the one being written, and in the directory,
\* but for the requests that looked before its announcement or after its end was
\* requested: none removes the file it saw recorded (video_rec_task, http_api_rec.c).
THEOREM AnnouncedOpenCorrect == Spec => []AnnouncedOpen
<1>1. RecorderInv => AnnouncedOpen
  BY DEF RecorderInv, Named, Filed, AnnouncedOpen
<1> QED
  BY <1>1, RecorderCorrect, PTL

\* A segment is recorded with the configured bit rate, but for the change that finds
\* the encoder created and the segment not announced (video_rec_cycle_session).
THEOREM RateTakenCorrect == Spec => []RateTaken
<1>1. RecorderInv => RateTaken
  BY DEF RecorderInv, Rated, RateTaken, Recording
<1> QED
  BY <1>1, RecorderCorrect, PTL

\* A step and a file that is finished, or was cut.
LEMMA Never ==
  ASSUME RecorderInv, [Next]_vars, NEW n \in Names, dir[n] \in {"closed", "cut"},
         NameFree \/ n # MaxFiles - 1
  PROVE  dir'[n] \in {dir[n], "none"}
<1>1. DirType /\ Requests
  BY DEF RecorderInv, RecorderType
<1>2. CASE UNCHANGED dir
  BY <1>2
<1>3. CASE CreateFile
  <2>1. NewName # n
    BY <1>1, <1>3, NewNameFree DEF CreateFile, DirType
  <2> QED
    BY <1>1, <1>3, <2>1 DEF CreateFile, DirType
<1>4. CASE Finalize
  <2>1. n # task.name \/ dir[task.name] # "open"
    OBVIOUS
  <2> QED
    BY <1>1, <1>4, <2>1 DEF Finalize, DirType
<1>5. CASE DeleteEnd
  BY <1>1, <1>5 DEF DeleteEnd, DirType
<1>6. ASSUME NEW k \in Names, Unlink(k)
      PROVE  dir'[n] \in {dir[n], "none"}
  BY <1>1, <1>6 DEF Unlink, DirType
<1>7. CASE Crash
  BY <1>1, <1>7 DEF Crash
<1>8. Task => UNCHANGED dir \/ CreateFile \/ Finalize
  BY DEF Task, TakeCmd, TaskEnd, ReadSize, CreateEncoder, BeginFails, Announce, Stall,
         LoopEnds, SegmentEnd, RecordFails, Record
<1>9. Http => UNCHANGED dir \/ DeleteEnd \/ \E k \in Names : Unlink(k)
  BY DEF Http, Start, Stop, ChangeRate, CycleSession, ChangeSize, ClearBegin, ClearEnd,
         DeleteBegin
<1> QED
  BY <1>2, <1>3, <1>4, <1>5, <1>6, <1>7, <1>8, <1>9
  DEF Next, CameraRestart, AiToggle, Shutdown, vars

\* No finished or cut recording is written again, however many starts of the program
\* give names within one second, unless all names are taken and it has the last one
\* (rec_mp4_create).
THEOREM NeverOverwrittenCorrect == Spec => NeverOverwritten
<1>1. RecorderInv /\ [Next]_vars
      => [\A n \in Names :
            dir[n] \in {"closed", "cut"} /\ (NameFree \/ n # MaxFiles - 1)
              => dir'[n] \in {dir[n], "none"}]_vars
  BY Never
<1> QED
  BY <1>1, RecorderCorrect, PTL DEF Spec, NeverOverwritten
==============================================================================
