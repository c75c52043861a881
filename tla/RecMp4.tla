------------------------------- MODULE RecMp4 -------------------------------
(***************************************************************************)
(* The MP4 muxer of the recordings (source/video/rec_mp4.c) as operators on*)
(* the object rec_mp4_t.  A byte string is the sequence of the NAL units in*)
(* it: an encoded frame has some, the data of mdat is those written so far,*)
(* and offsets and sizes count them.  The fields of moov that are copied or*)
(* constant are left out; what its tables say of the data is kept.         *)
(***************************************************************************)
EXTENDS Integers, Sequences, Functions

CONSTANTS
  MaxSamples,   \* REC_MAX_SAMPLES
  MaxMdat       \* REC_MAX_MDAT

ASSUME MuxerAssumption == MaxSamples \in Nat \ {0} /\ MaxMdat \in Nat \ {0}

ParamSets == {"sps", "pps"}

\* rec_mp4_create: the headers are written, mdat is empty.
Created == [units |-> <<>>, samples |-> <<>>, keys |-> <<>>, sets |-> {}, len |-> 0]

\* Either limit is reached: the frame is refused, the segment ends.
Full(m, frame) == Len(m.samples) >= MaxSamples \/ m.len + Len(frame) > MaxMdat

\* The parameter sets are kept for avcC, and the number of the sample, which is
\* still to be written, is put into the table of key frames.
Announced(m, frame, key) ==
  [m EXCEPT !.sets = @ \cup (ParamSets \cap Range(frame)),
            !.keys = IF key THEN Append(@, Len(m.samples) + 1) ELSE @]

\* Mutant: the offset is taken after the frame was written.
WrittenThenTold(m, frame, key) ==
  [Announced(m, frame, key) EXCEPT
     !.units = @ \o frame,
     !.samples = Append(@, [offset |-> Len(m.units) + Len(frame), size |-> Len(frame)]),
     !.len = @ + Len(frame)]

\* The whole frame is written.
Written(m, frame, key) ==
  [Announced(m, frame, key) EXCEPT
     !.units = @ \o frame,
     !.samples = Append(@, [offset |-> Len(m.units), size |-> Len(frame)]),
     !.len = @ + Len(frame)]

\* fwrite fails at the NAL unit after the first n; a frame without units is
\* refused at the same place.  What was written stays in the file.
Spoilt(m, frame, key, n) ==
  [Announced(m, frame, key) EXCEPT
     !.units = @ \o SubSeq(frame, 1, n) \o IF n < Len(frame) THEN <<"torn">> ELSE <<>>]

\* rec_mp4_finalize: a recording without frames or parameter sets is removed.
Kept(m) == m.samples # <<>> /\ m.sets = ParamSets

\* The size of mdat is filled in, and moov is written where the data ends.
Finished(m) ==
  [units |-> m.units, mdat |-> m.len, samples |-> m.samples, keys |-> m.keys]

-----------------------------------------------------------------------------
(* What a player finds in a finished file: moov behind mdat, the samples one *)
(* behind the other in mdat, and key frames where the table has them.        *)

SampleData(f, i) ==
  SubSeq(f.units, f.samples[i].offset + 1, f.samples[i].offset + f.samples[i].size)

SamplesFound(f) ==
  \A i \in DOMAIN f.samples :
    /\ f.samples[i].offset
         = IF i = 1 THEN 0 ELSE f.samples[i - 1].offset + f.samples[i - 1].size
    /\ i \in Range(f.keys) <=> "idr" \in Range(SampleData(f, i))

PlaysWhole(f) ==
  /\ SamplesFound(f)
  /\ f.mdat = Len(f.units)
  /\ LET last == f.samples[Len(f.samples)] IN last.offset + last.size = f.mdat
  /\ Range(f.keys) \subseteq DOMAIN f.samples
=============================================================================
