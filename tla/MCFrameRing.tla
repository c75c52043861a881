----------------------------- MODULE MCFrameRing -----------------------------
(* FrameRing on two slots: every slot is reused within three frames.         *)
EXTENDS FrameRing, TLC

\* Buffers of the driver are alike, and so are heap buffers.
Symmetric == Permutations(VBufs) \cup Permutations(Bufs)
=============================================================================
