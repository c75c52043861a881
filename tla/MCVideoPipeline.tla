--------------------------- MODULE MCVideoPipeline ---------------------------
(* VideoPipeline with a few workers, frames and buffers.                     *)
EXTENDS VideoPipeline, TLC

\* Buffers of the driver are alike, so are heap buffers, workers and sizes.
Symmetric ==
  Permutations(VBufs) \cup Permutations(Bufs) \cup Permutations(Workers)
    \cup Permutations(Sizes)

\* Two capture sessions with one reload, or one with two.
FewRestarts == cam.sessions + pool.reloads <= 3
=============================================================================
