---------------------------- MODULE MCH264Stream ----------------------------
(* H264Stream with a ring of two frames and few clients.                     *)
EXTENDS H264Stream
=============================================================================
