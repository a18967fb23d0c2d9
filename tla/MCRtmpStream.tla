----------------------------- MODULE MCRtmpStream -----------------------------
(* Small instances of RtmpStream for TLC. *)
EXTENDS RtmpStream
=============================================================================
