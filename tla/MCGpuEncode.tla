------------------------------ MODULE MCGpuEncode ------------------------------
(* Small instances of GpuEncode for TLC. *)
EXTENDS GpuEncode
=============================================================================
