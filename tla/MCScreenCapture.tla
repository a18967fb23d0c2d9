--------------------------- MODULE MCScreenCapture ---------------------------
(* Small instances of ScreenCapture for TLC. *)
EXTENDS ScreenCapture
=============================================================================
