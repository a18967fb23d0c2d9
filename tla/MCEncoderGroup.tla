---------------------------- MODULE MCEncoderGroup ----------------------------
(* Small instances of EncoderGroup for TLC. *)
EXTENDS EncoderGroup, TLC

CONSTANTS p, q

FullAndHalf == (p :> 1) @@ (q :> 2)
FullRate == (p :> 1) @@ (q :> 1)
=============================================================================
