------------------------------ MODULE MCVideoIO ------------------------------
(* Small instances of VideoIO for TLC. *)
EXTENDS VideoIORefinement

CONSTANTS a, b, c

Mixed == (a :> 1) @@ (b :> 2)
EverySecond == (a :> 2) @@ (b :> 2) @@ (c :> 2)
=============================================================================
