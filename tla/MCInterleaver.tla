---------------------------- MODULE MCInterleaver ----------------------------
(* Small instances of Interleaver for TLC. *)
EXTENDS Interleaver

AudioOnly == Audios
SecondVideo == {Video(1)}

\* Two video tracks at one rate and audio at another.
Rates == [e \in Encoders |-> IF e \in Videos THEN 3 ELSE 2]
Clock == [e \in Encoders |-> IF e \in Videos THEN 10 ELSE 11 + e[2]]
Leads == [e \in Encoders |-> IF e \in Videos THEN 3 ELSE 2]

\* The encoders are new, or run already: the audio may be new as well, and
\* what comes first of it is near what comes first of the video, or not.
Fresh == [e \in Encoders |-> 0]
Running(n) == [e \in Encoders |-> IF e \in Videos THEN 2 ELSE n]
OnlyFresh == {Fresh}
FreshOrRunning == {Fresh} \cup {Running(n) : n \in 1..3}
=============================================================================
