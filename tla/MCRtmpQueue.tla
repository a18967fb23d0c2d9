----------------------------- MODULE MCRtmpQueue -----------------------------
(* Small instances of RtmpQueue for TLC. *)
EXTENDS RtmpQueue

\* Two tracks with their keyframes together, or one of them a frame later.
Together == [v \in VideoTracks |-> <<"key", "p", "b", "p">>]
Apart == [v \in VideoTracks |-> IF v = 0 THEN <<"key", "p", "b", "p">>
                                ELSE <<"key", "p", "p", "b", "p", "p">>]

Rates == [v \in VideoTracks |-> IF v = 0 THEN 4500 ELSE 1500]
\* The products of doubles that fall short, for shares of 6000 in hundreds:
\* 4500 * (4400 / 6000.0) is 3299.9999999999995.
Short == {<<4500, 1100, 6000>>, <<4500, 2200, 6000>>, <<4500, 4400, 6000>>}
\* Bitrates that are lost in part when they are shared out.
OddRates == [v \in VideoTracks |-> IF v = 0 THEN 153 ELSE 50]
\* A bitrate of which a single track does not get 100 and 99: 770 * (100 / 770.0).
SoleRate == [v \in VideoTracks |-> 770]
SoleShort == {<<770, 99, 770>>, <<770, 100, 770>>}
=============================================================================
