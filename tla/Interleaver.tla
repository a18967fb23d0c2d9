----------------------------- MODULE Interleaver -----------------------------
(***************************************************************************)
(* How an output with video and audio puts the packets of its encoders     *)
(* into one stream: interleave_packets and its helpers, obs-output.c.      *)
(*                                                                         *)
(* Every encoder has a thread of its own that delivers its packets in      *)
(* order; all that interleave_packets does under interleaved_mutex is one  *)
(* step.  Until every track has delivered, packets are collected with      *)
(* timestamps in system time.  Then the point where audio and video meet   *)
(* is found, what is before it is thrown away, and the timestamps start    *)
(* over at zero; from there a packet is sent once the other tracks have    *)
(* gone past it.                                                           *)
(*                                                                         *)
(* Time is in units of which every packet lasts a whole number.  An        *)
(* encoder may already run for another output: then its first packet here  *)
(* is not its first one.  Packets carry numbers, not pictures.             *)
(***************************************************************************)
EXTENDS Integers, Sequences, FiniteSets, SequencesExt

CONSTANTS
    VideoTracks, AudioTracks,
    Step,           \* Step[e]: how long a packet lasts
    StartTs,        \* StartTs[e]: start_ts, the system time of packet 0
    Lead,           \* Lead[e]: video: pts - dts; audio: the priming before pts 0
    Gop,            \* packets from one video keyframe to the next
    Starts,         \* the packets the encoders may be at when a capture begins
    Early,          \* encoders so fast that a packet may come before the output is active
    MaxSkew,        \* bound on how far one thread runs ahead of another
    MaxPackets,     \* bound on the packets of an encoder
    MaxSessions     \* bound on captures

Video(i) == <<"video", i>>
Audio(i) == <<"audio", i>>
Videos == {Video(i) : i \in VideoTracks}
Audios == {Audio(i) : i \in AudioTracks}
Encoders == Videos \cup Audios

ASSUME TracksAssumption ==
    /\ VideoTracks \subseteq Nat /\ 0 \in VideoTracks /\ IsFiniteSet(VideoTracks)
    /\ AudioTracks \subseteq Nat /\ AudioTracks # {} /\ IsFiniteSet(AudioTracks)
ASSUME StepAssumption == Step \in [Encoders -> Nat \ {0}]
\* The clock of the system is far past the lead of any encoder.
ASSUME TimeAssumption ==
    /\ Lead \in [Encoders -> Nat] /\ StartTs \in [Encoders -> Nat]
    /\ \A e, f \in Encoders : StartTs[e] > Lead[f]
\* INT64_MIN, which no lead comes near.
Never == -1000
ASSUME NeverAssumption == \A e \in Encoders : Lead[e] < -Never
ASSUME BoundsAssumption ==
    {Gop, MaxSkew, MaxPackets, MaxSessions} \subseteq Nat /\ Gop > 0
ASSUME EarlyAssumption == Early \subseteq Encoders
ASSUME StartsAssumption ==
    \* send_first_video_packet: the first packet is a keyframe.
    Starts \subseteq {s \in [Encoders -> 0..MaxPackets] :
                        \A e \in Videos : s[e] % Gop = 0}

VARIABLES
    \* struct obs_output
    active, interleaver_max_batch_size,
    received_audio, received_video, highest_audio_ts, highest_video_ts,
    audio_offsets, video_offsets, interleaved_packets, encoder_packet_times,
    \* the encoders
    hooked,         \* those that are started and deliver to this output
    next,           \* next[e]: the next packet of encoder e
    sessions,
    \* history
    sent            \* the packets handed to the implementation of the output

received == <<received_audio, received_video>>
highest == <<highest_audio_ts, highest_video_ts>>
offsets == <<audio_offsets, video_offsets>>
packets == <<interleaved_packets, encoder_packet_times>>
vars == <<active, interleaver_max_batch_size, received, highest, offsets, packets,
          hooked, next, sessions, sent>>

SystemTime(e, n) == StartTs[e] + n * Step[e]

\* send_off_encoder_packet: ts is dts_usec, here in system time.
Packet(e, n) ==
    LET pts == n * Step[e] - (IF e \in Audios THEN Lead[e] ELSE 0)
    IN [enc |-> e, n |-> n, key |-> e \in Audios \/ n % Gop = 0, pts |-> pts,
        dts |-> n * Step[e] - Lead[e], ts |-> SystemTime(e, n)]

IsVideo(p) == p.enc \in Videos

-----------------------------------------------------------------------------
(* Helpers on the queue, interleaved_packets                               *)

\* find_first_packet_type_idx, find_last_packet_type_idx; 0 if there is none.
FirstIdx(q, e) == SelectInSeq(q, LAMBDA p : p.enc = e)
LastIdx(q, e) == SelectLastInSeq(q, LAMBDA p : p.enc = e)
Has(q, e) == FirstIdx(q, e) # 0
First(q, e) == q[FirstIdx(q, e)]

Distance(a, b) == IF a < b THEN b - a ELSE a - b
Least(S) == CHOOSE x \in S : \A y \in S : x <= y
Greatest(S) == CHOOSE x \in S : \A y \in S : x >= y

\* Mut: keeps all that was collected.
StartIdxMut(q) == 1

\* get_interleaved_start_idx: where audio and video are closest together, but
\* the audio that primes a decoder is kept.
StartIdx(q) ==
    LET audios == {i \in DOMAIN q : ~IsVideo(q[i])}
        off(i) == Distance(q[i].ts, First(q, Video(0)).ts)
        closest == Least({i \in audios : \A j \in audios : off(i) <= off(j)})
        idx == Least({closest, FirstIdx(q, Video(0))})
        primes == q[Least({i \in audios : i >= idx})].pts <= 0
    IN IF primes THEN Least({idx} \cup {FirstIdx(q, a) : a \in {a \in Audios : Has(q, a)}})
       ELSE idx

\* prune_premature_packets, if every audio track and video track 0 are there:
\* how many packets to throw away because the first video packet is too far
\* from the audio.  The last audio track decides.
Premature(q) ==
    LET firsts == {FirstIdx(q, e) : e \in Audios \cup {Video(0)}}
        diff == First(q, Audio(Greatest(AudioTracks))).ts - First(q, Video(0)).ts
        longest == Greatest({Step[e] : e \in Audios})
        limit == IF Cardinality(Audios) > 1
                 THEN Greatest({Step[Video(0)], longest}) ELSE Step[Video(0)]
    IN IF diff > limit THEN Greatest(firsts) ELSE 0

\* insert_interleaved_packet: whether p goes in front of c.
GoesBefore(p, c) ==
    \/ p.ts < c.ts
    \/ /\ p.ts = c.ts /\ IsVideo(p)
       /\ ~(IsVideo(c) /\ p.enc[2] > c.enc[2])

Insert(q, p) ==
    LET idx == Least({i \in DOMAIN q : GoesBefore(p, q[i])} \cup {Len(q) + 1})
    IN InsertAt(q, idx, p)

\* discard_to_idx, of the first n packets.
Discarded(q, n) == SubSeq(q, n + 1, Len(q))

\* Mut: leaves the times of discarded packets behind.
TimesLeftMut(q, n, times) == times

\* Every video packet that goes takes the first times of its track along.
TimesLeft(q, n, times) ==
    LET left[i \in 0..n] ==
            IF i = 0 THEN times
            ELSE IF IsVideo(q[i]) THEN [left[i - 1] EXCEPT ![q[i].enc] = SubSeq(@, 2, Len(@))]
            ELSE left[i - 1]
    IN left[n]

\* resort_interleaved_packets: one packet after another goes into a new queue.
Resorted(q) ==
    LET new[i \in 0..Len(q)] == IF i = 0 THEN <<>> ELSE Insert(new[i - 1], q[i])
    IN new[Len(q)]

\* apply_interleaved_packet_offset
Shifted(p, aoff, voff) ==
    LET off == IF IsVideo(p) THEN voff[p.enc] ELSE aoff[p.enc]
    IN [p EXCEPT !.dts = @ - off, !.pts = @ - off, !.ts = p.dts - off]

-----------------------------------------------------------------------------
(* The capture begins and ends                                             *)

Init ==
    /\ active = FALSE /\ hooked = {}
    /\ interleaver_max_batch_size = 0
    /\ received_audio = FALSE /\ received_video = [e \in Videos |-> FALSE]
    /\ highest_audio_ts = 0 /\ highest_video_ts = [e \in Videos |-> Never]
    /\ audio_offsets = [e \in Audios |-> 0]
    /\ video_offsets = [e \in Videos |-> 0]
    /\ interleaved_packets = <<>>
    /\ encoder_packet_times = [e \in Videos |-> <<>>]
    /\ next = [e \in Encoders |-> 0]
    /\ sessions = 0 /\ sent = <<>>

\* hook_data_capture: reset_packet_data, and the encoders are started.
Hook ==
    /\ hooked = {} /\ ~active /\ sessions < MaxSessions
    /\ hooked' = Encoders /\ sessions' = sessions + 1
    /\ received_audio' = FALSE /\ received_video' = [e \in Videos |-> FALSE]
    /\ highest_audio_ts' = 0 /\ highest_video_ts' = [e \in Videos |-> Never]
    /\ audio_offsets' = [e \in Audios |-> 0]
    /\ video_offsets' = [e \in Videos |-> 0]
    /\ interleaved_packets' = <<>>
    /\ encoder_packet_times' = [e \in Videos |-> <<>>]
    /\ next' \in Starts
    /\ sent' = <<>>
    /\ UNCHANGED <<active, interleaver_max_batch_size>>

\* The packets of all encoders in twice the longest interval.
BatchSize ==
    LET longest == Greatest({Step[e] : e \in Encoders})
    IN FoldSet(LAMBDA e, sum : sum + (2 * longest) \div Step[e], 0, Encoders)

\* The rest of obs_output_begin_data_capture.
Activate ==
    /\ hooked # {} /\ ~active
    /\ interleaver_max_batch_size' = interleaver_max_batch_size + BatchSize
    /\ active' = TRUE
    /\ UNCHANGED <<received, highest, offsets, packets, hooked, next, sessions, sent>>

\* stop_video_encoders, stop_audio_encoders: one track after another, while
\* the others deliver on.
StopEncoder(e) ==
    /\ active /\ e \in hooked
    /\ \A f \in hooked : f[1] = e[1] => f[2] >= e[2]
    /\ e \in Audios => hooked \subseteq Audios
    /\ hooked' = hooked \ {e}
    /\ UNCHANGED <<active, interleaver_max_batch_size, received, highest, offsets, packets,
                   next, sessions, sent>>

\* end_data_capture_thread, after that.
EndCapture ==
    /\ active /\ hooked = {}
    /\ active' = FALSE
    /\ UNCHANGED <<interleaver_max_batch_size, received, highest, offsets, packets, hooked,
                   next, sessions, sent>>

-----------------------------------------------------------------------------
(* interleave_packets, while packets are collected                         *)

\* Audio encoders share a thread; the threads keep up with each other.
Ready(e) ==
    /\ e \in hooked /\ next[e] <= MaxPackets
    /\ \A f \in hooked \ {e} :
           SystemTime(e, next[e]) <= SystemTime(f, next[f])
               + (IF {e, f} \subseteq Audios THEN 0 ELSE MaxSkew)

Arrives(e) == Ready(e) /\ next' = [next EXCEPT ![e] = @ + 1]

Complete(ra, rv) == ra /\ \A v \in Videos : rv[v]
Started == Complete(received_audio, received_video)

\* Mut: takes any packet for the first one of its track.
UnwantedMut(p) == FALSE

\* "if first video frame is not a keyframe, discard until received"
Unwanted(p) == IsVideo(p) /\ ~received_video[p.enc] /\ ~p.key

\* The output is not active yet: the packet is lost.
DeliverEarly(e) ==
    /\ ~active /\ e \in Early /\ Arrives(e)
    /\ UNCHANGED <<active, interleaver_max_batch_size, received, highest, offsets,
                   packets, hooked, sessions, sent>>

\* Throws the packet away, and what is older than it.
DeliverUnwanted(e) ==
    LET p == Packet(e, next[e])
        newer == SelectInSeq(interleaved_packets, LAMBDA c : c.ts >= p.ts)
        n == IF newer = 0 THEN Len(interleaved_packets) ELSE newer - 1
    IN /\ active /\ Arrives(e) /\ Unwanted(p)
       /\ interleaved_packets' = Discarded(interleaved_packets, n)
       /\ encoder_packet_times' = TimesLeft(interleaved_packets, n, encoder_packet_times)
       /\ UNCHANGED <<active, interleaver_max_batch_size, received, highest, offsets,
                      hooked, sessions, sent>>

\* The queue with packet p of encoder e in it, and what is known of the tracks.
Collected(e, p) ==
    [q |-> Insert(interleaved_packets, p),
     times |-> IF IsVideo(p)
               THEN [encoder_packet_times EXCEPT ![e] = Append(@, p.pts)]
               ELSE encoder_packet_times,
     ra |-> received_audio \/ ~IsVideo(p),
     rv |-> IF IsVideo(p) THEN [received_video EXCEPT ![e] = TRUE] ELSE received_video,
     ok |-> TRUE]

Without(c, n) == [c EXCEPT !.q = Discarded(c.q, n), !.times = TimesLeft(c.q, n, c.times)]

NoAudio(c) == [c EXCEPT !.ra = FALSE, !.ok = FALSE]

\* get_audio_and_video_packets: a track that has run dry has to start again.
AllThere(c) ==
    LET missing == {i \in VideoTracks : ~Has(c.q, Video(i))}
    IN IF missing # {} THEN [c EXCEPT !.rv[Video(Least(missing))] = FALSE, !.ok = FALSE]
       ELSE IF \A a \in Audios : Has(c.q, a) THEN c ELSE NoAudio(c)

\* initialize_interleaved_packets, up to the offsets.
Initialized(c) ==
    IF ~AllThere(c).ok THEN AllThere(c)
    ELSE IF \E a \in Audios : c.q[LastIdx(c.q, a)].ts < First(c.q, Video(0)).ts
    THEN NoAudio(c)
    ELSE AllThere(Without(c, StartIdx(c.q) - 1))

\* prune_interleaved_packets, then the initialization.
Attempt(c) ==
    IF ~Has(c.q, Video(0)) THEN [c EXCEPT !.ok = FALSE]
    ELSE IF \E a \in Audios : ~Has(c.q, a) THEN NoAudio(c)
    ELSE Initialized(Without(c, IF Premature(c.q) # 0 THEN Premature(c.q)
                                ELSE StartIdx(c.q) - 1))

\* Some track is still missing, or has to be waited for again.
Waits(c) ==
    /\ interleaved_packets' = c.q /\ encoder_packet_times' = c.times
    /\ received_audio' = c.ra /\ received_video' = c.rv
    /\ UNCHANGED <<highest, offsets, sent>>

\* send_interleaved: the front of the queue goes out, with its times.
Sent(c) ==
    LET p == Head(c.q)
        k == IF IsVideo(p) THEN SelectInSeq(c.times[p.enc], LAMBDA t : t = p.pts) ELSE 0
    IN [q |-> Tail(c.q),
        times |-> IF k = 0 THEN c.times ELSE [c.times EXCEPT ![p.enc] = RemoveAt(@, k)],
        sent |-> Append(c.sent, [enc |-> p.enc, n |-> p.n, ts |-> p.ts, key |-> p.key,
                                 timed |-> IsVideo(p) => k # 0])]

\* Mut: does not ask whether the first audio packet primes the decoder.
AudioOffsetMut(p) == p.dts

AudioOffset(p) == IF p.dts > 0 THEN p.dts ELSE 0

\* The offsets of the tracks, all timestamps shifted by them, and the first
\* packet sent.
Begins(c) ==
    LET voff == [v \in Videos |-> First(c.q, v).pts]
        aoff == [a \in Audios |-> AudioOffset(First(c.q, a))]
        shifted == [i \in DOMAIN c.q |-> Shifted(c.q[i], aoff, voff)]
        latest(e) == {shifted[i].ts : i \in {i \in DOMAIN shifted : shifted[i].enc = e}}
        out == Sent([q |-> Resorted(shifted), sent |-> sent,
                     times |-> [v \in Videos |->
                                  [k \in DOMAIN c.times[v] |-> c.times[v][k] - voff[v]]]])
    IN /\ received_audio' = c.ra /\ received_video' = c.rv
       /\ video_offsets' = voff /\ audio_offsets' = aoff
       /\ highest_audio_ts' = Greatest(
             {highest_audio_ts - First(c.q, Audio(Least(AudioTracks))).ts}
             \cup UNION {latest(a) : a \in Audios})
       /\ highest_video_ts' = [v \in Videos |-> Greatest({highest_video_ts[v]} \cup latest(v))]
       /\ interleaved_packets' = out.q /\ encoder_packet_times' = out.times
       /\ sent' = out.sent

DeliverFirst(e) ==
    LET p == Packet(e, next[e])
        c == Collected(e, p)
    IN /\ active /\ Arrives(e) /\ ~Unwanted(p) /\ ~Started
       /\ IF ~Complete(c.ra, c.rv) THEN Waits(c)
          ELSE IF Attempt(c).ok THEN Begins(Attempt(c))
          ELSE Waits(Attempt(c))
       /\ UNCHANGED <<active, interleaver_max_batch_size, hooked, sessions>>

-----------------------------------------------------------------------------
(* interleave_packets, once the stream has started                         *)

\* Mut: does not look at the other video tracks.
HigherOpposingMut(p, ha, hv) == IF IsVideo(p) THEN ha > p.ts
                                ELSE hv[Video(0)] > p.ts

\* has_higher_opposing_ts: every other track has gone past p.
HigherOpposing(p, ha, hv) ==
    /\ \A v \in Videos \ {p.enc} : hv[v] > p.ts
    /\ IsVideo(p) => ha > p.ts

\* count_streamable_frames
Streamable(q, ha, hv) ==
    LET held == SelectInSeq(q, LAMBDA p : ~HigherOpposing(p, ha, hv))
    IN IF held = 0 THEN Len(q) ELSE held - 1

DeliverNext(e) ==
    LET out == Shifted(Packet(e, next[e]), audio_offsets, video_offsets)
        ha == IF IsVideo(out) THEN highest_audio_ts ELSE Greatest({highest_audio_ts, out.ts})
        hv == IF IsVideo(out) THEN [highest_video_ts EXCEPT ![e] = Greatest({@, out.ts})]
              ELSE highest_video_ts
        in == Collected(e, out)
        c == [q |-> in.q, times |-> in.times, sent |-> sent]
        n == Streamable(c.q, ha, hv)
        res == IF n = 0 THEN c
               ELSE IF n - 1 > interleaver_max_batch_size THEN Sent(Sent(c)) ELSE Sent(c)
    IN /\ active /\ Arrives(e) /\ Started
       /\ highest_audio_ts' = ha /\ highest_video_ts' = hv
       /\ interleaved_packets' = res.q /\ encoder_packet_times' = res.times
       /\ sent' = res.sent
       /\ UNCHANGED <<active, interleaver_max_batch_size, received, offsets, hooked,
                      sessions>>

-----------------------------------------------------------------------------

Next == \/ Hook \/ Activate \/ EndCapture
        \/ \E e \in Encoders : \/ StopEncoder(e)
                               \/ DeliverEarly(e) \/ DeliverUnwanted(e)
                               \/ DeliverFirst(e) \/ DeliverNext(e)

Spec == Init /\ [][Next]_vars

-----------------------------------------------------------------------------
(* Properties *)

TypeOK ==
    /\ {active, received_audio} \subseteq BOOLEAN /\ hooked \subseteq Encoders
    /\ interleaver_max_batch_size \in Nat /\ sessions \in Nat
    /\ received_video \in [Videos -> BOOLEAN]
    /\ highest_audio_ts \in Int /\ highest_video_ts \in [Videos -> Int]
    /\ audio_offsets \in [Audios -> Nat] /\ video_offsets \in [Videos -> Int]
    /\ \A i \in DOMAIN interleaved_packets : interleaved_packets[i].enc \in Encoders
    /\ encoder_packet_times \in [Videos -> Seq(Int)]
    /\ next \in [Encoders -> 0..MaxPackets + 1]

(* count_streamable_frames: what is sent "ensures that the timestamps are  *)
(* monotonic", over all tracks.                                            *)
InOrder == \A i \in 2..Len(sent) : sent[i - 1].ts <= sent[i].ts

Waiting(q, v) == {i \in DOMAIN q : q[i].enc = v}

\* Once the stream has started no packet is lost and none is sent twice: from a
\* packet on that was sent or waits, there are all of its encoder, in order, up
\* to the latest one.
NoGaps ==
    LET all == sent \o interleaved_packets
    IN sent # <<>> => \A e \in Encoders : \A i \in Waiting(all, e) :
          /\ \A j \in Waiting(all, e) : i < j => all[i].n < all[j].n
          /\ {all[j].n : j \in {j \in Waiting(all, e) : i <= j}} = all[i].n..next[e] - 1

\* A decoder can begin with the first packet of every video track.
StartsWithKey ==
    \A v \in Videos : \A i \in Waiting(sent, v) :
        sent[i].key \/ \E j \in Waiting(sent, v) : j < i

(* interleave_packets: however the beginning of the stream was cut out of  *)
(* what the encoders delivered, a decoder can play each track from its     *)
(* first packet to its last one.                                           *)
Playable == NoGaps /\ StartsWithKey

\* The times of every track are those of its packets in the queue, one entry
\* for every packet.
Matches(q, times) ==
    \A v \in Videos :
        /\ \A i, j \in Waiting(q, v) : q[i].pts = q[j].pts => i = j
        /\ IsInjective(times[v])
        /\ Range(times[v]) = {q[i].pts : i \in Waiting(q, v)}

(* The times of a video packet stay with it through offsets and pruning:   *)
(* encoder_packet_times holds those of the packets that wait, and          *)
(* send_interleaved finds those of the packet it sends.                    *)
TimesMatch ==
    /\ Matches(interleaved_packets, encoder_packet_times)
    /\ \A i \in DOMAIN sent : sent[i].timed

\* The system time of what plays at time 0 of a track.
Origin(e) == StartTs[e] + (IF e \in Videos THEN video_offsets[e] ELSE audio_offsets[e])

(* apply_interleaved_packet_offset: what plays together was captured        *)
(* together, to within a packet of the audio or of the video.              *)
InSync ==
    sent # <<>> => \A a \in Audios :
        Distance(Origin(a), Origin(Video(0))) <= Greatest({Step[a], Step[Video(0)]})
=============================================================================
