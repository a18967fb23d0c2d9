------------------------------ MODULE RtmpQueue ------------------------------
(***************************************************************************)
(* The packets of an RTMP stream between the encoders and the network,     *)
(* plugins/obs-outputs/rtmp-stream.c: the queue that rtmp_stream_data      *)
(* fills and send_thread empties, and what happens when the network is too *)
(* slow: frames are dropped, or the bitrate of the encoders is lowered.    *)
(*                                                                         *)
(* Connecting and stopping are in RtmpStream; a connection is one step     *)
(* here.  The encoders deliver one packet at a time (interleave_packets    *)
(* calls under interleaved_mutex): of every frame, those of the video      *)
(* tracks and one of the audio.  Time is in frames.                        *)
(***************************************************************************)
EXTENDS Integers, Sequences, FiniteSets, SequencesExt

CONSTANTS
    VideoTracks,
    Pattern,                \* Pattern[v]: the kinds of the frames of a track, over and over
    drop_threshold, pframe_drop_threshold,
    Trigger,                \* DBR_TRIGGER_USEC
    Bitrates,               \* Bitrates[v]: what the user set
    Estimates,              \* what the send thread may take for the bitrate of the network
    FallsShort,             \* <<delta, share, overall>>: where doubles come out below
    MaxFrames,              \* bound on the frames of a session
    MaxSessions             \* bound on connections

ASSUME TracksAssumption == VideoTracks \subseteq Nat /\ IsFiniteSet(VideoTracks) /\ 0 \in VideoTracks
\* A stream begins with a keyframe.
ASSUME PatternAssumption ==
    \A v \in VideoTracks :
        /\ Pattern[v] \in Seq({"key", "p", "b"}) /\ Pattern[v] # <<>>
        /\ Pattern[v][1] = "key"
\* init_connect: drop_p is at least drop_b + 200.
ASSUME ThresholdAssumption ==
    {drop_threshold, pframe_drop_threshold, Trigger} \subseteq Nat
    /\ drop_threshold < pframe_drop_threshold
ASSUME BitrateAssumption == Bitrates \in [VideoTracks -> Nat] /\ Estimates \subseteq Nat \ 0..49
\* Only a product that is a whole number is small enough to be off by one.
ASSUME DoublesAssumption ==
    \A t \in FallsShort : /\ t \in Nat \X Nat \X Nat
                          /\ t[1] > 0 /\ 0 < t[2] /\ t[2] < t[3]
                          /\ (t[1] * t[2]) % t[3] = 0
ASSUME BoundsAssumption == {MaxFrames, MaxSessions} \subseteq Nat

VARIABLES
    \* struct rtmp_stream
    packets, send_sem, min_priority, last_dts,
    active, disconnected,
    stop_ts,            \* and stop_event: Running, 0, or the frame to stop at
    dbr_enabled, dbr_est_bitrate, dbr_orig_bitrate, dbr_prev_bitrate,
    dbr_cur_bitrate, dbr_inc_timeout, dbr_interpolation_table,
    spc,                \* where the send thread is
    \* the encoders
    bitrate,            \* their settings
    capturing,          \* they run for this output
    k,                  \* the packets they have delivered
    epc,                \* where rtmp_stream_data is
    sessions,
    \* history
    reference           \* the frame of a track a decoder has to predict from

queue == <<packets, send_sem, min_priority, last_dts>>
state == <<active, disconnected, stop_ts>>
dbr == <<dbr_est_bitrate, dbr_prev_bitrate, dbr_cur_bitrate, dbr_inc_timeout, bitrate>>
dbrSetup == <<dbr_enabled, dbr_orig_bitrate, dbr_interpolation_table>>
encoder == <<capturing, k, epc>>
vars == <<queue, state, dbr, dbrSetup, spc, encoder, sessions, reference>>

Running == -1
Audio == -1

\* OBS_NAL_PRIORITY_HIGHEST, _HIGH and _DISPOSABLE
Priority == [key |-> 3, p |-> 2, b |-> 0]

\* The order of the packets of a frame: the audio after the video.
Sources == SetToSeq(VideoTracks) \o <<Audio>>
Frame(i) == i \div Len(Sources)

\* Frame n of a track is predicted from the last one before it that is not
\* itself a "b".
Kind(v, n) == Pattern[v][(n % Len(Pattern[v])) + 1]
ReferenceOf(v, n) == CHOOSE m \in 0..n - 1 :
    Kind(v, m) # "b" /\ \A l \in m + 1..n - 1 : Kind(v, l) = "b"

\* The packets of a session, in the order of interleave_packets.
\* drop_priority comes from the NAL units: obs_parse_avc_packet.
Packet(i) ==
    LET src == Sources[(i % Len(Sources)) + 1]
        kind == IF src = Audio THEN "key" ELSE Kind(src, Frame(i))
    IN [track |-> src, ts |-> Frame(i), kind |-> kind, drop_priority |-> Priority[kind],
        session |-> sessions]

IsVideo(p) == p.track # Audio

Total(rates) == FoldSet(LAMBDA v, sum : sum + rates[v], 0, VideoTracks)

-----------------------------------------------------------------------------
(* The bitrate: what depends on dbr is kept in a record.                   *)

Dbr == [est |-> dbr_est_bitrate, prev |-> dbr_prev_bitrate, cur |-> dbr_cur_bitrate,
        timer |-> dbr_inc_timeout, rates |-> bitrate]

\* deltas[i] * delta_scale, two doubles, truncated.
Scaled(delta, share, overall) ==
    LET exact == (delta * share) \div overall
    IN IF <<delta, share, overall>> \in FallsShort THEN exact - 1 ELSE exact

\* dbr_set_bitrate: between the last column of the table that fits and the
\* next one.
SetBitrate(d) ==
    LET table == dbr_interpolation_table
        over == {c \in DOMAIN table : Total(table[c]) > d.cur}
        base == IF over = {} \/ 1 \in over THEN Len(table) ELSE Min(over) - 1
        upper == Min({base + 1, Len(table)})
        deltas == [v \in VideoTracks |-> table[upper][v] - table[base][v]]
        overall == Max({1, Total(deltas)})
        share == Min({d.cur - Total(table[base]), overall})
    IN [d EXCEPT !.rates = [v \in VideoTracks |->
                              table[base][v] + Scaled(deltas[v], share, overall)]]

\* dbr_inc_bitrate, once the timer is over.
Increased(d) ==
    LET cur == d.cur + dbr_orig_bitrate \div 10
    IN SetBitrate([d EXCEPT !.prev = d.cur, !.cur = Min({cur, dbr_orig_bitrate}),
                            !.timer = cur < dbr_orig_bitrate])

\* Mut: does not forget the bitrate it came from.
LoweredMut(d) ==
    LET new == IF d.est # 0 /\ d.est < d.cur THEN Max({(d.est \div 100) * 100, 50}) ELSE d.prev
    IN IF new \in {0, d.cur} THEN d
       ELSE SetBitrate([d EXCEPT !.cur = new, !.timer = TRUE])

\* dbr_bitrate_lowered: to what the network takes, or back to what it was.
Lowered(d) ==
    LET new == IF d.est # 0 /\ d.est < d.cur THEN Max({(d.est \div 100) * 100, 50}) ELSE d.prev
    IN IF new \in {0, d.cur} THEN d
       ELSE SetBitrate([d EXCEPT !.prev = 0, !.cur = new, !.timer = TRUE])

Keep(d) ==
    /\ dbr_est_bitrate' = d.est /\ dbr_prev_bitrate' = d.prev
    /\ dbr_cur_bitrate' = d.cur /\ dbr_inc_timeout' = d.timer
    /\ bitrate' = d.rates

-----------------------------------------------------------------------------
(* A connection                                                            *)

Init ==
    /\ packets = <<>> /\ send_sem = 0 /\ min_priority = 0 /\ last_dts = 0
    /\ active = FALSE /\ disconnected = FALSE /\ stop_ts = Running
    /\ dbr_enabled = FALSE /\ dbr_est_bitrate = 0 /\ dbr_orig_bitrate = 0
    /\ dbr_prev_bitrate = 0 /\ dbr_cur_bitrate = 0 /\ dbr_inc_timeout = FALSE
    /\ dbr_interpolation_table = <<>>
    /\ spc = "down"
    /\ bitrate = Bitrates /\ capturing = FALSE /\ k = 0 /\ epc = "idle"
    /\ sessions = 0
    /\ reference = [v \in VideoTracks |-> -1]

\* Mut: leaves the packets of the last session in the queue.
FreePacketsMut(q) == q

\* free_packets
FreePackets(q) == <<>>

\* init_connect, init_send and the begin of the capture.  The default table
\* is added to the one that is there.
Connect ==
    /\ spc = "down" /\ ~capturing /\ sessions < MaxSessions
    /\ packets' = FreePackets(packets) /\ send_sem' = 0 /\ min_priority' = 0
    /\ active' = TRUE /\ disconnected' = FALSE
    /\ dbr_enabled' \in BOOLEAN
    /\ dbr_orig_bitrate' = Total(bitrate) /\ dbr_cur_bitrate' = Total(bitrate)
    /\ dbr_est_bitrate' = 0 /\ dbr_inc_timeout' = FALSE
    /\ dbr_interpolation_table' =
           dbr_interpolation_table \o <<[v \in VideoTracks |-> 0], bitrate>>
    /\ spc' = "wait"
    /\ capturing' = TRUE /\ k' = 0
    /\ sessions' = sessions + 1
    /\ reference' = [v \in VideoTracks |-> -1]
    /\ UNCHANGED <<last_dts, stop_ts, dbr_prev_bitrate, bitrate, epc>>

\* rtmp_stream_stop, at a time or at once.  An encoder is a
\* frame behind.
Stop ==
    /\ active /\ spc \in {"wait", "sending"} /\ stop_ts = Running
    /\ \E ts \in {0, Frame(k) + 1} :
          /\ stop_ts' = ts
          /\ send_sem' = IF ts = 0 THEN send_sem + 1 ELSE send_sem
    /\ UNCHANGED <<packets, min_priority, last_dts, active, disconnected, dbr, dbrSetup,
                   spc, encoder, sessions, reference>>

\* end_data_capture_thread, once the send thread has asked for it.
EncodersStop ==
    /\ capturing /\ spc \in {"free", "inactive", "down"} /\ epc = "idle"
    /\ capturing' = FALSE
    /\ UNCHANGED <<queue, state, dbr, dbrSetup, spc, k, epc, sessions, reference>>

-----------------------------------------------------------------------------
(* rtmp_stream_data: an encoder delivers                                   *)

\* check_to_drop_frames: the time in the buffer from the first frame that is
\* no keyframe.
First(q) == q[SelectInSeq(q, LAMBDA p : IsVideo(p) /\ p.kind # "key")]
Buffered(q) ==
    IF Len(q) < 5 \/ ~\E i \in DOMAIN q : IsVideo(q[i]) /\ q[i].kind # "key" THEN 0
    ELSE last_dts - First(q).ts

\* The loop of drop_frames, from one queue to another: "do not drop audio data
\* or video keyframes".
Kept(q, priority) ==
    LET new_buf[i \in 0..Len(q)] ==
            IF i = 0 THEN <<>>
            ELSE IF ~IsVideo(q[i]) \/ q[i].drop_priority >= priority
                 THEN Append(new_buf[i - 1], q[i]) ELSE new_buf[i - 1]
    IN new_buf[Len(q)]

\* Mut: forgets what was dropped as soon as it has made room.
DropMut(c, threshold, priority) ==
    IF Buffered(c.q) <= threshold THEN c
    ELSE [q |-> Kept(c.q, priority),
          min |-> c.min]

\* Mut: waits for more than the priority it has dropped below.
DropPastMut(c, threshold, priority) ==
    IF Buffered(c.q) <= threshold THEN c
    ELSE [q |-> Kept(c.q, priority),
          min |-> Max({c.min, priority + 1})]

\* drop_frames, if there is too much.
Drop(c, threshold, priority) ==
    IF Buffered(c.q) <= threshold THEN c
    ELSE [q |-> Kept(c.q, priority),
          min |-> Max({c.min, priority})]

\* Mut: only the frames that nothing is predicted from.
DroppedMut(c) == Drop(c, drop_threshold, Priority["p"])

\* check_to_drop_frames for both kinds, one after the other.
Dropped(c) == Drop(Drop(c, drop_threshold, Priority["p"]), pframe_drop_threshold, Priority["key"])

\* The two checks before a video packet, with dynamic bitrate: timer tells
\* whether dbr_inc_timeout is over.
Adapted(timer) ==
    LET d == IF dbr_inc_timeout /\ timer THEN Increased(Dbr) ELSE Dbr
    IN IF Buffered(packets) >= Trigger /\ Len(packets) >= 5 THEN Lowered(d) ELSE d

\* The packet is dropped before the mutex if the stream is gone.
DataEnter ==
    /\ capturing /\ epc = "idle" /\ Frame(k) < MaxFrames
    /\ IF active /\ ~disconnected THEN epc' = "mutex" /\ k' = k
       ELSE epc' = "idle" /\ k' = k + 1
    /\ UNCHANGED <<queue, state, dbr, dbrSetup, spc, capturing, sessions, reference>>

DataGone ==
    /\ epc = "mutex" /\ disconnected
    /\ epc' = "idle" /\ k' = k + 1
    /\ UNCHANGED <<queue, state, dbr, dbrSetup, spc, capturing, sessions, reference>>

Added(p, c) == packets' = Append(c.q, p) /\ min_priority' = c.min

AddAudio ==
    LET p == Packet(k)
    IN /\ epc = "mutex" /\ ~disconnected /\ ~IsVideo(p)
       /\ Added(p, [q |-> packets, min |-> min_priority])
       /\ epc' = "post" /\ k' = k + 1
       /\ UNCHANGED <<send_sem, last_dts, state, dbr, dbrSetup, spc, capturing, sessions,
                      reference>>

\* "if currently dropping frames, drop packets until it reaches the desired
\* priority"
TooLow(p, c) == p.drop_priority < c.min

\* add_video_packet
AddVideo ==
    LET p == Packet(k)
        now == [q |-> packets, min |-> min_priority]
        c == IF dbr_enabled THEN now ELSE Dropped(now)
    IN /\ epc = "mutex" /\ ~disconnected /\ IsVideo(p)
       /\ IF TooLow(p, c)
          THEN /\ packets' = c.q /\ min_priority' = c.min
               /\ epc' = "idle" /\ UNCHANGED last_dts
          ELSE /\ Added(p, [c EXCEPT !.min = 0])
               /\ epc' = "post" /\ last_dts' = p.ts
       /\ IF dbr_enabled THEN \E timer \in BOOLEAN : Keep(Adapted(timer)) ELSE UNCHANGED dbr
       /\ k' = k + 1
       /\ UNCHANGED <<send_sem, state, dbrSetup, spc, capturing, sessions, reference>>

\* os_sem_post, for every packet added
Post ==
    /\ epc = "post"
    /\ epc' = "idle"
    /\ send_sem' = send_sem + 1
    /\ UNCHANGED <<packets, min_priority, last_dts, state, dbr, dbrSetup, spc, capturing, k,
                   sessions, reference>>

-----------------------------------------------------------------------------
(* send_thread                                                             *)

SendStep(at) == spc = at /\ UNCHANGED <<min_priority, last_dts, dbrSetup, encoder, sessions>>

\* A wakeup for a packet that was dropped.
WakeForNothing ==
    /\ SendStep("wait") /\ send_sem > 0 /\ stop_ts # 0 /\ packets = <<>>
    /\ send_sem' = send_sem - 1
    /\ UNCHANGED <<packets, state, dbr, spc, reference>>

StopNow ==
    /\ SendStep("wait") /\ send_sem > 0 /\ stop_ts = 0
    /\ send_sem' = send_sem - 1 /\ spc' = "leaving"
    /\ UNCHANGED <<packets, state, dbr, reference>>

\* can_shutdown_stream: the packet is late enough, or shutdown_timeout_ts over.
StopAtPacket ==
    /\ SendStep("wait") /\ send_sem > 0 /\ stop_ts > 0 /\ packets # <<>>
    /\ \E timeout \in BOOLEAN : timeout \/ Head(packets).ts >= stop_ts
    /\ send_sem' = send_sem - 1 /\ packets' = Tail(packets) /\ spc' = "leaving"
    /\ UNCHANGED <<state, dbr, reference>>

\* get_next_packet; it counts as received when it is on its way.
SendPacket ==
    LET p == Head(packets)
    IN /\ SendStep("wait") /\ send_sem > 0 /\ stop_ts # 0 /\ packets # <<>>
       /\ stop_ts > 0 => p.ts < stop_ts
       /\ send_sem' = send_sem - 1 /\ packets' = Tail(packets) /\ spc' = "sending"
       /\ reference' = IF IsVideo(p) /\ p.kind # "b"
                       THEN [reference EXCEPT ![p.track] = p.ts] ELSE reference
       /\ UNCHANGED <<state, dbr>>

\* dbr_add_frame: once there is enough to measure, an estimate of at least 50.
Sent ==
    /\ SendStep("sending")
    /\ spc' = "wait"
    /\ IF dbr_enabled THEN dbr_est_bitrate' \in Estimates \cup {0}
       ELSE UNCHANGED dbr_est_bitrate
    /\ UNCHANGED <<packets, send_sem, state, dbr_prev_bitrate, dbr_cur_bitrate,
                   dbr_inc_timeout, bitrate, reference>>

Broken ==
    /\ SendStep("sending")
    /\ spc' = "leaving" /\ disconnected' = TRUE
    /\ UNCHANGED <<packets, send_sem, active, stop_ts, dbr, reference>>

\* "reset bitrate on stop", and the end of the capture is asked for.
Leave ==
    /\ SendStep("leaving")
    /\ spc' = "free"
    /\ IF dbr_enabled /\ dbr_cur_bitrate # dbr_orig_bitrate
       THEN Keep(SetBitrate([Dbr EXCEPT !.cur = dbr_orig_bitrate]))
       ELSE UNCHANGED dbr
    /\ UNCHANGED <<packets, send_sem, state, reference>>

FreeRest ==
    /\ SendStep("free")
    /\ spc' = "inactive" /\ packets' = FreePackets(packets)
    /\ UNCHANGED <<send_sem, state, dbr, reference>>

GoInactive ==
    /\ SendStep("inactive")
    /\ spc' = "down" /\ active' = FALSE /\ stop_ts' = Running
    /\ UNCHANGED <<packets, send_sem, disconnected, dbr, reference>>

-----------------------------------------------------------------------------

Next == \/ Connect \/ Stop \/ EncodersStop
        \/ DataEnter \/ DataGone \/ AddAudio \/ AddVideo \/ Post
        \/ WakeForNothing \/ StopNow \/ StopAtPacket \/ SendPacket
        \/ Sent \/ Broken \/ Leave \/ FreeRest \/ GoInactive

Spec == Init /\ [][Next]_vars

-----------------------------------------------------------------------------
(* Properties *)

Sending == spc \in {"wait", "sending"}

TypeOK ==
    /\ send_sem \in Nat /\ min_priority \in {0, 2, 3} /\ last_dts \in 0..MaxFrames
    /\ {active, disconnected, dbr_enabled, dbr_inc_timeout, capturing} \subseteq BOOLEAN
    /\ {dbr_est_bitrate, dbr_orig_bitrate, dbr_prev_bitrate, dbr_cur_bitrate} \subseteq Nat
    /\ bitrate \in [VideoTracks -> Nat]
    /\ stop_ts \in {Running} \cup 0..MaxFrames + 1
    /\ spc \in {"down", "wait", "sending", "leaving", "free", "inactive"}
    /\ epc \in {"idle", "mutex", "post"}

(* drop_priority: a decoder can show whatever is sent.  When frames are    *)
(* dropped, those that are predicted from them are too: in what a track    *)
(* still has in the queue every frame follows the one it is predicted      *)
(* from, the first one that of the packets that went out.                  *)
Decodable ==
    Sending => \A i \in DOMAIN packets :
        LET p == packets[i]
            before == {packets[j].ts : j \in
                          {j \in 1..i - 1 : packets[j].track = p.track /\ packets[j].kind # "b"}}
        IN IsVideo(p) /\ p.kind # "key" =>
               ReferenceOf(p.track, p.ts) = Max(before \cup {reference[p.track]})

\* os_sem_post: the send thread does not sleep while a packet waits.
NoStuckPacket ==
    Sending => send_sem + (IF epc = "post" THEN 1 ELSE 0) >= Len(packets)

\* The longest run of "b" frames among the frames of a session.
LongestRun ==
    Max({n \in 0..MaxFrames : \E v \in VideoTracks, f \in 0..MaxFrames :
             f + n <= MaxFrames /\ \A m \in f..f + n - 1 : Kind(v, m) = "b"})

\* check_to_drop_frames: without dynamic bitrate, a network that has stopped does
\* not fill the memory with frames that may be dropped.  While "b" frames are
\* turned away the time in the buffer stands still; the frame after them is let in.
BufferBounded ==
    ~dbr_enabled /\ Sending => Buffered(packets) <= pframe_drop_threshold + 1 + LongestRun

\* free_packets: a connection sends only what was encoded for it, however the
\* end of the one before met the encoders.
OwnPackets == Sending => \A i \in DOMAIN packets : packets[i].session = sessions

(* send_thread: the queue and its semaphore agree while packets are added, *)
(* announced, dropped and taken by different threads, and connections      *)
(* follow each other: every packet of this connection is announced, and    *)
(* there are none of another.                                              *)
QueueIsServed == NoStuckPacket /\ OwnPackets

(* dbr_bitrate_lowered: congestion never makes the bitrate go up; it goes  *)
(* up by a step of dbr_inc_bitrate, or back to the original at the end.    *)
UpByStep ==
    [][dbr_cur_bitrate' > dbr_cur_bitrate =>
         \/ dbr_cur_bitrate' <= dbr_cur_bitrate + dbr_orig_bitrate \div 10
         \/ dbr_cur_bitrate' = dbr_orig_bitrate' /\ spc # spc']_vars

\* dbr_set_bitrate: the tracks together get no more than the bitrate, none more
\* than the user gave it, and what is lost in rounding is small.
BitrateFits ==
    dbr_enabled /\ Sending =>
        /\ Total(bitrate) \in dbr_cur_bitrate - Cardinality(VideoTracks)..dbr_cur_bitrate
        /\ \A v \in VideoTracks : bitrate[v] <= Bitrates[v]

(* add_video_packet: a network that is too slow is met in one of two ways, *)
(* and either keeps to its bound: the time in the queue when frames are    *)
(* dropped, the bitrate of all tracks together when it is adapted.         *)
CongestionIsMet == BufferBounded /\ BitrateFits

(* "reset bitrate on stop": the settings of the encoders are the user's    *)
(* again when the stream is down.                                          *)
BitrateRestored == spc = "down" /\ ~capturing => bitrate = Bitrates

\* init_connect: what it finds of the bitrate an earlier stream came from is not
\* above the settings of the encoders, though dbr_prev_bitrate is never reset.
PreviousInRange == spc = "down" /\ ~capturing => dbr_prev_bitrate <= Total(bitrate)
=============================================================================
