----------------------------- MODULE EncoderGroup -----------------------------
(***************************************************************************)
(* GOP-aligned encoder groups, libobs/obs-encoder.c.                       *)
(*                                                                         *)
(* The encoders of a group encode the same pictures at different sizes or  *)
(* rates.  They wait for each other to start (start_timestamp) and, when   *)
(* their settings are updated, apply the update on one common frame, so    *)
(* that the key frame it causes is at the same pts on every track.         *)
(*                                                                         *)
(* Each encoder is fed by a thread of its own: the video thread of its     *)
(* video mix (e \in Raw, receive_video) or its GPU encode thread           *)
(* (gpu_encode_thread).  Ticks are the frames of the main clock; pts are in *)
(* ticks (timebase_num = 1).  Everything under group->mutex is one step.   *)
(* An output starts its encoders one by one and stops them one by one; a   *)
(* reconnecting output does so again with the same encoders and group.     *)
(***************************************************************************)
EXTENDS Integers, FiniteSets

CONSTANTS
    Encoders,
    Divisor,        \* Divisor[e]: frame_rate_divisor
    Raw,            \* the encoders fed by receive_video
    Paired,         \* the encoders paired with an audio encoder
    MayFail,        \* the encoders whose encode call may fail
    MaxTicks,       \* bound on the clock
    MaxLead,        \* bound on how many frames wait in front of an encoder
    MaxUpdates,     \* bound on obs_encoder_update calls
    MaxSessions     \* bound on the times the output starts its encoders

ASSUME EncodersAssumption == IsFiniteSet(Encoders) /\ Encoders # {}
ASSUME DivisorAssumption == Divisor \in [Encoders -> Nat \ {0}]
ASSUME SetsAssumption == /\ Raw \subseteq Encoders
                         /\ Paired \subseteq Encoders
                         /\ MayFail \subseteq Encoders
ASSUME BoundsAssumption ==
    {MaxTicks, MaxLead, MaxUpdates, MaxSessions} \subseteq Nat

VARIABLES
    \* struct obs_encoder_group
    num_encoders_started, start_timestamp, frame_rate_divisors_lcm,
    reconfigure_request, next_pts, encoders_updated_next_pts,
    encoders_reconfigured, reconfigure_again,
    \* struct obs_encoder, by encoder
    active, start_ts, cur_pts, counter,
    last_reconfigure_request, last_handled_reconfigure_request,
    \* around them
    now,            \* the next tick of the graphics thread
    frame,          \* frame[e]: the next tick encoder e is given
    ready,          \* obs->video.ready_encoder_groups is not empty
    audio_ready,    \* the paired audio encoder has received audio
    phase,          \* what the output is doing with its encoders
    sessions, updates,
    \* history
    pending,        \* encoders with an update that was not applied yet
    asked,          \* the tick of the latest update
    applied         \* <<pts, e>>: e reconfigured at pts, in this session

request == <<reconfigure_request, next_pts, encoders_updated_next_pts,
             encoders_reconfigured, reconfigure_again>>
start == <<num_encoders_started, start_timestamp, frame_rate_divisors_lcm>>
ids == <<last_reconfigure_request, last_handled_reconfigure_request>>
feed == <<start_ts, cur_pts, counter>>
control == <<phase, sessions>>
history == <<pending, asked, applied>>
vars == <<request, start, ids, feed, active, now, frame, ready, audio_ready,
          control, updates, history>>

\* A timestamp is 0 when unset; ticks start at 1.
Unset == 0

Lcm(a, b) == CHOOSE n \in 1..(a * b) :
                /\ n % a = 0 /\ n % b = 0
                /\ \A m \in 1..(n - 1) : ~(m % a = 0 /\ m % b = 0)

-----------------------------------------------------------------------------

Init ==
    /\ num_encoders_started = 0 /\ start_timestamp = Unset
    /\ frame_rate_divisors_lcm = 1
    /\ reconfigure_request = 0 /\ next_pts = 0 /\ encoders_updated_next_pts = 0
    /\ encoders_reconfigured = 0 /\ reconfigure_again = FALSE
    /\ active = {}
    /\ start_ts = [e \in Encoders |-> Unset]
    /\ cur_pts = [e \in Encoders |-> 0]
    /\ counter = [e \in Encoders |-> 0]
    /\ last_reconfigure_request = [e \in Encoders |-> 0]
    /\ last_handled_reconfigure_request = [e \in Encoders |-> 0]
    /\ now = 1 /\ frame = [e \in Encoders |-> 1]
    /\ ready = FALSE /\ audio_ready = FALSE
    /\ phase = "down" /\ sessions = 0 /\ updates = 0
    /\ pending = {} /\ asked = 0 /\ applied = {}

-----------------------------------------------------------------------------
(* The output: hook_data_capture starts every encoder, the end of the data *)
(* capture stops every encoder.                                            *)

Begin ==
    /\ phase = "down" /\ sessions < MaxSessions
    /\ phase' = "starting" /\ sessions' = sessions + 1
    /\ UNCHANGED <<request, start, ids, feed, active, now, frame, ready,
                   audio_ready, updates, history>>

\* Mut: add_connection forgets to count the encoder.
OneMoreMut == num_encoders_started

\* The started encoders once another one is.
OneMore == num_encoders_started + 1

\* Mut: the first encoder may start the group.
AllStartedMut(n) == n > 0

\* num_encoders_started >= encoders.num
AllStarted(n) == n >= Cardinality(Encoders)

\* obs_encoder_start of an encoder that is stopped: it was shut down, so
\* start_ts and the counters are fresh; add_connection.
StartEncoder(e) ==
    /\ phase = "starting" /\ e \notin active
    /\ active' = active \cup {e}
    /\ start_ts' = [start_ts EXCEPT ![e] = Unset]
    /\ cur_pts' = [cur_pts EXCEPT ![e] = 0]
    /\ counter' = [counter EXCEPT ![e] = 0]
    /\ frame' = [frame EXCEPT ![e] = now]
    /\ num_encoders_started' = OneMore
    /\ frame_rate_divisors_lcm' = Lcm(frame_rate_divisors_lcm, Divisor[e])
    /\ ready' = (ready \/ AllStarted(OneMore))
    /\ phase' = IF active' = Encoders THEN "up" ELSE "starting"
    /\ UNCHANGED <<request, start_timestamp, ids, now, audio_ready, sessions,
                   updates, history>>

End ==
    /\ phase = "up"
    /\ phase' = IF active = {} THEN "down" ELSE "stopping"
    /\ UNCHANGED <<request, start, ids, feed, active, now, frame, ready,
                   audio_ready, sessions, updates, history>>

\* remove_connection; the last one out resets the group.  The encoders keep
\* the request ids they have seen.
RemoveConnection(e) ==
    /\ active' = active \ {e}
    /\ num_encoders_started' = num_encoders_started - 1
    /\ IF num_encoders_started = 1
       THEN /\ start_timestamp' = Unset /\ frame_rate_divisors_lcm' = 1
            /\ reconfigure_request' = 0 /\ next_pts' = 0
            /\ encoders_reconfigured' = 0 /\ encoders_updated_next_pts' = 0
            /\ reconfigure_again' = FALSE
            /\ applied' = {}
       ELSE UNCHANGED <<request, start_timestamp, frame_rate_divisors_lcm, applied>>
    /\ pending' = pending \ {e}     \* its settings are read when it is created
    /\ UNCHANGED asked

\* obs_encoder_stop
StopEncoder(e) ==
    /\ phase = "stopping" /\ e \in active
    /\ RemoveConnection(e)
    /\ phase' = IF active' = {} THEN "down" ELSE "stopping"
    /\ audio_ready' = (audio_ready /\ active' # {})
    /\ UNCHANGED <<ids, feed, now, frame, ready, sessions, updates>>

\* receive_audio of the paired audio encoder, for the first time.
AudioArrives ==
    /\ phase # "down" /\ ~audio_ready /\ Paired # {}
    /\ audio_ready' = TRUE
    /\ UNCHANGED <<request, start, ids, feed, active, now, frame, ready, control,
                   updates, history>>

-----------------------------------------------------------------------------
(* obs_encoder_update *)

\* encoder_group_new_reconfigure_request
NewRequest ==
    /\ reconfigure_request' = reconfigure_request + 1
    /\ encoders_updated_next_pts' = 0
    /\ encoders_reconfigured' = 0
    /\ reconfigure_again' = FALSE

Update(e) ==
    /\ e \in active /\ updates < MaxUpdates
    /\ IF \/ reconfigure_request = 0
          \/ encoders_reconfigured = Cardinality(Encoders)
       THEN NewRequest
       ELSE /\ reconfigure_again' =
                 (\/ reconfigure_again
                  \/ last_handled_reconfigure_request[e] = reconfigure_request)
            /\ UNCHANGED <<reconfigure_request, encoders_updated_next_pts,
                           encoders_reconfigured>>
    /\ updates' = updates + 1
    /\ pending' = pending \cup {e} /\ asked' = now
    /\ UNCHANGED <<next_pts, start, ids, feed, active, now, frame, ready,
                   audio_ready, control, applied>>

-----------------------------------------------------------------------------
(* The graphics thread: video_sleep moves the clock and lets a group whose *)
(* encoders have all been started begin with the next frame.               *)

\* *p_time: the frame after the sleep.
StartFrame == now + 1

Tick ==
    /\ now < MaxTicks
    /\ \A e \in active : now - frame[e] < MaxLead
    /\ now' = now + 1
    /\ start_timestamp' =
         IF /\ ready /\ start_timestamp = Unset
            /\ AllStarted(num_encoders_started)
         THEN StartFrame ELSE start_timestamp
    /\ ready' = FALSE
    /\ UNCHANGED <<num_encoders_started, frame_rate_divisors_lcm, request, ids,
                   feed, active, frame, audio_ready, control, updates, history>>

-----------------------------------------------------------------------------
(* The thread that feeds encoder e: receive_video or gpu_encode_thread.    *)

\* The next boundary all encoders of the group have a frame at.
NextBoundary(e) ==
    LET pts == cur_pts[e] + Divisor[e]
        step == frame_rate_divisors_lcm
    IN IF pts % step = 0 THEN pts ELSE (pts \div step + 1) * step

IsNew(e) == last_reconfigure_request[e] # reconfigure_request

\* Mut: does not wait for the encoders that have not seen the request.
MayReconfigureMut(e) ==
    /\ ~IsNew(e)
    /\ cur_pts[e] = next_pts
    /\ last_handled_reconfigure_request[e] # last_reconfigure_request[e]

\* All started encoders know next_pts, and this is the frame.
MayReconfigure(e) ==
    /\ ~IsNew(e)
    /\ encoders_updated_next_pts = num_encoders_started
    /\ cur_pts[e] = next_pts
    /\ last_handled_reconfigure_request[e] # last_reconfigure_request[e]

\* Mut: forgets an update that came while the group was reconfiguring.
RequestAgainMut == UNCHANGED <<reconfigure_request, encoders_updated_next_pts,
                               reconfigure_again>>
                   /\ encoders_reconfigured' = encoders_reconfigured + 1

\* One more encoder has reconfigured; the last one starts over if asked to.
RequestAgain ==
    IF encoders_reconfigured + 1 = Cardinality(Encoders) /\ reconfigure_again
    THEN NewRequest
    ELSE /\ encoders_reconfigured' = encoders_reconfigured + 1
         /\ UNCHANGED <<reconfigure_request, encoders_updated_next_pts,
                        reconfigure_again>>

\* handle_encoder_group_reconfigure_request, then the update in do_encode.
HandleRequest(e) ==
    \/ /\ MayReconfigure(e)
       /\ last_handled_reconfigure_request' =
            [last_handled_reconfigure_request EXCEPT ![e] = last_reconfigure_request[e]]
       /\ RequestAgain
       /\ pending' = pending \ {e}
       /\ applied' = applied \cup {<<cur_pts[e], e>>}
       /\ UNCHANGED <<last_reconfigure_request, next_pts>>
    \/ /\ ~MayReconfigure(e)
       /\ IsNew(e) \/ cur_pts[e] = next_pts
       /\ last_reconfigure_request' =
            [last_reconfigure_request EXCEPT ![e] = reconfigure_request]
       /\ next_pts' = IF NextBoundary(e) > next_pts THEN NextBoundary(e) ELSE next_pts
       /\ encoders_updated_next_pts' = encoders_updated_next_pts + (IF IsNew(e) THEN 1 ELSE 0)
       /\ UNCHANGED <<last_handled_reconfigure_request, reconfigure_request,
                      encoders_reconfigured, reconfigure_again, pending, applied>>
    \/ /\ ~MayReconfigure(e) /\ ~IsNew(e) /\ cur_pts[e] # next_pts
       /\ UNCHANGED <<request, ids, pending, applied>>

Encode(e) ==
    /\ HandleRequest(e)
    /\ start_ts' = [start_ts EXCEPT ![e] = IF @ = Unset THEN frame[e] ELSE @]
    /\ cur_pts' = [cur_pts EXCEPT ![e] = @ + Divisor[e]]

\* Mut: starts with the first frame it gets.
HeldBackMut(e) == start_ts[e] = Unset /\ e \in Paired /\ ~audio_ready

\* The frame does not start the group, or there is no audio to go with it.
HeldBack(e) ==
    /\ start_ts[e] = Unset
    /\ \/ start_timestamp # frame[e]
       \/ e \in Paired /\ ~audio_ready

CountFrame(e) == counter' = [counter EXCEPT ![e] = (@ + 1) % Divisor[e]]

\* A frame reaches the encoder.  The raw path has counted it against the
\* divisor before the encoder sees it (video_output_cur_frame); the GPU path
\* counts the frames that were not held back.
Receive(e) ==
    /\ e \in active /\ frame[e] < now
    /\ frame' = [frame EXCEPT ![e] = @ + 1]
    /\ IF HeldBack(e)
       THEN /\ IF e \in Raw THEN CountFrame(e) ELSE UNCHANGED counter
            /\ UNCHANGED <<request, ids, start_ts, cur_pts, pending, applied>>
       ELSE /\ CountFrame(e)
            /\ IF counter[e] # 0
               THEN UNCHANGED <<request, ids, start_ts, cur_pts, pending, applied>>
               ELSE Encode(e)
    /\ UNCHANGED <<start, active, now, ready, audio_ready, control, updates, asked>>

\* The encode call fails: full_stop disconnects the encoder on the spot.  On
\* the GPU path the disconnection does not return (GpuEncode).
Fail(e) ==
    /\ e \in active \cap MayFail \cap Raw /\ phase = "up"
    /\ start_ts[e] # Unset
    /\ RemoveConnection(e)
    /\ UNCHANGED <<ids, feed, now, frame, ready, audio_ready, control, updates>>

-----------------------------------------------------------------------------

Next == \/ Begin \/ End \/ AudioArrives \/ Tick
        \/ \E e \in Encoders : \/ StartEncoder(e) \/ StopEncoder(e)
                               \/ Update(e) \/ Receive(e) \/ Fail(e)

Spec == Init /\ [][Next]_vars

-----------------------------------------------------------------------------
(* Properties *)

Running(e) == e \in active /\ start_ts[e] # Unset

TypeOK ==
    /\ num_encoders_started \in Nat /\ start_timestamp \in Nat
    /\ frame_rate_divisors_lcm \in Nat \ {0}
    /\ reconfigure_request \in Nat /\ next_pts \in Nat
    /\ encoders_updated_next_pts \in Nat /\ encoders_reconfigured \in Nat
    /\ reconfigure_again \in BOOLEAN
    /\ active \subseteq Encoders /\ pending \subseteq active
    /\ start_ts \in [Encoders -> Nat] /\ cur_pts \in [Encoders -> Nat]
    /\ counter \in [Encoders -> Nat] /\ frame \in [Encoders -> Nat]
    /\ last_reconfigure_request \in [Encoders -> Nat]
    /\ last_handled_reconfigure_request \in [Encoders -> Nat]
    /\ now \in Nat /\ ready \in BOOLEAN /\ audio_ready \in BOOLEAN
    /\ phase \in {"down", "starting", "up", "stopping"}
    /\ sessions \in Nat /\ updates \in Nat /\ asked \in Nat
    /\ applied \subseteq (Nat \X Encoders)

(* Equal pts mean equal pictures: the encoders of a group count their pts  *)
(* from one start frame, and none of them slips.                           *)
SamePictureSamePts ==
    \A e \in Encoders : Running(e) =>
        /\ start_ts[e] = start_timestamp
        /\ start_ts[e] + cur_pts[e] \in frame[e]..(frame[e] + Divisor[e] - 1)

(* obs_encoder_update: "encoders generally start new GOPs/insert IDR       *)
(* frames when reconfigured, so we need to reconfigure them all on the     *)
(* same frame."  While the whole group runs: where one encoder has         *)
(* reconfigured, no other goes past without doing the same.                *)
ReconfigureTogether ==
    active = Encoders => \A p \in {x[1] : x \in applied} : \A e \in Encoders :
        Running(e) /\ cur_pts[e] > p => <<p, e>> \in applied

\* An update is applied within this many ticks.  Each of two requests (another
\* one if the update came while the group was reconfiguring) has to be seen by
\* every encoder, up to a lead behind the first, and waits for a common boundary.
Patience == 3 * (MaxLead - 1) + 4 * frame_rate_divisors_lcm

(* obs_encoder_update: the changes "apply at the next possible moment in   *)
(* the encoder / GPU encoder thread": while the whole group encodes, an    *)
(* update is applied once every encoder has gone on long enough.           *)
UpdateApplied ==
    (\A e \in Encoders : Running(e)) /\ pending # {} =>
        \E f \in Encoders : \/ frame[f] < asked + Patience
                            \/ frame[f] < start_timestamp + Patience

(* No encoder of the group is past the common start frame without having   *)
(* started: it would wait for a timestamp that does not come again.  An    *)
(* encoder that waits for its audio at that frame does miss it.            *)
NoMissedStart ==
    \A e \in active \ Paired : start_timestamp # Unset /\ frame[e] > start_timestamp
        => start_ts[e] # Unset
=============================================================================
