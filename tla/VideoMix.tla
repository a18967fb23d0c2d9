------------------------------- MODULE VideoMix -------------------------------
(***************************************************************************)
(* The frame loop of the graphics thread for one video mix,                *)
(* libobs/obs-video.c: what is active is looked up once per frame, the     *)
(* picture is rendered and staged, the picture staged before is downloaded *)
(* and put out under the time it was rendered for, and video_sleep notes   *)
(* the time and the length of the frame.                                   *)
(*                                                                         *)
(* A picture is named by the video_time it was rendered at; time is in     *)
(* ticks of the output clock.  The GPU encoders, which are given textures  *)
(* in the same loop, are in GpuEncode.                                     *)
(***************************************************************************)
EXTENDS Integers, Sequences

CONSTANTS
    MaxTime,        \* bound on the clock
    MaxCount,       \* bound on the ticks a frame takes
    MaxToggles,     \* bound on how often raw output is switched
    MapMayFail      \* whether gs_stagesurface_map may fail

ASSUME LoopAssumption == {MaxTime, MaxToggles} \subseteq Nat
ASSUME CountAssumption == MaxCount \in Nat \ {0}
ASSUME MapAssumption == MapMayFail \in BOOLEAN

VARIABLES
    gpc,                    \* where the loop stands
    video_time,
    raw_active,             \* somebody wants raw frames
    gpu_encoder_active,     \* how many GPU encoders are started
    raw_was_active, gpu_was_active,
    vframe_info_buffer, vframe_info_buffer_gpu,
    cur_texture,
    textures_copied,        \* the picture staged in a surface, or None
    \* history
    toggles,
    raw_out                 \* the frame put out last since raw output began

mixVars == <<gpc, video_time, raw_active, gpu_encoder_active, raw_was_active,
             gpu_was_active, vframe_info_buffer, vframe_info_buffer_gpu,
             cur_texture, textures_copied, toggles, raw_out>>

\* Times start at 1.
None == 0
NUM_TEXTURES == 2
Surfaces == 0..(NUM_TEXTURES - 1)
NoFrame == [picture |-> None, timestamp |-> None, count |-> 0]

MixInit ==
    /\ gpc = "update" /\ video_time = 1
    /\ raw_active \in BOOLEAN /\ gpu_encoder_active = 0
    /\ raw_was_active = FALSE /\ gpu_was_active = FALSE
    /\ vframe_info_buffer = <<>> /\ vframe_info_buffer_gpu = <<>>
    /\ cur_texture = 0 /\ textures_copied = [s \in Surfaces |-> None]
    /\ toggles = 0 /\ raw_out = NoFrame

-----------------------------------------------------------------------------

\* start_raw_video, stop_raw_video: the first connection and the last.  Nobody
\* looks at raw_active between two updates.
ToggleRaw ==
    /\ gpc = "update" /\ toggles < MaxToggles
    /\ toggles' = toggles + 1
    /\ raw_active' = ~raw_active
    /\ UNCHANGED <<gpc, video_time, gpu_encoder_active, raw_was_active,
                   gpu_was_active, vframe_info_buffer, vframe_info_buffer_gpu,
                   cur_texture, textures_copied, raw_out>>

\* update_active_state, with clear_base_frame_data, clear_raw_frame_data and
\* clear_gpu_frame_data.
UpdateActiveState ==
    LET gpu == gpu_encoder_active > 0
        raw_begins == raw_active /\ ~raw_was_active
        gpu_begins == gpu /\ ~gpu_was_active
        base_begins == (raw_active \/ gpu) /\ ~(raw_was_active \/ gpu_was_active)
    IN /\ gpc = "update"
       /\ cur_texture' = IF base_begins THEN 0 ELSE cur_texture
       /\ vframe_info_buffer' =
            IF base_begins \/ raw_begins THEN <<>> ELSE vframe_info_buffer
       /\ vframe_info_buffer_gpu' = IF gpu_begins THEN <<>> ELSE vframe_info_buffer_gpu
       /\ textures_copied' = IF raw_begins THEN [s \in Surfaces |-> None] ELSE textures_copied
       /\ raw_out' = IF raw_begins THEN NoFrame ELSE raw_out
       /\ raw_was_active' = raw_active /\ gpu_was_active' = gpu
       /\ gpc' = "output"
       /\ UNCHANGED <<video_time, raw_active, gpu_encoder_active, toggles>>

PrevTexture == (cur_texture + NUM_TEXTURES - 1) % NUM_TEXTURES

\* stage_output_texture, then download_frame and output_video_data.
StageAndDownload ==
    LET staged == [textures_copied EXCEPT ![cur_texture] = video_time]
        ready == staged[PrevTexture] # None
    IN /\ textures_copied' = staged
       /\ \/ /\ ready
             /\ raw_out' = [picture |-> staged[PrevTexture],
                            timestamp |-> Head(vframe_info_buffer).timestamp,
                            count |-> Head(vframe_info_buffer).count]
             /\ vframe_info_buffer' = Tail(vframe_info_buffer)
          \/ /\ ~ready \/ MapMayFail
             /\ UNCHANGED <<raw_out, vframe_info_buffer>>

\* Mut: does not wrap.
NextTextureMut == cur_texture + 1

\* if (++video->cur_texture == NUM_TEXTURES) video->cur_texture = 0
NextTexture == (cur_texture + 1) % NUM_TEXTURES

\* output_frame, the part for raw output.
OutputRaw ==
    /\ gpc = "output"
    /\ IF raw_was_active THEN StageAndDownload
       ELSE UNCHANGED <<textures_copied, raw_out, vframe_info_buffer>>
    /\ cur_texture' = NextTexture
    /\ gpc' = "sleep"
    /\ UNCHANGED <<video_time, raw_active, gpu_encoder_active, raw_was_active,
                   gpu_was_active, toggles>>

\* Mut: the time of the next frame.
FrameInfoMut(count) == [timestamp |-> video_time + count, count |-> count]

\* vframe_info.timestamp = cur_time
FrameInfo(count) == [timestamp |-> video_time, count |-> count]

\* video_sleep: on time, or late by some ticks.
VideoSleep ==
    \E count \in 1..MaxCount :
        /\ gpc = "sleep" /\ video_time + count <= MaxTime
        /\ video_time' = video_time + count
        /\ vframe_info_buffer' = vframe_info_buffer \o
             (IF raw_was_active THEN <<FrameInfo(count)>> ELSE <<>>)
        /\ vframe_info_buffer_gpu' = vframe_info_buffer_gpu \o
             (IF gpu_was_active THEN <<FrameInfo(count)>> ELSE <<>>)
        /\ gpc' = "update"
        /\ UNCHANGED <<raw_active, gpu_encoder_active, raw_was_active,
                       gpu_was_active, cur_texture, textures_copied, toggles, raw_out>>

-----------------------------------------------------------------------------

Infos == Seq([timestamp : Nat, count : Nat \ {0}])

MixTypeOK ==
    /\ gpc \in {"update", "output", "sleep"}
    /\ {video_time, gpu_encoder_active, toggles} \subseteq Nat
    /\ {raw_active, raw_was_active, gpu_was_active} \subseteq BOOLEAN
    /\ vframe_info_buffer \in Infos /\ vframe_info_buffer_gpu \in Infos
    /\ cur_texture \in Surfaces /\ textures_copied \in [Surfaces -> Nat]
    /\ raw_out \in [picture : Nat, timestamp : Nat, count : Nat]

(* output_frame: the picture that goes out is the one rendered at the time *)
(* it goes out under, and while raw output goes on, each frame begins      *)
(* where the one before it ended: staging, downloading and the buffer of   *)
(* times stay in step when raw output is switched off and on.              *)
RawTimeline ==
    [][raw_out' \notin {raw_out, NoFrame} =>
         /\ raw_out'.picture = raw_out'.timestamp
         /\ raw_out # NoFrame => raw_out'.timestamp = raw_out.timestamp + raw_out.count
      ]_mixVars
=============================================================================
