------------------------------ MODULE GpuEncode ------------------------------
(***************************************************************************)
(* Texture encoding of one video mix: the queues of textures between the   *)
(* graphics thread and the GPU encode thread                               *)
(* (libobs/obs-video-gpu-encode.c, queue_frame of obs-video.c), and the    *)
(* start and stop of the encoders (start_gpu_encode, stop_gpu_encode of    *)
(* obs.c), composed with the frame loop (VideoMix).                        *)
(*                                                                         *)
(* What happens under gpu_encoder_mutex is one step; so is output_frame,   *)
(* which holds the graphics context that start_gpu_encode needs too.  One  *)
(* encoder is stopped at a time, and none is started while the last one    *)
(* stops: the code does not guard against either.                          *)
(***************************************************************************)
EXTENDS VideoMix, FiniteSets, SequencesExt

CONSTANTS
    Encoders,
    Textures,       \* the textures of the queue, and the one rendered into
    MayFail,        \* the encoders whose encode call may fail
    MaxEncoderStarts

ASSUME EncodersAssumption == IsFiniteSet(Encoders) /\ MayFail \subseteq Encoders
ASSUME TexturesAssumption == IsFiniteSet(Textures) /\ Cardinality(Textures) > 2
ASSUME StartsAssumption == MaxEncoderStarts \in Nat

VARIABLES
    gpu_encoders,               \* in the order they were started
    gpu_encoder_avail_queue,
    gpu_encoder_queue,          \* struct obs_tex_frame
    gpu_encode_semaphore,       \* its value
    gpu_encode_inactive,        \* whether it is signalled
    gpu_encode_stop,
    convert_texture,            \* convert_textures_encode
    contents,                   \* the picture in each texture
    \* gpu_encode_thread
    tpc, wait_frames, tf,
    todo,                       \* the encoders this frame is still to go to
    \* start_gpu_encode, stop_gpu_encode by encoder
    spc,
    \* history
    encoder_starts,
    handed,                     \* ticks queue_frame was asked to queue
    served                      \* ticks that went to the encoders

queues == <<gpu_encoder_avail_queue, gpu_encoder_queue, convert_texture, contents>>
sync == <<gpu_encode_semaphore, gpu_encode_inactive, gpu_encode_stop>>
thread == <<tpc, wait_frames, tf, todo>>
gpuHistory == <<encoder_starts, handed, served>>
vars == <<mixVars, gpu_encoders, queues, sync, thread, spc, gpuHistory>>

NoTexFrame == [tex |-> None, timestamp |-> None, count |-> 0, picture |-> None]

Init ==
    /\ MixInit
    /\ gpu_encoders = <<>>
    /\ gpu_encoder_avail_queue = <<>> /\ gpu_encoder_queue = <<>>
    /\ gpu_encode_semaphore = 0 /\ gpu_encode_inactive = FALSE
    /\ gpu_encode_stop = FALSE
    /\ convert_texture = (CHOOSE t \in Textures : TRUE) /\ contents = [t \in Textures |-> None]
    /\ tpc = "none" /\ wait_frames = 0 /\ tf = NoTexFrame /\ todo = <<>>
    /\ spc = [e \in Encoders |-> "off"]
    /\ encoder_starts = 0 /\ handed = 0 /\ served = 0

-----------------------------------------------------------------------------
(* queue_frame, encode_gpu, output_gpu_encoders: the graphics thread       *)

\* Mut: sends the texture it has rendered into without taking another one.
ExchangedMut(q) == q.convert

\* The texture that is rendered into from now on.
Exchanged(q) == Head(q.avail)

\* A texture of its own for the frame: the one rendered into, or, where that
\* is needed for raw output or for a duplicate, a copy.
QueueNew(q, timestamp, copy) ==
    LET tex == IF copy THEN Head(q.avail) ELSE q.convert
    IN [avail |-> Tail(q.avail),
        queue |-> Append(q.queue, [tex |-> tex, timestamp |-> timestamp, count |-> 1,
                                   picture |-> q.contents[q.convert]]),
        convert |-> IF copy THEN q.convert ELSE Exchanged(q),
        contents |-> [q.contents EXCEPT ![tex] = q.contents[q.convert]],
        posts |-> q.posts + 1]

\* Mut: counts the duplicate but does not post.
PostDuplicateMut(q) == q.posts

\* os_sem_post
PostDuplicate(q) == q.posts + 1

\* Once more the frame that was queued last.
QueueDuplicate(q) ==
    [q EXCEPT !.queue[Len(q.queue)].count = @ + 1, !.posts = PostDuplicate(q)]

\* queue_frame with count ticks of the frame to go.  Without any texture the
\* encoding is stopping.
QueueFrame(q, count, timestamp) ==
    IF q.avail = <<>> \/ (q.queue # <<>> /\ count > 1)
    THEN IF q.queue = <<>> THEN q ELSE QueueDuplicate(q)
    ELSE QueueNew(q, timestamp, raw_was_active \/ count > 1)

\* encode_gpu
EncodeGpu(q, info) ==
    LET after[i \in 0..info.count] ==
            IF i = 0 THEN q
            ELSE QueueFrame(after[i - 1], info.count + 1 - i, info.timestamp)
    IN after[info.count]

\* render_convert_texture, output_gpu_encoders
OutputGpu ==
    LET rendered == [avail |-> gpu_encoder_avail_queue, queue |-> gpu_encoder_queue,
                     convert |-> convert_texture,
                     contents |-> [contents EXCEPT ![convert_texture] = video_time],
                     posts |-> gpu_encode_semaphore]
        q == IF vframe_info_buffer_gpu = <<>> THEN rendered
             ELSE EncodeGpu(rendered, Head(vframe_info_buffer_gpu))
    IN IF ~gpu_was_active
       THEN UNCHANGED <<queues, gpu_encode_semaphore, vframe_info_buffer_gpu, handed>>
       ELSE /\ gpu_encoder_avail_queue' = q.avail /\ gpu_encoder_queue' = q.queue
            /\ convert_texture' = q.convert /\ contents' = q.contents
            /\ gpu_encode_semaphore' = q.posts
            /\ IF vframe_info_buffer_gpu = <<>>
               THEN UNCHANGED <<vframe_info_buffer_gpu, handed>>
               ELSE /\ vframe_info_buffer_gpu' = Tail(vframe_info_buffer_gpu)
                    /\ handed' = IF tpc = "none" THEN handed
                                 ELSE handed + Head(vframe_info_buffer_gpu).count

\* output_frame
OutputFrame ==
    /\ OutputRaw /\ OutputGpu
    /\ UNCHANGED <<gpu_encoders, gpu_encode_inactive, gpu_encode_stop, thread, spc,
                   encoder_starts, served>>

-----------------------------------------------------------------------------
(* gpu_encode_thread                                                       *)

SemWait ==
    /\ tpc = "wait" /\ gpu_encode_semaphore > 0
    /\ gpu_encode_semaphore' = gpu_encode_semaphore - 1
    /\ tpc' = "woken"
    /\ UNCHANGED <<mixVars, gpu_encoders, queues, gpu_encode_inactive,
                   gpu_encode_stop, wait_frames, tf, todo, spc, gpuHistory>>

Woken ==
    /\ tpc = "woken"
    /\ \/ /\ gpu_encode_stop
          /\ tpc' = "done" /\ UNCHANGED wait_frames
       \/ /\ ~gpu_encode_stop /\ wait_frames > 0
          /\ wait_frames' = wait_frames - 1 /\ tpc' = "wait"
       \/ /\ ~gpu_encode_stop /\ wait_frames = 0
          /\ tpc' = "reset" /\ UNCHANGED wait_frames
    /\ UNCHANGED <<mixVars, gpu_encoders, queues, sync, tf, todo, spc, gpuHistory>>

ResetInactive ==
    /\ tpc = "reset"
    /\ gpu_encode_inactive' = FALSE
    /\ tpc' = "take"
    /\ UNCHANGED <<mixVars, gpu_encoders, queues, gpu_encode_semaphore,
                   gpu_encode_stop, wait_frames, tf, todo, spc, gpuHistory>>

\* Pops a frame and takes references of the encoders.
Take ==
    /\ tpc = "take"
    /\ tf' = Head(gpu_encoder_queue)
    /\ gpu_encoder_queue' = Tail(gpu_encoder_queue)
    /\ todo' = gpu_encoders
    /\ tpc' = "encode"
    /\ UNCHANGED <<mixVars, gpu_encoders, gpu_encoder_avail_queue, convert_texture,
                   contents, sync, wait_frames, spc, gpuHistory>>

\* The frame goes to the next encoder: held back, skipped or encoded
\* (EncoderGroup).
EncodeNext ==
    /\ tpc = "encode" /\ todo # <<>>
    /\ todo' = Tail(todo)
    /\ UNCHANGED <<mixVars, gpu_encoders, queues, sync, tpc, wait_frames, tf, spc,
                   gpuHistory>>

\* The encode call fails: send_off_encoder_packet, full_stop and
\* remove_connection stop the encoder on this thread, which goes on with the
\* next encoder when that is over.
EncodeFails ==
    /\ tpc = "encode" /\ todo # <<>>
    /\ Head(todo) \in MayFail /\ spc[Head(todo)] = "on"
    /\ \A e \in Encoders : spc[e] \in {"off", "on"}
    /\ spc' = [spc EXCEPT ![Head(todo)] = "leaving"]
    /\ gpu_encoder_active' = gpu_encoder_active - 1
    /\ tpc' = "failing"
    /\ UNCHANGED <<gpc, video_time, raw_active, raw_was_active, gpu_was_active,
                   vframe_info_buffer, vframe_info_buffer_gpu, cur_texture,
                   textures_copied, toggles, raw_out, gpu_encoders, queues, sync,
                   wait_frames, tf, todo, gpuHistory>>

\* The frame stays for its next tick, or the texture is free again.
Return ==
    /\ tpc = "encode" /\ todo = <<>>
    /\ IF tf.count > 1
       THEN /\ gpu_encoder_queue' =
                 <<[tf EXCEPT !.count = @ - 1, !.timestamp = @ + 1]>> \o gpu_encoder_queue
            /\ UNCHANGED gpu_encoder_avail_queue
       ELSE /\ gpu_encoder_avail_queue' = Append(gpu_encoder_avail_queue, tf.tex)
            /\ UNCHANGED gpu_encoder_queue
    /\ tf' = NoTexFrame /\ served' = served + 1
    /\ tpc' = "signal"
    /\ UNCHANGED <<mixVars, gpu_encoders, convert_texture, contents, sync, wait_frames,
                   todo, spc, encoder_starts, handed>>

SignalInactive ==
    /\ tpc = "signal"
    /\ gpu_encode_inactive' = TRUE
    /\ tpc' = "wait"
    /\ UNCHANGED <<mixVars, gpu_encoders, queues, gpu_encode_semaphore,
                   gpu_encode_stop, wait_frames, tf, todo, spc, gpuHistory>>

-----------------------------------------------------------------------------
(* start_gpu_encode, stop_gpu_encode                                       *)

\* init_gpu_encoding: new textures, a new thread.
InitGpuEncoding ==
    /\ gpu_encoder_avail_queue' = SetToSeq(Textures \ {convert_texture})
    /\ gpu_encode_semaphore' = 0 /\ gpu_encode_inactive' = TRUE
    /\ gpu_encode_stop' = FALSE
    /\ tpc' = "wait" /\ wait_frames' = 1
    /\ handed' = 0 /\ served' = 0

\* Adds the encoder, the first one starts the thread.
StartGpuEncode(e) ==
    /\ spc[e] = "off" /\ encoder_starts < MaxEncoderStarts
    /\ encoder_starts' = encoder_starts + 1
    /\ gpu_encoders = <<>> => \A f \in Encoders : spc[f] = "off"
    /\ IF gpu_encoders = <<>> THEN InitGpuEncoding
       ELSE UNCHANGED <<gpu_encoder_avail_queue, sync, tpc, wait_frames, handed, served>>
    /\ gpu_encoders' = Append(gpu_encoders, e)
    /\ spc' = [spc EXCEPT ![e] = "added"]
    /\ UNCHANGED <<mixVars, gpu_encoder_queue, convert_texture, contents, tf, todo>>

\* What start_gpu_encode and stop_gpu_encode leave alone in the frame loop.
loop == <<gpc, video_time, raw_active, raw_was_active, gpu_was_active,
          vframe_info_buffer, vframe_info_buffer_gpu, cur_texture, textures_copied,
          toggles, raw_out>>

\* os_atomic_inc_long(&video->gpu_encoder_active)
Started(e) ==
    /\ spc[e] = "added"
    /\ gpu_encoder_active' = gpu_encoder_active + 1
    /\ spc' = [spc EXCEPT ![e] = "on"]
    /\ UNCHANGED <<loop, gpu_encoders, queues, sync, thread, gpuHistory>>

StopGpuEncode(e) ==
    /\ spc[e] = "on"
    /\ \A f \in Encoders : spc[f] \in {"off", "added", "on"}
    /\ gpu_encoder_active' = gpu_encoder_active - 1
    /\ spc' = [spc EXCEPT ![e] = "leaving"]
    /\ UNCHANGED <<loop, gpu_encoders, queues, sync, thread, gpuHistory>>

\* da_erase_item
Erase(e) ==
    /\ spc[e] = "leaving"
    /\ \E i \in DOMAIN gpu_encoders : /\ gpu_encoders[i] = e
                                     /\ gpu_encoders' = RemoveAt(gpu_encoders, i)
    /\ spc' = [spc EXCEPT ![e] = IF gpu_encoders' = <<>> THEN "last" ELSE "waiting"]
    /\ UNCHANGED <<mixVars, queues, sync, thread, gpuHistory>>

\* The stop of e is on the thread's own stack.
Fails(e) == tpc = "failing" /\ Head(todo) = e

\* Mut: does not wait for the frame the thread is at.
InactiveMut == TRUE

\* os_event_wait(video->gpu_encode_inactive)
Inactive == gpu_encode_inactive

\* With encoders left, the stop is over once the thread is between frames.
WaitInactive(e) ==
    /\ spc[e] = "waiting" /\ Inactive
    /\ spc' = [spc EXCEPT ![e] = "off"]
    /\ IF Fails(e)
       THEN tpc' = "encode" /\ todo' = Tail(todo)
       ELSE UNCHANGED <<tpc, todo>>
    /\ UNCHANGED <<mixVars, gpu_encoders, queues, sync, wait_frames, tf, gpuHistory>>

\* Mut: raises the flag and does not wake the thread.
PostStopMut == gpu_encode_semaphore

\* os_sem_post(video->gpu_encode_semaphore)
PostStop == gpu_encode_semaphore + 1

\* stop_gpu_encoding_thread, up to the join
StopThread(e) ==
    /\ spc[e] = "last" /\ Inactive
    /\ gpu_encode_stop' = TRUE
    /\ gpu_encode_semaphore' = PostStop
    /\ spc' = [spc EXCEPT ![e] = "joining"]
    /\ UNCHANGED <<mixVars, gpu_encoders, queues, gpu_encode_inactive, thread, gpuHistory>>

Join(e) ==
    /\ spc[e] = "joining" /\ tpc = "done"
    /\ tpc' = "none"
    /\ spc' = [spc EXCEPT ![e] = "freeing"]
    /\ UNCHANGED <<mixVars, gpu_encoders, queues, sync, wait_frames, tf, todo, gpuHistory>>

\* free_gpu_encoding
Free(e) ==
    /\ spc[e] = "freeing"
    /\ gpu_encoder_queue' = <<>> /\ gpu_encoder_avail_queue' = <<>>
    /\ spc' = [spc EXCEPT ![e] = "off"]
    /\ UNCHANGED <<mixVars, gpu_encoders, convert_texture, contents, sync, thread,
                   gpuHistory>>

-----------------------------------------------------------------------------

gpu == <<gpu_encoders, queues, sync, thread, spc, gpuHistory>>

Loop == \/ (UpdateActiveState \/ VideoSleep) /\ UNCHANGED gpu
        \/ OutputFrame
Client == ToggleRaw /\ UNCHANGED gpu
Thread == \/ SemWait \/ Woken \/ ResetInactive \/ Take \/ EncodeNext
          \/ Return \/ SignalInactive
Stopping(e) == Erase(e) \/ WaitInactive(e) \/ StopThread(e) \/ Join(e) \/ Free(e)

Next == \/ Loop \/ Client \/ Thread \/ EncodeFails
        \/ \E e \in Encoders : \/ StartGpuEncode(e) \/ Started(e)
                               \/ StopGpuEncode(e) \/ Stopping(e)

Spec == Init /\ [][Next]_vars

\* The GPU encode thread and a thread that stops an encoder are scheduled.
\* Nobody has to start or stop an encoder, and frames need not come.
FairSpec == /\ Spec /\ WF_vars(Thread)
            /\ \A e \in Encoders : WF_vars(Stopping(e))

-----------------------------------------------------------------------------
(* Properties *)

TexFrames == [tex : Textures \cup {None}, timestamp : Nat, count : Nat, picture : Nat]

TypeOK ==
    /\ MixTypeOK
    /\ gpu_encoders \in Seq(Encoders) /\ todo \in Seq(Encoders)
    /\ gpu_encoder_avail_queue \in Seq(Textures)
    /\ gpu_encoder_queue \in Seq(TexFrames) /\ tf \in TexFrames
    /\ gpu_encode_semaphore \in Nat
    /\ {gpu_encode_inactive, gpu_encode_stop} \subseteq BOOLEAN
    /\ convert_texture \in Textures /\ contents \in [Textures -> Nat]
    /\ tpc \in {"none", "wait", "woken", "reset", "take", "encode", "failing", "signal", "done"}
    /\ wait_frames \in 0..1
    /\ spc \in [Encoders -> {"off", "added", "on", "leaving", "waiting", "last",
                             "joining", "freeing"}]
    /\ {encoder_starts, handed, served} \subseteq Nat

\* The frames that wait, and the one the thread has taken.
Frames == gpu_encoder_queue \o (IF tf = NoTexFrame THEN <<>> ELSE <<tf>>)
TicksOf(frames) == FoldLeft(+, 0, [i \in DOMAIN frames |-> frames[i].count])
TicksWaiting == TicksOf(Frames)

(* queue_frame, gpu_encode_thread: the graphics thread goes on rendering   *)
(* while textures wait and are encoded; what an encoder is given under a   *)
(* timestamp is the picture that was queued under it.                      *)
PictureIntact ==
    \A i \in DOMAIN Frames : contents[Frames[i].tex] = Frames[i].picture

(* Each tick is in one frame and has one post: with it the thread finds a  *)
(* frame whenever it looks for one, and no tick that was handed over is    *)
(* dropped, however far the encoders are behind.  One post is spent on     *)
(* NUM_ENCODE_TEXTURE_FRAMES_TO_WAIT.                                      *)
NoTickLost ==
    tpc # "none" /\ ~gpu_encode_stop =>
        /\ handed = served + TicksWaiting
        /\ TicksWaiting = gpu_encode_semaphore + (1 - wait_frames)
              + (IF tpc \in {"woken", "reset", "take", "encode", "failing"} THEN 1 ELSE 0)
        /\ tpc = "take" => gpu_encoder_queue # <<>>

(* stop_gpu_encode: an encoder whose stop has returned, which may be       *)
(* destroyed, is given no more frames.                                     *)
QuietAfterStop ==
    \A e \in Encoders : spc[e] = "off" => ~Contains(todo, e)

(* stop_gpu_encode returns, also when frames are left in the queue and     *)
(* while frames come, unless an encode call fails.                         *)
StopReturns ==
    \A e \in Encoders : spc[e] = "leaving" /\ tpc # "failing"
                            ~> spc[e] = "off" \/ tpc = "failing"

(* remove_connection: "don't call it on encode errors, otherwise you can   *)
(* get a deadlock": an encode error is dealt with on the thread it comes   *)
(* up on, and that thread goes on.                                         *)
ErrorIsHandled == tpc = "failing" ~> tpc # "failing"
=============================================================================
