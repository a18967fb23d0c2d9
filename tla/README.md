# The output pipeline of OBS for Android: models, checks and proofs

This directory holds a TLA+ development of the part of this repository that
decides whether a stream is correct: the path of a frame from the graphics
thread through the encoders and the output session to the network, and of the
screen capture that feeds it on Android, whose teardown has to agree between
five kinds of threads.  The models are read from the C and Java sources under
`src/obs-studio/`; TLC checks them on small instances, and TLAPS proves most of
their safety properties, and that the ring implements its timeline, for every
instance.

- [The system](#the-system): what the program consists of
- [Modules](#modules): which module models what, and how it corresponds to the code
- [Runs](#runs): what each model-checking run shows, its bounds and its fairness
- [Proofs](#proofs)
- [Disagreements between the code and its documentation](#disagreements)
- [Known departures](#known-departures): where a property needs a condition
- [Not modelled](#not-modelled) and [Plan](#plan)

To check: `tlc -config X.cfg M` for the module/configuration pairs of the table
under *Runs*, and `tlapm M.tla` for `FoldLemmas` and the modules `M` named `...Proofs`.

## The system

The repository is OBS Studio with a port to Android: `libobs` (the core),
plugins, the desktop frontend, an Android shell that drives `libobs` in
regression tests, and plugins that capture from Android devices.  What the
program is for is a pipeline of threads:

    graphics thread --frames--> video thread --frames--> encoders --packets--> output
      (obs-video.c)   ring       (video-io.c)            (obs-encoder.c)    (obs-output.c)
                    \--textures--> GPU encode thread --/                        |
    audio thread ----------------samples-----------------> audio encoders ------+
                                                                                |
    network <--- send thread <--- packet queue <--- rtmp_stream_data <----------+
                 (rtmp-stream.c)

### Components

**Raw video output** (`libobs/media-io/video-io.c`).  State: a ring of up to 16
cached frames (`cache`, `available_frames`, `first_added`, `last_added`), a
semaphore, a list of inputs with a divisor counter each, counters of the
texture encoders and of skipped frames.  Operations: lock and unlock a frame
(graphics thread), serve one tick (video thread), connect, disconnect, stop
(anyone).  It calls back into encoders and raw outputs, which may disconnect
themselves from inside the callback.  Hard: the picture is copied outside the
lock, so that only index arithmetic keeps the threads apart; a full ring merges
ticks into the last slot; a frame stands for several ticks.  Correct when no
picture is torn, no tick is lost, repeated or out of order, the thread neither
sleeps through a frame nor wakes for none, and stopping joins it.

**Encoders and encoder groups** (`libobs/obs-encoder.c`).  State: per encoder
`start_ts`, `cur_pts`, a divisor counter, two request ids; per group the number
of started encoders, the start timestamp, the lcm of the divisors and the
request to reconfigure.  Operations: start, stop, update of the settings,
receive a frame (raw or texture), fail.  Every encoder is fed by a thread of its
own.  Hard: agreeing on the first frame and, later, on the frame an update is
applied on, while frames arrive at different times and encoders come and go.
Correct when equal pts mean equal pictures on every track, the tracks
reconfigure on the same pts, and no update is lost.

**Output session** (`libobs/obs-output.c`).  State: the flags `active`,
`data_active`, `reconnecting`, the events `stopping_event` and
`reconnect_stop_event`, two threads of its own (`end_data_capture_thread`,
`reconnect_thread`), a queue of packets that are interleaved, the offsets and
the highest timestamps of the tracks.  Operations: start, stop, force stop;
begin and end of the data capture; the stop signal with its code; retries;
interleaving.  It is called by the application, by encoders that deliver or
fail, and by the implementation of the output, and calls all three.  Hard: the
flags are atomics without a lock that relates them; a stop may meet a
disconnection, a retry, or the end of a capture at any point; the start of the
stream is found by searching in a queue that is pruned and sorted again.
Correct when a session ends with one signal of the right code, calls return,
the output reconnects or gives up; and when the stream is ordered, complete,
in sync and starts with keyframes.

**RTMP stream** (`plugins/obs-outputs/rtmp-stream.c`).  State: `connecting`,
`active`, `disconnected`, `encode_error`, `stop_event`, `stop_ts`, the queue of
packets and its semaphore, `min_priority`, the bitrates of the dynamic bitrate.
Operations: start, stop, deliver a packet; the connect thread; the send thread.
Hard: two threads are created and joined or detached across sessions; frames are
dropped with a memory of what may follow; the bitrate is changed by two threads.
Correct when the session answers every stop and what is sent can be decoded,
belongs to its connection and is bounded in time, and the bitrate follows the
network and comes back.

**Graphics thread and video mixes** (`libobs/obs-video.c`).  State per mix: two staging
surfaces, two buffers of frame times (raw and texture output), what was active
in the last frame.  Operations: the frame loop (look up what is active, render,
stage, download, put out, sleep).  It produces for the raw video output and for
the GPU encode queue, and keeps time for encoder groups.  Hard: a picture is
put out one frame after it was staged, its time waits in a buffer beside it,
and outputs are switched on and off in between.  Correct when every picture
goes out under its own time.

**GPU encode queue** (`libobs/obs-video-gpu-encode.c`, `start_gpu_encode` and
`stop_gpu_encode` of `obs.c`).  State: a queue of textures to encode and one of
free textures, a semaphore, an event that tells whether the thread is between
frames, the list of encoders.  Operations: queue a frame or a duplicate, encode,
start and stop encoders.  Hard: textures change hands by exchange or by copy
while the graphics thread renders into another; a stop waits for the thread,
which may have references of the encoder in hand.  Correct when no waiting
texture is written, no tick is lost, and a stopped encoder is left alone.

**Output delay** (`libobs/obs-output-delay.c`): a queue of packets, starts and
stops in time order.  Correct when nothing is delivered before its delay and a
stop is executed after all packets before it.

**Audio thread and mixing** (`libobs/media-io/audio-io.c`, `libobs/obs-audio.c`):
a tick of 1024 samples, buffering that grows when a source is late.  Correct
when the buffering never shrinks the timeline and no source is mixed twice.

**Sources and asynchronous frames** (`libobs/obs-source.c`): the cache of frames
of a source, its timestamps and its reference counts.  Correct when a frame is
not reused while it is rendered and the cache does not grow without bound.

**Scenes** (`libobs/obs-scene.c`): trees of items under locks of their own.

**Core object lifetime** (`libobs/obs.c`): reference counts, weak references, the
destruction queue.  Correct when a weak reference never revives an object.

**Task queues** (`libobs/util/task.c`) and **signals and procedures**
(`libobs/callback/`): a worker thread with waiting callers; callbacks that may
be removed while the signal is running.

**Displays, views, canvases; hotkeys; data and settings; platform threading;
graphics back ends**: drawing, polling, a pure data structure, wrappers of
POSIX primitives, calls into OpenGL.

**File outputs** (`plugins/obs-outputs/*`, `plugins/obs-ffmpeg/`): containers, the
muxer pipe, the replay buffer.  **Media playback** (`shared/media-playback/`).

**Android capture plugins and host** (`plugins/android-*`, `plugins/nikon-source`,
`plugins/obs-encode-sink`, the Java classes under `frontend/cmake/android`).  The
screen capture (`screen-capture.c`, `ObsProjectionHost.java`) keeps per source an
image reader, the number of its callbacks that run and whether one may be left
over; per plugin the sources alive, the audio pump with its sinks and its lock;
per device the projection token, one virtual display and one recorder.
Operations: create, activate, deactivate, tick, destroy; image callbacks; the
audio pump; consent, revocation, a screen that turns.  Hard: the display, token
and recorder are shared by all sources; a callback may last longer than the
close that waits for it; the pump keeps sources alive.  Correct when nothing is
torn down under somebody who uses it and the screen is not shared any more when
the last source is gone.  The other plugins are callbacks of device interfaces.

**Android regression shell** (`src/android-shell`): a test driver.

**Desktop frontend** (Qt) and **vendored libraries** (librtmp and others).

`PROJECT.json` lists the same components with their status, and under `hazards`
everything in the modelled code that is hard to test, at the line where it bites.

## Modules

| module | models | on |
| --- | --- | --- |
| `VideoIO` | the ring, the video thread, its inputs, stop | `video-io.c`, `output_video_data` of `obs-video.c` |
| `VideoTimeline` | what the raw video output promises (abstract) | |
| `VideoIORefinement` | the mapping from `VideoIO` to `VideoTimeline` | |
| `VideoIOProofs` | theorems about `VideoIO` and `VideoIORefinement` | |
| `FoldLemmas` | facts about folds, sums and sorted sets that the proofs share | |
| `EncoderGroup` | a group of encoders, start, updates, frames | `obs-encoder.c`, `obs-video-gpu-encode.c`, `video_sleep` |
| `EncoderGroupProofs` | theorems about `EncoderGroup` | |
| `Output` | the session of an output, without its implementation | `obs-output.c` |
| `RtmpStream` | the RTMP output; extends `Output`, its specification composes the two | `rtmp-stream.c` |
| `RtmpStreamProofs` | theorems about `RtmpStream` and `Output` | |
| `Interleaver` | packets of several encoders in one stream | `obs-output.c` |
| `InterleaverProofs` | theorems about `Interleaver` | |
| `RtmpQueue` | packets between encoders and network | `rtmp-stream.c` |
| `RtmpQueueProofs` | theorems about `RtmpQueue` | |
| `VideoMix` | the frame loop: staging, frame times | `obs-video.c` |
| `GpuEncode` | texture encoding; extends `VideoMix`, its specification composes the two | `obs-video-gpu-encode.c`, `obs-video.c`, `obs.c` |
| `GpuEncodeProofs` | theorems about `GpuEncode` with its `VideoMix` | |
| `ScreenCapture` | screen capture with its host and the sources around it | `screen-capture.c`, `ObsProjectionHost.java`, `obs-source.c`, `obs-video.c` |
| `ScreenCaptureProofs` | theorems about `ScreenCapture` | |
| `MC...` | constants of the instances TLC checks | |

Names of variables and operators are those of the code where TLA+ allows it.
A definition whose name ends in `Mut` is a plausible mistake in the definition
that follows it (a dropped guard, an off-by-one, a missing reset); no action
uses it.  Each property has one that breaks it, so that each is known to say
something about the code.

**VideoIO.**  Everything under `data_mutex` is one step.  The graphics thread is
`LockFrame`/`UnlockFrame` with the copy of the picture between them (`writing`,
`Torn`), `MergeFrame` for a full ring and `Idle` when raw output is off; it reads
`raw_active` once per frame.  The video thread goes through `vpc`: wait, woken,
loop, taken, inputs, walked.  It holds `input_mutex` exactly while `vpc =
"inputs"`, so other threads connect and disconnect outside it, and only the
callback of a faulty input (`VisitFaultyInput`) disconnects inside it.  Time is
in ticks of the output clock.  `passes`, `due` and `since` are history.

**VideoTimeline** is a queue of ticks: a tick is submitted, or the last one is
extended, and ticks are served from the front.  `VideoIORefinement` reads the
queue off the waiting slots, slot by slot from `first_added` on.

**EncoderGroup.**  Everything under the mutex of the group is one step.  `Tick` is
the graphics thread with `video_sleep`, which gives a complete group its start
frame.  `Receive(e)` is a frame in the thread that feeds encoder `e`: held back,
counted against the divisor, or encoded after
`handle_encoder_group_reconfigure_request`.  For the encoders in `Raw`, fed by
`receive_video`, frames that are held back count against the divisor; for the others,
fed by the GPU encode thread, they do not.

**Output and RtmpStream.**  `pc[t]` is where a thread stands: the application's, a
failing encoder's, the connect, send and end threads and the instances of the
reconnect thread.  No lock protects the flags, so each step is what a thread
does between two accesses to shared flags.  The labels `plugin_start`,
`plugin_stop` and `back` are the calls into the implementation; `RtmpStream` goes
on from there.  The send thread sends nothing here: it breaks, stops or goes on.

**Interleaver.**  All of `interleave_packets` under `interleaved_mutex` is one step:
`DeliverEarly` before the output is active, `DeliverUnwanted` before the keyframe
of the track, `DeliverFirst` while tracks are missing, with pruning, offsets and
the resort, and `DeliverNext` after that.  Packets are numbers with times;
times are in units of which packets last a whole number.  `Discarded` and `TimesLeft` are the two halves
of `discard_to_idx`: the packets that go, and the loop that takes the first times of a track along with each of
its packets.

**RtmpQueue.**  Three steps of the encoder's thread in `rtmp_stream_data` (the check of
`active`, the mutex, the post), and the send thread from one packet to the next
until it is down.  A track repeats a pattern of key, `p` and `b` frames; a `p` or
`b` is predicted from the last frame before it that is no `b`.  Connecting is one
step, stopping too: their interleavings are in `RtmpStream`.  `Scaled` is
the product of two doubles that is truncated to an integer: for bitrates in kbps it is the exact quotient, or one below
where that is a whole number; `FallsShort` lists where.  What the send
thread measures is any of `Estimates`, the timer of the increase may be over at
any packet, and a stop with a time may run into its time limit at any packet.

**VideoMix.**  The loop has three points: `UpdateActiveState` (with the resets of what
begins), `OutputRaw` (render, stage, download the surface staged before, put it out
under the head of `vframe_info_buffer`), `VideoSleep` (the frame takes one tick or
more).  A picture is named by the time it was rendered at.

**GpuEncode.**  What happens under `gpu_encoder_mutex` is one step.  `OutputFrame` is
`output_frame` with `queue_frame` for each tick of the frame: a texture exchanged, a copy
(with raw output, or while ticks remain), or a duplicate of the last frame queued.  The
encode thread goes through `tpc`: wait, woken (it skips its first wakeup), reset of
`gpu_encode_inactive`, take, encode one encoder after the other, return, signal.  Starts
and stops go through `spc[e]`; the last stop ends the thread and frees the queues.

**ScreenCapture.**  The methods of the host are synchronized, so each is a step.
`Activate`, `Deactivate` and `VideoTick` are `obs_source_video_tick` up to the point where
a capture opens or closes; `pc` is where the graphics and the destruction thread stand
inside `open_capture`, `close_capture` and `screen_destroy`.  `audio_mx` is a variable only
where it is held across steps, while the last source stops the pump.  A callback counts
itself and later leaves (`Enter`, `Leave`); closing waits for callbacks or for two seconds.
The reader, its listener, its window and the display may each fail; what follows a reader that was made is a close.
A dialog ends with a token (`TakeToken`), without one although the user agreed (`GiveUpToken`), or with a refusal.
References of a source are those of the frontend (`held`), of the pump (`audio_sinks`) and
of the tick (`at`); `Unreferenced` is the last one going.

## Runs

| run | module, configuration | shows |
| --- | --- | --- |
| `video_ring` | `MCVideoIO`, `VideoRing.cfg` | the hand-over through the ring, refinement of the timeline, stop |
| `group_session` | `MCEncoderGroup`, `GroupSession.cfg` | start and updates of a group: a full-rate encoder that `receive_video` feeds, waits for audio and may fail, and a half-rate texture encoder |
| `rtmp_user_stops` | `MCRtmpStream`, `RtmpUserStops.cfg` | starts, refusals and stops at any moment |
| `rtmp_reconnects` | `MCRtmpStream`, `RtmpReconnects.cfg` | broken and refused connections without a stop |
| `rtmp_anything` | `MCRtmpStream`, `RtmpAnything.cfg` | one of everything at once, with slow encoders |
| `rtmp_stop_lost` | `MCRtmpStream`, `RtmpStopLost.cfg` | *violation*: a stop is dropped |
| `interleave` | `MCInterleaver`, `Interleave.cfg` | two video and two audio tracks, two captures |
| `rtmp_packets` | `MCRtmpQueue`, `RtmpPackets.cfg` | a slow or broken network, dropped frames and dynamic bitrate, two connections |
| `gpu_queue` | `MCGpuEncode`, `GpuQueue.cfg` | two texture encoders started and stopped around the frame loop, raw output switched |
| `screen_capture` | `MCScreenCapture`, `ScreenCapture.cfg` | two sources share the display, the token and the recorder of the device |
| `screen_close_hangs` | `MCScreenCapture`, `ScreenCloseHangs.cfg` | *violation*: the last close and the audio pump wait for each other |
| `screen_removed_stays` | `MCScreenCapture`, `ScreenRemoved.cfg` | *violation*: a removed capture is never destroyed |

### Properties

- `video_ring`: `NoTornPicture` (the two threads never meet in a slot), `RingInv` (indices,
  slots and semaphore agree: the inductive invariant of the proofs, with one wakeup per
  waiting frame), `SkipsConserved` (a merged tick is counted once), `ServesTimeline`
  (refinement of `VideoTimeline`, fairness included), `StopJoins`.
- `group_session`: `SamePictureSamePts`, `ReconfigureTogether`, `UpdateApplied` (within
  `Patience`: two requests, each of which every encoder has to see and which then waits for a
  common boundary), `NoMissedStart`.
- `rtmp_*` sessions: `EndIsTold` (one stop signal per session, success only if somebody
  asked for the end, and flags that agree when no thread is in a call), `StopIsObeyed`,
  `CapturesDoNotOverlap`, and the liveness properties `CallsAreAnswered` (start and stop
  return, and a stop is followed by its signal) and `ReconnectEnds`.
- `interleave`: `InOrder` over all tracks, `Playable` (no gaps, and every video track begins
  with a keyframe), `TimesMatch` (a waiting video packet has its frame times, once, and what is sent had them), `InSync` (tracks
  start within a packet).
- `rtmp_packets`: `Decodable`, `CongestionIsMet` (the time in the buffer is bounded by the threshold, a frame
  and the longest run of `b` frames, or the bitrate is shared out and no track gets more than the user gave it), `QueueIsServed` (a packet that waits has a wakeup, and no
  packet outlives its connection), `UpByStep`.
- `gpu_queue`: `PictureIntact` (no texture is overwritten while it waits), `NoTickLost` (ticks
  handed over, served and waiting agree with each other and with the semaphore),
  `QuietAfterStop`, `RawTimeline` (a raw frame goes out under the time it was rendered at, and
  begins where the last one ended), `StopReturns`.
- `screen_*`: `SafeTeardown` (no callback uses a deleted reader or a `struct screen_source`
  that was freed; the `obs_source_t` is not part of it),
  `SurfaceHasReader` (the display has a surface with an owner), `ReadsLiveBuffer` (the recorder
  outlives the thread that reads it), `DestroyedIsClosed`, `NothingLeftBehind` (display, recorder,
  pump and token go with the last source); `PumpStopReturns` and `RemovedIsDestroyed` are
  violated.

### Bounds

- *Ring*: three slots are the least that have a first, a middle and a last one, with
  wrap-around; six ticks fill the ring, overflow it and go around twice with
  frames of one or two ticks; two inputs, one per tick and one every second
  tick, one of which may fail.  The bound is on the clock, so every interleaving
  inside it is explored.
- *Groups*: two encoders, one of each path, one session.  17 ticks hold a start, an update
  and the common boundary and two more updates during it.  The lead of the frames over
  an encoder is 2.
- *Sessions*: three starts and stops, with two refused connections, are the least that
  have a session after a session that ended each way; for reconnection two
  starts, two retries and three of each failure exhaust the retries and reset
  them in between.  Two names for the reconnect thread, since an old one may
  still be in its last steps when the next is created.
- *Interleaving*: two tracks of each kind, a keyframe every second packet, nine packets
  per encoder, encoders that are new or run already at packets 1 to 3 of the
  audio; threads at most one video packet apart.
- *Queue*: two video tracks and one audio, six frames, thresholds of 0 and 1 frames: frames are dropped for both
  thresholds and dropping ends; the second connection starts after each way
  of ending the first.  The bitrates add up to 6000 and the network takes 4490, so that the bitrate goes 4400, 5000, 5600, 6000;
  `Short` has the products of `binary64` numbers that fall short for these (4500 * (4400 / 6000.0) is 3299).

- *Texture encoding*: three textures are the one rendered into, one that waits and one that
  is encoded, so that the free queue runs empty; five ticks with frames of one or two ticks
  and two starts let the last encoder stop and another one start the thread again.
- *Screen*: two sources are what it takes to steal the display; two readers let a source
  open twice, so that a callback left over from the first capture meets the close of the
  second; one callback at a time and two events (a switch, a revocation, a resize, a read).

The systems really stop when the bounds are used up (a clock that ends, calls
that are not made), so runs do not check for deadlock; where progress matters
it is a liveness property.

### Fairness

- `VideoIO`: weak fairness of the video thread (it is scheduled, and callbacks return)
  and of `UnlockFrame` (a locked frame is unlocked unconditionally).  None on the
  graphics thread, the clients or `Stop`.
- `RtmpStream`: weak fairness of the steps of each thread that is in a call.  None on
  the application, on failures of the network (`Broken`), or on the failure of an
  encoder.  A refused connection is one of the outcomes of `ConnectStep`; both are
  possible, neither is promised.  The send thread stops because packets come: a stop
  with a time is enabled while the output delivers.
- `GpuEncode`: weak fairness of the encode thread and of each thread that stops an encoder.
  None on the frame loop, on starts and stops, or on an encode call that fails.
- `ScreenCapture`: weak fairness of the graphics and destruction threads inside the plugin, of
  the pump and of the last release of a source; strong fairness of the tick of each source,
  since `tick_sources` walks all of them every frame and a source that is closing another
  capture only delays it.  None on the user, the system or the readers.
- Two assumptions on time are part of `Output` and `RtmpStream`.  `DelayIsOver`: the retry
  delay (two seconds by default, growing) outlasts the last instructions of the threads that asked
  for it (with `SlowEncoders`, not the stop of the encoders).  `UserStarts`: the
  application starts again after the stop signal, when the threads of the last
  session are gone.

## Proofs

A fold, a recursive function or a sum is handled without induction on data in the theorem's own
statement: `FoldLemmas` proves, from the well-foundedness of `<` on the naturals applied to the *set* of
the arguments for which a fact holds, that a recursion over the indices of a sequence or over the
subsets of a finite set has a solution, and what the folds of the community modules do when an
element is put behind, before or in place of another.  Sums of ticks, concatenations of slots, the loop
of `drop_frames` and sums over tracks all go through it.

`VideoIOProofs` proves about `VideoIO`, for every ring of 1 to 16 slots, every set
of inputs with positive divisors, every set of faulty inputs and every clock:

| theorem | says |
| --- | --- |
| `RingInvariance` | `Spec => []IInv`, the inductive invariant |
| `TypeCorrect` | `Spec => []TypeOK` |
| `RingAlwaysLegal` | `Spec => []RingInv` |
| `NoLostWakeup` | `Spec => []WakeupsMatchFrames` |
| `NeverTorn` | `Spec => []NoTornPicture` |
| `SkipsAreConserved` | `Spec => []SkipsConserved` |
| `ImplementsTimeline` | `Spec => Timeline!TSafe`, the safety part of the refinement |
| `TimelineInOrder` | `Spec => []Timeline!InOrder`: ticks are served in increasing order |

The assumptions are those named in `VideoIO`: `CacheSizeAssumption`
(`init_cache` limits the ring to `MAX_CACHE_SIZE`), `DivisorAssumption`
and `BoundsAssumption`.

`NoTornPicture` is not inductive: that the video thread is not handed the slot being
written depends on where the indices stand, on what a slot contains and on how many
wakeups are in flight.  `IInv` is `TypeOK` with the four parts of `RingInv`:

- `RingShape`: `last_added` is the slot being written, which is the one after the
  waiting slots, or else the newest waiting slot, or, with none, `first_added`;
- `SlotsGood`: a waiting slot has a picture and more ticks than skipped ticks;
- `ServesOldest`: the video thread works on `first_added`, and only when a slot waits;
- `WakeupsMatchFrames`: posts not taken, plus the one being served, are the waiting
  slots, until the stop.  Without it `Wake` could lead to `ServesOldest` being false.

There is one lemma for each action that touches the ring (`LockFrameIInv`, `MergeFrameIInv`,
`UnlockFrameIInv`, `FinishTickIInv`), one for the remaining steps of the video thread, one
for the inputs and one for the others; each shows `TypeOK'` and the parts of
`RingInv'` in steps of its own.  `RingInvariance` puts them together.

The refinement takes each step of the ring to a step of the timeline.  Its queue is the concatenation of
the ticks of the waiting slots, so a step that adds a slot, takes the first one away or replaces the first
or the last one by one with a tick less or more is read off the lemmas about concatenations: `UnlockFrame`
submits, `MergeFrame` extends, `FinishTick` serves or stutters.  `WritesNow` (the slot being written has the
present time) is what a submission needs on top of `IInv`.  That the queue is in order is proved
about `VideoTimeline` alone and comes to `VideoIO` by the refinement.  `SkipsConserved` uses the
same steps with sums in the place of concatenations.

`ScreenCaptureProofs` proves about `ScreenCapture`, for every finite set of sources and any number
of readers, callbacks and events:

| theorem | says |
| --- | --- |
| `CaptureInvariance` | `Spec => []SInv`, the inductive invariant of the teardown |
| `CallbacksAreSafe` | `Spec => []SafeTeardown` |
| `SurfaceIsOwned` | `Spec => []SurfaceHasReader` |
| `RecorderOutlivesPump` | `Spec => []ReadsLiveBuffer` |
| `DestroyedClosed` | `Spec => []DestroyedIsClosed` |
| `TokenInvariance` | `Spec => []LInv`, the inductive invariant of what is counted |
| `ScreenIsGivenBack` | `Spec => []NothingLeftBehind` |
| `TypeCorrect` | `Spec => []TypeOK` |

`SInv` says where the two threads stand (`Where`: the graphics thread at a source that is alive and
open, the destruction thread at one that is dying), who keeps an open capture alive
(`OpenIsHeld`: the pump, or the tick that is closing it), and which callbacks are on record
(`CallbacksOnRecord`: a callback that may run belongs to an open reader, or its source is
marked and its `struct screen_source` never freed).  `SafeTeardown` needs all three: that a reader is deleted without a callback
follows from where the close stands and from which callbacks it has waited for, and that the data is
freed without one from the mark.  `LInv` adds that `live_sources` is the number of sources that
are not freed (`Counting`), that a recorder has a sink (`RecorderHasSink`), and that a token has a
source unless the last one is just giving it back (`TokenHasSource`); it is inductive
on top of `SInv`.  The steps are split by thread, then by action.

`GpuEncodeProofs` proves about `GpuEncode`, for every number of encoders, textures and ticks:

| theorem | says |
| --- | --- |
| `StoppedIsQuiet` | `Spec => []QuietAfterStop` |
| `RawFramesInTime` | `Spec => RawTimeline`, if surfaces can be mapped (`~MapMayFail`) |
| `PicturesIntact` | `Spec => []PictureIntact` |
| `TicksAreKept` | `Spec => []NoTickLost` |
| `TypeCorrect` | `Spec => []TypeOK` |

`QuietAfterStop` rests on `ServiceInv`: the thread has encoders in hand only while
`gpu_encode_inactive` is down, so that a stop that waits for it finds none, and an encoder is in the
list at most once, so that erasing it takes it out.  `RawTimeline` rests on `LoopInv`, which says for each
place of the loop what is staged: at "sleep" a picture whose time is not yet written, at "update" one
picture with its one time in the buffer, ending where the clock stands; at "output" that, or raw output
has just begun and both are empty.  The condition is needed, as *Known departures* shows.

The other three rest on `GpuInv`.  Its `QueueInv` says that the textures are shared out: each is in the
free queue, in a frame that waits, in the hands of the thread or the one rendered into, in one of these
places only (`Good`), and none is missing while the thread runs (`Covers`).  The second part is why no tick is
lost: `queue_frame` without a free texture adds to the last frame that waits, and with three
textures or more (`TexturesAssumption`) one of the two is always there.  `CountInv` counts ticks: those handed over are
served, waiting or in hand, and the last two are as many as the posts, with one less while the thread skips
its first wakeup.  `PhaseInv` relates the thread to the encoders that start and stop, `MixInv` the frame
loop to what is active.  The ticks of one frame are queued by a fold; each of its steps keeps `QueueInv`.

`EncoderGroupProofs` proves about `EncoderGroup`, for every finite set of encoders, any divisors and
any mix of raw, texture and paired encoders:

| theorem | says |
| --- | --- |
| `TracksAligned` | `Spec => []SamePictureSamePts` |
| `NobodyMissesTheStart` | `Spec => []NoMissedStart`, if encoders in `Raw` have divisor 1 |
| `TypeCorrect` | `Spec => []TypeOK` |
| `RequestInvariance` | `Spec => []RequestInv`, the inductive invariant of the updates |
| `KeyFramesTogether` | `Spec => [](sessions <= 1 => ReconfigureTogether)` |
| `UpdatesApplied` | `Spec => [](sessions <= 1 => UpdateApplied)` |

`GroupInv` has the clocks, the phases of the session and `InStep`: an encoder that has begun has the
start frame of the group, and `start_ts + cur_pts` is the next frame it will encode, which the divisor counter
gives.  The start frame is given once, to a complete group, and taken back only when the
last encoder is gone; both need that `num_encoders_started` is the number of active encoders.
`OnTime` adds that texture encoders count nothing before they begin.

`RequestInv` says what the two counters of a request count (`Counted`: the encoders that have seen it and those
that have carried it out), that nobody is past the boundary `next_pts` who has seen the request and not
carried it out (`NobodyPast`), and that where one encoder has reconfigured all have or are about to
(`Together`).  The boundary can be agreed upon because pts and boundary are multiples of the divisors (`Multiples`),
and the last encoder that sees the request computes the boundary from the largest pts.  `UpdateInv` adds the
times: an encoder that has not seen the request is at most a lead behind one that has, so that the
request is seen, then carried out, within `Patience`; an update that comes while a request is carried out
waits for the next one (`Owed`), which is why `Patience` has room for two.
Both hold in the first session of a group.  In a second one request ids are stale (*Known departures*).

`RtmpStreamProofs` proves about `RtmpStream`, with the `Output` it extends, for every number of calls,
retries, refused and broken connections, with `SlowEncoders`, `EncoderMayFail` and forced stops:

| theorem | says |
| --- | --- |
| `CaptureInvariance` | `Spec => []CaptureInv`, the inductive invariant |
| `CapturesAreApart` | `Spec => []CapturesDoNotOverlap` |
| `TypeCorrect` | `Spec => []TypeOK` |
| `StopsAreObeyed` | `Spec => []StopIsObeyed`, if no connection breaks, no encoder fails and no stop is forced |
| `EndsAreTold` | `Spec => []EndIsTold`, if no encoder fails, no stop is forced, and either no connection breaks or nobody stops and encoders stop within the retry delay |

The flags have no lock, so that what keeps captures apart is the order in which they are written.
`CaptureInv` says that from the thread that takes `data_active` away to the one that clears
`active`, a capture is active and without data and only one thread is at it (the next one that looks finds
no data and goes past), and that `active` is off between the two writes of a begin.  `EndActive` is the
only step that clears `active`, and a begin needs it clear.

`StopsAreObeyed` and `EndsAreTold` follow a session through its stages, each of which says where every
thread stands and what the flags are: `SteadyInv` those of a session whose connection lasts (`Down`,
`Starting`, `Trying`, `Live`, `Stopping`, `Stopped`, `Refusal`), `LossyInv` those of one that nobody stops
(`NotStarted`, `Begun`, `Attempt`, `OnAir`, `Breaking`, `Waiting`, `Over`).  For each stage there is a lemma that
each step of a thread stays in it or leads to another one.  The hypotheses are runs of their own:
the first is `rtmp_user_stops`, the second `rtmp_reconnects`.  They leave out what the code gets wrong, a stop that meets a
disconnection (`rtmp_stop_lost`), a retry while encoders still stop, a forced stop at rest (*Known
departures*), and an encoder that fails.

`RtmpQueueProofs` proves about `RtmpQueue`, for every finite set of tracks, every pattern of frames that
begins with a keyframe, any thresholds, bitrates, estimates and numbers of frames and connections:

| theorem | says |
| --- | --- |
| `PacketsAreServed` | `Spec => []QueueIsServed` |
| `SentIsDecodable` | `Spec => []Decodable`, if the keyframes of the tracks are together |
| `TypeCorrect` | `Spec => []TypeOK` |
| `BufferIsBounded` | `Spec => []BufferBounded`, the half of `CongestionIsMet` that drops frames |
| `BitrateUpByStep` | `Spec => UpByStep`, if `PreviousInRange` always holds |
| `CongestionMet` | `Spec => []CongestionIsMet`, if `PreviousInRange` always holds |
| `OneTrackBitrate` | `Spec => UpByStep`, if there is one video track and `FallsShort = {}` |
| `OneTrackCongestionMet` | `Spec => []CongestionIsMet`, if there is one video track and `FallsShort = {}` |

`ServedInv` relates the semaphore to the queue: a packet has a wakeup, or the encoder's thread is just about
to post it (`Posting`); dropping leaves wakeups without packets, never the reverse.

`DecodeInv` is about `Follows`, a relation between the queue, `min_priority`, the last frame of each track that was
sent and the frame that comes next: the frames of a track are in order (`InSequence`); each of them has what it is
predicted from in the queue or sent (`QueueFollows`); and so has the next frame, or else `min_priority` will
keep it out until a keyframe (`NextFollows`).  The last part is what makes `Decodable` inductive, and
what `min_priority` is for.  Each thing that happens to the queue keeps it: `KeptFollows` (frames are dropped),
`AppendFollows`, `SkipFollows` and `AudioFollows` (a packet is added, turned away, or audio), `SentFollows`.
`AppendFollows` is where the hypothesis is needed: a keyframe resets the `min_priority` that all tracks share, so it has
to be the keyframe of all of them.  Without it the property is false (*Keyframes apart* below).

`TypeCorrect` says above all that no bitrate is below zero.  `dbr_set_bitrate` interpolates between two columns
of a table that grows at every connection by one column of zeros and one of bitrates (`IsTable`).  The column
it starts from is the last one that fits, and the one after it has a higher sum, so it is one of bitrates,
after one of zeros: that is why the differences are not negative, though the sums are
not in increasing order.

`BufferBounded` rests on `WaitInv`, which is about each frame in the queue that may be dropped: as long as it
waits, nothing of its priority is missing after it (`NothingMissing`), so that the check has seen it at each frame
that may be dropped and came after it; since the last check only `b` frames came, or were turned away
(`OnlyBsSince`), and the check let the time up to there pass (`WaitsAtMost`).  The run of `b` frames is why the bound
is the threshold, one frame, and `LongestRun`: `last_dts` does not advance with frames that are turned away,
and the frame after them is let in before the check sees how long the first one has waited.

The bitrates rest on `RateInv`: no column of the table is above the settings of the user, and the last one has the sum this
connection began with (`TableFits`); from the first connection on the settings of the encoders add up to
`dbr_cur_bitrate` but for at most one unit for each track, and neither it nor `dbr_prev_bitrate` is above the
original (`RatesFit`).  What has to be shown of `dbr_set_bitrate` is that its product of doubles loses at most
one unit for each track, less where no product falls short (`Exact`), and gives none more than its column
(`DivisionBounds`, `ScaledIs`, `SharesFit`, `SetBitrateFits`).
One thing is not in the invariant, since it is not always so: `dbr_bitrate_lowered` may go back to `dbr_prev_bitrate`,
which can be that of an earlier connection.  `PreviousInRange` says that at rest it is no higher than what the
encoders are set to.  It holds when "reset bitrate on stop" has the last word (`RestoredInRange`), and always
with one track where doubles are exact, since its bitrate then loses nothing in rounding (`OneTrackInRange`).
With several tracks, or doubles that fall short, an encoder that delivers after the reset (*Bitrate left low*)
can make it false.

`InterleaverProofs` proves about `Interleaver`, for every finite set of tracks, any lengths of packets, distances of
keyframes, start times and distances of threads, under the assumptions named in `Interleaver` only (among them
`NeverAssumption`: the number that stands for `INT64_MIN` is below minus the lead of every encoder):

| theorem | says |
| --- | --- |
| `TypeCorrect` | `Spec => []TypeOK` |
| `TimesAreKept` | `Spec => []TimesMatch` |
| `PacketsKept` | `Spec /\ []BegunBySending => []NoGaps` |
| `SentInOrder` | `OneAudio /\ Spec /\ []BegunBySending => []InOrder` |
| `SentTogether`, `SentInSync` | `OneAudio /\ Spec /\ []BegunBySending => []Synced`, and `[]InSync` if `NoPriming` |
| `OneVideoBegins` | `VideoTracks = {0} /\ Spec => []BegunBySending` |
| `OneVideoPlayable` | `VideoTracks = {0} /\ Spec /\ [][KeyframesKept]_vars => []Playable` |
| `OneVideoNoGaps`, `OneVideoOneAudioInOrder`, `OneVideoOneAudioTogether`, `OneVideoOneAudioInSync` | the theorems above with one video track, where `BegunBySending` is proved and no longer assumed |

The frame times are kept beside the queue, in an array for each track, and nothing in the code ties an
entry to its packet: `discard_to_idx` takes the *first* times of a track with each packet it throws away,
`send_interleaved` those with the pts of the packet it sends, `apply_interleaved_packet_offset` shifts packets and
times in different loops.  `TimesMatch` is that the times of a track are those of its waiting
packets, one entry for each, and that every packet that was sent had its times.  `IInv` adds why:

- a packet in the queue is the one its encoder made with the offset of its track taken off, so that two
  packets of a video track never have the same pts, and a new one has another pts than any that
  waits (`Queue`);
- until the stream has started there are no video offsets, the queue is sorted and the times of each track
  rise, so that the first times are those of the first packet, which is what makes `discard_to_idx` right
  (`InSystemTime`, `Rising`).  Afterwards a packet is found by its pts and the order of the array is of no
  account; that the array is then still in the order of the queue is false with the constants of *Keyframe
  taken along*.

There is a lemma for each operation on the pair of queue and times, whatever the state it is called in: `QueueInsert`
and `MatchesInsert` (a packet comes), `Drop` (any number of packets is thrown away, by induction over
the loop), `ResortedQueue`, `ShiftedQueue`, `SentGoing`.  The searches (`StartIdxIn`, `PrematureIn`) are shown to stay inside
the queue, so that what they cut off is there.  An attempt to begin is the composition of these
(`AttemptGood`, `BeginsInv`), and each of the steps of an encoder has its lemma.

The stream itself rests on invariants that are built on `IInv`, and each theorem on what it needs:

- `SInv` says which packets there are.  While packets are collected (`Gathered`), the queue holds each as its
  encoder made it and from the first one of a track on all of them (`UpToDate`); once something was sent
  (`Streaming`), that is so of what was sent and of the queue taken together, in the order of each track
  (`Unbroken`), with timestamps in stream time and the queue sorted (`Flow`).  `NoGaps` is read off that.
- `RInv` adds the highest timestamps (`Ranking`): what was sent is in order, below all that waits and below the
  highest timestamp of every track (`Ranked`), and the next packet of a track comes above its highest timestamp
  (`Above`).  So what `has_higher_opposing_ts` lets go is below whatever may still come.
- `Leading` adds that the first packet of the video, in the queue or already sent, is a keyframe (`Led`), and that
  packets are sent as they were marked (`Marked`).
- `Synced` is about the beginning alone.  `get_interleaved_start_idx` keeps the audio packet that is nearest to the
  first video packet among those that are kept (`StartDecides`, `StartJoins`).  That it is within a packet is shown
  separately: where nothing is premature, the audio begins no later than a video packet after the video and goes
  on until past it (`AudioMeets`); where something is, what is left begins behind a packet of each track
  (`PrunedMeets`).  `OffsetsTogether` turns that into the offsets.

The hypotheses are there because the statements are false without them, which TLC shows on small instances:

- `BegunBySending`: once every track is marked as received, the stream has started with a packet.  With one video
  track it is a theorem, since a track that is missing is then the one that loses its mark.  With two it holds on
  the instance of `interleave`, but not always (*Started without a start*).
- `OneAudio`: `highest_audio_ts` is shared by the audio tracks (*Audio tracks that overtake*).
- `KeyframesKept`: what `prune_premature_packets` leaves of the video begins with a keyframe, or nothing is left.
  It holds on the instance of `interleave`.  Where the threads are further apart it fails, and `Playable` with it
  (*Keyframe taken along*).
- `NoPriming`: `InSync` measures the distance in packets.  Where the audio has priming, `Synced` is what is true in
  general: the audio is no later than a packet after the video, and no earlier than a packet and its priming before
  it (*Priming that is over*).

Model-checked and not proved:

- liveness (`StopJoins`, `StopReturns`, `CallsAreAnswered`, `ReconnectEnds`, `ServesTimeline` with its
  fairness), since fairness and `ENABLED` are out of the prover's reach;
- `ReconfigureTogether` and `UpdateApplied` after the first session, where they are false;
- `StopIsObeyed` and `EndIsTold` without the hypotheses above: with stops and broken connections they are
  false; with an encoder that fails they are neither run nor proved, and `CapturesDoNotOverlap` is both;
- `PreviousInRange` with several tracks or inexact doubles, the condition of `BitrateUpByStep` and `CongestionMet`: TLC finds no
  violation with the constants of `rtmp_packets` (no run lists it), and it is false in corners (*A stale previous bitrate*);
- `InOrder`, `Playable` and `InSync` of `Interleaver` with several audio or video tracks, beyond what the
  hypotheses above give: they hold on the instance of `interleave`, and are false in others (*Known departures*).
  A proof for such instances needs assumptions on how far the clocks and the packets of the encoders are
  apart, and the code states none.

## Disagreements

Where a run expects a violation, the code does something its own documentation
rules out.

- `rtmp_stop_lost` (`rtmp-stream.c:733`).  The send thread looks at `stop_event` once and
  clears it when it leaves; a stop between is forgotten and the output reconnects.
- `screen_close_hangs` (`screen-capture.c:408`).  The last close joins the audio pump with
  `audio_mx` held; a pump that has read something waits for that lock to push it.
  `PumpStopReturns` is what the comment at 265 says: the last one to go stops the pump.
- `screen_removed_stays` (`obs-video.c:67`).  `tick_sources` passes over removed sources, but only
  the tick closes a capture, and the open capture holds a reference of its source.  Comment
  670-672 of `screen_destroy` says that the token goes with the last source.

## Known departures

A property that passes under a condition says so here; with the condition
removed TLC finds it violated, with the constants named.  The `MC` modules hold
the definitions that are needed to repeat this.

Raw video and encoder groups:

- **An input disconnects itself** (`video-io.c:144`).  `video_output_cur_frame` walks the inputs by
  index; an input whose callback disconnects it moves the next one into its place, which is
  passed over for the frame.  `SameStartSameFrame`, after the comment at 147-149 (encoders
  started together start on the same frame), fails with `CacheSize = 2`, `Inputs = {a, b, c}`,
  `Divisor <- EverySecond`, `Faulty = {a}`, `MaxTicks = 4`, `MaxCount = 1`, `MaxGpuRefs = 0`.

- **Groups, two sessions with updates** (`obs-encoder.c:432, 1554`): request ids that
  encoders have seen outlive the session of the group.  `UpdateApplied` fails with
  `Divisor <- FullRate`, `MaxSessions = 2`, `MaxTicks = 18`, `MaxLead = 1`, `MaxUpdates = 2`;
  `ReconfigureTogether` with `Divisor <- FullRate`, `Encoders = {p, q}`, `Raw = {p}`, `Paired = {}`,
  `MayFail = {}`, `MaxSessions = 2`, `MaxTicks = 16`, `MaxLead = 2`, `MaxUpdates = 4`.  It says nothing of a group in
  which an encoder has failed.
- **Groups, raw path** (`video-io.c:147`): the divisor counts from the connection, so that
  an encoder at half rate that connected a frame off never gets the start frame.
  `NoMissedStart` fails with an encoder of divisor 2 in `Raw`.
- **Leaving a group** (`obs-encoder.c:2199`): `obs_encoder_set_group(NULL)` takes the encoder out of its
  group and leaves its pointer to the group in place.  Changing groups is not modelled.

Output and RTMP stream:

- **Stop during a reconnect** (`obs-output.c:482` against 363): a stop resets `stopping_event`, then
  joins a reconnect thread that waits for it in `obs_output_actual_start`.  `CallsAreAnswered`
  (its part `StopReturns`) fails with `FairSpec`, `Reconnectors = {r1, r2}`, one start, one stop, one
  broken connection and `RetryMax = 1`; `rtmp_user_stops` has no broken connection.
- **Bitrate left low** (`rtmp-stream.c:726`): after "reset bitrate on stop" an encoder that still
  delivers lowers the bitrate again, and the next connection takes it for the user's.
  `BitrateRestored` fails with the constants of `RtmpPackets.cfg` and `MaxSessions = 1`.
- **Force stop at rest** (`obs-output.c:551`): a force stop after the end of the capture
  resets `stopping_event`, which nobody signals; the next start waits for ever.  `CallsAreAnswered`
  fails with `MaxForces = 1`.
- **Refused retry** (`obs-output.c:2938`): when the encoders of the broken session still stop
  while the delay ends, the retry is refused and no other follows.  `ReconnectEnds`
  fails with `SlowEncoders = TRUE`.
- **Failed encoder** (`rtmp-stream.c:697`): the stop of a failed encoder may reach the send thread
  before the failure does, and the session ends as a success.  No property
  states otherwise, since no document does.
- **Threads of a connection** (`rtmp-stream.c:210, 974, 1506`): a stop joins the connect thread when
  `connecting` is set, while that thread may detach itself or have returned on a bad path
  without clearing the flag; meta data that cannot be sent leaves the send thread on a
  semaphore that the next connection destroys.  `RtmpStream` leaves these returns out.
- **Keyframe taken along** (`obs-output.c:2113, 2239`): a video packet that is thrown away takes
  older packets along, the keyframe of another track among them, and the track
  stays marked as received.  `Playable` fails with `AudioTracks = {0}`,
  `Starts <- OnlyFresh`, `Early <- SecondVideo`, `MaxSessions = 1`.  `prune_premature_packets` (1880) does the
  same when the threads are apart by more than a video packet (`MaxSkew = 4` or 5).
- **Started without a start** (`obs-output.c:2113, 2239`): with two video tracks, `initialize_interleaved_packets` may
  throw the only packet of the second one away; that track is then waited for, and its next packets that are no keyframes take the
  first track's along, which stays marked as received.  When the keyframe comes, all tracks are marked, the attempt fails, and
  the next packet finds the stream started without offsets (`VideoTracks = {0, 1}`, `AudioTracks = {0}`, video packets of 4
  and 2 units, audio packets of 3, `Gop = 3`, `MaxSkew = 4`).
- **Audio tracks that overtake** (`obs-output.c:1468`): a packet of one audio track does not wait for another audio track, although
  "this ensures that the timestamps are monotonic" (2211).  Audio tracks with packets of one length and the same priming
  do not need to, and the encoders of an output usually are of one kind.  With different lengths (2 and 5) or different
  priming (0 and 4) `InOrder` fails.
- **Priming that is over** (`obs-output.c:2045`): the offset of an audio track is the `dts` of its first packet, in which its priming is
  taken off, while the packet was chosen by its system time.  When the encoder runs already, the audio is early by
  its priming: `InSync` fails with one video track (packets of 2) and one audio track (packets of 5, `Lead` 5).
- **Batch size** (`obs-output.c:2749`): `interleaver_max_batch_size` is added to at each begin and
  not reset.  The second packet of a delivery, sent when the queue is longer than
  that, does not occur in the instance of `interleave`.
- **Keyframes apart** (`rtmp-stream.c:1831`): `min_priority` is shared by the tracks, so the
  keyframe of one lets through frames of another that cannot be decoded.  `Decodable`
  fails with `Pattern <- Apart`, `MaxSessions = 1`, `MaxFrames = 9`.  The keyframes of an encoder group
  are together.
- **A stale previous bitrate** (`rtmp-stream.c:1625`): `dbr_prev_bitrate` is not reset by `init_connect`.  Where the
  settings were left low it may be above them by what rounding lost, and going back
  to it goes above what this connection began with.  `PreviousInRange` fails with the constants of `RtmpPackets.cfg` but
  `Estimates = {50, 110}` and `Bitrates <- OddRates`; or, with a single track, whose share of 100 kbps comes out as
  99 and of 99 as 98, with `VideoTracks = {0}`, `Bitrates <- SoleRate` and `FallsShort <- SoleShort`; where it holds, `UpByStep` and `CongestionIsMet` are proved.

Texture encoding and frame times:

- **Encode error** (`obs-video-gpu-encode.c:190`): the error stops the encoder on the encode thread,
  which then waits for `gpu_encode_inactive` that only it signals.  `remove_connection`
  warns of such a deadlock on encode errors (`obs-encoder.c:441`).  `ErrorIsHandled` fails with
  `FairSpec`, `MaxTime = 6`, `MaxCount = 1`, `MaxToggles = 0`, `Encoders = {e1}`, `MayFail = {e1}`,
  `MaxEncoderStarts = 1`.  `gpu_queue` checks the rest of the system up to such an error.
- **A map that fails** (`obs-video.c:904`): the time of a frame whose surface cannot be mapped stays in
  the buffer, and all later pictures go out one frame early.  `RawTimeline` fails with
  `MapMayFail = TRUE`.
- **Two at a time** (`obs.c:3201`, 3228-3242): nothing guards a stop against another one or against a
  start; `GpuEncode` stops one encoder at a time and starts none while the last one stops.
- **Duplicates** (`obs-video.c:444`): the ticks of a frame of two ticks are a copy and a frame with
  the same timestamp, or counts of one frame, depending on the queue; `NoTickLost`
  counts them, and no property speaks of their timestamps.

Screen capture:

- **Late consent** (`screen-capture.c:676`): a dialog may be answered after the last source is gone, and
  the token then stays until the next one goes.  `NothingLeftBehind` leaves out a token taken
  then (`late`).
- **A stolen display** (`ObsProjectionHost.startCapture`): the second source takes the display of the first,
  which keeps its reader, gets no images and does not open again until the token or the
  size changes.  The model has it; no document says otherwise.
- **Ticked though not shown** (`screen-capture.c:708-740`): the tick opens a capture again, or asks for
  consent, for a source that is not active.  The model has it too.
- **Size and token** (`screen-capture.c:611`): a token that is revoked counts as lost only if `check_live`
  sees it before a change of size; the source then asks again.
- **The source of a leftover callback** (`screen-capture.c:681`): where a callback may still run, `screen_destroy` keeps its
  data, but `obs_source_destroy_defer` (`obs-source.c:801`) frees the `obs_source_t` all the same, and a callback that
  outlived the close may use it (`screen-capture.c:228`).  `freed` is about the data of the plugin only.
- **A callback that has not counted itself**: a listener that was called before it is cleared is
  assumed to have incremented `in_callback` by then, as the NDK does not say.

## Not modelled

In the modelled files: scaling and formats (`video-io.c`); pause, regions of interest, settings,
properties and side data (`obs-encoder.c`); pause, delay, captions, raw outputs, settings and the
deletion of outputs (`obs-output.c`); rendering, several mixes and their removal (`obs-video.c`); keyed
textures and initialisation that fails (`obs-video-gpu-encode.c`); the foreground service and the
permissions of the host (`ObsProjectionHost.java`), `shutting_down`, frame formats (`screen-capture.c`); headers, meta data, settings, socket options, the
destruction of the stream and the wire protocol (`rtmp-stream.c`).  A few early
returns that depend on settings alone (an invalid path, an encoder missing)
are left out of `RtmpStream`, where a session has what it needs.

Coarser than the code, where no property looks: which texture is staged with raw and texture output together
(`convert_textures_encode`, `obs-video.c:559-573`); the reset of `dbr_cur_bitrate` at the end of a connection,
one step though it holds no mutex (`rtmp-stream.c:726-731`); and whether a give-back without a token finds the host still meaning
to have one (`wantProjection`), where both outcomes are possible.

`keyframe_group_tracking` is cleared without its mutex (`obs-output.c:527`) and a delayed packet
is leaked when the output is not active (`obs-output.c:2230`): both wait for
the modules that hold this state.

Other components: see `PROJECT.json`.  Scenes, displays, hotkeys, data, graphics back ends and
the frontend are data structures or calls into other systems rather than
protocols of their own; vendored libraries are third-party code.

## Plan

The order was: what every stream goes through first.  The ring, encoder groups, the
output session and its implementation, interleaving and the queue to the network
are done, and so are the frame loop with texture encoding and the screen capture.  Next:

1. `OutputDelay` (`obs-output-delay.c`): packets, starts and stops in one queue in time order,
   composed with `Output`; abstract specification: a queue that delays.
2. An abstract session (idle, starting, live, reconnecting, stopping) that `RtmpStream`
   implements, under the conditions of the departures above.
3. Pause of outputs and encoders (`obs-output.c`, `obs-encoder.c`): the timestamps that are cut out of
   audio and video must agree.
4. `WeakRef` (`obs.c`, `util/threading`): strong and weak counts, the destruction queue.
5. `TaskQueue` (`util/task.c`) and `SignalHandler` (`callback/signal.c`): waiting callers, callbacks removed
   while signalled.
6. `AsyncFrames` (`obs-source.c`) and `AudioIO` (`obs-audio.c`, `audio-io.c`): caches and buffering at their limits.
7. The replay buffer of `obs-ffmpeg-mux.c`; the camera, UVC and Nikon capture threads.

Proofs: `InOrder` of `Interleaver` with several audio tracks whose packets and priming are the same;
`EndIsTold` with encoders that fail.
