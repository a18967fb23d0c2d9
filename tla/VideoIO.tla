------------------------------- MODULE VideoIO -------------------------------
(***************************************************************************)
(* The raw-video output of libobs, media-io/video-io.c.                    *)
(*                                                                         *)
(* The graphics thread produces frames into a ring of at most CacheSize    *)
(* cached frames (video_output_lock_frame / video_output_unlock_frame);    *)
(* the "video-io: video thread" consumes them (video_thread,               *)
(* video_output_cur_frame) and calls every connected input.  Each cached   *)
(* frame stands for count consecutive ticks of the output clock: a slow    *)
(* graphics thread gives a frame more than one tick, and a frame that      *)
(* finds the ring full gives its ticks to the last cached frame instead.   *)
(*                                                                         *)
(* Time is counted in ticks of frame_time nanoseconds, so a timestamp is a *)
(* natural number.  data_mutex sections are single steps.  input_mutex is  *)
(* held by the video thread exactly while vpc = "inputs"; connecting and   *)
(* disconnecting from another thread is a single step that needs it.       *)
(***************************************************************************)
EXTENDS Integers, Sequences

CONSTANTS
    CacheSize,  \* info.cache_size after init_cache (at most MAX_CACHE_SIZE)
    Inputs,     \* identities of callbacks: a (callback, param) pair each
    Divisor,    \* Divisor[i]: the frame_rate_divisor input i connects with
    Faulty,     \* the inputs whose callback may fail and disconnect itself
    MaxTicks,   \* bound on the clock of the model
    MaxCount,   \* bound on the ticks one frame may stand for
    MaxGpuRefs  \* bound on concurrently active texture encoders

ASSUME CacheSizeAssumption == CacheSize \in 1..16
ASSUME DivisorAssumption == Divisor \in [Inputs -> Nat \ {0}]
ASSUME FaultyAssumption == Faulty \subseteq Inputs
ASSUME BoundsAssumption == /\ MaxTicks \in Nat
                           /\ MaxCount \in Nat \ {0}
                           /\ MaxGpuRefs \in Nat

VARIABLES
    available_frames, first_added, last_added,
    cache,              \* slot -> timestamp, count, skipped and its picture
    update_semaphore,
    stop,
    inputs,             \* DARRAY(struct video_input)
    raw_active, gpu_refs, skipped_frames,
    vpc,                \* where the video thread is
    held,               \* its local frame_info: the slot it works on
    idx,                \* its local i, the input it has reached
    writing,            \* the slot the graphics thread is copying into
    raw_was_active,     \* the graphics thread's copy of raw_active
    now,                \* the tick of the next frame to be produced
    passes,             \* history: completed walks over the inputs
    due                 \* history: ticks merged into a cached frame since the
                        \* last reset, less those the reset itself discarded

ring == <<available_frames, first_added, last_added, cache>>
vthread == <<vpc, held, idx>>
gfx == <<writing, raw_was_active, now>>
stats == <<skipped_frames, due>>
vars == <<ring, update_semaphore, stop, inputs, raw_active, gpu_refs,
          stats, vthread, gfx, passes>>

Slots == 0..(CacheSize - 1)
NoSlot == -1
Torn == -1      \* the picture of a slot that is being copied into

\* Mut: forgets to wrap.
NextSlotMut(s) == s + 1

\* ++index, back to 0 at cache_size
NextSlot(s) == IF s + 1 = CacheSize THEN 0 ELSE s + 1

\* Slots waiting for, or in the hands of, the video thread.
Pending == CacheSize - available_frames
IsPending(s) ==
    IF first_added + Pending <= CacheSize
    THEN first_added <= s /\ s < first_added + Pending
    ELSE first_added <= s \/ s < first_added + Pending - CacheSize

Connected == {inputs[k].id : k \in DOMAIN inputs}

-----------------------------------------------------------------------------

(* video_output_open, init_cache: every slot available, no input. *)
Init ==
    /\ available_frames = CacheSize
    /\ first_added = 0
    /\ last_added = 0
    /\ cache = [s \in Slots |-> [ts |-> 0, count |-> 0, skipped |-> 0, pic |-> 0]]
    /\ update_semaphore = 0
    /\ stop = FALSE
    /\ inputs = <<>>
    /\ raw_active = FALSE
    /\ gpu_refs = 0
    /\ skipped_frames = 0
    /\ vpc = "wait" /\ held = NoSlot /\ idx = 0
    /\ writing = NoSlot /\ raw_was_active = FALSE /\ now = 1
    /\ passes = 0 /\ due = 0

-----------------------------------------------------------------------------
(* The graphics thread: output_video_data, once per produced frame.  It    *)
(* samples raw_active once per iteration (raw_was_active).                 *)

\* A frame while raw output is off: the tick passes and nothing is produced.
Idle ==
    /\ writing = NoSlot /\ ~raw_was_active
    /\ now < MaxTicks
    /\ now' = now + 1
    /\ raw_was_active' = raw_active
    /\ UNCHANGED <<ring, update_semaphore, stop, inputs, raw_active, gpu_refs,
                   stats, vthread, writing, passes>>

\* Mut: also steps past the slot an empty ring starts with.
SlotToLockMut == NextSlot(last_added)

\* The slot the next frame goes to.
SlotToLock == IF available_frames # CacheSize THEN NextSlot(last_added)
                                              ELSE last_added

\* video_output_lock_frame, the ring has a free slot: claim it.
LockFrame(count) ==
    /\ writing = NoSlot /\ raw_was_active
    /\ now + count <= MaxTicks
    /\ available_frames # 0
    /\ last_added' = SlotToLock
    /\ cache' = [cache EXCEPT ![last_added'] =
                    [ts |-> now, count |-> count, skipped |-> 0, pic |-> Torn]]
    /\ writing' = last_added'
    /\ UNCHANGED <<available_frames, first_added, update_semaphore, stop,
                   inputs, raw_active, gpu_refs, stats, vthread,
                   raw_was_active, now, passes>>

\* Mut: the ticks are only added to one of the two counters.
OnlyCountMut(slot, n) == [slot EXCEPT !.count = @ + n]

\* A cached frame that takes over n ticks of a dropped one.
Merged(slot, n) ==
    [ts |-> slot.ts, count |-> slot.count + n, pic |-> slot.pic,
     skipped |-> slot.skipped + n]

\* video_output_lock_frame, the ring is full: the frame is dropped and its
\* ticks go to the last cached frame, as skipped ticks.
MergeFrame(count) ==
    /\ writing = NoSlot /\ raw_was_active
    /\ now + count <= MaxTicks
    /\ available_frames = 0
    /\ cache' = [cache EXCEPT ![last_added] = Merged(@, count)]
    /\ due' = due + count
    /\ now' = now + count
    /\ raw_was_active' = raw_active
    /\ UNCHANGED <<available_frames, first_added, last_added, update_semaphore,
                   stop, inputs, raw_active, gpu_refs, skipped_frames,
                   vthread, writing, passes>>

\* os_sem_post
Post == update_semaphore' = update_semaphore + 1

\* A slot whose picture has been copied.
Filled(slot, tick) == [ts |-> slot.ts, count |-> slot.count, pic |-> tick,
                       skipped |-> slot.skipped]

\* The copy is complete; video_output_unlock_frame publishes the slot.
UnlockFrame ==
    /\ writing # NoSlot
    /\ cache' = [cache EXCEPT ![writing] = Filled(@, now)]
    /\ available_frames' = available_frames - 1
    /\ Post
    /\ now' = now + cache[writing].count
    /\ writing' = NoSlot
    /\ raw_was_active' = raw_active
    /\ UNCHANGED <<first_added, last_added, stop, inputs, raw_active, gpu_refs,
                   stats, vthread, passes>>

Produce == \/ Idle
           \/ \E count \in 1..MaxCount : LockFrame(count) \/ MergeFrame(count)
           \/ UnlockFrame

-----------------------------------------------------------------------------
(* The video thread: video_thread and video_output_cur_frame.              *)

\* os_sem_wait returns.
Wake ==
    /\ vpc = "wait" /\ update_semaphore > 0
    /\ update_semaphore' = update_semaphore - 1
    /\ vpc' = "woken"
    /\ UNCHANGED <<ring, stop, inputs, raw_active, gpu_refs, stats, held, idx,
                   gfx, passes>>

\* if (video->stop) break;
CheckStop ==
    /\ vpc = "woken"
    /\ vpc' = IF stop THEN "exit" ELSE "loop"
    /\ UNCHANGED <<ring, update_semaphore, stop, inputs, raw_active, gpu_refs,
                   stats, held, idx, gfx, passes>>

\* The loop test, then frame_info = &cache[first_added] under data_mutex.
TakeFrame ==
    /\ vpc = "loop"
    /\ IF stop THEN vpc' = "wait" /\ UNCHANGED held
               ELSE vpc' = "taken" /\ held' = first_added
    /\ UNCHANGED <<ring, update_semaphore, stop, inputs, raw_active, gpu_refs,
                   stats, idx, gfx, passes>>

LockInputs ==
    /\ vpc = "taken"
    /\ vpc' = "inputs" /\ idx' = 1
    /\ UNCHANGED <<ring, update_semaphore, stop, inputs, raw_active, gpu_refs,
                   stats, held, gfx, passes>>

\* frame_rate_divisor_counter++, back to 0 at frame_rate_divisor
Counted(input) ==
    [input EXCEPT !.counter = IF @ + 1 = input.divisor THEN 0 ELSE @ + 1]

\* One input: its divisor counter, and its callback when the counter was 0.
\* A callback that returns changes nothing here (it reads the picture).
VisitInput ==
    /\ vpc = "inputs" /\ idx <= Len(inputs)
    /\ inputs' = [inputs EXCEPT ![idx] = Counted(@)]
    /\ idx' = idx + 1
    /\ UNCHANGED <<ring, update_semaphore, stop, raw_active, gpu_refs, stats,
                   vpc, held, gfx, passes>>

Without(seq, k) == SubSeq(seq, 1, k - 1) \o SubSeq(seq, k + 1, Len(seq))

\* The input's callback disconnects the input: an encode error in
\* receive_video reaches full_stop, remove_connection and, under the
\* recursive input_mutex, video_output_disconnect2, which erases the array
\* element the loop stands on.  The loop goes on at i + 1 all the same.
VisitFaultyInput ==
    /\ vpc = "inputs" /\ idx <= Len(inputs)
    /\ inputs[idx].id \in Faulty /\ inputs[idx].counter = 0
    /\ inputs' = Without(inputs, idx)
    /\ raw_active' = (Len(inputs) > 1)
    /\ idx' = idx + 1
    /\ UNCHANGED <<ring, update_semaphore, stop, gpu_refs, stats, vpc, held,
                   gfx, passes>>

UnlockInputs ==
    /\ vpc = "inputs" /\ idx > Len(inputs)
    /\ vpc' = "walked"
    /\ passes' = passes + 1
    /\ UNCHANGED <<ring, update_semaphore, stop, inputs, raw_active, gpu_refs,
                   stats, held, idx, gfx>>

\* Mut: the timestamp stays.
ServedMut(slot) ==
    [slot EXCEPT !.count = @ - 1,
                 !.skipped = IF slot.count > 1 /\ @ > 0 THEN @ - 1 ELSE @]

\* One tick of a slot is served; a skipped one is counted, except as the last.
Served(slot) ==
    [ts |-> slot.ts + 1, count |-> slot.count - 1, pic |-> slot.pic,
     skipped |-> IF slot.count > 1 /\ slot.skipped > 0
                 THEN slot.skipped - 1 ELSE slot.skipped]

\* Mut: last_added stays behind when the ring runs empty.
LastAfterFreeMut(available) == last_added

\* Where the next frame goes once freed slots are available.
LastAfterFree(available) == IF available = CacheSize THEN NextSlot(first_added)
                                                     ELSE last_added

\* The last data_mutex section: one tick of the held frame has been served.
FinishTick ==
    /\ vpc = "walked"
    /\ cache' = [cache EXCEPT ![held] = Served(@)]
    /\ skipped_frames' = skipped_frames + (cache[held].skipped - cache'[held].skipped)
    /\ IF cache'[held].count = 0
       THEN /\ first_added' = NextSlot(first_added)
            /\ available_frames' = available_frames + 1
            /\ last_added' = LastAfterFree(available_frames + 1)
            /\ vpc' = "wait"
       ELSE /\ UNCHANGED <<first_added, available_frames, last_added>>
            /\ vpc' = "loop"
    /\ UNCHANGED <<update_semaphore, stop, inputs, raw_active, gpu_refs, due,
                   held, idx, gfx, passes>>

VideoThread == \/ Wake \/ CheckStop \/ TakeFrame \/ LockInputs
               \/ VisitInput \/ VisitFaultyInput \/ UnlockInputs \/ FinishTick

-----------------------------------------------------------------------------
(* The other threads of the program: encoders and outputs that connect and *)
(* disconnect, texture encoders, and the thread that shuts video down.     *)

NewInput(i) == [id |-> i, divisor |-> Divisor[i], counter |-> 0, since |-> passes]

\* reset_frames: the skip statistics start again (total_frames is left out).
ResetFrames == /\ skipped_frames' = 0
               /\ due' = due - skipped_frames

\* video_output_connect2 of an input that is not connected yet.
Connect(i) ==
    /\ vpc # "inputs"
    /\ i \notin Connected
    /\ inputs' = Append(inputs, NewInput(i))
    /\ raw_active' = TRUE
    /\ IF inputs = <<>> /\ gpu_refs = 0 THEN ResetFrames ELSE UNCHANGED stats
    /\ UNCHANGED <<ring, update_semaphore, stop, gpu_refs, vthread, gfx, passes>>

\* video_output_disconnect2 from a thread other than the video thread.
Disconnect(k) ==
    /\ vpc # "inputs"
    /\ inputs' = Without(inputs, k)
    /\ raw_active' = (Len(inputs) > 1)
    /\ UNCHANGED <<ring, update_semaphore, stop, gpu_refs, stats, vthread, gfx,
                   passes>>

IncTextureEncoders ==
    /\ gpu_refs < MaxGpuRefs
    /\ gpu_refs' = gpu_refs + 1
    /\ IF gpu_refs = 0 /\ ~raw_active THEN ResetFrames ELSE UNCHANGED stats
    /\ UNCHANGED <<ring, update_semaphore, stop, inputs, raw_active, vthread,
                   gfx, passes>>

DecTextureEncoders ==
    /\ gpu_refs > 0
    /\ gpu_refs' = gpu_refs - 1
    /\ UNCHANGED <<ring, update_semaphore, stop, inputs, raw_active, stats,
                   vthread, gfx, passes>>

\* Mut: sets the flag and joins without waking the thread.
StopMut ==
    /\ ~stop
    /\ stop' = TRUE
    /\ UNCHANGED <<ring, update_semaphore, inputs, raw_active, gpu_refs, stats,
                   vthread, gfx, passes>>

\* video_output_stop; its pthread_join returns when vpc = "exit".
Stop ==
    /\ ~stop
    /\ stop' = TRUE
    /\ Post
    /\ UNCHANGED <<ring, inputs, raw_active, gpu_refs, stats, vthread, gfx, passes>>

Clients == \/ \E i \in Inputs : Connect(i)
           \/ \E k \in DOMAIN inputs : Disconnect(k)
           \/ IncTextureEncoders \/ DecTextureEncoders \/ Stop

-----------------------------------------------------------------------------

Next == Produce \/ VideoThread \/ Clients

Spec == Init /\ [][Next]_vars

\* The video thread is scheduled and callbacks return; a frame that has been
\* locked is unlocked (output_video_data copies and unlocks unconditionally).
Fairness == WF_vars(VideoThread) /\ WF_vars(UnlockFrame)

FairSpec == Spec /\ Fairness
-----------------------------------------------------------------------------
(* Properties *)

Slot == [ts : Int, count : Int, skipped : Int, pic : Int]
Serving == vpc \in {"taken", "inputs", "walked"}
Busy == vpc \in {"woken", "loop", "taken", "inputs", "walked"}

(* The state is well-typed. *)
TypeOK ==
    /\ available_frames \in 0..CacheSize
    /\ first_added \in Slots /\ last_added \in Slots
    /\ cache \in [Slots -> Slot]
    /\ update_semaphore \in Nat
    /\ stop \in BOOLEAN /\ raw_active \in BOOLEAN
    /\ inputs \in Seq([id : Inputs, divisor : Nat \ {0}, counter : Nat, since : Nat])
    /\ gpu_refs \in Nat /\ skipped_frames \in Int
    /\ vpc \in {"wait", "woken", "loop", "taken", "inputs", "walked", "exit"}
    /\ held \in Slots \cup {NoSlot}
    /\ idx \in Nat /\ (vpc = "inputs" => idx > 0)
    /\ writing \in Slots \cup {NoSlot} /\ raw_was_active \in BOOLEAN
    /\ now \in Nat /\ passes \in Nat /\ due \in Int

(* The graphics thread never copies into a picture that is still to be     *)
(* served, and the video thread never serves a half-copied one: the only   *)
(* protection between video_output_lock_frame and                          *)
(* video_output_unlock_frame is the arithmetic on available_frames,        *)
(* first_added and last_added.                                             *)
NoTornPicture ==
    /\ writing # NoSlot => ~IsPending(writing)
    /\ Serving => held = first_added /\ IsPending(held) /\ cache[held].pic # Torn

\* The slot k places after s, for k < CacheSize.
After(s, k) == IF s + k >= CacheSize THEN s + k - CacheSize ELSE s + k

\* last_added is the slot being written, else the newest waiting one, else the
\* slot the next frame starts with.
RingShape ==
    /\ writing # NoSlot => /\ available_frames > 0
                           /\ writing = last_added
                           /\ last_added = After(first_added, Pending)
    /\ writing = NoSlot => last_added = IF Pending = 0 THEN first_added
                                        ELSE After(first_added, Pending - 1)

\* What is in a slot that waits, and in the one being written.  The skipped
\* ticks of a waiting slot are fewer than all its ticks, so that each of them
\* is counted before the slot is given back.
SlotsGood ==
    /\ \A s \in Slots : IsPending(s) =>
           /\ cache[s].pic # Torn
           /\ 0 <= cache[s].skipped /\ cache[s].skipped < cache[s].count
    /\ writing # NoSlot => cache[writing].count > 0 /\ cache[writing].skipped = 0

\* The video thread works on the oldest waiting slot.
ServesOldest ==
    /\ Serving => held = first_added
    /\ vpc = "loop" \/ Serving => Pending > 0

(* No lost and no spurious wake-up: until the output is stopped, the posts *)
(* not yet consumed and the frame being served are the published frames.   *)
WakeupsMatchFrames ==
    ~stop => update_semaphore + (IF Busy THEN 1 ELSE 0) = Pending

(* The ring is in one of its legal shapes at every step of either thread:  *)
(* the three indices and the semaphore of struct video_output agree with   *)
(* each other.  The inductive invariant behind the properties above; in    *)
(* particular a frame for which the ring is full is merged into a slot     *)
(* that has been published and is not served out.                          *)
RingInv ==
    RingShape /\ SlotsGood /\ ServesOldest /\ WakeupsMatchFrames

(* The comment in video_output_cur_frame: the explicit counter lets        *)
(* "multiple encoders started at the same time ... start on the same       *)
(* frame".  Inputs of one divisor, connected between the same two walks,   *)
(* stand at the same count after every walk.                               *)
SameStartSameFrame ==
    vpc # "inputs" => \A j, k \in DOMAIN inputs :
        /\ inputs[j].divisor = inputs[k].divisor
        /\ inputs[j].since = inputs[k].since
        => inputs[j].counter = inputs[k].counter

(* video_output_stop joins the video thread: once stop is set the thread   *)
(* leaves its loop, wherever it was, and the join returns.                 *)
StopJoins == stop ~> (vpc = "exit")
=============================================================================
