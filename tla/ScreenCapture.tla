---------------------------- MODULE ScreenCapture ----------------------------
(***************************************************************************)
(* Screen capture on Android: the source plugin                            *)
(* (plugins/android-screen/screen-capture.c), the host that keeps the      *)
(* projection token, the virtual display and the audio recorder            *)
(* (ObsProjectionHost.java), and how libobs ticks, activates and destroys  *)
(* the sources.                                                            *)
(*                                                                         *)
(* The token, the display and the recorder are one each for the device,    *)
(* however many sources there are.  Five kinds of threads meet: the        *)
(* graphics thread ticks the sources, the destruction thread destroys      *)
(* them, each AImageReader calls back on a thread of its own, the audio    *)
(* pump pushes what was recorded to every source that wants it, and the    *)
(* main thread of the host takes and loses the token.  The host's methods  *)
(* are synchronized: each is one step.                                     *)
(***************************************************************************)
EXTENDS Integers, FiniteSets

CONSTANTS
    Sources,
    MaxReaders,     \* bound on AImageReader_new; the next one fails
    MaxCallbacks,   \* bound on the callbacks at a time
    MaxEvents       \* bound on the times a source is shown or hidden, the token
                    \* is revoked, the screen resized and audio read, in all

ASSUME SourcesAssumption == IsFiniteSet(Sources) /\ Sources \subseteq Nat \ {0}
ASSUME BoundsAssumption == {MaxReaders, MaxCallbacks, MaxEvents} \subseteq Nat

VARIABLES
    \* struct obs_source, by source
    state,          \* none, live, dying (in the destruction queue), gone
    want,           \* activate_refs # 0
    active,
    removed,
    held,           \* somebody other than the pump and the tick has a reference
    \* struct screen_source, by source
    reader,         \* its AImageReader, or NoReader
    sized,          \* the size the display was made with
    consent_asked, cb_thread_maybe_live,
    freed,          \* the struct; obs_source_t is freed when it is gone
    \* the plugin
    live_sources,
    audio_mx,       \* whether a thread that stops the pump holds the lock
    audio_sinks,    \* the sources the pump has references of; audio_users many
    audio_stop,
    pump,           \* audio_pump_thread
    \* AImageReader
    readers,        \* made so far
    listening,      \* the readers that have their listener
    deleted,        \* those that were deleted under a callback
    callbacks,      \* <<source, reader>>: on_image_available has counted itself
    \* ObsProjectionHost
    projection, display, audioRecord, dialogs,
    size,
    \* the threads that run the plugin
    pc, at, lost,
    \* history
    events, late

native == <<reader, sized, consent_asked, cb_thread_maybe_live>>
core == <<state, want, active, removed, held>>
audio == <<audio_mx, audio_sinks, audio_stop, pump>>
images == <<readers, listening, deleted>>
host == <<projection, display, audioRecord, dialogs, size>>
thread == <<pc, at, lost>>
history == <<events, late>>
vars == <<core, native, freed, live_sources, audio, images, callbacks, host,
          thread, history>>

NoReader == 0
NoSource == 0
Threads == {"graphics", "destruction"}

Init ==
    /\ state = [c \in Sources |-> "none"]
    /\ want = [c \in Sources |-> FALSE] /\ active = [c \in Sources |-> FALSE]
    /\ removed = [c \in Sources |-> FALSE] /\ held = [c \in Sources |-> FALSE]
    /\ reader = [c \in Sources |-> NoReader] /\ sized = [c \in Sources |-> 0]
    /\ consent_asked = [c \in Sources |-> FALSE]
    /\ cb_thread_maybe_live = [c \in Sources |-> FALSE]
    /\ freed = [c \in Sources |-> FALSE]
    /\ live_sources = 0
    /\ audio_mx = FALSE /\ audio_sinks = {} /\ audio_stop = FALSE /\ pump = "none"
    /\ readers = 0 /\ listening = {} /\ deleted = {}
    /\ callbacks = {}
    /\ projection = FALSE /\ display = NoSource /\ audioRecord = FALSE
    /\ dialogs = 0 /\ size = 1
    /\ pc = [t \in Threads |-> "idle"] /\ at = [t \in Threads |-> NoSource]
    /\ lost = [t \in Threads |-> FALSE]
    /\ events = 0 /\ late = FALSE

CountEvent == events < MaxEvents /\ events' = events + 1

Goto(t, where) == pc' = [pc EXCEPT ![t] = where]

-----------------------------------------------------------------------------
(* The frontend and libobs around the plugin                               *)

\* screen_create; sources are numbered as they are created.
Create(c) ==
    /\ state[c] = "none" /\ \A d \in Sources : d < c => state[d] # "none"
    /\ state' = [state EXCEPT ![c] = "live"]
    /\ held' = [held EXCEPT ![c] = TRUE]
    /\ live_sources' = live_sources + 1
    /\ UNCHANGED <<want, active, removed, native, freed, audio, images, callbacks,
                   host, thread, history>>

\* The scene with the source is shown or hidden.
Switch(c) ==
    /\ state[c] = "live" /\ held[c] /\ CountEvent
    /\ want' = [want EXCEPT ![c] = ~@]
    /\ UNCHANGED <<state, active, removed, held, native, freed, live_sources,
                   audio, images, callbacks, host, thread, late>>

\* The source leaves the scenes and nobody in the frontend holds on to it.
\* With obs_source_remove it is not ticked any more.
LetGo(c) ==
    /\ state[c] = "live" /\ held[c]
    /\ held' = [held EXCEPT ![c] = FALSE]
    /\ want' = [want EXCEPT ![c] = FALSE]
    /\ UNCHANGED <<state, active, native, freed, live_sources, audio, images,
                   callbacks, host, thread, history>>

Remove(c) == LetGo(c) /\ removed' = [removed EXCEPT ![c] = TRUE]
Release(c) == LetGo(c) /\ UNCHANGED removed

\* Mut: audio_pump_acquire takes no reference.
ReferencedMut(c) == held[c]

Referenced(c) == held[c] \/ c \in audio_sinks

\* obs_source_destroy, when the last reference is released.
Unreferenced(c) ==
    /\ state[c] = "live" /\ ~Referenced(c) /\ at["graphics"] # c
    /\ state' = [state EXCEPT ![c] = "dying"]
    /\ UNCHANGED <<want, active, removed, held, native, freed, live_sources, audio,
                   images, callbacks, host, thread, history>>

-----------------------------------------------------------------------------
(* obs_source_video_tick: activate, deactivate, video_tick                 *)

\* tick_sources takes a reference of a source and ticks it if it was not
\* removed.
Ticked(c) == /\ pc["graphics"] = "idle" /\ state[c] = "live" /\ ~removed[c]
             /\ Referenced(c)

\* The tick of the source is over, its reference is released.
TickOver == /\ at' = [at EXCEPT !["graphics"] = NoSource]
            /\ Goto("graphics", "idle")

Stays(c, where) == /\ at' = [at EXCEPT !["graphics"] = c]
                   /\ Goto("graphics", where)

NewReader == readers + 1

\* open_capture up to the display: AImageReader_new,
\* AImageReader_setImageListener and AImageReader_getWindow, each may fail.
MakeReader(c) ==
    \/ /\ readers < MaxReaders
       /\ readers' = NewReader
       /\ reader' = [reader EXCEPT ![c] = NewReader]
       /\ sized' = [sized EXCEPT ![c] = size]
       /\ \/ /\ listening' = listening \cup {NewReader}
             /\ \E where \in {"display", "release"} : Stays(c, where)
          \/ UNCHANGED listening /\ Stays(c, "release")
    \/ TickOver /\ UNCHANGED <<readers, reader, sized, listening>>

\* try_start, where asked is consent_asked
TryStart(c, asked) ==
    /\ reader[c] = NoReader
    /\ \/ /\ projection
          /\ MakeReader(c)
          /\ consent_asked' = [consent_asked EXCEPT ![c] = asked]
          /\ UNCHANGED dialogs
       \/ /\ ~projection
          /\ consent_asked' = [consent_asked EXCEPT ![c] = TRUE]
          /\ dialogs' = IF asked THEN dialogs ELSE dialogs + 1
          /\ UNCHANGED <<readers, reader, sized, listening, pc, at>>

\* activate_source, screen_activate
Activate(c) ==
    /\ Ticked(c) /\ want[c] /\ ~active[c]
    /\ active' = [active EXCEPT ![c] = TRUE]
    /\ \/ TryStart(c, FALSE)
       \/ /\ reader[c] # NoReader
          /\ consent_asked' = [consent_asked EXCEPT ![c] = FALSE]
          /\ UNCHANGED <<readers, reader, sized, listening, dialogs, pc, at>>
    /\ UNCHANGED <<state, want, removed, held, cb_thread_maybe_live, freed,
                   live_sources, audio, deleted, callbacks, projection, display,
                   audioRecord, size, lost, history>>

\* deactivate_source, screen_deactivate
Deactivate(c) ==
    /\ Ticked(c) /\ ~want[c] /\ active[c]
    /\ active' = [active EXCEPT ![c] = FALSE]
    /\ IF reader[c] = NoReader THEN UNCHANGED <<pc, at>> ELSE Stays(c, "release")
    /\ UNCHANGED <<state, want, removed, held, native, freed, live_sources, audio,
                   images, callbacks, host, lost, history>>

\* screen_video_tick with RETRY_INTERVAL_NS over: check_live, or try_start,
\* active or not.
VideoTick(c) ==
    /\ Ticked(c) /\ want[c] = active[c]
    /\ \/ /\ reader[c] # NoReader
          /\ ~projection \/ size # sized[c]
          /\ Stays(c, "release")
          /\ lost' = [lost EXCEPT !["graphics"] = ~projection]
          /\ UNCHANGED <<readers, reader, sized, listening, dialogs, consent_asked>>
       \/ TryStart(c, consent_asked[c]) /\ UNCHANGED lost
    /\ UNCHANGED <<core, cb_thread_maybe_live, freed, live_sources, audio, deleted,
                   callbacks, projection, display, audioRecord, size, history>>

-----------------------------------------------------------------------------
(* open_capture                                                            *)

\* startCapture: the display that is there goes first.  It fails without a
\* token, and createVirtualDisplay may fail.
StartDisplay(c) ==
    /\ pc["graphics"] = "display" /\ at["graphics"] = c
    /\ \/ projection /\ display' = c /\ Goto("graphics", "acquire")
       \/ /\ display' = IF projection THEN NoSource ELSE display
          /\ Goto("graphics", "release")
    /\ UNCHANGED <<core, native, freed, live_sources, audio, images, callbacks,
                   projection, audioRecord, dialogs, size, at, lost, history>>

\* audio_pump_start, startAudio: may fail, and does without a token.
AudioPumpStart ==
    IF pump # "none" THEN UNCHANGED <<pump, audio_stop, audioRecord>>
    ELSE \/ /\ audioRecord \/ projection
            /\ audioRecord' = TRUE /\ audio_stop' = FALSE /\ pump' = "read"
         \/ UNCHANGED <<pump, audio_stop, audioRecord>>

\* audio_pump_acquire
AudioPumpAcquire(c) ==
    /\ pc["graphics"] = "acquire" /\ at["graphics"] = c /\ ~audio_mx
    /\ audio_sinks' = audio_sinks \cup {c}
    /\ AudioPumpStart
    /\ consent_asked' = [consent_asked EXCEPT ![c] = FALSE]
    /\ TickOver
    /\ UNCHANGED <<core, reader, sized, cb_thread_maybe_live, freed,
                   live_sources, audio_mx, images, callbacks, projection, display,
                   dialogs, size, lost, history>>

-----------------------------------------------------------------------------
(* close_capture, on thread t for source c                                 *)

\* Mut: the recorder goes before the thread that reads from it.
JoinFirstMut == "stop_audio"

\* pthread_join, then obs_android_screen_stop_audio
JoinFirst == "join"

\* audio_pump_release, audio_pump_stop: what the last one does holds the lock.
AudioPumpRelease(t, c) ==
    LET last == audio_sinks = {c}
    IN /\ pc[t] = "release" /\ at[t] = c /\ ~audio_mx
       /\ audio_sinks' = audio_sinks \ {c}
       /\ audio_mx' = last
       /\ audio_stop' = (audio_stop \/ (last /\ pump # "none"))
       /\ Goto(t, IF ~last THEN "surface"
                  ELSE IF pump # "none" THEN JoinFirst ELSE "stop_audio")
       /\ UNCHANGED <<core, native, freed, live_sources, pump, images, callbacks,
                      host, at, lost, history>>

JoinPump(t) ==
    /\ pc[t] = "join" /\ pump = "done"
    /\ pump' = "none"
    /\ Goto(t, "stop_audio")
    /\ UNCHANGED <<core, native, freed, live_sources, audio_mx, audio_sinks,
                   audio_stop, images, callbacks, host, at, lost, history>>

\* stopAudio; the lock is released.
StopAudio(t) ==
    /\ pc[t] = "stop_audio"
    /\ audioRecord' = FALSE /\ audio_mx' = FALSE /\ audio_stop' = FALSE
    /\ Goto(t, "surface")
    /\ UNCHANGED <<core, native, freed, live_sources, audio_sinks, pump, images,
                   callbacks, projection, display, dialogs, size, at, lost, history>>

\* Mut: leaves the display to the next one that opens.
StoppedMut == display

\* stopCapture: whoever's display it is.
Stopped == NoSource

\* Then AImageReader_setImageListener(reader, NULL).
StopDisplay(t, c) ==
    /\ pc[t] = "surface" /\ at[t] = c
    /\ display' = Stopped
    /\ listening' = listening \ {reader[c]}
    /\ Goto(t, "wait")
    /\ UNCHANGED <<core, native, freed, live_sources, audio, readers, deleted,
                   callbacks, projection, audioRecord, dialogs, size, at, lost,
                   history>>

in_callback(c) == Cardinality({x \in callbacks : x[1] = c})

\* Mut: deletes the reader when the two seconds are over.
MayDeleteMut(c) == TRUE

MayDelete(c) == in_callback(c) = 0

\* The callbacks are over, or two seconds are.
DeleteReader(t, c) ==
    /\ pc[t] = "wait" /\ at[t] = c
    /\ deleted' = IF MayDelete(c) /\ <<c, reader[c]>> \in callbacks
                  THEN deleted \cup {reader[c]} ELSE deleted
    /\ cb_thread_maybe_live' = [cb_thread_maybe_live EXCEPT ![c] = ~MayDelete(c)]
    /\ reader' = [reader EXCEPT ![c] = NoReader]
    /\ sized' = [sized EXCEPT ![c] = 0]
    /\ consent_asked' = [consent_asked EXCEPT ![c] = @ \/ lost[t]]
    /\ lost' = [lost EXCEPT ![t] = FALSE]
    /\ IF t = "graphics" THEN TickOver ELSE Goto(t, "count") /\ UNCHANGED at
    /\ UNCHANGED <<core, freed, live_sources, audio, readers, listening, callbacks,
                   host, history>>

-----------------------------------------------------------------------------
(* screen_destroy, on the destruction thread                               *)

Destroy(c) ==
    /\ pc["destruction"] = "idle" /\ state[c] = "dying" /\ ~freed[c]
    /\ at' = [at EXCEPT !["destruction"] = c]
    /\ Goto("destruction", IF reader[c] = NoReader THEN "count" ELSE "release")
    /\ UNCHANGED <<core, native, freed, live_sources, audio, images, callbacks, host,
                   lost, history>>

\* Mut: never gives the token back.
IsLastMut == FALSE

\* os_atomic_dec_long(&live_sources) == 0
IsLast == live_sources = 1

\* Mut: counts only the sources whose data is freed.
CountedMut(c) == IF cb_thread_maybe_live[c] THEN live_sources ELSE live_sources - 1

\* os_atomic_dec_long
Counted(c) == live_sources - 1

CountDown(c) ==
    /\ pc["destruction"] = "count" /\ at["destruction"] = c
    /\ live_sources' = Counted(c)
    /\ Goto("destruction", IF IsLast THEN "give_back" ELSE "free")
    /\ UNCHANGED <<core, native, freed, audio, images, callbacks, host, at, lost,
                   history>>

\* stopProjection: the display goes with the token.  Without a token it goes
\* if the host still means to have one (wantProjection, which is not kept).
ReleaseConsent ==
    /\ pc["destruction"] = "give_back"
    /\ projection' = FALSE
    /\ display' = NoSource \/ (~projection /\ display' = display)
    /\ Goto("destruction", "free")
    /\ UNCHANGED <<core, native, freed, live_sources, audio, images, callbacks,
                   audioRecord, dialogs, size, at, lost, history>>

\* The data stays if a callback may still use it.
Free(c) ==
    /\ pc["destruction"] = "free" /\ at["destruction"] = c
    /\ freed' = [freed EXCEPT ![c] = ~cb_thread_maybe_live[c]]
    /\ state' = [state EXCEPT ![c] = "gone"]
    /\ at' = [at EXCEPT !["destruction"] = NoSource]
    /\ Goto("destruction", "idle")
    /\ UNCHANGED <<want, active, removed, held, native, live_sources, audio, images,
                   callbacks, host, lost, history>>

-----------------------------------------------------------------------------
(* on_image_available, on the thread of a reader.  One that is called      *)
(* while the listener is there has counted itself before                   *)
(* AImageReader_setImageListener(NULL) returns.                            *)

Enter(c) ==
    /\ reader[c] \in listening /\ Cardinality(callbacks) < MaxCallbacks
    /\ callbacks' = callbacks \cup {<<c, reader[c]>>}
    /\ UNCHANGED <<core, native, freed, live_sources, audio, images, host, thread,
                   history>>

\* The image was pushed, or the capture shuts down.
Leave(x) ==
    /\ callbacks' = callbacks \ {x}
    /\ UNCHANGED <<core, native, freed, live_sources, audio, images, host, thread,
                   history>>

-----------------------------------------------------------------------------
(* audio_pump_thread                                                       *)

\* Nothing was read: the next round looks at audio_stop again.
PumpStops ==
    /\ pump = "read" /\ audio_stop
    /\ pump' = "done"
    /\ UNCHANGED <<core, native, freed, live_sources, audio_mx, audio_sinks,
                   audio_stop, images, callbacks, host, thread, history>>

\* obs_android_screen_read_audio, after audio_stop was looked at.
PumpReads ==
    /\ pump = "read" /\ ~audio_stop /\ audioRecord /\ CountEvent
    /\ pump' = "lock"
    /\ UNCHANGED <<core, native, freed, live_sources, audio_mx, audio_sinks,
                   audio_stop, images, callbacks, host, thread, late>>

\* obs_source_output_audio to every sink
PumpPushes ==
    /\ pump = "lock" /\ ~audio_mx
    /\ pump' = "read"
    /\ UNCHANGED <<core, native, freed, live_sources, audio_mx, audio_sinks,
                   audio_stop, images, callbacks, host, thread, history>>

-----------------------------------------------------------------------------
(* The host: what the user and the system do                               *)

\* onActivityResult, takeToken
TakeToken ==
    /\ dialogs > 0
    /\ dialogs' = dialogs - 1
    /\ projection' = TRUE
    /\ late' = (late \/ live_sources = 0)
    /\ UNCHANGED <<core, native, freed, live_sources, audio, images, callbacks,
                   display, audioRecord, size, thread, events>>

\* takeToken where the user agreed and there is no token all the same: the
\* one that was there is given up with it, the display stays.
GiveUpToken ==
    /\ dialogs > 0
    /\ dialogs' = dialogs - 1
    /\ projection' = FALSE
    /\ UNCHANGED <<core, native, freed, live_sources, audio, images, callbacks,
                   display, audioRecord, size, thread, history>>

Refuse ==
    /\ dialogs > 0
    /\ dialogs' = dialogs - 1
    /\ UNCHANGED <<core, native, freed, live_sources, audio, images, callbacks,
                   projection, display, audioRecord, size, thread, history>>

\* onStop
OnStop ==
    /\ projection /\ CountEvent
    /\ projection' = FALSE /\ display' = NoSource
    /\ UNCHANGED <<core, native, freed, live_sources, audio, images, callbacks,
                   audioRecord, dialogs, size, thread, late>>

Resize ==
    /\ CountEvent
    /\ size' = 3 - size
    /\ UNCHANGED <<core, native, freed, live_sources, audio, images, callbacks,
                   projection, display, audioRecord, dialogs, thread, late>>

-----------------------------------------------------------------------------

Tick(c) == Activate(c) \/ Deactivate(c) \/ VideoTick(c)
Open(c) == StartDisplay(c) \/ AudioPumpAcquire(c)
CloseCapture(t) == \/ \E c \in Sources : \/ AudioPumpRelease(t, c) \/ StopDisplay(t, c)
                                         \/ DeleteReader(t, c)
                   \/ JoinPump(t) \/ StopAudio(t)
Destruction == \/ \E c \in Sources : Destroy(c) \/ CountDown(c) \/ Free(c)
               \/ ReleaseConsent
Pump == PumpStops \/ PumpReads \/ PumpPushes
Callback == \/ \E c \in Sources : Enter(c)
            \/ \E x \in callbacks : Leave(x)
Host == TakeToken \/ GiveUpToken \/ Refuse \/ OnStop \/ Resize
Frontend == \E c \in Sources : Create(c) \/ Switch(c) \/ Remove(c) \/ Release(c)

Next == \/ Frontend \/ Host \/ Callback \/ Pump \/ Destruction
        \/ \E c \in Sources : Tick(c) \/ Open(c) \/ Unreferenced(c)
        \/ \E t \in Threads : CloseCapture(t)

Spec == Init /\ [][Next]_vars

\* The threads of libobs and of the plugin are scheduled, and every frame
\* ticks every source.  The user, the system and the readers owe nothing.
FairSpec == /\ Spec
            /\ WF_vars(Destruction) /\ WF_vars(Pump)
            /\ \A t \in Threads : WF_vars(CloseCapture(t))
            /\ \A c \in Sources : /\ SF_vars(Tick(c)) /\ WF_vars(Open(c))
                                   /\ WF_vars(Unreferenced(c))

-----------------------------------------------------------------------------
(* Properties *)

TypeOK ==
    /\ state \in [Sources -> {"none", "live", "dying", "gone"}]
    /\ {want, active, removed, held, consent_asked,
        cb_thread_maybe_live, freed} \subseteq [Sources -> BOOLEAN]
    /\ reader \in [Sources -> 0..MaxReaders] /\ sized \in [Sources -> Nat]
    /\ live_sources = Cardinality({c \in Sources : state[c] # "none"}) -
                      Cardinality({c \in Sources : state[c] = "gone"}) -
                      (IF pc["destruction"] \in {"give_back", "free"} THEN 1 ELSE 0)
    /\ {audio_mx, audio_stop, projection, audioRecord, late} \subseteq BOOLEAN
    /\ audio_sinks \subseteq Sources
    /\ pump \in {"none", "read", "lock", "done"}
    /\ readers \in 0..MaxReaders /\ {listening, deleted} \subseteq SUBSET (1..MaxReaders)
    /\ callbacks \subseteq Sources \X (1..MaxReaders)
    /\ display \in Sources \cup {NoSource} /\ {dialogs, events} \subseteq Nat
    /\ size \in {1, 2}
    /\ pc \in [Threads -> {"idle", "display", "acquire", "release", "join", "stop_audio",
                           "surface", "wait", "count", "give_back", "free"}]
    /\ at \in [Threads -> Sources \cup {NoSource}] /\ lost \in [Threads -> BOOLEAN]

(* on_image_available, close_capture, screen_destroy: a callback never     *)
(* uses a reader that was deleted or a struct screen_source that was       *)
(* freed, also when one capture was given up and the next one of the       *)
(* source was closed in time.  (The obs_source_t behind it is libobs's and *)
(* not part of this.)                                                      *)
SafeTeardown ==
    \A x \in callbacks : x[2] \notin deleted /\ ~freed[x[1]]

(* close_capture: "the display would point to a surface without an owner": *)
(* while there is a display, the reader it draws to is there, with two     *)
(* sources taking the display from each other too.                         *)
SurfaceHasReader == display # NoSource => reader[display] # NoReader

(* audio_pump_stop: "join the thread first": the recorder and the buffer   *)
(* are there as long as the pump may read.                                 *)
ReadsLiveBuffer == pump \in {"read", "lock"} => audioRecord

(* open_capture, audio_pump_acquire: an open capture has its reference,    *)
(* so that the pump pushes to no source that is being destroyed and        *)
(* screen_destroy finds the capture closed.                                *)
DestroyedIsClosed ==
    \A c \in Sources : state[c] \in {"dying", "gone"} =>
        reader[c] = NoReader /\ c \notin audio_sinks

(* screen_destroy: when the last source is gone, the screen is not shared  *)
(* any more: no display, no recording, no pump, and no token but one the   *)
(* user agreed to after that.                                              *)
NothingLeftBehind ==
    (\A c \in Sources : state[c] \in {"none", "gone"}) =>
        /\ display = NoSource /\ ~audioRecord /\ pump = "none"
        /\ ~projection \/ late

(* audio_pump_stop: "the last one to go stops it": the stop of the pump    *)
(* comes to an end.                                                        *)
PumpStopReturns == \A t \in Threads : pc[t] = "join" ~> pc[t] # "join"

(* screen_destroy: a source that was removed and released is destroyed, so *)
(* that the last one gives the token back.                                 *)
RemovedIsDestroyed ==
    \A c \in Sources : removed[c] /\ ~held[c] ~> state[c] = "gone"
=============================================================================
