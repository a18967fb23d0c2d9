-------------------------- MODULE ScreenCaptureProofs --------------------------
(***************************************************************************)
(* Proofs about ScreenCapture for every set of sources and every bound:    *)
(* the display always has a surface with an owner, the pump always has a   *)
(* recorder, no callback meets a reader that was deleted or a struct       *)
(* screen_source that was freed, and a source is destroyed only when its   *)
(* capture is closed.                                                      *)
(***************************************************************************)
EXTENDS ScreenCapture, FiniteSetTheorems, TLAPS

USE SourcesAssumption DEF NoSource, NoReader, Threads

-----------------------------------------------------------------------------
(* The inductive invariant                                                 *)

GraphicsAt == {"idle", "display", "acquire", "release", "join", "stop_audio",
               "surface", "wait"}
DestructionAt == {"idle", "count", "give_back", "free"}

Typed ==
    /\ state \in [Sources -> {"none", "live", "dying", "gone"}]
    /\ reader \in [Sources -> Nat]
    /\ cb_thread_maybe_live \in [Sources -> BOOLEAN] /\ freed \in [Sources -> BOOLEAN]
    /\ audio_sinks \subseteq Sources
    /\ pump \in {"none", "read", "lock", "done"}
    /\ readers \in Nat /\ listening \subseteq Nat \ {0}
    /\ callbacks \subseteq Sources \X Nat /\ IsFiniteSet(callbacks)
    /\ display \in Sources \cup {NoSource}
    /\ pc \in [Threads -> GraphicsAt \cup DestructionAt]
    /\ at \in [Threads -> Sources \cup {NoSource}]

\* Where the two threads stand: the graphics thread at a source that is
\* alive and open, the destruction thread at one that is being destroyed and
\* never inside close_capture.
Where ==
    /\ pc["graphics"] \in GraphicsAt /\ pc["destruction"] \in DestructionAt
    /\ pc["graphics"] = "idle" => at["graphics"] = NoSource
    /\ pc["graphics"] # "idle" =>
          /\ at["graphics"] \in Sources
          /\ state[at["graphics"]] = "live" /\ reader[at["graphics"]] # NoReader
    /\ pc["destruction"] # "idle" =>
          at["destruction"] \in Sources /\ state[at["destruction"]] = "dying"

\* An open capture keeps its source alive, by the pump or by the tick.
OpenIsHeld ==
    \A c \in Sources :
        /\ reader[c] # NoReader => state[c] = "live" /\ (c \in audio_sinks \/ at["graphics"] = c)
        /\ c \in audio_sinks => state[c] = "live"

\* The recorder is there for the pump, and stopped when the pump is gone.
PumpHasRecorder ==
    /\ pump \in {"read", "lock"} => audioRecord
    /\ pc["graphics"] = "stop_audio" => pump = "none"

\* The display draws to a reader, which is not the one about to be deleted.
DisplayIsOpen ==
    display # NoSource =>
        reader[display] # NoReader /\ ~(pc["graphics"] = "wait" /\ at["graphics"] = display)

\* A callback that may still run is on record, in its reader or after it.
CallbacksOnRecord ==
    /\ deleted = {}
    /\ \A x \in callbacks : cb_thread_maybe_live[x[1]] \/ reader[x[1]] # NoReader
    /\ \A c \in Sources : freed[c] => state[c] = "gone" /\ ~cb_thread_maybe_live[c]

SInv == /\ Typed /\ Where /\ OpenIsHeld /\ PumpHasRecorder /\ DisplayIsOpen
        /\ CallbacksOnRecord

\* What SInv is about.
observed == <<state, reader, cb_thread_maybe_live, freed, audio_sinks, pump, readers,
              listening, deleted, callbacks, display, audioRecord, pc, at>>

USE DEF GraphicsAt, DestructionAt

(* Nothing is open in the beginning.                                       *)
LEMMA InitSInv == Init => SInv
<1> SUFFICES ASSUME Init PROVE SInv
  OBVIOUS
<1>1. Typed
  BY FS_EmptySet DEF Init, Typed
<1>2. Where /\ OpenIsHeld /\ PumpHasRecorder /\ DisplayIsOpen
  BY DEF Init, Where, OpenIsHeld, PumpHasRecorder, DisplayIsOpen
<1>3. CallbacksOnRecord
  BY DEF Init, CallbacksOnRecord
<1> QED  BY <1>1, <1>2, <1>3 DEF SInv

(* What leaves all of it alone keeps the invariant: showing and hiding a   *)
(* source, letting it go, the dialogs and the size of the screen.          *)
LEMMA StutterSInv ==
    ASSUME SInv, UNCHANGED observed
    PROVE  SInv'
BY DEF SInv, observed, Typed, Where, OpenIsHeld, PumpHasRecorder, DisplayIsOpen,
       CallbacksOnRecord

-----------------------------------------------------------------------------
(* The frontend and the end of a source                                    *)

(* screen_create: the new source has no capture.                           *)
LEMMA CreateSInv ==
    ASSUME SInv, NEW c \in Sources, Create(c)
    PROVE  SInv'
<1> USE DEF Create, native, audio, images, host, thread
<1>0. Typed
  BY DEF SInv
<1>1. Typed'
  BY <1>0 DEF Typed
<1>2. Where' /\ OpenIsHeld'
  BY <1>0 DEF SInv, Typed, Where, OpenIsHeld
<1>3. PumpHasRecorder' /\ DisplayIsOpen'
  BY DEF SInv, PumpHasRecorder, DisplayIsOpen
<1>4. CallbacksOnRecord'
  BY <1>0 DEF SInv, Typed, CallbacksOnRecord
<1> QED  BY <1>1, <1>2, <1>3, <1>4 DEF SInv

(* obs_source_destroy: without a reference of the pump the capture is      *)
(* closed.                                                                 *)
LEMMA UnreferencedSInv ==
    ASSUME SInv, NEW c \in Sources, Unreferenced(c)
    PROVE  SInv'
<1> USE DEF Unreferenced, Referenced, native, audio, images, host, thread
<1>0. Typed
  BY DEF SInv
<1>1. Typed'
  BY <1>0 DEF Typed
<1>2. Where' /\ OpenIsHeld'
  BY <1>0 DEF SInv, Typed, Where, OpenIsHeld
<1>3. PumpHasRecorder' /\ DisplayIsOpen'
  BY DEF SInv, PumpHasRecorder, DisplayIsOpen
<1>4. CallbacksOnRecord'
  BY <1>0 DEF SInv, Typed, CallbacksOnRecord
<1> QED  BY <1>1, <1>2, <1>3, <1>4 DEF SInv

-----------------------------------------------------------------------------
(* The tick                                                                *)

(* The tick of a source that is alive: it opens a reader, stays to close   *)
(* what is open, or leaves the capture alone.                              *)
LEMMA TickSInv ==
    ASSUME SInv, NEW c \in Sources, Tick(c)
    PROVE  SInv'
<1> DEFINE same == UNCHANGED <<state, cb_thread_maybe_live, freed, audio_sinks, pump,
                               deleted, callbacks, display, audioRecord>>
           opens == /\ reader[c] = NoReader
                    /\ readers' = readers + 1
                    /\ reader' = [reader EXCEPT ![c] = readers + 1]
                    /\ listening' \in {listening, listening \cup {readers + 1}}
                    /\ Stays(c, "display") \/ Stays(c, "release")
           closes == /\ reader[c] # NoReader
                     /\ UNCHANGED <<readers, reader, listening>>
                     /\ Stays(c, "release")
           leaves == UNCHANGED <<readers, reader, listening>> /\ (TickOver \/ UNCHANGED <<pc, at>>)
<1>1. /\ pc["graphics"] = "idle" /\ state[c] = "live" /\ same
      /\ opens \/ closes \/ leaves
  <2>1. CASE Activate(c)
    BY <2>1 DEF Activate, Ticked, TryStart, MakeReader, NewReader, audio, host
  <2>2. CASE Deactivate(c)
    BY <2>2 DEF Deactivate, Ticked, native, audio, images, host
  <2>3. CASE VideoTick(c)
    BY <2>3 DEF VideoTick, Ticked, TryStart, MakeReader, NewReader, audio, core, host
  <2> QED  BY <2>1, <2>2, <2>3 DEF Tick
<1>2. Typed /\ readers \in Nat /\ readers + 1 \in Nat \ {0}
  BY DEF SInv, Typed
<1>3. CASE opens
  <2>1. Typed'
    BY <1>1, <1>2, <1>3 DEF Typed, Stays, Goto
  <2>2. Where' /\ OpenIsHeld'
    BY <1>1, <1>2, <1>3 DEF SInv, Typed, Where, OpenIsHeld, Stays, Goto
  <2>3. PumpHasRecorder' /\ DisplayIsOpen'
    BY <1>1, <1>2, <1>3 DEF SInv, Typed, PumpHasRecorder, DisplayIsOpen, Stays, Goto
  <2>4. CallbacksOnRecord'
    BY <1>1, <1>2, <1>3 DEF SInv, Typed, CallbacksOnRecord
  <2> QED  BY <2>1, <2>2, <2>3, <2>4 DEF SInv
<1>4. CASE closes
  <2>1. Typed'
    BY <1>1, <1>2, <1>4 DEF Typed, Stays, Goto
  <2>2. Where' /\ OpenIsHeld'
    BY <1>1, <1>2, <1>4 DEF SInv, Typed, Where, OpenIsHeld, Stays, Goto
  <2>3. PumpHasRecorder' /\ DisplayIsOpen'
    BY <1>1, <1>2, <1>4 DEF SInv, Typed, PumpHasRecorder, DisplayIsOpen, Stays, Goto
  <2>4. CallbacksOnRecord'
    BY <1>1, <1>2, <1>4 DEF SInv, Typed, CallbacksOnRecord
  <2> QED  BY <2>1, <2>2, <2>3, <2>4 DEF SInv
<1>5. CASE leaves
  <2>1. UNCHANGED <<pc, at>>
    BY <1>1, <1>2, <1>5 DEF SInv, Typed, Where, TickOver, Goto
  <2> QED  BY <1>1, <1>5, <2>1, StutterSInv DEF observed
<1> QED  BY <1>1, <1>3, <1>4, <1>5

-----------------------------------------------------------------------------
(* open_capture                                                            *)

(* startCapture: the display is that of an open source, or none.           *)
LEMMA StartDisplaySInv ==
    ASSUME SInv, NEW c \in Sources, StartDisplay(c)
    PROVE  SInv'
<1> USE DEF StartDisplay, Goto, core, native, audio, images
<1>0. Typed
  BY DEF SInv
<1>1. Typed'
  BY <1>0 DEF Typed
<1>2. Where' /\ OpenIsHeld'
  BY <1>0 DEF SInv, Typed, Where, OpenIsHeld
<1>3. PumpHasRecorder' /\ DisplayIsOpen'
  BY <1>0 DEF SInv, Typed, Where, PumpHasRecorder, DisplayIsOpen
<1>4. CallbacksOnRecord'
  BY <1>0 DEF SInv, Typed, CallbacksOnRecord
<1> QED  BY <1>1, <1>2, <1>3, <1>4 DEF SInv

(* audio_pump_acquire: when the tick leaves the source, the pump has it.   *)
LEMMA AudioPumpAcquireSInv ==
    ASSUME SInv, NEW c \in Sources, AudioPumpAcquire(c)
    PROVE  SInv'
<1> USE DEF AudioPumpAcquire, AudioPumpStart, TickOver, Goto, core, images
<1>0. Typed
  BY DEF SInv
<1>1. Typed'
  BY <1>0 DEF Typed
<1>2. Where' /\ OpenIsHeld'
  BY <1>0 DEF SInv, Typed, Where, OpenIsHeld
<1>3. PumpHasRecorder' /\ DisplayIsOpen'
  BY <1>0 DEF SInv, Typed, PumpHasRecorder, DisplayIsOpen
<1>4. CallbacksOnRecord'
  BY <1>0 DEF SInv, Typed, CallbacksOnRecord
<1> QED  BY <1>1, <1>2, <1>3, <1>4 DEF SInv

-----------------------------------------------------------------------------
(* close_capture                                                           *)

(* Only the graphics thread ever is inside close_capture.                  *)
LEMMA OnlyGraphicsCloses ==
    ASSUME SInv, NEW t \in Threads,
           pc[t] \in {"release", "join", "stop_audio", "surface", "wait"}
    PROVE  t = "graphics"
BY DEF SInv, Where

(* audio_pump_release: the tick still has the source.                      *)
LEMMA AudioPumpReleaseSInv ==
    ASSUME SInv, NEW t \in Threads, NEW c \in Sources, AudioPumpRelease(t, c)
    PROVE  SInv'
<1> USE DEF AudioPumpRelease, JoinFirst, Goto, core, native, images, host
<1>0. Typed /\ t = "graphics"
  BY OnlyGraphicsCloses DEF SInv
<1>1. Typed'
  BY <1>0 DEF Typed
<1>2. Where' /\ OpenIsHeld'
  BY <1>0 DEF SInv, Typed, Where, OpenIsHeld
<1>3. PumpHasRecorder' /\ DisplayIsOpen'
  BY <1>0 DEF SInv, Typed, PumpHasRecorder, DisplayIsOpen
<1>4. CallbacksOnRecord'
  BY <1>0 DEF SInv, Typed, CallbacksOnRecord
<1> QED  BY <1>1, <1>2, <1>3, <1>4 DEF SInv

(* pthread_join: the pump is gone before the recorder is stopped.          *)
LEMMA JoinPumpSInv ==
    ASSUME SInv, NEW t \in Threads, JoinPump(t)
    PROVE  SInv'
<1> USE DEF JoinPump, Goto, core, native, images, host
<1>0. Typed /\ t = "graphics"
  BY OnlyGraphicsCloses DEF SInv
<1>1. Typed'
  BY <1>0 DEF Typed
<1>2. Where' /\ OpenIsHeld'
  BY <1>0 DEF SInv, Typed, Where, OpenIsHeld
<1>3. PumpHasRecorder' /\ DisplayIsOpen'
  BY <1>0 DEF SInv, Typed, PumpHasRecorder, DisplayIsOpen
<1>4. CallbacksOnRecord'
  BY <1>0 DEF SInv, Typed, CallbacksOnRecord
<1> QED  BY <1>1, <1>2, <1>3, <1>4 DEF SInv

(* stopAudio: there is no pump any more.                                   *)
LEMMA StopAudioSInv ==
    ASSUME SInv, NEW t \in Threads, StopAudio(t)
    PROVE  SInv'
<1> USE DEF StopAudio, Goto, core, native, images
<1>0. Typed /\ t = "graphics"
  BY OnlyGraphicsCloses DEF SInv
<1>1. Typed'
  BY <1>0 DEF Typed
<1>2. Where' /\ OpenIsHeld'
  BY <1>0 DEF SInv, Typed, Where, OpenIsHeld
<1>3. PumpHasRecorder' /\ DisplayIsOpen'
  BY <1>0 DEF SInv, Typed, PumpHasRecorder, DisplayIsOpen
<1>4. CallbacksOnRecord'
  BY <1>0 DEF SInv, Typed, CallbacksOnRecord
<1> QED  BY <1>1, <1>2, <1>3, <1>4 DEF SInv

(* stopCapture: no display is left when the reader is about to go.         *)
LEMMA StopDisplaySInv ==
    ASSUME SInv, NEW t \in Threads, NEW c \in Sources, StopDisplay(t, c)
    PROVE  SInv'
<1> USE DEF StopDisplay, Stopped, Goto, core, native, audio
<1>0. Typed /\ t = "graphics"
  BY OnlyGraphicsCloses DEF SInv
<1>1. Typed'
  BY <1>0 DEF Typed
<1>2. Where' /\ OpenIsHeld'
  BY <1>0 DEF SInv, Typed, Where, OpenIsHeld
<1>3. PumpHasRecorder' /\ DisplayIsOpen'
  BY <1>0 DEF SInv, Typed, PumpHasRecorder, DisplayIsOpen
<1>4. CallbacksOnRecord'
  BY <1>0 DEF SInv, Typed, CallbacksOnRecord
<1> QED  BY <1>1, <1>2, <1>3, <1>4 DEF SInv

(* in_callback is zero only when no callback of the source runs.           *)
LEMMA NoCallback ==
    ASSUME IsFiniteSet(callbacks), NEW c, in_callback(c) = 0
    PROVE  \A x \in callbacks : x[1] # c
<1> DEFINE own == {x \in callbacks : x[1] = c}
<1>1. own \subseteq callbacks
  OBVIOUS
<1>2. IsFiniteSet(own)
  BY <1>1, FS_Subset
<1>3. Cardinality(own) = 0
  BY DEF in_callback
<1>4. own = {}
  BY <1>2, <1>3, FS_EmptySet
<1> QED  BY <1>4

(* AImageReader_delete, or giving up: a callback that is left over is on   *)
(* record, the display does not draw to this reader.                       *)
LEMMA DeleteReaderSInv ==
    ASSUME SInv, NEW t \in Threads, NEW c \in Sources, DeleteReader(t, c)
    PROVE  SInv'
<1> USE DEF DeleteReader, Goto, core, audio, host
<1>0. Typed /\ t = "graphics"
  BY OnlyGraphicsCloses DEF SInv
<1>1. Typed'
  BY <1>0 DEF Typed, TickOver, MayDelete
<1>2. Where' /\ OpenIsHeld'
  BY <1>0 DEF SInv, Typed, Where, OpenIsHeld, TickOver
<1>3. PumpHasRecorder' /\ DisplayIsOpen'
  BY <1>0 DEF SInv, Typed, PumpHasRecorder, DisplayIsOpen, TickOver
<1>4. CallbacksOnRecord'
  <2>1. MayDelete(c) => \A x \in callbacks : x[1] # c
    BY <1>0, NoCallback DEF MayDelete, Typed
  <2>2. deleted' = {}
    BY <2>1 DEF SInv, CallbacksOnRecord
  <2>3. \A x \in callbacks' : cb_thread_maybe_live'[x[1]] \/ reader'[x[1]] # NoReader
    BY <1>0, <2>1 DEF SInv, Typed, CallbacksOnRecord
  <2>4. ~freed[c]
    BY <1>0 DEF SInv, Typed, Where, CallbacksOnRecord
  <2>5. \A d \in Sources : freed'[d] => state'[d] = "gone" /\ ~cb_thread_maybe_live'[d]
    BY <1>0, <2>4 DEF SInv, Typed, CallbacksOnRecord
  <2> QED  BY <2>2, <2>3, <2>5 DEF CallbacksOnRecord
<1> QED  BY <1>1, <1>2, <1>3, <1>4 DEF SInv

-----------------------------------------------------------------------------
(* screen_destroy                                                          *)

(* The destruction thread finds the capture closed.                        *)
LEMMA DestroySInv ==
    ASSUME SInv, NEW c \in Sources, Destroy(c)
    PROVE  SInv'
<1> USE DEF Destroy, Goto, core, native, audio, images, host
<1>0. Typed
  BY DEF SInv
<1>1. Typed'
  BY <1>0 DEF Typed
<1>2. Where' /\ OpenIsHeld'
  BY <1>0 DEF SInv, Typed, Where, OpenIsHeld
<1>3. PumpHasRecorder' /\ DisplayIsOpen'
  BY <1>0 DEF SInv, Typed, PumpHasRecorder, DisplayIsOpen
<1>4. CallbacksOnRecord'
  BY <1>0 DEF SInv, Typed, CallbacksOnRecord
<1> QED  BY <1>1, <1>2, <1>3, <1>4 DEF SInv

(* live_sources and the token.                                             *)
LEMMA GiveBackSInv ==
    ASSUME SInv, (\E c \in Sources : CountDown(c)) \/ ReleaseConsent
    PROVE  SInv'
<1> USE DEF CountDown, ReleaseConsent, Goto, core, native, audio, images, host
<1>0. Typed
  BY DEF SInv
<1>1. Typed'
  BY <1>0, ZenonT(30) DEF Typed
<1>2. Where' /\ OpenIsHeld'
  BY <1>0 DEF SInv, Typed, Where, OpenIsHeld
<1>3. PumpHasRecorder' /\ DisplayIsOpen'
  BY <1>0 DEF SInv, Typed, PumpHasRecorder, DisplayIsOpen
<1>4. CallbacksOnRecord'
  BY <1>0 DEF SInv, Typed, CallbacksOnRecord
<1> QED  BY <1>1, <1>2, <1>3, <1>4 DEF SInv

(* The data is freed where no callback is on record.                       *)
LEMMA FreeSInv ==
    ASSUME SInv, NEW c \in Sources, Free(c)
    PROVE  SInv'
<1> USE DEF Free, Goto, native, audio, images, host
<1>0. Typed
  BY DEF SInv
<1>1. Typed'
  BY <1>0 DEF Typed
<1>2. Where' /\ OpenIsHeld'
  BY <1>0 DEF SInv, Typed, Where, OpenIsHeld
<1>3. PumpHasRecorder' /\ DisplayIsOpen'
  BY <1>0 DEF SInv, Typed, PumpHasRecorder, DisplayIsOpen
<1>4. CallbacksOnRecord'
  BY <1>0 DEF SInv, Typed, CallbacksOnRecord
<1> QED  BY <1>1, <1>2, <1>3, <1>4 DEF SInv

-----------------------------------------------------------------------------
(* Callbacks, pump and host                                                *)

(* on_image_available begins only while its reader is open.                *)
LEMMA CallbackSInv ==
    ASSUME SInv, Callback
    PROVE  SInv'
<1> USE DEF core, native, audio, images, host, thread
<1>1. CASE \E c \in Sources : Enter(c)
  <2> PICK c \in Sources : Enter(c)
    BY <1>1
  <2>1. /\ callbacks' = callbacks \cup {<<c, reader[c]>>}
        /\ <<c, reader[c]>> \in Sources \X Nat /\ reader[c] # NoReader
    BY DEF SInv, Typed, Enter
  <2>2. IsFiniteSet(callbacks')
    BY <2>1, FS_AddElement DEF SInv, Typed
  <2>3. Typed'
    BY <2>1, <2>2 DEF SInv, Typed, Enter
  <2>4. CallbacksOnRecord'
    BY <2>1 DEF SInv, CallbacksOnRecord, Enter
  <2> QED  BY <2>3, <2>4 DEF SInv, Where, OpenIsHeld, PumpHasRecorder, DisplayIsOpen, Enter
<1>2. CASE \E x \in callbacks : Leave(x)
  <2> PICK x \in callbacks : Leave(x)
    BY <1>2
  <2>1. callbacks' \subseteq callbacks
    BY DEF Leave
  <2>2. IsFiniteSet(callbacks')
    BY <2>1, FS_Subset DEF SInv, Typed
  <2>3. Typed'
    BY <2>1, <2>2 DEF SInv, Typed, Leave
  <2>4. CallbacksOnRecord'
    BY <2>1 DEF SInv, CallbacksOnRecord, Leave
  <2> QED  BY <2>3, <2>4 DEF SInv, Where, OpenIsHeld, PumpHasRecorder, DisplayIsOpen, Leave
<1> QED  BY <1>1, <1>2 DEF Callback

(* The pump reads and pushes while there is a recorder.                    *)
LEMMA PumpSInv ==
    ASSUME SInv, Pump
    PROVE  SInv'
<1> USE DEF Pump, PumpStops, PumpReads, PumpPushes, core, native, images, host, thread
<1>0. Typed
  BY DEF SInv
<1>1. Typed'
  BY <1>0 DEF Typed
<1>2. Where' /\ OpenIsHeld'
  BY <1>0 DEF SInv, Typed, Where, OpenIsHeld
<1>3. PumpHasRecorder' /\ DisplayIsOpen'
  BY <1>0 DEF SInv, Typed, PumpHasRecorder, DisplayIsOpen
<1>4. CallbacksOnRecord'
  BY <1>0 DEF SInv, Typed, CallbacksOnRecord
<1> QED  BY <1>1, <1>2, <1>3, <1>4 DEF SInv

(* What the user and the system do takes the display or nothing.           *)
LEMMA HostSInv ==
    ASSUME SInv, Host
    PROVE  SInv'
<1> USE DEF core, native, audio, images, thread
<1>1. CASE TakeToken \/ GiveUpToken \/ Refuse \/ Resize
  BY <1>1, StutterSInv DEF TakeToken, GiveUpToken, Refuse, Resize, observed
<1>2. CASE OnStop
  <2>1. Typed'
    BY <1>2 DEF SInv, Typed, OnStop
  <2> QED  BY <1>2, <2>1 DEF SInv, Where, OpenIsHeld, PumpHasRecorder, DisplayIsOpen,
                             CallbacksOnRecord, OnStop
<1> QED  BY <1>1, <1>2 DEF Host

(* What the frontend does: a new source, or nothing that SInv is about.    *)
LEMMA FrontendSInv ==
    ASSUME SInv, Frontend
    PROVE  SInv'
<1> PICK c \in Sources : Create(c) \/ Switch(c) \/ Remove(c) \/ Release(c)
  BY DEF Frontend
<1>1. CASE Create(c)
  BY <1>1, CreateSInv
<1>2. CASE Switch(c) \/ LetGo(c)
  BY <1>2, StutterSInv DEF Switch, LetGo, native, audio, images, host, thread, observed
<1> QED  BY <1>1, <1>2 DEF Remove, Release

-----------------------------------------------------------------------------
(* The token and the recorder                                              *)

Made == {c \in Sources : state[c] # "none"}
Gone == {c \in Sources : state[c] = "gone"}

\* live_sources is what its name says, until the destruction thread frees the
\* source it has counted down.
Counting ==
    live_sources = Cardinality(Made) - Cardinality(Gone)
                     - (IF pc["destruction"] \in {"give_back", "free"} THEN 1 ELSE 0)

\* The pump and the recorder have a sink, or the last one is stopping them.
RecorderHasSink ==
    audio_sinks = {} /\ pc["graphics"] \notin {"join", "stop_audio"} =>
        pump = "none" /\ ~audioRecord

\* The token has a source, or the last one is giving it back.
TokenHasSource ==
    projection => late \/ live_sources # 0 \/ pc["destruction"] = "give_back"

LInv == Counting /\ RecorderHasSink /\ TokenHasSource

counted == <<state, live_sources, audio_sinks, pump, audioRecord, projection, late, pc>>

(* Cardinalities of sets of sources are numbers.                           *)
LEMMA CountsAreNumbers == Cardinality(Made) \in Nat /\ Cardinality(Gone) \in Nat
<1>1. IsFiniteSet(Made) /\ IsFiniteSet(Gone)
  BY FS_Subset DEF Made, Gone
<1> QED  BY <1>1, FS_CardinalityType

(* The count of a step that makes no source and frees none.                *)
LEMMA SameCount ==
    ASSUME Made' = Made, Gone' = Gone, Counting, live_sources' = live_sources,
           pc'["destruction"] \in {"give_back", "free"}
               <=> pc["destruction"] \in {"give_back", "free"}
    PROVE  Counting'
BY DEF Counting

(* No source, no token, no recorder.                                       *)
LEMMA InitLInv == Init => LInv
<1> SUFFICES ASSUME Init PROVE LInv
  OBVIOUS
<1>1. Made = {} /\ Gone = {}
  BY DEF Init, Made, Gone
<1>2. Counting
  BY <1>1, FS_EmptySet DEF Init, Counting
<1> QED  BY <1>2 DEF Init, LInv, RecorderHasSink, TokenHasSource

(* Where the graphics thread moves, the sources stay and the token too.    *)
LEMMA GraphicsLInv ==
    ASSUME SInv, LInv, UNCHANGED <<state, live_sources, projection, late>>,
           pc'["destruction"] = pc["destruction"], RecorderHasSink'
    PROVE  LInv'
<1>1. Made' = Made /\ Gone' = Gone
  BY DEF Made, Gone
<1>2. Counting'
  BY <1>1, SameCount DEF LInv
<1>3. TokenHasSource'
  BY DEF LInv, TokenHasSource
<1> QED  BY <1>2, <1>3 DEF LInv

(* The steps of the tick, of open_capture and of close_capture.            *)
LEMMA CaptureLInv ==
    ASSUME SInv, LInv,
           \/ \E c \in Sources : Tick(c) \/ Open(c)
           \/ \E t \in Threads : CloseCapture(t)
    PROVE  LInv'
<1>0. Typed /\ RecorderHasSink
  BY DEF SInv, LInv
<1>1. ASSUME NEW c \in Sources, Tick(c) PROVE LInv'
  <2>1. /\ UNCHANGED <<state, live_sources, projection, late, audio_sinks, pump, audioRecord>>
        /\ pc["graphics"] = "idle" /\ pc' \in {pc, [pc EXCEPT !["graphics"] = "idle"],
                    [pc EXCEPT !["graphics"] = "display"], [pc EXCEPT !["graphics"] = "release"]}
    BY <1>1 DEF Tick, Activate, Deactivate, VideoTick, Ticked, TryStart, MakeReader,
       Stays, TickOver, Goto, core, native, audio, images, host, history
  <2> QED  BY <1>0, <2>1, GraphicsLInv DEF Typed, RecorderHasSink
<1>2. ASSUME NEW c \in Sources, Open(c) PROVE LInv'
  <2>1. CASE StartDisplay(c)
    BY <1>0, <2>1, GraphicsLInv DEF StartDisplay, Goto, core, audio, history, Typed,
       RecorderHasSink
  <2>2. CASE AudioPumpAcquire(c)
    BY <1>0, <2>2, GraphicsLInv DEF AudioPumpAcquire, TickOver, Goto, core, history, Typed,
       RecorderHasSink
  <2> QED  BY <1>2, <2>1, <2>2 DEF Open
<1>3. ASSUME NEW t \in Threads, CloseCapture(t) PROVE LInv'
  <2>1. ASSUME NEW c \in Sources, AudioPumpRelease(t, c) PROVE LInv'
    <3>1. t = "graphics" /\ pc["graphics"] = "release"
      BY <2>1, OnlyGraphicsCloses DEF AudioPumpRelease
    <3>2. /\ UNCHANGED <<state, live_sources, projection, late, pump, audioRecord>>
          /\ pc'["destruction"] = pc["destruction"]
      BY <1>0, <2>1, <3>1 DEF AudioPumpRelease, Goto, core, host, history, Typed
    <3>3. audio_sinks' = {} /\ pc'["graphics"] \notin {"join", "stop_audio"} => audio_sinks = {}
      <4>1. audio_sinks = {c} => pc'["graphics"] \in {"join", "stop_audio"}
        BY <1>0, <2>1, <3>1 DEF AudioPumpRelease, JoinFirst, Goto, Typed
      <4>2. audio_sinks' = audio_sinks \ {c}
        BY <2>1 DEF AudioPumpRelease
      <4> QED  BY <4>1, <4>2
    <3>4. RecorderHasSink'
      BY <1>0, <3>1, <3>2, <3>3 DEF RecorderHasSink
    <3> QED  BY <3>2, <3>4, GraphicsLInv
  <2>2. ASSUME NEW c \in Sources, StopDisplay(t, c) \/ DeleteReader(t, c) PROVE LInv'
    <3>1. /\ t = "graphics" /\ pc["graphics"] \in {"surface", "wait"}
          /\ UNCHANGED <<state, live_sources, projection, late, audio_sinks, pump, audioRecord>>
          /\ pc' \in {[pc EXCEPT !["graphics"] = "wait"], [pc EXCEPT !["graphics"] = "idle"]}
      BY <2>2, OnlyGraphicsCloses DEF StopDisplay, DeleteReader, TickOver, Goto, core, audio,
         host, history
    <3> QED  BY <1>0, <3>1, GraphicsLInv DEF Typed, RecorderHasSink
  <2>3. CASE JoinPump(t)
    BY <1>0, <2>3, OnlyGraphicsCloses, GraphicsLInv
       DEF JoinPump, Goto, core, host, history, Typed, RecorderHasSink
  <2>4. CASE StopAudio(t)
    <3>1. pump = "none"
      BY <2>4, OnlyGraphicsCloses DEF StopAudio, SInv, PumpHasRecorder
    <3> QED  BY <1>0, <2>4, <3>1, OnlyGraphicsCloses, GraphicsLInv
                DEF StopAudio, Goto, core, history, Typed, RecorderHasSink
  <2> QED  BY <1>3, <2>1, <2>2, <2>3, <2>4 DEF CloseCapture
<1> QED  BY <1>1, <1>2, <1>3

(* screen_create: one source more.                                         *)
LEMMA CreateLInv ==
    ASSUME SInv, LInv, NEW c \in Sources, Create(c)
    PROVE  LInv'
<1> USE DEF Create, audio, host, thread, history
<1>0. Typed
  BY DEF SInv
<1>1. Made' = Made \cup {c} /\ c \notin Made /\ Gone' = Gone
  BY <1>0 DEF Typed, Made, Gone
<1>2. IsFiniteSet(Made)
  BY FS_Subset DEF Made
<1>3. Cardinality(Made') = Cardinality(Made) + 1
  BY <1>1, <1>2, FS_AddElement
<1>4. Counting'
  BY <1>1, <1>3, CountsAreNumbers DEF LInv, Counting
<1>5. TokenHasSource'
  <2>1. Gone \subseteq Made
    BY DEF Gone, Made
  <2>2. Cardinality(Gone) <= Cardinality(Made)
    BY <1>2, <2>1, FS_Subset
  <2>3. CASE pc["destruction"] \notin {"give_back", "free"}
    BY <2>2, <2>3, CountsAreNumbers DEF LInv, Counting, TokenHasSource
  <2>4. CASE pc["destruction"] \in {"give_back", "free"}
    <3>1. at["destruction"] \in Made /\ at["destruction"] \notin Gone
      BY <2>4 DEF SInv, Where, Made, Gone
    <3>2. Cardinality(Made) # Cardinality(Gone)
      BY <1>2, <2>1, <3>1, FS_Subset
    <3> QED  BY <2>2, <2>4, <3>2, CountsAreNumbers DEF LInv, Counting, TokenHasSource
  <2> QED  BY <2>3, <2>4
<1> QED  BY <1>4, <1>5 DEF LInv, RecorderHasSink

(* screen_destroy: the last source leaves with the token.                  *)
LEMMA DestructionLInv ==
    ASSUME SInv, LInv, Destruction
    PROVE  LInv'
<1> USE DEF Goto, core, audio, host, history
<1>0. Typed /\ Counting /\ RecorderHasSink /\ TokenHasSource
  BY DEF SInv, LInv
<1>1. ASSUME NEW c \in Sources, Destroy(c) PROVE LInv'
  <2>1. reader[c] = NoReader
    BY <1>1 DEF Destroy, SInv, OpenIsHeld
  <2>2. Made' = Made /\ Gone' = Gone
    BY <1>1 DEF Destroy, Made, Gone
  <2>3. Counting'
    BY <1>0, <1>1, <2>1, <2>2, SameCount DEF Destroy, Typed
  <2> QED  BY <1>0, <1>1, <2>1, <2>3 DEF Destroy, Typed, LInv, RecorderHasSink, TokenHasSource
<1>2. ASSUME NEW c \in Sources, CountDown(c) PROVE LInv'
  <2>1. Made' = Made /\ Gone' = Gone
    BY <1>2 DEF CountDown, Made, Gone
  <2>2. Counting'
    BY <1>0, <1>2, <2>1, CountsAreNumbers DEF CountDown, Counted, Typed, Counting
  <2>3. live_sources' = 0 => pc'["destruction"] = "give_back"
    <3>1. live_sources \in Int
      BY <1>0, CountsAreNumbers DEF Counting
    <3>2. live_sources' = 0 => live_sources = 1
      BY <1>2, <3>1 DEF CountDown, Counted
    <3> QED  BY <1>0, <1>2, <3>2 DEF CountDown, IsLast, Typed
  <2> QED  BY <1>0, <1>2, <2>2, <2>3
              DEF CountDown, Typed, LInv, RecorderHasSink, TokenHasSource
<1>3. ASSUME NEW c \in Sources, Free(c) PROVE LInv'
  <2>1. Made' = Made /\ Gone' = Gone \cup {c} /\ c \notin Gone
    BY <1>0, <1>3 DEF Free, SInv, Typed, Where, Made, Gone
  <2>2. Cardinality(Gone') = Cardinality(Gone) + 1
    <3>1. IsFiniteSet(Gone)
      BY FS_Subset DEF Gone
    <3> QED  BY <2>1, <3>1, FS_AddElement
  <2>3. Counting'
    BY <1>0, <1>3, <2>1, <2>2, CountsAreNumbers DEF Free, Typed, Counting
  <2> QED  BY <1>0, <1>3, <2>3 DEF Free, Typed, LInv, RecorderHasSink, TokenHasSource
<1>4. CASE ReleaseConsent
  <2>1. Made' = Made /\ Gone' = Gone
    BY <1>4 DEF ReleaseConsent, Made, Gone
  <2>2. Counting'
    BY <1>0, <1>4, <2>1, SameCount DEF ReleaseConsent, Typed
  <2> QED  BY <1>0, <1>4, <2>2
              DEF ReleaseConsent, Typed, LInv, RecorderHasSink, TokenHasSource
<1> QED  BY <1>1, <1>2, <1>3, <1>4 DEF Destruction

(* The host, the pump, the callbacks and the rest of the frontend leave    *)
(* the count alone.                                                        *)
LEMMA OthersLInv ==
    ASSUME SInv, LInv,
           \/ Host \/ Callback \/ Pump
           \/ \E c \in Sources : Unreferenced(c) \/ Switch(c) \/ LetGo(c)
    PROVE  LInv'
<1> USE DEF core, audio, host, thread, history
<1>0. Typed /\ Counting /\ RecorderHasSink /\ TokenHasSource
  BY DEF SInv, LInv
<1>1. /\ UNCHANGED <<live_sources, audio_sinks, audioRecord, pc>>
      /\ Made' = Made /\ Gone' = Gone
      /\ pump = "none" => pump' = "none"
      /\ projection' => projection \/ late' \/ live_sources # 0
      /\ late => late'
  <2>1. CASE Host
    <3>1. CASE TakeToken
      <4>1. late' = (late \/ live_sources = 0)
        BY <3>1 DEF TakeToken
      <4>2. (late => late') /\ (late' \/ live_sources # 0)
        BY <4>1, Zenon
      <4> QED  BY <3>1, <4>2 DEF TakeToken, Made, Gone
    <3>2. CASE GiveUpToken \/ Refuse \/ OnStop \/ Resize
      BY <3>2 DEF GiveUpToken, Refuse, OnStop, Resize, Made, Gone
    <3> QED  BY <2>1, <3>1, <3>2 DEF Host
  <2>2. CASE Callback
    BY <2>2 DEF Callback, Enter, Leave, Made, Gone
  <2>3. CASE Pump
    BY <2>3 DEF Pump, PumpStops, PumpReads, PumpPushes, Made, Gone
  <2>4. CASE \E c \in Sources : Unreferenced(c) \/ Switch(c) \/ LetGo(c)
    BY <1>0, <2>4 DEF Typed, Unreferenced, Switch, LetGo, Made, Gone
  <2> QED  BY <2>1, <2>2, <2>3, <2>4
<1>2. Counting'
  BY <1>0, <1>1, SameCount
<1> QED  BY <1>0, <1>1, <1>2 DEF LInv, RecorderHasSink, TokenHasSource

-----------------------------------------------------------------------------
(* The types                                                               *)

\* TypeOK without the count of the sources, one membership at a time.
Fields ==
    /\ state \in [Sources -> {"none", "live", "dying", "gone"}]
    /\ want \in [Sources -> BOOLEAN] /\ active \in [Sources -> BOOLEAN]
    /\ removed \in [Sources -> BOOLEAN] /\ held \in [Sources -> BOOLEAN]
    /\ consent_asked \in [Sources -> BOOLEAN]
    /\ cb_thread_maybe_live \in [Sources -> BOOLEAN] /\ freed \in [Sources -> BOOLEAN]
    /\ reader \in [Sources -> 0..MaxReaders] /\ sized \in [Sources -> Nat]
    /\ audio_mx \in BOOLEAN /\ audio_stop \in BOOLEAN /\ projection \in BOOLEAN
    /\ audioRecord \in BOOLEAN /\ late \in BOOLEAN
    /\ audio_sinks \subseteq Sources
    /\ pump \in {"none", "read", "lock", "done"}
    /\ readers \in 0..MaxReaders
    /\ listening \subseteq 1..MaxReaders /\ deleted \subseteq 1..MaxReaders
    /\ callbacks \subseteq Sources \X (1..MaxReaders)
    /\ display \in Sources \cup {NoSource} /\ dialogs \in Nat /\ events \in Nat
    /\ size \in {1, 2}
    /\ pc \in [Threads -> GraphicsAt \cup DestructionAt]
    /\ at \in [Threads -> Sources \cup {NoSource}] /\ lost \in [Threads -> BOOLEAN]

(* Fields and the count are the type invariant.                            *)
LEMMA FieldsAreTypes == Fields /\ Counting => TypeOK
BY DEF Fields, Counting, Made, Gone, TypeOK

(* The start of the program has the types.                                 *)
LEMMA InitFields == Init => Fields
<1> SUFFICES ASSUME Init PROVE Fields
  OBVIOUS
<1>1. 0 \in 0..MaxReaders
  BY BoundsAssumption
<1>2. reader \in [Sources -> 0..MaxReaders] /\ readers \in 0..MaxReaders
  BY <1>1 DEF Init
<1>3. /\ pc \in [Threads -> GraphicsAt \cup DestructionAt]
      /\ at \in [Threads -> Sources \cup {NoSource}] /\ lost \in [Threads -> BOOLEAN]
  BY DEF Init
<1> QED  BY <1>2, <1>3 DEF Init, Fields

(* What the frontend and libobs do around the plugin keeps the types.      *)
LEMMA FrontendFields ==
    ASSUME Fields, Frontend \/ \E c \in Sources : Unreferenced(c)
    PROVE  Fields'
<1> USE DEF native, audio, images, host, thread, history, Fields
<1>1. ASSUME NEW c \in Sources, Create(c) PROVE Fields'
  BY <1>1 DEF Create
<1>2. ASSUME NEW c \in Sources, Switch(c) PROVE Fields'
  BY <1>2 DEF Switch, CountEvent
<1>3. ASSUME NEW c \in Sources, Remove(c) \/ Release(c) PROVE Fields'
  BY <1>3, ZenonT(30) DEF Remove, Release, LetGo
<1>4. ASSUME NEW c \in Sources, Unreferenced(c) PROVE Fields'
  BY <1>4 DEF Unreferenced
<1> QED  BY <1>1, <1>2, <1>3, <1>4 DEF Frontend

(* The tick keeps the types: the readers are bounded.                      *)
LEMMA TickFields ==
    ASSUME Fields, NEW c \in Sources, Tick(c)
    PROVE  Fields'
<1> USE DEF Stays, TickOver, Goto
<1>0. MaxReaders \in Nat
  BY BoundsAssumption
<1>1. ASSUME MakeReader(c)
      PROVE  /\ readers' \in 0..MaxReaders /\ reader' \in [Sources -> 0..MaxReaders]
             /\ sized' \in [Sources -> Nat] /\ listening' \subseteq 1..MaxReaders
             /\ pc' \in [Threads -> GraphicsAt \cup DestructionAt]
             /\ at' \in [Threads -> Sources \cup {NoSource}]
  <2>1. CASE TickOver /\ UNCHANGED <<readers, reader, sized, listening>>
    BY <2>1 DEF Fields
  <2>2. CASE readers < MaxReaders
    <3>1. NewReader \in 1..MaxReaders /\ NewReader \in 0..MaxReaders /\ size \in Nat
      BY <1>0, <2>2 DEF NewReader, Fields
    <3>2. CASE /\ readers' = NewReader /\ reader' = [reader EXCEPT ![c] = NewReader]
               /\ sized' = [sized EXCEPT ![c] = size]
               /\ listening' \in {listening, listening \cup {NewReader}}
               /\ Stays(c, "display") \/ Stays(c, "release")
      BY <3>1, <3>2 DEF Fields
    <3> QED  BY <1>1, <2>1, <3>2 DEF MakeReader
  <2> QED  BY <1>1, <2>1, <2>2 DEF MakeReader
<1>2. ASSUME NEW asked \in BOOLEAN, TryStart(c, asked)
      PROVE  /\ readers' \in 0..MaxReaders /\ reader' \in [Sources -> 0..MaxReaders]
             /\ sized' \in [Sources -> Nat] /\ listening' \subseteq 1..MaxReaders
             /\ pc' \in [Threads -> GraphicsAt \cup DestructionAt]
             /\ at' \in [Threads -> Sources \cup {NoSource}]
             /\ consent_asked' \in [Sources -> BOOLEAN] /\ dialogs' \in Nat
  <2>1. CASE MakeReader(c) /\ UNCHANGED dialogs /\ consent_asked' = [consent_asked EXCEPT ![c] = asked]
    BY <1>1, <2>1 DEF Fields
  <2>2. CASE /\ UNCHANGED <<readers, reader, sized, listening, pc, at>>
             /\ consent_asked' = [consent_asked EXCEPT ![c] = TRUE]
             /\ dialogs' = IF asked THEN dialogs ELSE dialogs + 1
    BY <2>2 DEF Fields
  <2> QED  BY <1>2, <2>1, <2>2 DEF TryStart
<1>3. CASE Activate(c)
  <2>1. CASE TryStart(c, FALSE)
    BY <1>2, <1>3, <2>1 DEF Activate, Fields, audio, history
  <2>2. CASE ~TryStart(c, FALSE)
    BY <1>3, <2>2 DEF Activate, Fields, audio, history
  <2> QED  BY <2>1, <2>2
<1>4. CASE Deactivate(c)
  BY <1>4 DEF Deactivate, Fields, native, audio, images, host, history
<1>5. CASE VideoTick(c)
  <2>1. CASE TryStart(c, consent_asked[c])
    <3>1. consent_asked[c] \in BOOLEAN
      BY DEF Fields
    <3>2. UNCHANGED lost
      BY <1>5, <2>1 DEF VideoTick, TryStart
    <3> QED  BY <1>2, <1>5, <2>1, <3>1, <3>2 DEF VideoTick, Fields, core, audio, history
  <2>2. CASE ~TryStart(c, consent_asked[c])
    <3>1. (~projection) \in BOOLEAN
      OBVIOUS
    <3>2. lost' \in [Threads -> BOOLEAN]
      BY <1>5, <2>2, <3>1 DEF VideoTick, Fields
    <3>3. /\ pc' \in [Threads -> GraphicsAt \cup DestructionAt]
          /\ at' \in [Threads -> Sources \cup {NoSource}]
          /\ UNCHANGED <<readers, reader, sized, listening, dialogs, consent_asked>>
      BY <1>5, <2>2 DEF VideoTick, Fields
    <3> QED  BY <1>5, <3>2, <3>3 DEF VideoTick, Fields, core, audio, history
  <2> QED  BY <2>1, <2>2
<1> QED  BY <1>3, <1>4, <1>5 DEF Tick

(* open_capture keeps the types.                                           *)
LEMMA OpenFields ==
    ASSUME Fields, NEW c \in Sources, Open(c)
    PROVE  Fields'
<1> USE DEF Fields, Goto, core, history
<1>1. CASE StartDisplay(c)
  BY <1>1 DEF StartDisplay, native, audio, images
<1>2. CASE AudioPumpAcquire(c)
  BY <1>2 DEF AudioPumpAcquire, AudioPumpStart, TickOver, images
<1> QED  BY <1>1, <1>2 DEF Open

(* close_capture keeps the types.                                          *)
LEMMA CloseFields ==
    ASSUME Fields, NEW t \in Threads, CloseCapture(t)
    PROVE  Fields'
<1> USE DEF Goto, core, history
<1>1. ASSUME NEW c \in Sources, AudioPumpRelease(t, c) PROVE Fields'
  BY <1>1 DEF AudioPumpRelease, JoinFirst, native, images, host, Fields
<1>2. ASSUME NEW c \in Sources, StopDisplay(t, c) PROVE Fields'
  BY <1>2 DEF StopDisplay, Stopped, native, audio, Fields
<1>3. ASSUME NEW c \in Sources, DeleteReader(t, c) PROVE Fields'
  <2>1. /\ deleted' \subseteq 1..MaxReaders /\ consent_asked' \in [Sources -> BOOLEAN]
        /\ cb_thread_maybe_live' \in [Sources -> BOOLEAN]
    <3>1. <<c, reader[c]>> \in callbacks => reader[c] \in 1..MaxReaders
      BY DEF Fields
    <3>2. deleted' \subseteq 1..MaxReaders
      BY <1>3, <3>1 DEF DeleteReader, Fields
    <3>3. (~MayDelete(c)) \in BOOLEAN /\ (consent_asked[c] \/ lost[t]) \in BOOLEAN
      OBVIOUS
    <3> QED  BY <1>3, <3>2, <3>3 DEF DeleteReader, Fields
  <2>2. /\ reader' \in [Sources -> 0..MaxReaders] /\ sized' \in [Sources -> Nat]
        /\ lost' \in [Threads -> BOOLEAN]
    BY <1>3, BoundsAssumption DEF DeleteReader, Fields
  <2>3. /\ pc' \in [Threads -> GraphicsAt \cup DestructionAt]
        /\ at' \in [Threads -> Sources \cup {NoSource}]
    BY <1>3 DEF DeleteReader, TickOver, Fields
  <2> QED  BY <1>3, <2>1, <2>2, <2>3 DEF DeleteReader, audio, host, Fields
<1>4. CASE JoinPump(t)
  BY <1>4 DEF JoinPump, native, images, host, Fields
<1>5. CASE StopAudio(t)
  BY <1>5 DEF StopAudio, native, images, Fields
<1> QED  BY <1>1, <1>2, <1>3, <1>4, <1>5 DEF CloseCapture

(* screen_destroy keeps the types.                                         *)
LEMMA DestructionFields ==
    ASSUME Fields, Destruction
    PROVE  Fields'
<1> USE DEF Fields, Goto, core, native, audio, images, host, history
<1>1. ASSUME NEW c \in Sources, Destroy(c) PROVE Fields'
  BY <1>1 DEF Destroy
<1>2. ASSUME NEW c \in Sources, CountDown(c) PROVE Fields'
  BY <1>2 DEF CountDown
<1>3. ASSUME NEW c \in Sources, Free(c) PROVE Fields'
  BY <1>3 DEF Free
<1>4. CASE ReleaseConsent
  BY <1>4 DEF ReleaseConsent
<1> QED  BY <1>1, <1>2, <1>3, <1>4 DEF Destruction

(* Callbacks, the pump and the host keep the types.                        *)
LEMMA OthersFields ==
    ASSUME Fields, Callback \/ Pump \/ Host
    PROVE  Fields'
<1> USE DEF core, native, audio, images, host, thread, history
<1>1. ASSUME NEW c \in Sources, Enter(c) PROVE Fields'
  <2>1. callbacks' \subseteq Sources \X (1..MaxReaders)
    BY <1>1 DEF Enter, Fields
  <2> QED  BY <1>1, <2>1 DEF Enter, Fields
<1>2. ASSUME NEW x \in callbacks, Leave(x) PROVE Fields'
  BY <1>2 DEF Leave, Fields
<1>3. CASE Pump
  <2>1. CASE PumpStops
    BY <2>1 DEF PumpStops, Fields
  <2>2. CASE PumpReads
    BY <2>2 DEF PumpReads, CountEvent, Fields
  <2>3. CASE PumpPushes
    BY <2>3 DEF PumpPushes, Fields
  <2> QED  BY <1>3, <2>1, <2>2, <2>3 DEF Pump
<1>4. CASE TakeToken
  <2>1. late' \in BOOLEAN
    BY <1>4 DEF TakeToken, Fields
  <2> QED  BY <1>4, <2>1 DEF TakeToken, Fields
<1>5. CASE Refuse
  BY <1>5 DEF Refuse, Fields
<1>6. CASE GiveUpToken
  <2>1. projection' \in BOOLEAN
    BY <1>6 DEF GiveUpToken
  <2>2. dialogs' \in Nat
    <3>1. dialogs \in Nat /\ dialogs > 0 /\ dialogs' = dialogs - 1
      BY <1>6 DEF GiveUpToken, Fields
    <3> QED  BY <3>1
  <2> QED  BY <1>6, <2>1, <2>2 DEF GiveUpToken, Fields
<1>7. CASE OnStop
  <2>1. projection' \in BOOLEAN /\ display' \in Sources \cup {NoSource}
    BY <1>7 DEF OnStop
  <2>2. events' \in Nat
    BY <1>7 DEF OnStop, CountEvent, Fields
  <2> QED  BY <1>7, <2>1, <2>2 DEF OnStop, Fields
<1>8. CASE Resize
  <2>1. size' \in {1, 2} /\ events' \in Nat
    BY <1>8 DEF Resize, CountEvent, Fields
  <2> QED  BY <1>8, <2>1 DEF Resize, Fields
<1> QED  BY <1>1, <1>2, <1>3, <1>4, <1>5, <1>6, <1>7, <1>8 DEF Callback, Host

-----------------------------------------------------------------------------
(* The theorems                                                            *)

(* Every reachable state satisfies the inductive invariant.                *)
THEOREM CaptureInvariance == Spec => []SInv
<1>1. ASSUME SInv, [Next]_vars
      PROVE  SInv'
  <2> USE <1>1
  <2>1. CASE Frontend \/ Host \/ Callback \/ Pump
    BY <2>1, FrontendSInv, HostSInv, CallbackSInv, PumpSInv
  <2>2. CASE \E c \in Sources : Tick(c) \/ Unreferenced(c)
    BY <2>2, TickSInv, UnreferencedSInv
  <2>3. CASE \E c \in Sources : Open(c)
    BY <2>3, StartDisplaySInv, AudioPumpAcquireSInv DEF Open
  <2>4. CASE \E t \in Threads : CloseCapture(t)
    BY <2>4, AudioPumpReleaseSInv, StopDisplaySInv, DeleteReaderSInv, JoinPumpSInv,
       StopAudioSInv DEF CloseCapture
  <2>5. CASE Destruction
    BY <2>5, DestroySInv, GiveBackSInv, FreeSInv DEF Destruction
  <2>6. CASE UNCHANGED vars
    BY <2>6, StutterSInv DEF vars, core, native, audio, images, host, thread, observed
  <2> QED  BY <2>1, <2>2, <2>3, <2>4, <2>5, <2>6 DEF Next
<1> QED  BY InitSInv, <1>1, PTL DEF Spec

(* on_image_available, close_capture: a callback never uses a reader that  *)
(* was deleted or the data of a source that was freed.                     *)
THEOREM CallbacksAreSafe == Spec => []SafeTeardown
<1>1. SInv => SafeTeardown
  BY DEF SInv, Typed, OpenIsHeld, CallbacksOnRecord, SafeTeardown
<1> QED  BY <1>1, CaptureInvariance, PTL

(* startCapture, close_capture: the display draws to a reader that is      *)
(* there, however many sources take it from each other.                    *)
THEOREM SurfaceIsOwned == Spec => []SurfaceHasReader
<1>1. SInv => SurfaceHasReader
  BY DEF SInv, DisplayIsOpen, SurfaceHasReader
<1> QED  BY <1>1, CaptureInvariance, PTL

(* audio_pump_stop: the recorder is there while the pump reads.            *)
THEOREM RecorderOutlivesPump == Spec => []ReadsLiveBuffer
<1>1. SInv => ReadsLiveBuffer
  BY DEF SInv, PumpHasRecorder, ReadsLiveBuffer
<1> QED  BY <1>1, CaptureInvariance, PTL

(* screen_destroy: a source that is destroyed has no capture and is no     *)
(* sink of the pump.                                                       *)
THEOREM DestroyedClosed == Spec => []DestroyedIsClosed
<1>1. SInv => DestroyedIsClosed
  BY DEF SInv, OpenIsHeld, DestroyedIsClosed
<1> QED  BY <1>1, CaptureInvariance, PTL

(* The count of the sources, the recorder and the token always agree.      *)
THEOREM TokenInvariance == Spec => []LInv
<1>1. ASSUME SInv, LInv, [Next]_vars
      PROVE  LInv'
  <2> USE <1>1
  <2>1. CASE Frontend
    <3> PICK c \in Sources : Create(c) \/ Switch(c) \/ LetGo(c)
      BY <2>1 DEF Frontend, Remove, Release
    <3> QED  BY CreateLInv, OthersLInv
  <2>2. CASE Host \/ Callback \/ Pump
    BY <2>2, OthersLInv
  <2>3. CASE Destruction
    BY <2>3, DestructionLInv
  <2>4. CASE \E c \in Sources : Unreferenced(c)
    BY <2>4, OthersLInv
  <2>5. CASE \/ \E c \in Sources : Tick(c) \/ Open(c)
             \/ \E t \in Threads : CloseCapture(t)
    BY <2>5, CaptureLInv
  <2>6. CASE UNCHANGED vars
    <3>1. UNCHANGED counted
      BY <2>6 DEF vars, core, audio, host, thread, history, counted
    <3> QED  BY <3>1 DEF counted, LInv, Counting, Made, Gone, RecorderHasSink, TokenHasSource
  <2> QED  BY <2>1, <2>2, <2>3, <2>4, <2>5, <2>6 DEF Next
<1> QED  BY InitLInv, <1>1, CaptureInvariance, PTL DEF Spec

(* screen_destroy: with the last source the display, the pump, the         *)
(* recorder and the token are gone, but for a token given later.           *)
THEOREM ScreenIsGivenBack == Spec => []NothingLeftBehind
<1>1. SInv /\ LInv => NothingLeftBehind
  <2> SUFFICES ASSUME SInv, LInv, \A c \in Sources : state[c] \in {"none", "gone"}
               PROVE  /\ display = NoSource /\ ~audioRecord /\ pump = "none"
                      /\ ~projection \/ late
    BY DEF NothingLeftBehind
  <2>1. pc["graphics"] = "idle" /\ pc["destruction"] = "idle"
    BY DEF SInv, Where
  <2>2. audio_sinks = {} /\ display = NoSource
    BY DEF SInv, Typed, OpenIsHeld, DisplayIsOpen
  <2>3. Made = Gone
    BY DEF Made, Gone
  <2>4. live_sources = 0
    BY <2>1, <2>3, CountsAreNumbers DEF LInv, Counting
  <2> QED  BY <2>1, <2>2, <2>4 DEF LInv, RecorderHasSink, TokenHasSource
<1> QED  BY <1>1, CaptureInvariance, TokenInvariance, PTL

(* Every variable keeps its type, live_sources the number of the sources.  *)
THEOREM TypeCorrect == Spec => []TypeOK
<1>1. ASSUME Fields, [Next]_vars
      PROVE  Fields'
  <2> USE <1>1
  <2>1. CASE Next
    BY <2>1, FrontendFields, TickFields, OpenFields, CloseFields, DestructionFields,
       OthersFields DEF Next
  <2>2. CASE UNCHANGED vars
    BY <2>2 DEF vars, core, native, audio, images, host, thread, history, Fields
  <2> QED  BY <2>1, <2>2
<1>2. Spec => []Fields
  BY InitFields, <1>1, PTL DEF Spec
<1>3. Fields /\ LInv => TypeOK
  BY FieldsAreTypes DEF LInv
<1> QED  BY <1>2, <1>3, TokenInvariance, PTL
=============================================================================
