--------------------------- MODULE RtmpStreamProofs ---------------------------
(***************************************************************************)
(* Proofs about RtmpStream and the Output it extends, for every number of  *)
(* reconnect threads, retries, calls and network failures, with failing    *)
(* and slow encoders and forced stops: the captures of an output do not    *)
(* overlap, and every variable keeps its type; and, where no stop meets a  *)
(* broken connection, what the application is told is what happened.       *)
(***************************************************************************)
EXTENDS RtmpStream, TLAPS

USE ReconnectorsAssumption, RetryAssumption, FailAssumption, LimitsAssumption, NetworkAssumption
    DEF Threads, Callers, Codes

-----------------------------------------------------------------------------
(* The inductive invariant                                                 *)

\* Where a thread has ended a capture whose encoders still run.
Ending == {"end_spawn", "end_spawn_quietly", "end_active"}

\* A capture that is being ended is still active and has no data; only one
\* thread is at it, and none begins another one.
CaptureInv ==
    /\ pc = [x \in Threads |-> pc[x]]
    /\ At("connect", "begin_active") => ~active
    /\ \A t \in Threads : pc[t] \in Ending => active /\ ~data_active
    /\ \A t, u \in Threads : pc[t] \in Ending /\ pc[u] \in Ending => t = u

USE DEF Ending, Go, At, Return

(* No capture is ended in the beginning.                                   *)
LEMMA InitCapture == Init => CaptureInv
BY DEF Init, OutputInit, CaptureInv

(* Threads that move elsewhere do not disturb the end of a capture.        *)
LEMMA Elsewhere ==
    ASSUME CaptureInv, UNCHANGED <<active, data_active>>, pc' = [x \in Threads |-> pc'[x]],
           \A t \in Threads : pc'[t] = pc[t] \/ pc'[t] \notin Ending \cup {"begin_active"}
    PROVE  CaptureInv'
BY DEF CaptureInv

(* One thread that moves elsewhere.                                        *)
LEMMA Moves ==
    ASSUME CaptureInv, UNCHANGED <<active, data_active>>, NEW t \in Threads,
           NEW l, l \notin Ending \cup {"begin_active"}, pc' = [pc EXCEPT ![t] = l]
    PROVE  CaptureInv'
<1>1. pc = [x \in Threads |-> pc[x]]
  BY DEF CaptureInv
<1> QED  BY <1>1, Elsewhere

(* A thread that starts another one and moves on.                          *)
LEMMA MovesBoth ==
    ASSUME CaptureInv, UNCHANGED <<active, data_active>>, NEW t \in Threads, NEW u \in Threads,
           NEW l, l \notin Ending \cup {"begin_active"},
           NEW m, m \notin Ending \cup {"begin_active"},
           pc' = [pc EXCEPT ![t] = l, ![u] = m]
    PROVE  CaptureInv'
<1>1. pc = [x \in Threads |-> pc[x]]
  BY DEF CaptureInv
<1> QED  BY <1>1, Elsewhere

(* Calls that begin, in any thread.                                        *)
LEMMA CallsCapture ==
    ASSUME CaptureInv, UserStarts \/ UserStops \/ EncoderStops \/ Broken
    PROVE  CaptureInv'
<1>1. CASE UserStarts
  BY <1>1, Moves DEF UserStarts, Start, flags
<1>2. CASE UserStops
  <2>1. UNCHANGED <<active, data_active>> /\ pc' = [pc EXCEPT !["user"] = "reset_event"]
    BY <1>2 DEF UserStops, Stop, ForceStop, BeginStop, flags
  <2> QED  BY <2>1, Moves
<1>3. CASE EncoderStops
  BY <1>3, Moves DEF EncoderStops, EncoderFails, BeginStop, flags
<1>4. CASE Broken
  BY <1>4, Moves DEF Broken, outputRest, flags
<1> QED  BY <1>1, <1>2, <1>3, <1>4

(* obs_output_actual_stop up to the implementation.                        *)
LEMMA StopCapture ==
    ASSUME CaptureInv, NEW t \in Callers, StopStep(t)
    PROVE  CaptureInv'
<1>1. CASE ResetStoppingEvent(t)
  BY <1>1, Moves DEF ResetStoppingEvent, flags
<1>2. CASE HaltReconnect(t)
  <2> PICK l \in {"join_reconnect", "plugin_stop"} : pc' = [pc EXCEPT ![t] = l]
    BY <1>2 DEF HaltReconnect
  <2> QED  BY <1>2, Moves DEF HaltReconnect, flags
<1>3. CASE JoinReconnect(t)
  BY <1>3, Moves DEF JoinReconnect, flags
<1> QED  BY <1>1, <1>2, <1>3 DEF StopStep

(* obs_output_end_data_capture_internal: a thread that finds a live        *)
(* capture is the only one at its end, also while the encoders stop.       *)
LEMMA EndingCapture ==
    ASSUME CaptureInv, NEW t \in Callers \cup {"connect", "send"}, EndingStep(t)
    PROVE  CaptureInv'
<1>0. pc = [x \in Threads |-> pc[x]] /\ t # "end"
  BY DEF CaptureInv
<1>1. CASE SignalStop(t)
  <2> PICK l \in {"end_quietly", "end_capture"} : pc' = [pc EXCEPT ![t] = l]
    BY <1>1 DEF SignalStop
  <2> QED  BY <1>1, Moves DEF SignalStop
<1>2. CASE EndDataCapture(t)
  <2>1. CASE ~active \/ ~data_active
    <3> PICK l \in {"idle", "back", "reconnect"} : pc' = [pc EXCEPT ![t] = l]
      BY <1>2, <2>1 DEF EndDataCapture, EndNothing
    <3> QED  BY <1>2, <2>1, Moves DEF EndDataCapture
  <2>2. CASE active /\ data_active
    <3>1. \E l \in {"end_spawn", "end_spawn_quietly"} : pc' = [pc EXCEPT ![t] = l]
      BY <1>2, <2>2 DEF EndDataCapture
    <3>2. active' /\ ~data_active'
      BY <1>2, <2>2 DEF EndDataCapture, CaptureOff
    <3>3. \A u \in Threads : pc[u] \notin Ending
      BY <2>2 DEF CaptureInv
    <3>4. ~At("connect", "begin_active")
      BY <2>2 DEF CaptureInv
    <3> QED  BY <1>0, <3>1, <3>2, <3>3, <3>4 DEF CaptureInv
  <2> QED  BY <2>1, <2>2
<1>3. CASE EndSpawn(t)
  <2>1. \A u \in Threads : pc[u] \in Ending => u = t
    BY <1>3 DEF EndSpawn, CaptureInv
  <2>2. \E l \in {"idle", "back", "reconnect"} :
            pc' = [pc EXCEPT !["end"] = "end_active", ![t] = l]
    BY <1>3 DEF EndSpawn
  <2>3. UNCHANGED <<active, data_active>> /\ active /\ ~data_active
    BY <1>3 DEF EndSpawn, flags, CaptureInv
  <2>4. pc' = [x \in Threads |-> pc'[x]]
    BY <1>0, <2>2
  <2>5. \A u \in Threads : pc'[u] \in Ending => u = "end"
    BY <1>0, <2>1, <2>2
  <2>6. At("connect", "begin_active")' => At("connect", "begin_active")
    BY <1>0, <2>2
  <2> QED  BY <2>3, <2>4, <2>5, <2>6 DEF CaptureInv
<1>4. CASE ReconnectHalted(t)
  <2> PICK l \in {"idle", "back"} : pc' = [pc EXCEPT ![t] = l]
    BY <1>4 DEF ReconnectHalted
  <2> QED  BY <1>4, Moves DEF ReconnectHalted
<1>5. CASE GiveUp(t)
  BY <1>5, Moves DEF GiveUp
<1>6. ASSUME NEW r \in Reconnectors, Reconnect(t, r)
      PROVE  CaptureInv'
  <2> PICK l \in {"idle", "back"} : pc' = [pc EXCEPT ![t] = l, ![r] = "r_begin"]
    BY <1>6 DEF Reconnect
  <2>1. l \notin Ending \cup {"begin_active"} /\ UNCHANGED <<active, data_active>>
    BY <1>6 DEF Reconnect
  <2>2. t \in Threads /\ r \in Threads
    OBVIOUS
  <2> HIDE DEF Threads, Ending
  <2> QED  BY <2>1, <2>2, MovesBoth DEF Ending
<1> QED  BY <1>1, <1>2, <1>3, <1>4, <1>5, <1>6 DEF EndingStep

(* rtmp_stream_stop.                                                       *)
LEMMA PluginStopCapture ==
    ASSUME CaptureInv, NEW t \in Callers,
           StopIgnored(t) \/ PluginStop(t) \/ JoinConnect(t) \/ StopStream(t) \/ SetStopEvent(t)
    PROVE  CaptureInv'
<1>1. UNCHANGED <<active, data_active>>
  BY DEF StopIgnored, PluginStop, JoinConnect, StopStream, SetStopEvent, outputRest, flags
<1>2. PICK l \in {"idle", "back", "join_connect", "stop_stream", "set_stop_event",
                  "signal_stop"} : pc' = [pc EXCEPT ![t] = l]
  BY DEF StopIgnored, PluginStop, JoinConnect, StopStream, SetStopEvent, CallSignalStop,
     AfterStopEvent
<1> QED  BY <1>1, <1>2, Moves

(* obs_output_actual_start and rtmp_stream_start.                          *)
LEMMA StartCapture ==
    ASSUME CaptureInv, NEW t \in {"user"} \cup Reconnectors,
           WaitStoppingEvent(t) \/ StartRefused(t) \/ StartConnecting(t)
    PROVE  CaptureInv'
<1>1. CASE WaitStoppingEvent(t)
  BY <1>1, Moves DEF WaitStoppingEvent, flags
<1>2. CASE StartRefused(t)
  <2> PICK l \in {"idle", "r_check"} : pc' = [pc EXCEPT ![t] = l]
    BY <1>2 DEF StartRefused, Started
  <2> QED  BY <1>2, Moves DEF StartRefused, outputRest, flags
<1>3. CASE StartConnecting(t)
  <2> PICK l \in {"idle", "r_check"} :
             pc' = [pc EXCEPT ![t] = l, !["connect"] = "init_connect"]
    BY <1>3 DEF StartConnecting, Started
  <2>1. l \notin Ending \cup {"begin_active"} /\ UNCHANGED <<active, data_active>>
    BY <1>3 DEF StartConnecting, outputRest, flags
  <2>2. t \in Threads /\ "connect" \in Threads
    OBVIOUS
  <2> HIDE DEF Threads, Ending
  <2> QED  BY <2>1, <2>2, MovesBoth DEF Ending
<1> QED  BY <1>1, <1>2, <1>3

(* obs_output_begin_data_capture: a capture that is active, if only its    *)
(* encoders still run, is not begun again.                                 *)
LEMMA BeginCapture ==
    ASSUME CaptureInv, BeginStep
    PROVE  CaptureInv'
<1>0. pc = [x \in Threads |-> pc[x]]
  BY DEF CaptureInv
<1>1. CASE BeginDataCapture
  <2>1. CASE active
    BY <1>1, <2>1, Moves DEF BeginDataCapture
  <2>2. CASE ~active
    <3>1. \A t \in Threads : pc[t] \notin Ending
      BY <2>2 DEF CaptureInv
    <3>2. pc' = [pc EXCEPT !["connect"] = "begin_active"] /\ ~active'
      BY <1>1, <2>2 DEF BeginDataCapture
    <3> QED  BY <1>0, <3>1, <3>2 DEF CaptureInv
  <2> QED  BY <2>1, <2>2
<1>2. CASE BeginActive
  <2>1. \A t \in Threads : pc[t] \notin Ending
    BY <1>2 DEF BeginActive, CaptureInv
  <2>2. pc' = [pc EXCEPT !["connect"] = "begin_signal"]
    BY <1>2 DEF BeginActive
  <2> QED  BY <1>0, <2>1, <2>2 DEF CaptureInv
<1>3. CASE BeginSignal
  BY <1>3, Moves DEF BeginSignal
<1> QED  BY <1>1, <1>2, <1>3 DEF BeginStep

(* connect_thread.                                                         *)
LEMMA ConnectCapture ==
    ASSUME CaptureInv, InitConnect \/ Refused \/ GoActive \/ ConnectTail \/ ConnectDone \/ Connected
    PROVE  CaptureInv'
<1>1. UNCHANGED <<active, data_active>>
  BY DEF InitConnect, Refused, GoActive, ConnectTail, ConnectDone, Connected, outputRest, flags
<1>2. CASE Connected
  BY <1>1, <1>2, MovesBoth DEF Connected
<1>3. CASE InitConnect \/ Refused \/ GoActive \/ ConnectTail \/ ConnectDone
  <2> PICK l \in {"try_connect", "signal_stop", "begin", "joinable", "detached", "none"} :
             pc' = [pc EXCEPT !["connect"] = l]
    BY <1>3 DEF InitConnect, Refused, GoActive, ConnectTail, ConnectDone, CallSignalStop
  <2> QED  BY <1>1, Moves
<1> QED  BY <1>2, <1>3

(* send_thread.                                                            *)
LEMMA SendCapture ==
    ASSUME CaptureInv, SendStops \/ Leave \/ SendReport \/ SendCleanup \/ GoInactive
    PROVE  CaptureInv'
<1>1. UNCHANGED <<active, data_active>>
  BY DEF SendStops, Leave, SendReport, SendCleanup, GoInactive, outputRest, flags
<1>2. PICK l \in {"leave", "report", "signal_stop", "end_capture", "go_inactive", "none"} :
             pc' = [pc EXCEPT !["send"] = l]
  BY DEF SendStops, Leave, SendReport, Report, SendCleanup, GoInactive, CallSignalStop
<1> QED  BY <1>1, <1>2, Moves

(* end_data_capture_thread: it turns off the capture it was made for.      *)
LEMMA EndThreadCapture ==
    ASSUME CaptureInv, EndThreadStep
    PROVE  CaptureInv'
<1>1. CASE EndActive
  <2>1. \A t \in Threads : pc[t] \in Ending => t = "end"
    BY <1>1 DEF EndActive, CaptureInv
  <2> QED  BY <1>1, <2>1 DEF EndActive, CaptureInv
<1>2. CASE EndSignal
  BY <1>2, Moves DEF EndSignal, flags
<1>3. CASE EndFlag
  BY <1>3, Moves DEF EndFlag, flags
<1> QED  BY <1>1, <1>2, <1>3 DEF EndThreadStep

(* reconnect_thread.                                                       *)
LEMMA RetryCapture ==
    ASSUME CaptureInv, NEW r \in Reconnectors,
           \/ RetryBegin(r) \/ RetryTimeout(r) \/ RetryHalted(r) \/ RetryCheck(r) \/ RetryEnd(r)
    PROVE  CaptureInv'
<1>1. UNCHANGED <<active, data_active>>
  BY DEF RetryBegin, RetryTimeout, RetryHalted, RetryCheck, RetryEnd, flags
<1>2. PICK l \in {"r_wait", "wait_event", "r_check", "r_end", "none"} :
             pc' = [pc EXCEPT ![r] = l]
  BY DEF RetryBegin, RetryTimeout, RetryHalted, RetryCheck, RetryEnd
<1> QED  BY <1>1, <1>2, Moves

-----------------------------------------------------------------------------
(* The theorems                                                            *)

(* obs_output_end_data_capture_internal, obs_output_begin_data_capture:    *)
(* CaptureInv holds whatever the threads of a session do.                  *)
THEOREM CaptureInvariance == Spec => []CaptureInv
<1>1. ASSUME CaptureInv, [Next]_vars
      PROVE  CaptureInv'
  <2> USE <1>1
  <2>1. CASE UserStarts \/ UserStops \/ EncoderStops \/ Broken
    BY <2>1, CallsCapture
  <2>2. ASSUME NEW t \in Callers, CallerStep(t)
        PROVE  CaptureInv'
    <3>1. CASE StopStep(t) \/ EndingStep(t)
      BY <3>1, StopCapture, EndingCapture
    <3>2. CASE \/ StopIgnored(t) \/ PluginStop(t) \/ JoinConnect(t)
               \/ StopStream(t) \/ SetStopEvent(t)
      BY <3>2, PluginStopCapture
    <3> QED  BY <2>2, <3>1, <3>2 DEF CallerStep
  <2>3. CASE UserStep
    BY <2>2, <2>3, StartCapture DEF UserStep
  <2>4. CASE EncoderStep
    BY <2>2, <2>4, Moves DEF EncoderStep, EncoderReports, outputRest, flags
  <2>5. CASE ConnectStep
    BY <2>5, BeginCapture, EndingCapture, ConnectCapture DEF ConnectStep
  <2>6. CASE SendStep
    BY <2>6, EndingCapture, SendCapture DEF SendStep
  <2>7. CASE EndStep
    BY <2>7, EndThreadCapture DEF EndStep
  <2>8. ASSUME NEW r \in Reconnectors, RetryThreadStep(r)
        PROVE  CaptureInv'
    BY <2>8, RetryCapture, StartCapture DEF RetryThreadStep, RetryStep
  <2>9. CASE UNCHANGED vars
    BY <2>9 DEF vars, outputVars, flags, CaptureInv
  <2> QED  BY <2>1, <2>3, <2>4, <2>5, <2>6, <2>7, <2>8, <2>9 DEF Next
<1> QED  BY InitCapture, <1>1, PTL DEF Spec

(* end_data_capture_thread: the encoders of one capture are stopped before *)
(* data is captured with them again, with stops, failures and retries at   *)
(* any moment and encoders that take any time to stop.                     *)
THEOREM CapturesAreApart == Spec => []CapturesDoNotOverlap
<1>1. CaptureInv => CapturesDoNotOverlap
  BY DEF CaptureInv, CapturesDoNotOverlap
<1> QED  BY <1>1, CaptureInvariance, PTL
-----------------------------------------------------------------------------
(* Types                                                                   *)

(* Every step of the output keeps the types of its variables.              *)
LEMMA OutputTypes ==
    ASSUME OutputTypeOK, NEW t \in Threads,
           \/ Start \/ Stop \/ ForceStop \/ EncoderFails \/ BeginStep \/ EndThreadStep
           \/ t \in Callers /\ StopStep(t)
           \/ EndingStep(t)
           \/ WaitStoppingEvent(t)
           \/ t \in Reconnectors /\ RetryStep(t)
    PROVE  OutputTypeOK'
<1> USE DEF OutputTypeOK, flags, retry, local, calls
<1>1. CASE Start \/ Stop \/ ForceStop \/ EncoderFails
  <2>1. CASE Start
    <3>1. asked' = FALSE /\ failed' = FALSE /\ starts' = starts + 1
      BY <2>1 DEF Start
    <3>2. {failed', asked'} \subseteq BOOLEAN
      BY <3>1, Zenon
    <3> QED  BY <2>1, <3>1, <3>2 DEF Start
  <2>2. CASE Stop
    BY <2>2 DEF Stop, BeginStop
  <2>3. CASE ForceStop
    BY <2>3 DEF ForceStop, BeginStop
  <2>4. CASE EncoderFails
    BY <2>4 DEF EncoderFails, BeginStop
  <2> QED  BY <1>1, <2>1, <2>2, <2>3, <2>4
<1>2. CASE BeginStep \/ EndThreadStep
  BY <1>2 DEF BeginStep, BeginDataCapture, BeginActive, BeginSignal, EndThreadStep, EndActive,
     EndSignal, EndFlag, CaptureEnded
<1>3. CASE t \in Callers /\ StopStep(t)
  BY <1>3 DEF StopStep, ResetStoppingEvent, HaltReconnect, JoinReconnect
<1>4. CASE EndingStep(t)
  <2>1. CASE SignalStop(t)
    BY <2>1 DEF SignalStop, Recorded
  <2>2. CASE EndDataCapture(t) \/ EndSpawn(t)
    BY <2>2 DEF EndDataCapture, EndNothing, EndSpawn, Announce, Silent, CaptureOff
  <2>3. CASE ReconnectHalted(t)
    BY <2>3 DEF ReconnectHalted
  <2>5. CASE GiveUp(t)
    <3>1. {active', data_active', reconnecting', stopping_event'} \subseteq BOOLEAN
      <4>1. reconnecting' = FALSE /\ UNCHANGED <<active, data_active, stopping_event>>
        BY <2>5 DEF GiveUp, GaveUp
      <4> QED  BY <4>1
    <3>2. reconnect_retries' \in 0..RetryMax
      BY <2>5 DEF GiveUp, Retries
    <3> QED  BY <2>5, <3>1, <3>2 DEF GiveUp
  <2>4. ASSUME NEW r \in Reconnectors, Reconnect(t, r)
        PROVE  OutputTypeOK'
    BY <2>4 DEF Reconnect, Retries, MayRetry
  <2> QED  BY <1>4, <2>1, <2>2, <2>3, <2>4, <2>5 DEF EndingStep
<1>5. CASE WaitStoppingEvent(t)
  BY <1>5 DEF WaitStoppingEvent
<1>6. CASE t \in Reconnectors /\ RetryStep(t)
  BY <1>6 DEF RetryStep, RetryBegin, RetryTimeout, RetryHalted, RetryCheck, RetryEnd,
     WaitStoppingEvent
<1> QED  BY <1>1, <1>2, <1>3, <1>4, <1>5, <1>6

(* Every step of the stream keeps the types of all variables.              *)
LEMMA StreamTypes ==
    ASSUME TypeOK, NEW t \in Threads,
           \/ Broken \/ EncoderReports
           \/ StopIgnored(t) \/ PluginStop(t) \/ JoinConnect(t) \/ SetStopEvent(t)
           \/ t \in Callers /\ StopStream(t)
           \/ StartRefused(t) \/ StartConnecting(t)
           \/ InitConnect \/ Refused \/ Connected \/ GoActive \/ ConnectTail \/ ConnectDone
           \/ SendStops \/ Leave \/ SendReport \/ SendCleanup \/ GoInactive
    PROVE  TypeOK'
<1> DEFINE StreamTypeOK == /\ {connecting, stream_active, stop_event, stop_now} \subseteq BOOLEAN
                           /\ {disconnected, encode_error, saw_error} \subseteq BOOLEAN
                           /\ {refusals, drops} \subseteq Nat
<1>0. StreamTypeOK /\ force \in [Callers -> BOOLEAN] /\ code \in [Threads -> Codes]
  BY DEF TypeOK, OutputTypeOK
<1>1. /\ UNCHANGED outputRest
      /\ \/ UNCHANGED code
         \/ \E u \in Threads, c \in Codes : code' = [code EXCEPT ![u] = c]
  BY DEF Broken, EncoderReports, StopIgnored, PluginStop, JoinConnect, SetStopEvent, StopStream,
     StartRefused, StartConnecting, InitConnect, Refused, Connected, GoActive, ConnectTail,
     ConnectDone, SendStops, Leave, SendReport, Report, SendCleanup, GoInactive, CallSignalStop
<1>2. OutputTypeOK'
  <2>1. code' \in [Threads -> Codes]
    BY <1>0, <1>1
  <2> QED  BY <1>1, <2>1 DEF TypeOK, OutputTypeOK, outputRest, flags, retry, calls
<1>3. StreamTypeOK'
  <2> USE <1>0 DEF stream, network
  <2>1. CASE Broken \/ EncoderReports \/ StartRefused(t) \/ StartConnecting(t)
    <3>1. CASE Broken
      BY <3>1 DEF Broken
    <3>2. CASE EncoderReports
      <4>1. encode_error' \in BOOLEAN
        BY <3>2 DEF EncoderReports
      <4> QED  BY <3>2, <4>1 DEF EncoderReports
    <3>3. CASE StartRefused(t) \/ StartConnecting(t)
      BY <3>3 DEF StartRefused, StartConnecting
    <3> QED  BY <2>1, <3>1, <3>2, <3>3
  <2>2. CASE StopIgnored(t) \/ PluginStop(t) \/ JoinConnect(t) \/ SetStopEvent(t)
    BY <2>2 DEF StopIgnored, PluginStop, JoinConnect, SetStopEvent
  <2>3. CASE t \in Callers /\ StopStream(t)
    <3>1. stop_now' \in BOOLEAN
      BY <2>3 DEF StopStream
    <3> QED  BY <2>3, <3>1 DEF StopStream
  <2>4. CASE InitConnect \/ Refused \/ Connected \/ GoActive \/ ConnectTail \/ ConnectDone
    <3>1. CASE Refused
      <4>1. refusals' \in Nat
        BY <3>1 DEF Refused
      <4> QED  BY <3>1, <4>1 DEF Refused
    <3>2. CASE InitConnect
      <4>1. disconnected' \in BOOLEAN /\ encode_error' \in BOOLEAN
        BY <3>2 DEF InitConnect
      <4> QED  BY <3>2, <4>1 DEF InitConnect
    <3>3. CASE Connected \/ GoActive \/ ConnectTail \/ ConnectDone
      BY <3>3 DEF Connected, GoActive, ConnectTail, ConnectDone
    <3> QED  BY <2>4, <3>1, <3>2, <3>3
  <2>5. CASE SendStops \/ Leave \/ SendReport \/ SendCleanup \/ GoInactive
    BY <2>5 DEF SendStops, Leave, SendReport, SendCleanup, GoInactive
  <2> QED  BY <2>1, <2>2, <2>3, <2>4, <2>5
<1> QED  BY <1>2, <1>3 DEF TypeOK

(* Every variable of the output and of the stream keeps its type; the      *)
(* retries stay within reconnect_retry_max.                                *)
THEOREM TypeCorrect == Spec => []TypeOK
<1>1. Init => TypeOK
  <2>1. Init => OutputTypeOK
    <3> SUFFICES ASSUME Init PROVE OutputTypeOK
      OBVIOUS
    <3>1. /\ {active, data_active, reconnecting, stopping_event} \subseteq BOOLEAN
          /\ {reconnect_stop_event, reconnect_thread_active,
              end_data_capture_thread_active} \subseteq BOOLEAN
          /\ {failed, asked} \subseteq BOOLEAN
      BY Zenon DEF Init, OutputInit
    <3> QED  BY <3>1 DEF Init, OutputInit, OutputTypeOK
  <2>2. Init => /\ {connecting, stream_active, stop_event, stop_now} \subseteq BOOLEAN
                /\ {disconnected, encode_error, saw_error} \subseteq BOOLEAN
    BY Zenon DEF Init
  <2> QED  BY <2>1, <2>2 DEF Init, TypeOK
<1>2. ASSUME TypeOK, [Next]_vars
      PROVE  TypeOK'
  <2> USE <1>2
  <2>0. OutputTypeOK
    BY DEF TypeOK
  <2>1. ASSUME OutputTypeOK', UNCHANGED <<stream, network>>
        PROVE  TypeOK'
    BY <2>1 DEF TypeOK, stream, network
  <2>2. CASE UserStarts \/ UserStops \/ EncoderStops \/ Broken
    BY <2>0, <2>1, <2>2, OutputTypes, StreamTypes DEF UserStarts, UserStops, EncoderStops
  <2>3. ASSUME NEW t \in Callers, CallerStep(t)
        PROVE  TypeOK'
    BY <2>0, <2>1, <2>3, OutputTypes, StreamTypes DEF CallerStep
  <2>4. CASE UserStep \/ EncoderStep
    BY <2>0, <2>1, <2>3, <2>4, OutputTypes, StreamTypes DEF UserStep, EncoderStep
  <2>5. CASE ConnectStep \/ SendStep \/ EndStep
    BY <2>0, <2>1, <2>5, OutputTypes, StreamTypes DEF ConnectStep, SendStep, EndStep
  <2>6. ASSUME NEW r \in Reconnectors, RetryThreadStep(r)
        PROVE  TypeOK'
    BY <2>0, <2>1, <2>6, OutputTypes, StreamTypes DEF RetryThreadStep
  <2>7. CASE UNCHANGED vars
    BY <2>7 DEF vars, outputVars, stream, network, flags, retry, local, calls, TypeOK, OutputTypeOK
  <2> QED  BY <2>2, <2>4, <2>5, <2>6, <2>7 DEF Next
<1> QED  BY <1>1, <1>2, PTL DEF Spec

-----------------------------------------------------------------------------
(* The stages of a session on a network that breaks no connection          *)

\* Nobody but the application stops the output, and nobody reconnects.
Alone ==
    /\ At("encoder", "none") /\ \A r \in Reconnectors : At(r, "none")
    /\ ~reconnecting /\ ~encode_error /\ ~saw_error
    /\ connecting <=> ~At("connect", "none")

\* The connect thread after the capture has begun, or has failed to.
Finishing == {"back", "detached", "none"}
EndSteps == {"end_active", "end_signal", "end_flag", "none"}

\* Nothing of the stream is left.
Gone == ~data_active /\ ~stream_active /\ ~stop_event /\ At("send", "none")

Down ==
    /\ starts = 0 /\ At("user", "idle") /\ At("connect", "none") /\ At("end", "none")
    /\ Gone /\ ~active /\ ~asked /\ signals = <<>>
    /\ stopping_event /\ stop_code = "SUCCESS"

Starting ==
    /\ pc["user"] \in {"wait_event", "plugin_start"} /\ At("connect", "none")
    /\ pc["end"] \in EndSteps \ {"end_active"}
    /\ Gone /\ ~active /\ ~asked /\ signals = <<>>
    /\ stopping_event <=> pc["end"] \in {"end_flag", "none"}
    /\ At("user", "plugin_start") => stopping_event
    /\ stop_code = "SUCCESS"

Trying ==
    /\ At("user", "idle") /\ At("end", "none") /\ ~active /\ ~asked /\ signals = <<>>
    /\ stopping_event
    /\ \/ /\ pc["connect"] \in {"init_connect", "try_connect", "signal_stop", "end_capture"}
          /\ pc["connect"] \in {"signal_stop", "end_capture"} => code["connect"] = "CONNECT_FAILED"
          /\ stop_code = IF At("connect", "end_capture") THEN "CONNECT_FAILED" ELSE "SUCCESS"
          /\ Gone
       \/ /\ pc["connect"] \in {"go_active", "begin", "begin_active"}
          /\ At("send", "sending") /\ ~stop_event /\ stop_code = "SUCCESS"
          /\ data_active <=> At("connect", "begin_active")
          /\ stream_active <=> ~At("connect", "go_active")

Live ==
    /\ pc["connect"] \in Finishing \cup {"begin_signal"}
    /\ At("send", "sending") /\ At("end", "none")
    /\ active /\ data_active /\ stream_active /\ ~stop_event
    /\ signals = <<>> /\ stop_code = "SUCCESS"
    /\ \/ At("user", "idle") /\ ~asked /\ stopping_event
       \/ /\ pc["user"] \in {"reset_event", "halt_reconnect", "plugin_stop", "join_connect",
                             "stop_stream", "set_stop_event"}
          /\ asked /\ (stopping_event <=> At("user", "reset_event"))
          /\ pc["user"] \in {"stop_stream", "set_stop_event"}
                 => pc["connect"] \in {"detached", "none"}

Stopping ==
    /\ At("user", "idle") /\ asked /\ pc["connect"] \in {"detached", "none"}
    /\ pc["send"] \in {"sending", "leave", "report", "end_capture", "end_spawn"}
    /\ At("end", "none") /\ active /\ (data_active <=> ~At("send", "end_spawn"))
    /\ stream_active /\ stop_event /\ ~stopping_event
    /\ signals = <<>> /\ stop_code = "SUCCESS"

Stopped ==
    /\ At("user", "idle") /\ asked /\ pc["connect"] \in {"detached", "none"}
    /\ pc["send"] \in {"back", "go_inactive", "none"} /\ pc["end"] \in EndSteps
    /\ ~data_active /\ (active <=> At("end", "end_active"))
    /\ stop_event <=> At("send", "back")
    /\ stream_active <=> ~At("send", "none")
    /\ stopping_event <=> pc["end"] \in {"end_flag", "none"}
    /\ signals = <<"SUCCESS">> /\ stop_code = "SUCCESS"

Refusal ==
    /\ At("user", "idle") /\ ~asked /\ pc["connect"] \in Finishing /\ At("end", "none")
    /\ Gone /\ ~active /\ stopping_event
    /\ signals = <<"CONNECT_FAILED">> /\ stop_code = "SUCCESS"

SteadyInv ==
    /\ pc = [x \in Threads |-> pc[x]] /\ code = [x \in Threads |-> code[x]]
    /\ Alone
    /\ Down \/ Starting \/ Trying \/ Live \/ Stopping \/ Stopped \/ Refusal

-----------------------------------------------------------------------------
(* The stages of a session nobody stops                                    *)

\* Nobody stops the output; reconnect threads come and go.
Unstopped ==
    /\ At("encoder", "none") /\ pc["user"] \in {"idle", "wait_event", "plugin_start"}
    /\ ~asked /\ ~stop_event /\ stopping_event /\ ~reconnect_stop_event
    /\ connecting <=> ~At("connect", "none")
    /\ \A r \in Reconnectors :
           pc[r] \in {"none", "r_begin", "r_wait", "wait_event", "plugin_start", "r_check", "r_end"}

\* The reconnect threads that have not tried yet.
Waiters == {r \in Reconnectors : pc[r] \in {"r_begin", "r_wait", "wait_event", "plugin_start"}}

\* The capture is off, though its encoders may still run.
Off == /\ ~data_active /\ pc["end"] \in EndSteps
       /\ active <=> At("end", "end_active")
       /\ pc["connect"] \in Finishing \cup {"begin_signal"}

\* The send thread is on its way out.
Leaving == /\ pc["send"] \in {"back", "go_inactive", "none"}
           /\ stream_active <=> ~At("send", "none")

Bad == {"CONNECT_FAILED", "DISCONNECTED", "ENCODE_ERROR"}

NotStarted ==
    /\ starts = 0 /\ At("user", "idle") /\ At("connect", "none") /\ At("send", "none")
    /\ At("end", "none") /\ Waiters = {} /\ ~active /\ ~data_active /\ ~stream_active
    /\ ~reconnecting /\ signals = <<>>

Begun ==
    /\ pc["user"] \in {"wait_event", "plugin_start"} /\ At("connect", "none") /\ At("send", "none")
    /\ Off /\ ~active /\ ~stream_active /\ Waiters = {} /\ ~reconnecting /\ signals = <<>>

Attempt ==
    /\ At("user", "idle") /\ At("end", "none") /\ Waiters = {} /\ ~active /\ signals = <<>>
    /\ \/ /\ pc["connect"] \in {"init_connect", "try_connect", "signal_stop", "end_quietly",
                                "end_capture", "reconnect"}
          /\ At("connect", "signal_stop") => code["connect"] = "CONNECT_FAILED"
          /\ pc["connect"] \in {"end_quietly", "reconnect"} => reconnecting
          /\ At("connect", "end_capture") => stop_code \in Bad /\ ~reconnecting
          /\ At("send", "none") /\ ~data_active /\ ~stream_active
       \/ /\ pc["connect"] \in {"go_active", "begin", "begin_active"}
          /\ At("send", "sending")
          /\ data_active <=> At("connect", "begin_active")
          /\ stream_active <=> ~At("connect", "go_active")

OnAir ==
    /\ At("user", "idle") /\ pc["connect"] \in Finishing \cup {"begin_signal"} /\ At("end", "none")
    /\ pc["send"] \in {"sending", "leave", "report", "signal_stop", "end_quietly", "end_capture"}
    /\ active /\ data_active /\ stream_active /\ Waiters = {} /\ signals = <<>>
    /\ reconnecting => At("connect", "begin_signal")
    /\ At("send", "signal_stop") => code["send"] = "DISCONNECTED"
    /\ At("send", "end_capture") => stop_code \in Bad /\ ~reconnecting

Breaking ==
    /\ At("user", "idle") /\ pc["connect"] \in Finishing \cup {"begin_signal"}
    /\ pc["send"] \in {"end_spawn", "end_spawn_quietly", "end_capture", "reconnect"}
    /\ ~data_active /\ stream_active /\ Waiters = {} /\ signals = <<>>
    /\ reconnecting => At("connect", "begin_signal")
    /\ pc["send"] \in {"end_capture", "end_spawn"} => stop_code \in Bad /\ ~reconnecting
    /\ IF pc["send"] \in {"end_spawn", "end_spawn_quietly"} THEN active /\ At("end", "none")
       ELSE Off

Waiting ==
    /\ At("user", "idle") /\ Off /\ Leaving /\ signals = <<>>
    /\ Waiters # {} /\ \A r, u \in Waiters : r = u
    /\ \A r \in Waiters : pc[r] \in {"wait_event", "plugin_start"} =>
           At("connect", "none") /\ At("send", "none") /\ At("end", "none")

Over ==
    /\ At("user", "idle") /\ Off /\ Leaving /\ Waiters = {} /\ ~reconnecting
    /\ \E c \in Bad : signals = <<c>>

LossyInv ==
    /\ pc = [x \in Threads |-> pc[x]] /\ code = [x \in Threads |-> code[x]]
    /\ Unstopped
    /\ \/ NotStarted
       \/ starts > 0 /\ (Begun \/ Attempt \/ OnAir \/ Breaking \/ Waiting \/ Over)

-----------------------------------------------------------------------------
(* A session on a network that breaks no connection.                       *)

(* Where the threads stand after one of them has moved.                    *)
LEMMA GoesTo ==
    ASSUME pc = [x \in Threads |-> pc[x]], NEW t \in Threads, NEW l, pc' = [pc EXCEPT ![t] = l]
    PROVE  /\ pc' = [x \in Threads |-> pc'[x]] /\ pc'[t] = l
           /\ \A u \in Threads \ {t} : pc'[u] = pc[u]
OBVIOUS

(* A thread of the session moves on.                                       *)
LEMMA SteadyMoves ==
    ASSUME SteadyInv, NEW t \in {"user", "connect", "send", "end"}, NEW l,
           pc' = [pc EXCEPT ![t] = l],
           reconnecting' = reconnecting \/ reconnecting' = FALSE,
           encode_error' = encode_error \/ encode_error' = FALSE,
           saw_error' = saw_error \/ saw_error' = FALSE,
           \/ connecting' = connecting /\ (t = "connect" => l # "none" /\ pc["connect"] # "none")
           \/ t = "connect" /\ l = "none" /\ connecting' = FALSE
    PROVE  /\ Alone' /\ pc' = [x \in Threads |-> pc'[x]] /\ pc'[t] = l
           /\ \A u \in {"user", "connect", "send", "end"} \ {t} : pc'[u] = pc[u]
<1>1. /\ pc' = [x \in Threads |-> pc'[x]] /\ pc'[t] = l
      /\ \A u \in Threads \ {t} : pc'[u] = pc[u]
  BY GoesTo DEF SteadyInv
<1>. QED  BY <1>1 DEF SteadyInv, Alone

(* obs_output_start, obs_output_stop.                                      *)
LEMMA SteadyCalls ==
    ASSUME SteadyInv, TypeOK, MaxForces = 0, UserStarts \/ UserStops
    PROVE  SteadyInv'
<1>1. CASE UserStarts
  <2>1. /\ pc' = [pc EXCEPT !["user"] = "wait_event"]
        /\ UNCHANGED <<active, data_active, reconnecting, stopping_event, stop_code, code, stream>>
        /\ ~active /\ asked' = FALSE /\ signals' = <<>> /\ (starts > 0 => signals # <<>>)
        /\ pc["user"] = "idle" /\ pc["connect"] = "none" /\ pc["send"] = "none"
    BY <1>1 DEF UserStarts, Start, flags, local
  <2>2. /\ Alone' /\ pc' = [x \in Threads |-> pc'[x]] /\ pc'["user"] = "wait_event"
        /\ \A u \in {"connect", "send", "end"} : pc'[u] = pc[u]
    BY <2>1, SteadyMoves DEF stream
  <2>3. starts = 0 => ~(starts > 0)
    OBVIOUS
  <2>4. Starting'
    BY <2>1, <2>2, <2>3 DEF SteadyInv, Starting, Down, Trying, Live, Stopping, Stopped, Refusal,
                            Gone, stream, EndSteps
  <2>. QED  BY <2>1, <2>2, <2>4 DEF SteadyInv
<1>2. CASE UserStops
  <2>0. ~ForceStop
    <3>1. forces \in Nat
      BY DEF TypeOK, OutputTypeOK
    <3>2. ~(forces < MaxForces)
      BY <3>1
    <3>. QED  BY <3>2 DEF ForceStop
  <2>1. /\ pc' = [pc EXCEPT !["user"] = "reset_event"]
        /\ UNCHANGED <<active, data_active, reconnecting, stopping_event, code, stream, signals>>
        /\ asked' = TRUE /\ (reconnecting \/ (active /\ stopping_event /\ UNCHANGED stop_code))
        /\ pc["user"] = "idle"
    BY <1>2, <2>0 DEF UserStops, Stop, BeginStop, flags
  <2>2. /\ Alone' /\ pc' = [x \in Threads |-> pc'[x]] /\ pc'["user"] = "reset_event"
        /\ \A u \in {"connect", "send", "end"} : pc'[u] = pc[u]
    BY <2>1, SteadyMoves DEF stream
  <2>4. Live'
    BY <2>1, <2>2 DEF SteadyInv, Alone, Starting, Down, Trying, Live, Stopping, Stopped, Refusal,
                      Gone, stream, EndSteps
  <2>. QED  BY <2>1, <2>2, <2>4 DEF SteadyInv
<1>. QED  BY <1>1, <1>2

(* obs_output_actual_start, obs_output_actual_stop and rtmp_stream_stop.   *)
LEMMA SteadyUser ==
    ASSUME SteadyInv, UserStep
    PROVE  SteadyInv'
<1> USE DEF stream
<1>1. CASE WaitStoppingEvent("user") /\ UNCHANGED stream
  <2>1. /\ pc' = [pc EXCEPT !["user"] = "plugin_start"] /\ pc["user"] = "wait_event"
        /\ stopping_event /\ stop_code' = "SUCCESS"
        /\ UNCHANGED <<active, data_active, reconnecting, stopping_event, code, stream, signals, asked>>
    BY <1>1 DEF WaitStoppingEvent, flags, local, calls
  <2>2. /\ Alone' /\ pc' = [x \in Threads |-> pc'[x]] /\ pc'["user"] = "plugin_start"
        /\ \A u \in {"connect", "send", "end"} : pc'[u] = pc[u]
    BY <2>1, SteadyMoves
  <2>3. Starting'
    BY <2>1, <2>2 DEF SteadyInv, Starting, Down, Trying, Live, Stopping, Stopped, Refusal,
                      Gone, EndSteps
  <2>. QED  BY <2>1, <2>2, <2>3 DEF SteadyInv
<1>2. CASE StartConnecting("user")
  <2>1. /\ pc' = [pc EXCEPT !["user"] = "idle", !["connect"] = "init_connect"]
        /\ pc["user"] = "plugin_start" /\ pc["connect"] = "none" /\ pc["end"] = "none"
        /\ connecting' = TRUE
        /\ UNCHANGED <<active, data_active, reconnecting, stopping_event, stop_code, code, signals,
                       asked, stream_active, stop_event, encode_error, saw_error>>
    BY <1>2 DEF StartConnecting, Started, outputRest, flags, calls
  <2>2. /\ pc' = [x \in Threads |-> pc'[x]]
        /\ pc'["user"] = "idle" /\ pc'["connect"] = "init_connect"
        /\ \A u \in Threads \ {"user", "connect"} : pc'[u] = pc[u]
    BY <2>1 DEF SteadyInv
  <2>3. Alone'
    BY <2>1, <2>2 DEF SteadyInv, Alone
  <2>4. Trying'
    BY <2>1, <2>2 DEF SteadyInv, Starting, Down, Trying, Live, Stopping, Stopped, Refusal,
                      Gone, EndSteps
  <2>. QED  BY <2>1, <2>2, <2>3, <2>4 DEF SteadyInv
<1>3. ASSUME NEW l \in {"halt_reconnect", "plugin_stop", "join_connect", "stop_stream", "set_stop_event"},
             pc' = [pc EXCEPT !["user"] = l],
             UNCHANGED <<active, data_active, reconnecting, stop_code, code, signals, asked,
                         connecting, stream_active, stop_event, encode_error, saw_error>>,
             pc["user"] \in {"reset_event", "halt_reconnect", "plugin_stop", "join_connect",
                             "stop_stream"},
             IF pc["user"] = "reset_event" THEN stopping_event' = FALSE ELSE UNCHANGED stopping_event,
             l \in {"stop_stream", "set_stop_event"} => pc["connect"] \in {"detached", "none"}
      PROVE  SteadyInv'
  <2>1. /\ Alone' /\ pc' = [x \in Threads |-> pc'[x]] /\ pc'["user"] = l
        /\ \A u \in {"connect", "send", "end"} : pc'[u] = pc[u]
    BY <1>3, SteadyMoves
  <2>2. Live
    BY <1>3 DEF SteadyInv, Starting, Down, Trying, Live, Stopping, Stopped, Refusal, Gone, EndSteps
  <2>3. Live'
    BY <1>3, <2>1, <2>2 DEF Live
  <2>. QED  BY <1>3, <2>1, <2>3 DEF SteadyInv
<1>4. CASE ResetStoppingEvent("user") /\ UNCHANGED stream
  BY <1>3, <1>4 DEF ResetStoppingEvent, flags, local, calls
<1>5. CASE HaltReconnect("user") /\ UNCHANGED stream
  <2>1. ~reconnecting
    BY DEF SteadyInv, Alone
  <2>. QED  BY <1>3, <1>5, <2>1 DEF HaltReconnect, flags, local, calls
<1>6. CASE PluginStop("user")
  <2>1. ~connecting => pc["connect"] = "none"
    BY DEF SteadyInv, Alone
  <2>. QED  BY <1>3, <1>6, <2>1 DEF PluginStop, outputRest, flags, calls
<1>7. CASE JoinConnect("user")
  BY <1>3, <1>7 DEF JoinConnect, outputRest, flags, calls
<1>8. CASE StopStream("user")
  <2>1. pc["user"] = "stop_stream"
    BY <1>8 DEF StopStream
  <2>2. stream_active /\ pc["connect"] \in {"detached", "none"}
    BY <2>1 DEF SteadyInv, Starting, Down, Trying, Live, Stopping, Stopped, Refusal
  <2>. QED  BY <1>3, <1>8, <2>1, <2>2 DEF StopStream, outputRest, flags, calls
<1>9. CASE SetStopEvent("user")
  <2>1. /\ pc' = [pc EXCEPT !["user"] = "idle"] /\ pc["user"] = "set_stop_event"
        /\ stop_event' = TRUE
        /\ UNCHANGED <<active, data_active, reconnecting, stopping_event, stop_code, code, signals,
                       asked, connecting, stream_active, encode_error, saw_error>>
    BY <1>9 DEF SetStopEvent, AfterStopEvent, outputRest, flags, calls
  <2>2. /\ Alone' /\ pc' = [x \in Threads |-> pc'[x]] /\ pc'["user"] = "idle"
        /\ \A u \in {"connect", "send", "end"} : pc'[u] = pc[u]
    BY <2>1, SteadyMoves
  <2>3. Live
    BY <2>1 DEF SteadyInv, Starting, Down, Trying, Live, Stopping, Stopped, Refusal, Gone, EndSteps
  <2>4. Stopping'
    BY <2>1, <2>2, <2>3 DEF Live, Stopping
  <2>. QED  BY <2>1, <2>2, <2>4 DEF SteadyInv
<1>10. pc["user"] \in {"idle", "wait_event", "plugin_start", "reset_event", "halt_reconnect", "plugin_stop",
                       "join_connect", "stop_stream", "set_stop_event"}
       /\ (pc["user"] = "plugin_start" => ~active)
       /\ (pc["user"] = "plugin_stop" => ~stop_event)
  BY DEF SteadyInv, Starting, Down, Trying, Live, Stopping, Stopped, Refusal
<1>11. ~(JoinReconnect("user") \/ EndingStep("user") \/ StartRefused("user") \/ StopIgnored("user"))
  BY <1>10 DEF JoinReconnect, EndingStep, SignalStop, EndDataCapture, Ends, EndSpawn, ReconnectHalted,
               GiveUp, Reconnect, StartRefused, StopIgnored
<1>. QED  BY <1>1, <1>2, <1>4, <1>5, <1>6, <1>7, <1>8, <1>9, <1>11 DEF UserStep, CallerStep, StopStep

(* rtmp_stream_start's connect_thread and obs_output_begin_data_capture.   *)
LEMMA SteadyConnect ==
    ASSUME SteadyInv, ConnectStep
    PROVE  SteadyInv'
<1> USE DEF stream
<1>0. /\ pc["connect"] \in {"init_connect", "try_connect", "signal_stop", "end_capture", "go_active",
                           "begin", "begin_active", "begin_signal"} \cup Finishing
      /\ ~reconnecting
      /\ pc["connect"] = "signal_stop" => ~CanReconnect("connect")
  BY DEF SteadyInv, Alone, Starting, Down, Trying, Live, Stopping, Stopped, Refusal, Finishing,
         CanReconnect
<1> USE DEF SteadyInv, Starting, Down, Trying, Live, Stopping, Stopped, Refusal, Gone, EndSteps, Finishing
<1>1. CASE InitConnect
  <2>1. /\ pc' = [pc EXCEPT !["connect"] = "try_connect"] /\ pc["connect"] = "init_connect"
        /\ encode_error' = FALSE
        /\ UNCHANGED <<active, data_active, reconnecting, stopping_event, stop_code, code, signals,
                       asked, connecting, stream_active, stop_event, saw_error>>
    BY <1>1 DEF InitConnect, outputRest, flags, calls
  <2>2. /\ Alone' /\ pc' = [x \in Threads |-> pc'[x]] /\ pc'["connect"] = "try_connect"
        /\ \A u \in {"user", "send", "end"} : pc'[u] = pc[u]
    BY <2>1, SteadyMoves
  <2>. QED  BY <2>1, <2>2
<1>2. CASE Refused
  <2>1. /\ pc' = [pc EXCEPT !["connect"] = "signal_stop"] /\ pc["connect"] = "try_connect"
        /\ code' = [code EXCEPT !["connect"] = "CONNECT_FAILED"]
        /\ UNCHANGED <<active, data_active, reconnecting, stopping_event, stop_code, signals,
                       asked, stream>>
    BY <1>2 DEF Refused, CallSignalStop, outputRest, flags, calls
  <2>2. /\ Alone' /\ pc' = [x \in Threads |-> pc'[x]] /\ pc'["connect"] = "signal_stop"
        /\ \A u \in {"user", "send", "end"} : pc'[u] = pc[u]
    BY <2>1, SteadyMoves
  <2>3. code' = [x \in Threads |-> code'[x]] /\ code'["connect"] = "CONNECT_FAILED"
    BY <2>1
  <2>. QED  BY <2>1, <2>2, <2>3
<1>3. CASE Connected
  <2>1. /\ pc' = [pc EXCEPT !["connect"] = "go_active", !["send"] = "sending"]
        /\ pc["connect"] = "try_connect" /\ pc["send"] = "none"
        /\ UNCHANGED <<active, data_active, reconnecting, stopping_event, stop_code, code, signals,
                       asked, stream>>
    BY <1>3 DEF Connected, outputRest, flags, calls
  <2>2. /\ pc' = [x \in Threads |-> pc'[x]]
        /\ pc'["connect"] = "go_active" /\ pc'["send"] = "sending"
        /\ \A u \in Threads \ {"send", "connect"} : pc'[u] = pc[u]
    BY <2>1
  <2>3. Alone'
    BY <2>1, <2>2 DEF Alone
  <2>. QED  BY <2>1, <2>2, <2>3
<1>4. CASE GoActive
  <2>1. /\ pc' = [pc EXCEPT !["connect"] = "begin"] /\ pc["connect"] = "go_active"
        /\ stream_active' = TRUE
        /\ UNCHANGED <<active, data_active, reconnecting, stopping_event, stop_code, code, signals,
                       asked, connecting, stop_event, encode_error, saw_error>>
    BY <1>4 DEF GoActive, outputRest, flags, calls
  <2>2. /\ Alone' /\ pc' = [x \in Threads |-> pc'[x]] /\ pc'["connect"] = "begin"
        /\ \A u \in {"user", "send", "end"} : pc'[u] = pc[u]
    BY <2>1, SteadyMoves
  <2>. QED  BY <2>1, <2>2
<1>5. CASE BeginDataCapture /\ UNCHANGED stream
  <2>0. pc["connect"] = "begin" /\ ~active
    BY <1>5 DEF BeginDataCapture
  <2>1. /\ pc' = [pc EXCEPT !["connect"] = "begin_active"] /\ data_active' = TRUE
        /\ UNCHANGED <<active, reconnecting, stopping_event, stop_code, code, signals, asked, stream>>
    BY <1>5, <2>0 DEF BeginDataCapture, local, calls
  <2>2. /\ Alone' /\ pc' = [x \in Threads |-> pc'[x]] /\ pc'["connect"] = "begin_active"
        /\ \A u \in {"user", "send", "end"} : pc'[u] = pc[u]
    BY <2>0, <2>1, SteadyMoves
  <2>. QED  BY <2>0, <2>1, <2>2
<1>6. CASE BeginActive /\ UNCHANGED stream
  <2>1. /\ pc' = [pc EXCEPT !["connect"] = "begin_signal"] /\ pc["connect"] = "begin_active"
        /\ active' = TRUE
        /\ UNCHANGED <<data_active, reconnecting, stopping_event, stop_code, code, signals, asked, stream>>
    BY <1>6 DEF BeginActive, local, calls
  <2>2. /\ Alone' /\ pc' = [x \in Threads |-> pc'[x]] /\ pc'["connect"] = "begin_signal"
        /\ \A u \in {"user", "send", "end"} : pc'[u] = pc[u]
    BY <2>1, SteadyMoves
  <2>. QED  BY <2>1, <2>2
<1>7. CASE BeginSignal /\ UNCHANGED stream
  <2>1. /\ pc' = [pc EXCEPT !["connect"] = "back"] /\ pc["connect"] = "begin_signal"
        /\ reconnecting' = FALSE
        /\ UNCHANGED <<active, data_active, stopping_event, stop_code, code, signals, asked, stream>>
    BY <1>7 DEF BeginSignal, local, calls
  <2>2. /\ Alone' /\ pc' = [x \in Threads |-> pc'[x]] /\ pc'["connect"] = "back"
        /\ \A u \in {"user", "send", "end"} : pc'[u] = pc[u]
    BY <2>1, SteadyMoves
  <2>. QED  BY <2>1, <2>2
<1>8. CASE SignalStop("connect") /\ UNCHANGED stream
  <2>0. pc["connect"] = "signal_stop" /\ ~CanReconnect("connect") /\ code["connect"] = "CONNECT_FAILED"
    BY <1>0, <1>8 DEF SignalStop
  <2>1. /\ pc' = [pc EXCEPT !["connect"] = "end_capture"] /\ reconnecting' = FALSE
        /\ stop_code' = "CONNECT_FAILED"
        /\ UNCHANGED <<active, data_active, stopping_event, code, signals, asked, stream>>
    BY <1>8, <2>0 DEF SignalStop, Recorded, local, calls
  <2>2. /\ Alone' /\ pc' = [x \in Threads |-> pc'[x]] /\ pc'["connect"] = "end_capture"
        /\ \A u \in {"user", "send", "end"} : pc'[u] = pc[u]
    BY <2>0, <2>1, SteadyMoves
  <2>. QED  BY <2>0, <2>1, <2>2
<1>9. CASE EndDataCapture("connect") /\ UNCHANGED stream
  <2>0. pc["connect"] = "end_capture" /\ ~active /\ signals = <<>> /\ stop_code = "CONNECT_FAILED"
    BY <1>0, <1>9 DEF EndDataCapture, Ends
  <2>1. /\ pc' = [pc EXCEPT !["connect"] = "back"]
        /\ stop_code' = "SUCCESS" /\ stopping_event' = TRUE /\ signals' = Append(signals, stop_code)
        /\ UNCHANGED <<active, data_active, reconnecting, code, asked, stream>>
    BY <1>9, <2>0 DEF EndDataCapture, EndNothing, Announce, local, calls
  <2>2. /\ Alone' /\ pc' = [x \in Threads |-> pc'[x]] /\ pc'["connect"] = "back"
        /\ \A u \in {"user", "send", "end"} : pc'[u] = pc[u]
    BY <2>0, <2>1, SteadyMoves
  <2>3. signals' = <<"CONNECT_FAILED">>
    BY <2>0, <2>1
  <2>. QED  BY <2>0, <2>1, <2>2, <2>3
<1>10. CASE ConnectTail
  <2>0. pc["connect"] = "back" /\ ~stop_event
    BY <1>10 DEF ConnectTail
  <2>1. /\ pc' = [pc EXCEPT !["connect"] = "detached"]
        /\ UNCHANGED <<active, data_active, reconnecting, stopping_event, stop_code, code, signals,
                       asked, stream>>
    BY <1>10, <2>0 DEF ConnectTail, outputRest, flags, calls
  <2>2. /\ Alone' /\ pc' = [x \in Threads |-> pc'[x]] /\ pc'["connect"] = "detached"
        /\ \A u \in {"user", "send", "end"} : pc'[u] = pc[u]
    BY <2>0, <2>1, SteadyMoves
  <2>. QED  BY <2>0, <2>1, <2>2
<1>11. CASE ConnectDone
  <2>1. /\ pc' = [pc EXCEPT !["connect"] = "none"] /\ pc["connect"] = "detached"
        /\ connecting' = FALSE
        /\ UNCHANGED <<active, data_active, reconnecting, stopping_event, stop_code, code, signals,
                       asked, stream_active, stop_event, encode_error, saw_error>>
    BY <1>0, <1>11 DEF ConnectDone, outputRest, flags, calls
  <2>2. /\ Alone' /\ pc' = [x \in Threads |-> pc'[x]] /\ pc'["connect"] = "none"
        /\ \A u \in {"user", "send", "end"} : pc'[u] = pc[u]
    BY <2>1, SteadyMoves
  <2>. QED  BY <2>1, <2>2
<1>12. ~(EndSpawn("connect") \/ ReconnectHalted("connect") \/ GiveUp("connect")
         \/ \E r \in Reconnectors : Reconnect("connect", r))
  BY <1>0 DEF EndSpawn, ReconnectHalted, GiveUp, Reconnect
<1> HIDE DEF SteadyInv
<1>. QED  BY <1>1, <1>2, <1>3, <1>4, <1>5, <1>6, <1>7, <1>8, <1>9, <1>10, <1>11, <1>12
          DEF ConnectStep, BeginStep, EndingStep

(* send_thread and the end of the capture.                                 *)
LEMMA SteadySend ==
    ASSUME SteadyInv, SendStep \/ EndStep
    PROVE  SteadyInv'
<1> USE DEF stream
<1>0. pc["send"] \in {"sending", "leave", "report", "end_capture", "end_spawn", "back", "go_inactive", "none"}
      /\ ~saw_error /\ ~encode_error
  BY DEF SteadyInv, Alone, Starting, Down, Trying, Live, Stopping, Stopped, Refusal, Gone
<1> USE DEF SteadyInv, Starting, Down, Trying, Live, Stopping, Stopped, Refusal, Gone, EndSteps, Finishing
<1>1. ASSUME NEW l \in {"leave", "report", "end_capture"}, pc' = [pc EXCEPT !["send"] = l],
             UNCHANGED <<active, data_active, reconnecting, stopping_event, stop_code, code, signals,
                         asked, connecting, stream_active, stop_event, encode_error>>,
             saw_error' \in {saw_error, FALSE}, stop_event, pc["send"] \in {"sending", "leave", "report"}
      PROVE  SteadyInv'
  <2>1. Stopping
    BY <1>1
  <2>2. /\ Alone' /\ pc' = [x \in Threads |-> pc'[x]] /\ pc'["send"] = l
        /\ \A u \in {"user", "connect", "end"} : pc'[u] = pc[u]
    BY <1>1, SteadyMoves
  <2>3. Stopping'
    BY <1>1, <2>1, <2>2
  <2>. QED  BY <1>1, <2>2, <2>3
<1>2. CASE SendStops
  BY <1>1, <1>2 DEF SendStops, outputRest, flags, calls
<1>3. CASE Leave
  <2>1. pc["send"] = "leave" /\ saw_error' = encode_error
    BY <1>3 DEF Leave
  <2>2. stop_event /\ encode_error = FALSE
    BY <2>1 DEF Alone
  <2>. QED  BY <1>1, <1>3, <2>1, <2>2 DEF Leave, outputRest, flags, calls
<1>4. CASE SendReport
  <2>1. pc["send"] = "report" /\ stop_event /\ ~saw_error
    BY <1>0, <1>4 DEF SendReport
  <2>. QED  BY <1>1, <1>4, <2>1 DEF SendReport, Report, outputRest, flags, calls
<1>5. CASE EndDataCapture("send") /\ UNCHANGED stream
  <2>0. pc["send"] = "end_capture" /\ Stopping
    BY <1>0, <1>5 DEF EndDataCapture, Ends
  <2>1. /\ pc' = [pc EXCEPT !["send"] = "end_spawn"] /\ data_active' = FALSE
        /\ UNCHANGED <<active, reconnecting, stopping_event, stop_code, code, signals, asked, stream>>
    BY <1>5, <2>0 DEF EndDataCapture, CaptureOff, local, calls
  <2>2. /\ Alone' /\ pc' = [x \in Threads |-> pc'[x]] /\ pc'["send"] = "end_spawn"
        /\ \A u \in {"user", "connect", "end"} : pc'[u] = pc[u]
    BY <2>1, SteadyMoves
  <2>3. Stopping'
    BY <2>0, <2>1, <2>2
  <2>. QED  BY <2>1, <2>2, <2>3
<1>6. CASE EndSpawn("send") /\ UNCHANGED stream
  <2>0. pc["send"] = "end_spawn" /\ Stopping
    BY <1>0, <1>6 DEF EndSpawn
  <2>1. /\ pc' = [pc EXCEPT !["end"] = "end_active", !["send"] = "back"]
        /\ signals' = Append(signals, stop_code) /\ stop_code' = "SUCCESS"
        /\ UNCHANGED <<active, data_active, reconnecting, stopping_event, code, asked, stream>>
    BY <1>6, <2>0 DEF EndSpawn, Announce, flags, local, calls
  <2>2. /\ pc' = [x \in Threads |-> pc'[x]]
        /\ pc'["end"] = "end_active" /\ pc'["send"] = "back"
        /\ \A u \in Threads \ {"send", "end"} : pc'[u] = pc[u]
    BY <2>1
  <2>3. Alone'
    BY <2>1, <2>2 DEF Alone
  <2>4. signals' = <<"SUCCESS">>
    BY <2>0, <2>1
  <2>5. Stopped'
    BY <2>0, <2>1, <2>2, <2>4
  <2>. QED  BY <2>1, <2>2, <2>3, <2>5
<1>7. CASE SendCleanup
  <2>1. /\ pc' = [pc EXCEPT !["send"] = "go_inactive"] /\ pc["send"] = "back" /\ stop_event' = FALSE
        /\ UNCHANGED <<active, data_active, reconnecting, stopping_event, stop_code, code, signals,
                       asked, connecting, stream_active, encode_error, saw_error>>
    BY <1>7 DEF SendCleanup, outputRest, flags, calls
  <2>2. /\ Alone' /\ pc' = [x \in Threads |-> pc'[x]] /\ pc'["send"] = "go_inactive"
        /\ \A u \in {"user", "connect", "end"} : pc'[u] = pc[u]
    BY <2>1, SteadyMoves
  <2>3. Stopped
    BY <2>1
  <2>4. Stopped'
    BY <2>1, <2>2, <2>3
  <2>. QED  BY <2>1, <2>2, <2>4
<1>8. CASE GoInactive
  <2>1. /\ pc' = [pc EXCEPT !["send"] = "none"] /\ pc["send"] = "go_inactive" /\ stream_active' = FALSE
        /\ UNCHANGED <<active, data_active, reconnecting, stopping_event, stop_code, code, signals,
                       asked, connecting, stop_event, encode_error, saw_error>>
    BY <1>8 DEF GoInactive, outputRest, flags, calls
  <2>2. /\ Alone' /\ pc' = [x \in Threads |-> pc'[x]] /\ pc'["send"] = "none"
        /\ \A u \in {"user", "connect", "end"} : pc'[u] = pc[u]
    BY <2>1, SteadyMoves
  <2>3. Stopped
    BY <2>1
  <2>4. Stopped'
    BY <2>1, <2>2, <2>3
  <2>. QED  BY <2>1, <2>2, <2>4
<1>9. CASE EndActive /\ UNCHANGED stream
  <2>1. /\ pc' = [pc EXCEPT !["end"] = "end_signal"] /\ pc["end"] = "end_active" /\ active' = FALSE
        /\ UNCHANGED <<data_active, reconnecting, stopping_event, stop_code, code, signals, asked, stream>>
    BY <1>9 DEF EndActive, local, calls
  <2>2. /\ Alone' /\ pc' = [x \in Threads |-> pc'[x]] /\ pc'["end"] = "end_signal"
        /\ \A u \in {"user", "connect", "send"} : pc'[u] = pc[u]
    BY <2>1, SteadyMoves
  <2>3. Stopped
    BY <2>1
  <2>4. Stopped'
    BY <2>1, <2>2, <2>3
  <2>. QED  BY <2>1, <2>2, <2>4
<1>10. CASE (EndSignal \/ EndFlag) /\ UNCHANGED stream
  <2>1. PICK l \in {"end_flag", "none"} :
          /\ pc' = [pc EXCEPT !["end"] = l] /\ pc["end"] = IF l = "none" THEN "end_flag" ELSE "end_signal"
          /\ l = "end_flag" => stopping_event' = TRUE
          /\ l = "none" => UNCHANGED stopping_event
          /\ UNCHANGED <<active, data_active, reconnecting, stop_code, code, signals, asked, stream>>
    BY <1>10 DEF EndSignal, EndFlag, CaptureEnded, flags, local, calls
  <2>2. /\ Alone' /\ pc' = [x \in Threads |-> pc'[x]] /\ pc'["end"] = l
        /\ \A u \in {"user", "connect", "send"} : pc'[u] = pc[u]
    BY <2>1, SteadyMoves
  <2>3. CASE Stopped
    <3>1. Stopped'
      BY <2>1, <2>2, <2>3
    <3>. QED  BY <2>1, <2>2, <3>1
  <2>4. CASE Starting
    <3>1. Starting'
      BY <2>1, <2>2, <2>4
    <3>. QED  BY <2>1, <2>2, <3>1
  <2>. QED  BY <2>1, <2>3, <2>4
<1>11. ~((SignalStop("send") \/ ReconnectHalted("send") \/ GiveUp("send")
         \/ \E r \in Reconnectors : Reconnect("send", r)))
  BY <1>0 DEF SignalStop, ReconnectHalted, GiveUp, Reconnect
<1> HIDE DEF SteadyInv
<1>. QED  BY <1>2, <1>3, <1>4, <1>5, <1>6, <1>7, <1>8, <1>9, <1>10, <1>11
          DEF SendStep, EndStep, EndThreadStep, EndingStep

(* The output is down in the beginning.                                    *)
LEMMA InitSteady == Init => SteadyInv
BY DEF Init, OutputInit, SteadyInv, Alone, Down, Gone

(* A step of an output whose network does not break.                       *)
LEMMA StepSteady ==
    ASSUME SteadyInv, TypeOK, [Next]_vars, MaxDrops = 0, MaxForces = 0, EncoderMayFail = FALSE
    PROVE  SteadyInv'
<1>1. CASE UserStarts \/ UserStops
  BY <1>1, SteadyCalls
<1>2. CASE UserStep
  BY <1>2, SteadyUser
<1>3. CASE ConnectStep
  BY <1>3, SteadyConnect
<1>4. CASE SendStep \/ EndStep
  BY <1>4, SteadySend
<1>5. ~(EncoderStops \/ Broken)
  <2>1. drops \in Nat
    BY DEF TypeOK
  <2>2. ~(drops < MaxDrops)
    BY <2>1
  <2>. QED  BY <2>2 DEF EncoderStops, EncoderFails, Broken
<1>6. ~(EncoderStep \/ \E r \in Reconnectors : RetryThreadStep(r))
  <2>1. pc["encoder"] = "none" /\ \A r \in Reconnectors : pc[r] = "none"
    BY DEF SteadyInv, Alone
  <2>2. ~EncoderStep
    BY <2>1 DEF EncoderStep, CallerStep, EncoderReports, StopStep, ResetStoppingEvent, HaltReconnect,
                JoinReconnect, EndingStep, SignalStop, EndDataCapture, Ends, EndSpawn, ReconnectHalted,
                GiveUp, Reconnect, StopIgnored, PluginStop, JoinConnect, StopStream, SetStopEvent
  <2>3. ASSUME NEW r \in Reconnectors PROVE ~RetryThreadStep(r)
    BY <2>1 DEF RetryThreadStep, RetryStep, RetryBegin, RetryTimeout, RetryHalted, RetryCheck, RetryEnd,
                WaitStoppingEvent, StartRefused, StartConnecting
  <2>. QED  BY <2>2, <2>3
<1>7. CASE UNCHANGED vars
  <2>1. UNCHANGED <<active, data_active, reconnecting, stopping_event, stop_code, pc, code, signals, asked,
                    starts, connecting, stream_active, stop_event, encode_error, saw_error>>
    BY <1>7 DEF vars, outputVars, flags, local, calls, stream
  <2>. QED  BY <2>1 DEF SteadyInv, Alone, Down, Starting, Trying, Live, Stopping, Stopped, Refusal, Gone
<1>. QED  BY <1>1, <1>2, <1>3, <1>4, <1>5, <1>6, <1>7 DEF Next

(* What SteadyInv says of the application.                                 *)
LEMMA SteadyTells ==
    ASSUME SteadyInv, TypeOK
    PROVE  EndIsTold /\ StopIsObeyed
<1> USE DEF SteadyInv, Alone, Down, Starting, Trying, Live, Stopping, Stopped, Refusal, Gone, EndSteps, Finishing
<1>1. signals = <<>> \/ (signals = <<"SUCCESS">> /\ asked) \/ (signals = <<"CONNECT_FAILED">> /\ ~asked)
  OBVIOUS
<1>2. OneStopSignal /\ SuccessMeansAsked
  <2>1. ASSUME NEW c, signals = <<c>>, c = "SUCCESS" <=> asked PROVE OneStopSignal /\ SuccessMeansAsked
    <3>1. Len(signals) = 1 /\ DOMAIN signals = {1} /\ signals[1] = c
      BY <2>1
    <3>. QED  BY <2>1, <3>1 DEF OneStopSignal, SuccessMeansAsked
  <2>2. CASE signals = <<>>
    <3>1. Len(signals) = 0 /\ DOMAIN signals = {}
      BY <2>2
    <3>. QED  BY <3>1 DEF OneStopSignal, SuccessMeansAsked
  <2>. QED  BY <1>1, <2>1, <2>2
<1>3. ASSUME AtRest
      PROVE  /\ (starts = 0 /\ ~asked) \/ (Live /\ ~asked) \/ (Stopped /\ ~active) \/ Refusal
             /\ pc["connect"] = "none" /\ pc["end"] = "none" /\ (pc["send"] = "none" \/ ~stop_event)
  <2>1. pc["user"] = "idle" /\ pc["connect"] = "none" /\ pc["end"] = "none"
        /\ (pc["send"] = "none" \/ (pc["send"] = "sending" /\ ~stop_event))
    BY <1>3 DEF AtRest
  <2>. QED  BY <2>1
<1>4. ASSUME AtRest, starts > 0
      PROVE  /\ ~reconnecting /\ ~connecting /\ stream_active = active /\ data_active = active
             /\ active <=> signals = <<>>
             /\ ~active => stopping_event /\ ~stop_event
  <2>0. pc["connect"] = "none" /\ pc["end"] = "none" /\ (pc["send"] = "none" \/ ~stop_event)
        /\ (Live \/ Stopped \/ Refusal) /\ ~reconnecting /\ ~connecting
    <3>1. ~(starts = 0)
      BY <1>4
    <3>. QED  BY <1>3, <1>4, <3>1
  <2>1. <<"SUCCESS">> # <<>> /\ <<"CONNECT_FAILED">> # <<>>
    OBVIOUS
  <2>2. /\ active <=> signals = <<>>
        /\ (stream_active <=> active) /\ (data_active <=> active)
        /\ ~active => stopping_event /\ ~stop_event
    <3>1. CASE Live
      BY <2>0, <3>1
    <3>2. CASE Stopped
      <4>1. ~active /\ ~data_active /\ stopping_event /\ signals = <<"SUCCESS">>
        BY <2>0, <3>2
      <4>2. ~stop_event /\ ~stream_active
        BY <1>4, <3>2 DEF AtRest
      <4>. QED  BY <2>1, <4>1, <4>2
    <3>3. CASE Refusal
      BY <2>0, <2>1, <3>3
    <3>. QED  BY <2>0, <3>1, <3>2, <3>3
  <2>3. {active, data_active, stream_active} \subseteq BOOLEAN
    BY Zenon DEF TypeOK, OutputTypeOK
  <2>4. stream_active = active /\ data_active = active
    BY <2>2, <2>3, Zenon
  <2>. QED  BY <2>0, <2>2, <2>4
<1>5. RestIsSettled
  BY <1>4, Zenon DEF RestIsSettled
<1>6. StopIsObeyed
  BY <1>3 DEF StopIsObeyed
<1>. QED  BY <1>2, <1>5, <1>6 DEF EndIsTold

(* obs_output_stop on a network that breaks no connection: once every      *)
(* thread has come back, the output is down and does not reconnect.        *)
THEOREM StopsAreObeyed ==
    ASSUME MaxDrops = 0, MaxForces = 0, EncoderMayFail = FALSE
    PROVE  Spec => []StopIsObeyed
<1>1. TypeOK /\ SteadyInv /\ [Next]_vars => SteadyInv'
  BY StepSteady
<1>2. TypeOK /\ SteadyInv => StopIsObeyed
  BY SteadyTells
<1>. QED  BY InitSteady, TypeCorrect, <1>1, <1>2, PTL DEF Spec

-----------------------------------------------------------------------------
(* A session nobody stops.                                                 *)

(* A thread of the session moves on.                                       *)
LEMMA LossyMoves ==
    ASSUME LossyInv, NEW t \in {"user", "connect", "send", "end"}, NEW l,
           pc' = [pc EXCEPT ![t] = l],
           t = "user" => l \in {"idle", "wait_event", "plugin_start"},
           UNCHANGED reconnect_stop_event, asked' = asked \/ asked' = FALSE,
           stop_event' = stop_event \/ stop_event' = FALSE,
           stopping_event' = stopping_event \/ stopping_event' = TRUE,
           \/ connecting' = connecting /\ (t = "connect" => l # "none" /\ pc["connect"] # "none")
           \/ t = "connect" /\ l = "none" /\ connecting' = FALSE
    PROVE  /\ Unstopped' /\ Waiters' = Waiters
           /\ pc' = [x \in Threads |-> pc'[x]] /\ pc'[t] = l
           /\ \A u \in {"user", "connect", "send", "end"} \ {t} : pc'[u] = pc[u]
           /\ \A r \in Reconnectors : pc'[r] = pc[r]
<1>1. /\ pc' = [x \in Threads |-> pc'[x]] /\ pc'[t] = l
      /\ \A u \in Threads \ {t} : pc'[u] = pc[u]
  BY GoesTo DEF LossyInv
<1>2. \A r \in Reconnectors : pc'[r] = pc[r]
  BY <1>1
<1>3. Waiters' = Waiters
  BY <1>2 DEF Waiters
<1>4. Unstopped'
  <2>1. Unstopped
    BY DEF LossyInv
  <2>2. pc'["encoder"] = pc["encoder"] /\ pc'["user"] \in {"idle", "wait_event", "plugin_start"}
    BY <1>1, <2>1 DEF Unstopped
  <2>3. connecting' <=> ~(pc'["connect"] = "none")
    <3>1. CASE t = "connect"
      BY <1>1, <2>1, <3>1 DEF Unstopped
    <3>2. CASE t # "connect"
      BY <1>1, <2>1, <3>2 DEF Unstopped
    <3>. QED  BY <3>1, <3>2
  <2>4. ~asked /\ ~stop_event /\ stopping_event /\ ~reconnect_stop_event
    BY <2>1 DEF Unstopped
  <2>5. ~asked' /\ ~stop_event' /\ stopping_event' /\ ~reconnect_stop_event'
    <3>1. ~asked'
      BY <2>4
    <3>2. ~stop_event'
      BY <2>4
    <3>3. stopping_event'
      BY <2>4
    <3>4. ~reconnect_stop_event'
      BY <2>4
    <3>. QED  BY <3>1, <3>2, <3>3, <3>4
  <2>. QED  BY <1>2, <2>1, <2>2, <2>3, <2>5 DEF Unstopped
<1>. QED  BY <1>1, <1>2, <1>3, <1>4

(* obs_output_start and rtmp_stream_start, of the application.             *)
LEMMA LossyUser ==
    ASSUME LossyInv, TypeOK, UserStarts \/ UserStep
    PROVE  LossyInv'
<1> USE DEF stream
<1>1. CASE UserStarts
  <2>1. /\ pc' = [pc EXCEPT !["user"] = "wait_event"]
        /\ UNCHANGED <<active, data_active, reconnecting, stopping_event, stop_code, code,
                       reconnect_stop_event, stream>>
        /\ ~active /\ ~reconnecting /\ asked' = FALSE /\ signals' = <<>> /\ (starts > 0 => signals # <<>>)
        /\ pc["user"] = "idle" /\ pc["connect"] = "none" /\ pc["send"] = "none" /\ starts' = starts + 1
    BY <1>1 DEF UserStarts, Start, flags, local, retry
  <2>2. /\ Unstopped' /\ Waiters' = Waiters /\ pc' = [x \in Threads |-> pc'[x]]
        /\ pc'["user"] = "wait_event"
        /\ \A u \in {"connect", "send", "end"} : pc'[u] = pc[u]
    BY <2>1, LossyMoves
  <2>3. starts' > 0
    <3>1. PICK n \in Nat : n = starts
      BY DEF TypeOK, OutputTypeOK
    <3>2. n + 1 > 0
      OBVIOUS
    <3>. QED  BY <2>1, <3>1, <3>2, Zenon
  <2>4. CASE NotStarted
    <3>1. Begun'
      BY <2>1, <2>2, <2>4 DEF NotStarted, Begun, Off, EndSteps, Finishing
    <3>. QED  BY <2>1, <2>2, <2>3, <3>1 DEF LossyInv
  <2>5. CASE starts > 0
    <3>1. Over
      BY <2>1, <2>5 DEF LossyInv, NotStarted, Begun, Attempt, OnAir, Breaking, Waiting
    <3>2. Begun'
      BY <2>1, <2>2, <3>1 DEF Over, Begun, Off, EndSteps, Finishing, Leaving
    <3>. QED  BY <2>1, <2>2, <2>3, <3>2 DEF LossyInv
  <2>. QED  BY <2>4, <2>5 DEF LossyInv
<1>2. CASE WaitStoppingEvent("user") /\ UNCHANGED <<stream, network>>
  <2>1. /\ pc' = [pc EXCEPT !["user"] = "plugin_start"] /\ pc["user"] = "wait_event"
        /\ UNCHANGED <<active, data_active, reconnecting, stopping_event, code, reconnect_stop_event,
                       signals, asked, starts, stream>>
    BY <1>2 DEF WaitStoppingEvent, flags, local, calls, retry
  <2>2. /\ Unstopped' /\ Waiters' = Waiters /\ pc' = [x \in Threads |-> pc'[x]]
        /\ pc'["user"] = "plugin_start"
        /\ \A u \in {"connect", "send", "end"} : pc'[u] = pc[u]
    BY <2>1, LossyMoves
  <2>3. Begun /\ starts > 0
    BY <2>1 DEF LossyInv, NotStarted, Attempt, OnAir, Breaking, Waiting, Over
  <2>4. Begun'
    BY <2>1, <2>2, <2>3 DEF Begun, Off
  <2>. QED  BY <2>1, <2>2, <2>3, <2>4 DEF LossyInv
<1>3. CASE StartConnecting("user")
  <2>1. /\ pc' = [pc EXCEPT !["user"] = "idle", !["connect"] = "init_connect"]
        /\ pc["user"] = "plugin_start" /\ pc["end"] = "none" /\ connecting' = TRUE
        /\ UNCHANGED <<active, data_active, reconnecting, stopping_event, stop_code, code, signals,
                       asked, starts, reconnect_stop_event, stop_event, stream_active>>
    BY <1>3 DEF StartConnecting, Started, outputRest, flags, calls, retry
  <2>2. /\ pc' = [x \in Threads |-> pc'[x]] /\ pc'["user"] = "idle" /\ pc'["connect"] = "init_connect"
        /\ \A u \in Threads \ {"user", "connect"} : pc'[u] = pc[u]
    BY <2>1 DEF LossyInv
  <2>3. Unstopped'
    BY <2>1, <2>2 DEF LossyInv, Unstopped
  <2>4. Waiters' = Waiters
    BY <2>2 DEF Waiters
  <2>5. Begun /\ starts > 0
    BY <2>1 DEF LossyInv, NotStarted, Attempt, OnAir, Breaking, Waiting, Over
  <2>6. Attempt'
    BY <2>1, <2>2, <2>4, <2>5 DEF Begun, Attempt, Off
  <2>. QED  BY <2>1, <2>2, <2>3, <2>5, <2>6 DEF LossyInv
<1>4. pc["user"] \in {"idle", "wait_event", "plugin_start"} /\ (pc["user"] = "plugin_start" => ~active)
  BY DEF LossyInv, Unstopped, NotStarted, Begun, Attempt, OnAir, Breaking, Waiting, Over
<1>5. ~(StartRefused("user") \/ CallerStep("user"))
  BY <1>4 DEF StartRefused, CallerStep, StopStep, ResetStoppingEvent, HaltReconnect, JoinReconnect, EndingStep,
              SignalStop, EndDataCapture, Ends, EndSpawn, ReconnectHalted, GiveUp, Reconnect, StopIgnored,
              PluginStop, JoinConnect, StopStream, SetStopEvent
<1>. QED  BY <1>1, <1>2, <1>3, <1>5 DEF UserStep

(* connect_thread up to the live stream.                                   *)
LEMMA LossyConnects ==
    ASSUME LossyInv, InitConnect \/ Refused \/ Connected \/ GoActive
                     \/ ((BeginDataCapture \/ BeginActive) /\ UNCHANGED <<stream, network>>)
    PROVE  LossyInv'
<1> USE DEF stream
<1>0. /\ pc["connect"] \in {"init_connect", "try_connect", "go_active", "begin", "begin_active"}
      /\ Attempt /\ starts > 0
  <2>1. pc["connect"] \in {"init_connect", "try_connect", "go_active", "begin", "begin_active"}
    BY DEF InitConnect, Refused, Connected, GoActive, BeginDataCapture, BeginActive
  <2>. QED  BY <2>1 DEF LossyInv, NotStarted, Begun, OnAir, Breaking, Waiting, Over, Off, Finishing
<1>1. CASE InitConnect
  <2>1. /\ pc' = [pc EXCEPT !["connect"] = "try_connect"] /\ pc["connect"] = "init_connect"
        /\ UNCHANGED <<active, data_active, reconnecting, stopping_event, stop_code, code, signals,
                       asked, starts, reconnect_stop_event, stop_event, stream_active, connecting>>
    BY <1>0, <1>1 DEF InitConnect, outputRest, flags, calls, retry
  <2>2. /\ Unstopped' /\ Waiters' = Waiters /\ pc' = [x \in Threads |-> pc'[x]]
        /\ pc'["connect"] = "try_connect"
        /\ \A u \in {"user", "send", "end"} : pc'[u] = pc[u]
    BY <2>1, LossyMoves
  <2>3. Attempt'
    BY <1>0, <2>1, <2>2 DEF Attempt
  <2>. QED  BY <1>0, <2>1, <2>2, <2>3 DEF LossyInv
<1>2. CASE Refused
  <2>1. /\ pc' = [pc EXCEPT !["connect"] = "signal_stop"] /\ pc["connect"] = "try_connect"
        /\ code' = [code EXCEPT !["connect"] = "CONNECT_FAILED"]
        /\ UNCHANGED <<active, data_active, reconnecting, stopping_event, stop_code, signals,
                       asked, starts, reconnect_stop_event, stop_event, stream_active, connecting>>
    BY <1>2 DEF Refused, CallSignalStop, outputRest, flags, calls, retry
  <2>2. /\ Unstopped' /\ Waiters' = Waiters /\ pc' = [x \in Threads |-> pc'[x]]
        /\ pc'["connect"] = "signal_stop"
        /\ \A u \in {"user", "send", "end"} : pc'[u] = pc[u]
    BY <2>1, LossyMoves
  <2>3. code' = [x \in Threads |-> code'[x]] /\ code'["connect"] = "CONNECT_FAILED"
    BY <2>1 DEF LossyInv
  <2>4. Attempt'
    BY <1>0, <2>1, <2>2, <2>3 DEF Attempt
  <2>. QED  BY <1>0, <2>1, <2>2, <2>3, <2>4 DEF LossyInv
<1>3. CASE Connected
  <2>1. /\ pc' = [pc EXCEPT !["connect"] = "go_active", !["send"] = "sending"]
        /\ pc["connect"] = "try_connect" /\ pc["send"] = "none"
        /\ UNCHANGED <<active, data_active, reconnecting, stopping_event, stop_code, code, signals,
                       asked, starts, reconnect_stop_event, stop_event, stream_active, connecting>>
    BY <1>3 DEF Connected, outputRest, flags, calls, retry
  <2>2. /\ pc' = [x \in Threads |-> pc'[x]] /\ pc'["connect"] = "go_active" /\ pc'["send"] = "sending"
        /\ \A u \in Threads \ {"send", "connect"} : pc'[u] = pc[u]
    BY <2>1 DEF LossyInv
  <2>3. Unstopped'
    BY <2>1, <2>2 DEF LossyInv, Unstopped
  <2>4. Waiters' = Waiters
    BY <2>2 DEF Waiters
  <2>0. ~data_active /\ ~stream_active
    BY <1>0, <2>1 DEF Attempt
  <2>6. /\ pc'["user"] = pc["user"] /\ pc'["end"] = pc["end"] /\ ~data_active' /\ ~stream_active'
        /\ active' = active /\ signals' = signals
    <3>1. pc'["user"] = pc["user"] /\ pc'["end"] = pc["end"]
      BY <2>2
    <3>2. ~data_active' /\ ~stream_active'
      BY <2>0, <2>1
    <3>. QED  BY <3>1, <3>2, <2>1
  <2>7. At("user", "idle") /\ At("end", "none") /\ Waiters = {} /\ ~active /\ signals = <<>>
    BY <1>0 DEF Attempt
  <2>5. Attempt'
    BY <2>2, <2>4, <2>6, <2>7 DEF Attempt
  <2>. QED  BY <1>0, <2>1, <2>2, <2>3, <2>5 DEF LossyInv
<1>4. CASE GoActive
  <2>1. /\ pc' = [pc EXCEPT !["connect"] = "begin"] /\ pc["connect"] = "go_active"
        /\ stream_active' = TRUE
        /\ UNCHANGED <<active, data_active, reconnecting, stopping_event, stop_code, code, signals,
                       asked, starts, reconnect_stop_event, stop_event, connecting>>
    BY <1>0, <1>4 DEF GoActive, outputRest, flags, calls, retry
  <2>2. /\ Unstopped' /\ Waiters' = Waiters /\ pc' = [x \in Threads |-> pc'[x]]
        /\ pc'["connect"] = "begin"
        /\ \A u \in {"user", "send", "end"} : pc'[u] = pc[u]
    BY <2>1, LossyMoves
  <2>3. Attempt'
    BY <1>0, <2>1, <2>2 DEF Attempt
  <2>. QED  BY <1>0, <2>1, <2>2, <2>3 DEF LossyInv
<1>5. CASE BeginDataCapture /\ UNCHANGED <<stream, network>>
  <2>0. pc["connect"] = "begin" /\ ~active
    BY <1>0, <1>5 DEF BeginDataCapture, Attempt
  <2>1. /\ pc' = [pc EXCEPT !["connect"] = "begin_active"] /\ data_active' = TRUE
        /\ UNCHANGED <<active, reconnecting, stopping_event, stop_code, code, signals,
                       asked, starts, reconnect_stop_event, stop_event, stream_active, connecting>>
    BY <1>5, <2>0 DEF BeginDataCapture, local, calls, retry
  <2>2. /\ Unstopped' /\ Waiters' = Waiters /\ pc' = [x \in Threads |-> pc'[x]]
        /\ pc'["connect"] = "begin_active"
        /\ \A u \in {"user", "send", "end"} : pc'[u] = pc[u]
    BY <2>0, <2>1, LossyMoves
  <2>3. Attempt'
    BY <1>0, <2>0, <2>1, <2>2 DEF Attempt
  <2>. QED  BY <1>0, <2>1, <2>2, <2>3 DEF LossyInv
<1>6. CASE BeginActive /\ UNCHANGED <<stream, network>>
  <2>1. /\ pc' = [pc EXCEPT !["connect"] = "begin_signal"] /\ pc["connect"] = "begin_active"
        /\ active' = TRUE
        /\ UNCHANGED <<data_active, reconnecting, stopping_event, stop_code, code, signals,
                       asked, starts, reconnect_stop_event, stop_event, stream_active, connecting>>
    BY <1>6 DEF BeginActive, local, calls, retry
  <2>2. /\ Unstopped' /\ Waiters' = Waiters /\ pc' = [x \in Threads |-> pc'[x]]
        /\ pc'["connect"] = "begin_signal"
        /\ \A u \in {"user", "send", "end"} : pc'[u] = pc[u]
    BY <2>1, LossyMoves
  <2>3. OnAir'
    BY <1>0, <2>1, <2>2 DEF Attempt, OnAir
  <2>. QED  BY <1>0, <2>1, <2>2, <2>3 DEF LossyInv
<1>. QED  BY <1>1, <1>2, <1>3, <1>4, <1>5, <1>6

(* The connect thread is done with the capture that it has begun or failed *)
(* to begin: obs_output_begin_data_capture's signal, and the thread's end. *)
LEMMA LossyTail ==
    ASSUME LossyInv, (BeginSignal /\ UNCHANGED <<stream, network>>) \/ ConnectTail \/ ConnectDone
    PROVE  LossyInv'
<1> USE DEF stream
<1>0. pc["connect"] \in {"begin_signal", "back", "joinable", "detached"} /\ ~stop_event
  BY DEF BeginSignal, ConnectTail, ConnectDone, LossyInv, Unstopped
<1>1. /\ starts > 0 /\ (OnAir \/ Breaking \/ Waiting \/ Over)
      /\ pc["connect"] \in Finishing \cup {"begin_signal"}
  BY <1>0 DEF LossyInv, NotStarted, Begun, Attempt, OnAir, Breaking, Waiting, Over, Off, Finishing
<1>2. PICK l \in Finishing :
        /\ pc' = [pc EXCEPT !["connect"] = l]
        /\ IF pc["connect"] = "begin_signal" THEN reconnecting' = FALSE ELSE reconnecting' = reconnecting
        /\ IF l = "none" THEN connecting' = FALSE ELSE connecting' = connecting
        /\ UNCHANGED <<active, data_active, stopping_event, stop_code, code, signals, asked, starts,
                       reconnect_stop_event, stop_event, stream_active>>
  <2>1. CASE BeginSignal /\ UNCHANGED <<stream, network>>
    BY <2>1 DEF BeginSignal, local, calls, retry, Finishing
  <2>2. CASE ConnectTail
    BY <1>0, <2>2 DEF ConnectTail, outputRest, flags, calls, retry, Finishing
  <2>3. CASE ConnectDone
    BY <2>3 DEF ConnectDone, outputRest, flags, calls, retry, Finishing
  <2>. QED  BY <2>1, <2>2, <2>3
<1>3. /\ Unstopped' /\ Waiters' = Waiters /\ pc' = [x \in Threads |-> pc'[x]]
      /\ pc'["connect"] = l
      /\ \A u \in {"user", "send", "end"} : pc'[u] = pc[u]
      /\ \A r \in Reconnectors : pc'[r] = pc[r]
  BY <1>0, <1>2, LossyMoves
<1>4. CASE OnAir
  <2>1. OnAir' /\ starts' > 0
    BY <1>1, <1>2, <1>3, <1>4 DEF OnAir
  <2>. QED  BY <1>2, <1>3, <2>1 DEF LossyInv
<1>5. CASE Breaking
  <2>1. Breaking' /\ starts' > 0
    BY <1>1, <1>2, <1>3, <1>5 DEF Breaking, Off
  <2>. QED  BY <1>2, <1>3, <2>1 DEF LossyInv
<1>6. CASE Waiting
  <2>1. \A r \in Waiters : r \in Reconnectors /\ pc[r] \notin {"wait_event", "plugin_start"}
    BY <1>0, <1>6 DEF Waiting, Waiters
  <2>2. Waiting' /\ starts' > 0
    BY <1>1, <1>2, <1>3, <1>6, <2>1 DEF Waiting, Off, Leaving
  <2>. QED  BY <1>2, <1>3, <2>2 DEF LossyInv
<1>7. CASE Over
  <2>1. ~reconnecting'
    BY <1>2, <1>7 DEF Over
  <2>2. Over' /\ starts' > 0
    BY <1>1, <1>2, <1>3, <1>7, <2>1 DEF Over, Off, Leaving
  <2>. QED  BY <1>2, <1>3, <2>2 DEF LossyInv
<1>. QED  BY <1>1, <1>4, <1>5, <1>6, <1>7

(* A connection failed, or broke: one thread waits to try again.           *)
LEMMA LossyReconnects ==
    ASSUME LossyInv, NEW t \in {"connect", "send"}, NEW r \in Reconnectors, Reconnect(t, r),
           UNCHANGED <<stream, network>>
    PROVE  LossyInv'
<1> USE DEF stream
<1>1. /\ pc' = [pc EXCEPT ![t] = "back", ![r] = "r_begin"] /\ pc[t] = "reconnect" /\ pc[r] = "none"
      /\ reconnect_stop_event' = (reconnect_stop_event /\ reconnecting)
      /\ UNCHANGED <<active, data_active, stopping_event, code, signals, asked, starts, stop_event,
                     stream_active, connecting>>
  BY DEF Reconnect, local, calls
<1>2. /\ pc' = [x \in Threads |-> pc'[x]] /\ pc'[t] = "back" /\ pc'[r] = "r_begin"
      /\ \A u \in Threads \ {t, r} : pc'[u] = pc[u]
  BY <1>1 DEF LossyInv
<1>3. IF t = "connect" THEN Attempt ELSE Breaking
  BY <1>1 DEF LossyInv, NotStarted, Begun, Attempt, OnAir, Breaking, Waiting, Over, Off, Leaving, Finishing
<1>4. starts > 0 /\ Waiters = {} /\ signals = <<>> /\ pc["user"] = "idle" /\ Unstopped
  BY <1>1, <1>3 DEF LossyInv, NotStarted, Attempt, Breaking, Finishing
<1>5. Waiters' = {r}
  <2>1. \A u \in Reconnectors \ {r} : pc'[u] = pc[u]
    BY <1>2
  <2>. QED  BY <1>2, <1>4, <2>1 DEF Waiters
<1>6. Unstopped'
  <2>1. ~reconnect_stop_event'
    BY <1>1, <1>4 DEF Unstopped
  <2>2. \A u \in Reconnectors : pc'[u] = pc[u] \/ pc'[u] = "r_begin"
    BY <1>2
  <2>3. pc'["encoder"] = pc["encoder"] /\ pc'["user"] = pc["user"]
    BY <1>2
  <2>4. connecting' <=> ~(pc'["connect"] = "none")
    <3>1. pc'["connect"] = "none" <=> pc["connect"] = "none"
      BY <1>1, <1>2
    <3>2. connecting' = connecting /\ (connecting <=> ~(pc["connect"] = "none"))
      BY <1>1, <1>4 DEF Unstopped
    <3>. QED  BY <3>1, <3>2
  <2>5. ~asked' /\ ~stop_event' /\ stopping_event'
    <3>1. ~asked /\ ~stop_event /\ stopping_event
      BY <1>4 DEF Unstopped
    <3>2. asked' = asked /\ stop_event' = stop_event /\ stopping_event' = stopping_event
      BY <1>1
    <3>. QED  BY <3>1, <3>2
  <2>. QED  BY <1>4, <2>1, <2>2, <2>3, <2>4, <2>5 DEF Unstopped
<1>7. Off' /\ Leaving'
  <2>1. CASE t = "connect"
    <3>1. /\ pc'["end"] = pc["end"] /\ pc'["send"] = pc["send"] /\ pc'["connect"] = "back"
      BY <1>2, <2>1
    <3>2. /\ pc["send"] = "none" /\ pc["end"] = "none" /\ ~active /\ ~data_active /\ ~stream_active
      BY <1>1, <1>3, <2>1 DEF Attempt
    <3>3. ~active' /\ ~data_active' /\ ~stream_active'
      BY <1>1, <3>2
    <3>. QED  BY <3>1, <3>2, <3>3 DEF Off, Leaving, EndSteps, Finishing
  <2>2. CASE t = "send"
    <3>1. /\ pc'["end"] = pc["end"] /\ pc'["connect"] = pc["connect"] /\ pc'["send"] = "back"
      BY <1>2, <2>2
    <3>2. Off /\ stream_active
      BY <1>1, <1>3, <2>2 DEF Breaking
    <3>. QED  BY <1>1, <3>1, <3>2 DEF Off, Leaving
  <2>. QED  BY <2>1, <2>2
<1>8. Waiting' /\ starts' > 0
  <2>1. pc'["user"] = "idle" /\ signals' = <<>> /\ starts' > 0
    BY <1>1, <1>2, <1>4
  <2>. QED  BY <1>2, <1>5, <1>7, <2>1 DEF Waiting
<1>. QED  BY <1>1, <1>2, <1>6, <1>8 DEF LossyInv

(* connect_thread could not connect: obs_output_signal_stop.               *)
LEMMA LossyRefused ==
    ASSUME LossyInv, TypeOK, EndingStep("connect"), UNCHANGED <<stream, network>>
    PROVE  LossyInv'
<1> USE DEF stream
<1>0. /\ pc["connect"] \in {"signal_stop", "end_quietly", "end_capture", "reconnect"}
      /\ Attempt /\ starts > 0 /\ ~reconnect_stop_event
  <2>1. pc["connect"] \in {"signal_stop", "end_quietly", "end_capture", "reconnect", "end_spawn",
                          "end_spawn_quietly"}
    BY DEF EndingStep, SignalStop, EndDataCapture, Ends, EndSpawn, ReconnectHalted, GiveUp, Reconnect
  <2>2. Attempt /\ starts > 0 /\ ~reconnect_stop_event
    BY <2>1 DEF LossyInv, Unstopped, NotStarted, Begun, OnAir, Breaking, Waiting, Over, Off, Finishing
  <2>. QED  BY <2>1, <2>2 DEF Attempt
<1>a. /\ pc["send"] = "none" /\ ~data_active /\ ~stream_active /\ ~active
      /\ pc["user"] = "idle" /\ pc["end"] = "none" /\ Waiters = {} /\ signals = <<>>
  BY <1>0 DEF Attempt
<1>1. CASE SignalStop("connect")
  <2>1. PICK l \in {"end_quietly", "end_capture"} :
          /\ pc' = [pc EXCEPT !["connect"] = l] /\ pc["connect"] = "signal_stop"
          /\ stop_code' = code["connect"]
          /\ IF l = "end_quietly" THEN CanReconnect("connect") /\ reconnecting' = reconnecting
             ELSE reconnecting' = FALSE
          /\ UNCHANGED <<active, data_active, stopping_event, code, signals, asked, starts,
                         reconnect_stop_event, stop_event, stream_active, connecting>>
    BY <1>1 DEF SignalStop, Recorded, local, calls, retry
  <2>2. /\ Unstopped' /\ Waiters' = Waiters /\ pc' = [x \in Threads |-> pc'[x]]
        /\ pc'["connect"] = l
        /\ \A u \in {"user", "send", "end"} : pc'[u] = pc[u]
    BY <2>1, LossyMoves
  <2>3. code["connect"] = "CONNECT_FAILED"
    BY <1>0, <2>1 DEF Attempt
  <2>4. l = "end_quietly" => reconnecting'
    BY <2>1, <2>3 DEF CanReconnect
  <2>5. l = "end_capture" => stop_code' \in Bad /\ ~reconnecting'
    BY <2>1, <2>3 DEF Bad
  <2>6. Attempt'
    BY <1>a, <2>1, <2>2, <2>4, <2>5 DEF Attempt
  <2>. QED  BY <1>0, <2>1, <2>2, <2>6 DEF LossyInv
<1>2. CASE EndDataCapture("connect") /\ pc["connect"] = "end_quietly"
  <2>1. /\ pc' = [pc EXCEPT !["connect"] = "reconnect"]
        /\ UNCHANGED <<active, data_active, reconnecting, stopping_event, code, signals, asked, starts,
                       reconnect_stop_event, stop_event, stream_active, connecting>>
    BY <1>2, <1>a DEF EndDataCapture, EndNothing, Silent, local, calls, retry
  <2>2. /\ Unstopped' /\ Waiters' = Waiters /\ pc' = [x \in Threads |-> pc'[x]]
        /\ pc'["connect"] = "reconnect"
        /\ \A u \in {"user", "send", "end"} : pc'[u] = pc[u]
    BY <1>2, <2>1, LossyMoves
  <2>3. reconnecting
    BY <1>0, <1>2 DEF Attempt
  <2>4. Attempt'
    BY <1>a, <2>1, <2>2, <2>3 DEF Attempt
  <2>. QED  BY <1>0, <2>1, <2>2, <2>4 DEF LossyInv
<1>3. CASE EndDataCapture("connect") /\ pc["connect"] = "end_capture"
  <2>1. /\ pc' = [pc EXCEPT !["connect"] = "back"] /\ stopping_event' = TRUE
        /\ signals' = Append(signals, stop_code)
        /\ UNCHANGED <<active, data_active, reconnecting, code, asked, starts,
                       reconnect_stop_event, stop_event, stream_active, connecting>>
    BY <1>3, <1>a DEF EndDataCapture, EndNothing, Announce, local, calls, retry
  <2>2. /\ Unstopped' /\ Waiters' = Waiters /\ pc' = [x \in Threads |-> pc'[x]]
        /\ pc'["connect"] = "back"
        /\ \A u \in {"user", "send", "end"} : pc'[u] = pc[u]
    BY <1>3, <2>1, LossyMoves
  <2>3. stop_code \in Bad /\ ~reconnecting
    BY <1>0, <1>3 DEF Attempt
  <2>4. \E c \in Bad : signals' = <<c>>
    <3>1. signals' = <<stop_code>>
      BY <1>a, <2>1
    <3>. QED  BY <2>3, <3>1
  <2>5. Off' /\ Leaving' /\ ~reconnecting'
    BY <1>a, <2>1, <2>2, <2>3 DEF Off, Leaving, EndSteps, Finishing
  <2>6. Over'
    BY <1>a, <2>2, <2>4, <2>5 DEF Over
  <2>. QED  BY <1>0, <2>1, <2>2, <2>6 DEF LossyInv
<1>4. CASE GiveUp("connect")
  <2>1. /\ pc' = [pc EXCEPT !["connect"] = "end_capture"] /\ pc["connect"] = "reconnect"
        /\ stop_code' = "DISCONNECTED" /\ reconnecting' = FALSE
        /\ UNCHANGED <<active, data_active, stopping_event, code, signals, asked, starts,
                       reconnect_stop_event, stop_event, stream_active, connecting>>
    BY <1>4 DEF GiveUp, GaveUp, local, calls
  <2>2. /\ Unstopped' /\ Waiters' = Waiters /\ pc' = [x \in Threads |-> pc'[x]]
        /\ pc'["connect"] = "end_capture"
        /\ \A u \in {"user", "send", "end"} : pc'[u] = pc[u]
    BY <2>1, LossyMoves
  <2>3. stop_code' \in Bad /\ ~reconnecting'
    BY <2>1 DEF Bad
  <2>4. Attempt'
    BY <1>a, <2>1, <2>2, <2>3 DEF Attempt
  <2>. QED  BY <1>0, <2>1, <2>2, <2>4 DEF LossyInv
<1>5. CASE \E r \in Reconnectors : Reconnect("connect", r)
  BY <1>5, LossyReconnects
<1>6. ~(EndSpawn("connect") \/ ReconnectHalted("connect"))
  BY <1>0 DEF EndSpawn, ReconnectHalted, Halted
<1>7. EndDataCapture("connect") => pc["connect"] \in {"end_quietly", "end_capture"}
  BY DEF EndDataCapture, Ends
<1>. QED  BY <1>1, <1>2, <1>3, <1>4, <1>5, <1>6, <1>7 DEF EndingStep

(* The connection broke: send_thread leaves its loop and reports it.       *)
LEMMA LossyBreaks ==
    ASSUME LossyInv, Broken \/ Leave \/ SendReport
                     \/ ((SignalStop("send") \/ GiveUp("send")) /\ UNCHANGED <<stream, network>>)
    PROVE  LossyInv'
<1> USE DEF stream
<1>0. /\ pc["send"] \in {"sending", "leave", "report", "signal_stop", "reconnect"} /\ ~stop_event
      /\ pc["send"] = "sending" => active
  BY DEF Broken, Leave, SendReport, SignalStop, GiveUp, LossyInv, Unstopped
<1>1. PICK l \in {"leave", "report", "signal_stop", "end_quietly", "end_capture"} :
        /\ pc' = [pc EXCEPT !["send"] = l]
        /\ l = "end_capture" => reconnecting' = FALSE
        /\ l # "end_capture" => reconnecting' = reconnecting
        /\ l = "signal_stop" => code' = [code EXCEPT !["send"] = "DISCONNECTED"]
        /\ l # "signal_stop" => code' = code
        /\ l = "end_capture" => stop_code' = IF pc["send"] = "reconnect" THEN "DISCONNECTED" ELSE code["send"]
        /\ l = "end_capture" <=> (pc["send"] = "reconnect" \/ (pc["send"] = "signal_stop" /\ l # "end_quietly"))
        /\ l = "end_quietly" => pc["send"] = "signal_stop"
        /\ UNCHANGED <<active, data_active, stopping_event, signals, asked, starts,
                       reconnect_stop_event, stop_event, stream_active, connecting>>
  <2>1. CASE Broken
    BY <2>1 DEF Broken, outputRest, flags, calls, retry
  <2>2. CASE Leave
    BY <2>2 DEF Leave, outputRest, flags, calls, retry
  <2>3. CASE SendReport
    BY <1>0, <2>3 DEF SendReport, Report, CallSignalStop, outputRest, flags, calls, retry
  <2>4. CASE SignalStop("send") /\ UNCHANGED <<stream, network>>
    BY <2>4 DEF SignalStop, Recorded, local, calls, retry
  <2>5. CASE GiveUp("send") /\ UNCHANGED <<stream, network>>
    BY <2>5 DEF GiveUp, GaveUp, local, calls
  <2>. QED  BY <2>1, <2>2, <2>3, <2>4, <2>5
<1>2. /\ Unstopped' /\ Waiters' = Waiters /\ pc' = [x \in Threads |-> pc'[x]]
      /\ pc'["send"] = l
      /\ \A u \in {"user", "connect", "end"} : pc'[u] = pc[u]
  BY <1>1, LossyMoves
<1>3. code' = [x \in Threads |-> code'[x]] /\ (l = "signal_stop" => code'["send"] = "DISCONNECTED")
  BY <1>1 DEF LossyInv
<1>4. CASE pc["send"] = "reconnect"
  <2>1. Breaking /\ starts > 0
    BY <1>4 DEF LossyInv, NotStarted, Begun, Attempt, OnAir, Waiting, Over, Leaving
  <2>2. l = "end_capture" /\ stop_code' \in Bad /\ ~reconnecting'
    BY <1>1, <1>4 DEF Bad
  <2>3. Breaking' /\ starts' > 0
    BY <1>1, <1>2, <1>4, <2>1, <2>2 DEF Breaking, Off
  <2>. QED  BY <1>2, <1>3, <2>3 DEF LossyInv
<1>5. CASE pc["send"] # "reconnect"
  <2>1. OnAir /\ starts > 0
    BY <1>0, <1>5 DEF LossyInv, NotStarted, Begun, Attempt, Breaking, Waiting, Over, Leaving
  <2>2. l = "end_capture" => stop_code' \in Bad /\ ~reconnecting'
    BY <1>1, <1>5, <2>1 DEF Bad, OnAir
  <2>3. reconnecting' => pc["connect"] = "begin_signal"
    BY <1>1, <2>1 DEF OnAir
  <2>4. OnAir' /\ starts' > 0
    BY <1>1, <1>2, <1>3, <2>1, <2>2, <2>3 DEF OnAir
  <2>. QED  BY <1>2, <1>3, <2>4 DEF LossyInv
<1>. QED  BY <1>4, <1>5

(* send_thread ends the capture and is over.                               *)
LEMMA LossySends ==
    ASSUME LossyInv, \/ (EndDataCapture("send") \/ EndSpawn("send")) /\ UNCHANGED <<stream, network>>
                     \/ SendCleanup \/ GoInactive
    PROVE  LossyInv'
<1> USE DEF stream
<1>1. CASE EndDataCapture("send") /\ UNCHANGED <<stream, network>> /\ data_active
  <2>0. pc["send"] \in {"end_quietly", "end_capture"} /\ OnAir /\ starts > 0
    <3>1. pc["send"] \in {"end_quietly", "end_capture"}
      BY <1>1 DEF EndDataCapture, Ends
    <3>. QED  BY <1>1, <3>1 DEF LossyInv, NotStarted, Begun, Attempt, Breaking, Waiting, Over, Leaving, Off
  <2>1. PICK l \in {"end_spawn", "end_spawn_quietly"} :
          /\ pc' = [pc EXCEPT !["send"] = l] /\ data_active' = FALSE
          /\ l = "end_spawn" <=> pc["send"] = "end_capture"
          /\ UNCHANGED <<active, reconnecting, stopping_event, stop_code, code, signals, asked, starts,
                         reconnect_stop_event, stop_event, stream_active, connecting>>
    BY <1>1, <2>0 DEF OnAir, EndDataCapture, CaptureOff, local, calls, retry
  <2>2. /\ Unstopped' /\ Waiters' = Waiters /\ pc' = [x \in Threads |-> pc'[x]]
        /\ pc'["send"] = l
        /\ \A u \in {"user", "connect", "end"} : pc'[u] = pc[u]
    BY <2>1, LossyMoves
  <2>3. Breaking' /\ starts' > 0
    BY <2>0, <2>1, <2>2 DEF OnAir, Breaking, Finishing
  <2>. QED  BY <2>1, <2>2, <2>3 DEF LossyInv
<1>2. CASE EndDataCapture("send") /\ UNCHANGED <<stream, network>> /\ ~data_active
  <2>0. pc["send"] = "end_capture" /\ Breaking /\ starts > 0
    <3>1. pc["send"] \in {"end_quietly", "end_capture"}
      BY <1>2 DEF EndDataCapture, Ends
    <3>2. Breaking /\ starts > 0
      BY <1>2, <3>1 DEF LossyInv, NotStarted, Begun, Attempt, OnAir, Waiting, Over, Leaving
    <3>. QED  BY <3>1, <3>2 DEF Breaking
  <2>1. /\ pc' = [pc EXCEPT !["send"] = "back"] /\ stopping_event' = TRUE
        /\ signals' = Append(signals, stop_code)
        /\ UNCHANGED <<active, data_active, reconnecting, code, asked, starts,
                       reconnect_stop_event, stop_event, stream_active, connecting>>
    BY <1>2, <2>0 DEF EndDataCapture, EndNothing, Announce, local, calls, retry
  <2>2. /\ Unstopped' /\ Waiters' = Waiters /\ pc' = [x \in Threads |-> pc'[x]]
        /\ pc'["send"] = "back"
        /\ \A u \in {"user", "connect", "end"} : pc'[u] = pc[u]
    BY <2>1, LossyMoves
  <2>3. /\ pc["user"] = "idle" /\ Off /\ stream_active /\ Waiters = {} /\ signals = <<>>
        /\ stop_code \in Bad /\ ~reconnecting
    BY <2>0 DEF Breaking
  <2>4. \E c \in Bad : signals' = <<c>>
    <3>1. signals' = <<stop_code>>
      BY <2>1, <2>3
    <3>. QED  BY <2>3, <3>1
  <2>5. Off' /\ Leaving' /\ ~reconnecting'
    BY <2>1, <2>2, <2>3 DEF Off, Leaving
  <2>6. Over' /\ starts' > 0
    BY <2>0, <2>1, <2>2, <2>3, <2>4, <2>5 DEF Over
  <2>. QED  BY <2>1, <2>2, <2>6 DEF LossyInv
<1>3. CASE EndSpawn("send") /\ UNCHANGED <<stream, network>>
  <2>0. pc["send"] \in {"end_spawn", "end_spawn_quietly"} /\ Breaking /\ starts > 0
    <3>1. pc["send"] \in {"end_spawn", "end_spawn_quietly"}
      BY <1>3 DEF EndSpawn
    <3>. QED  BY <3>1 DEF LossyInv, NotStarted, Begun, Attempt, OnAir, Waiting, Over, Leaving
  <2>1. PICK l \in {"back", "reconnect"} :
          /\ pc' = [pc EXCEPT !["end"] = "end_active", !["send"] = l]
          /\ IF pc["send"] = "end_spawn" THEN l = "back" /\ signals' = Append(signals, stop_code)
             ELSE l = "reconnect" /\ signals' = signals
          /\ UNCHANGED <<active, data_active, reconnecting, stopping_event, code, asked, starts,
                         reconnect_stop_event, stop_event, stream_active, connecting>>
    BY <1>3, <2>0 DEF EndSpawn, Announce, Silent, flags, local, calls, retry
  <2>2. /\ pc' = [x \in Threads |-> pc'[x]] /\ pc'["send"] = l /\ pc'["end"] = "end_active"
        /\ \A u \in Threads \ {"send", "end"} : pc'[u] = pc[u]
    BY <2>1 DEF LossyInv
  <2>3. \A r \in Reconnectors : pc'[r] = pc[r]
    BY <2>2
  <2>4. pc'["user"] = pc["user"] /\ pc'["encoder"] = pc["encoder"] /\ pc'["connect"] = pc["connect"]
    BY <2>2
  <2>5. Unstopped' /\ Waiters' = Waiters
    <3>1. Unstopped
      BY DEF LossyInv
    <3>2. ~asked' /\ ~stop_event' /\ stopping_event' /\ ~reconnect_stop_event'
      <4>1. ~asked /\ ~stop_event /\ stopping_event /\ ~reconnect_stop_event
        BY <3>1 DEF Unstopped
      <4>. QED  BY <2>1, <4>1
    <3>3. connecting' <=> ~(pc'["connect"] = "none")
      <4>1. connecting <=> ~(pc["connect"] = "none")
        BY <3>1 DEF Unstopped
      <4>. QED  BY <2>1, <2>4, <4>1
    <3>4. Unstopped'
      BY <2>3, <2>4, <3>1, <3>2, <3>3 DEF Unstopped
    <3>. QED  BY <2>3, <3>4 DEF Waiters
  <2>6. /\ pc["user"] = "idle" /\ pc["connect"] \in Finishing \cup {"begin_signal"}
        /\ ~data_active /\ active /\ stream_active /\ Waiters = {} /\ signals = <<>>
        /\ reconnecting => pc["connect"] = "begin_signal"
        /\ pc["send"] = "end_spawn" => stop_code \in Bad /\ ~reconnecting
    BY <2>0 DEF Breaking
  <2>7. Off'
    BY <2>1, <2>2, <2>4, <2>6 DEF Off, EndSteps
  <2>8. CASE l = "back"
    <3>1. pc["send"] = "end_spawn" /\ stop_code \in Bad /\ ~reconnecting /\ signals' = Append(signals, stop_code)
      BY <2>1, <2>6, <2>8
    <3>2. \E c \in Bad : signals' = <<c>>
      <4>1. signals' = <<stop_code>>
        BY <2>6, <3>1
      <4>. QED  BY <3>1, <4>1
    <3>3. Leaving' /\ ~reconnecting'
      BY <2>1, <2>2, <2>6, <2>8, <3>1 DEF Leaving
    <3>4. Over' /\ starts' > 0
      BY <2>0, <2>1, <2>4, <2>5, <2>6, <2>7, <3>2, <3>3 DEF Over
    <3>. QED  BY <2>1, <2>2, <2>5, <3>4 DEF LossyInv
  <2>9. CASE l = "reconnect"
    <3>1. signals' = <<>>
      BY <2>1, <2>6, <2>9
    <3>2. Breaking' /\ starts' > 0
      BY <2>0, <2>1, <2>2, <2>4, <2>5, <2>6, <2>7, <2>9, <3>1 DEF Breaking
    <3>. QED  BY <2>1, <2>2, <2>5, <3>2 DEF LossyInv
  <2>. QED  BY <2>8, <2>9
<1>4. CASE SendCleanup \/ GoInactive
  <2>1. PICK l \in {"go_inactive", "none"} :
          /\ pc' = [pc EXCEPT !["send"] = l] /\ pc["send"] \in {"back", "go_inactive"}
          /\ stop_event' = stop_event \/ stop_event' = FALSE
          /\ IF l = "none" THEN stream_active' = FALSE ELSE stream_active' = stream_active
          /\ UNCHANGED <<active, data_active, reconnecting, stopping_event, stop_code, code, signals, asked,
                         starts, reconnect_stop_event, connecting>>
    BY <1>4 DEF SendCleanup, GoInactive, outputRest, flags, calls, retry
  <2>2. /\ Unstopped' /\ Waiters' = Waiters /\ pc' = [x \in Threads |-> pc'[x]]
        /\ pc'["send"] = l
        /\ \A u \in {"user", "connect", "end"} : pc'[u] = pc[u]
        /\ \A r \in Reconnectors : pc'[r] = pc[r]
    BY <2>1, LossyMoves
  <2>3. starts > 0 /\ (Waiting \/ Over)
    BY <2>1 DEF LossyInv, NotStarted, Begun, Attempt, OnAir, Breaking
  <2>4. Leaving'
    BY <2>1, <2>2, <2>3 DEF Leaving, Waiting, Over
  <2>5. CASE Waiting
    <3>1. \A r \in Waiters : r \in Reconnectors /\ pc[r] \notin {"wait_event", "plugin_start"}
      BY <2>1, <2>5 DEF Waiting, Waiters
    <3>2. Waiting' /\ starts' > 0
      BY <2>1, <2>2, <2>3, <2>4, <2>5, <3>1 DEF Waiting, Off
    <3>. QED  BY <2>1, <2>2, <3>2 DEF LossyInv
  <2>6. CASE Over
    <3>1. Over' /\ starts' > 0
      BY <2>1, <2>2, <2>3, <2>4, <2>6 DEF Over, Off
    <3>. QED  BY <2>1, <2>2, <3>1 DEF LossyInv
  <2>. QED  BY <2>3, <2>5, <2>6
<1>. QED  BY <1>1, <1>2, <1>3, <1>4

(* end_data_capture_thread.                                                *)
LEMMA LossyEnds ==
    ASSUME LossyInv, EndStep
    PROVE  LossyInv'
<1> USE DEF stream
<1>1. PICK l \in {"end_signal", "end_flag", "none"} :
        /\ pc' = [pc EXCEPT !["end"] = l] /\ pc["end"] \in EndSteps \ {"none"}
        /\ IF pc["end"] = "end_active" THEN active' = FALSE ELSE active' = active
        /\ stopping_event' = stopping_event \/ stopping_event' = TRUE
        /\ UNCHANGED <<data_active, reconnecting, stop_code, code, signals, asked, starts,
                       reconnect_stop_event, stop_event, stream_active, connecting>>
  BY DEF EndStep, EndThreadStep, EndActive, EndSignal, EndFlag, CaptureEnded, EndSteps, flags, local, calls, retry
<1>2. /\ Unstopped' /\ Waiters' = Waiters /\ pc' = [x \in Threads |-> pc'[x]]
      /\ pc'["end"] = l
      /\ \A u \in {"user", "connect", "send"} : pc'[u] = pc[u]
      /\ \A r \in Reconnectors : pc'[r] = pc[r]
  BY <1>1, LossyMoves
<1>3. pc["end"] # "none"
  BY <1>1
<1>4. starts > 0 /\ (Begun \/ Breaking \/ Waiting \/ Over)
  BY <1>3 DEF LossyInv, NotStarted, Attempt, OnAir
<1>5. Off
  BY <1>3, <1>4 DEF Begun, Breaking, Waiting, Over
<1>6. Off' /\ ~active'
  BY <1>1, <1>2, <1>5 DEF Off, EndSteps
<1>7. CASE Begun
  <2>1. Begun' /\ starts' > 0
    BY <1>1, <1>2, <1>4, <1>6, <1>7 DEF Begun
  <2>. QED  BY <1>1, <1>2, <2>1 DEF LossyInv
<1>8. CASE Breaking
  <2>1. Breaking' /\ starts' > 0
    BY <1>1, <1>2, <1>3, <1>4, <1>6, <1>8 DEF Breaking
  <2>. QED  BY <1>1, <1>2, <2>1 DEF LossyInv
<1>9. CASE Waiting
  <2>1. \A r \in Waiters : r \in Reconnectors /\ pc[r] \notin {"wait_event", "plugin_start"}
    BY <1>3, <1>9 DEF Waiting, Waiters
  <2>2. Waiting' /\ starts' > 0
    BY <1>1, <1>2, <1>4, <1>6, <1>9, <2>1 DEF Waiting, Leaving
  <2>. QED  BY <1>1, <1>2, <2>2 DEF LossyInv
<1>10. CASE Over
  <2>1. Over' /\ starts' > 0
    BY <1>1, <1>2, <1>4, <1>6, <1>10 DEF Over, Leaving
  <2>. QED  BY <1>1, <1>2, <2>1 DEF LossyInv
<1>. QED  BY <1>4, <1>7, <1>8, <1>9, <1>10

(* reconnect_thread.                                                       *)
LEMMA LossyRetries ==
    ASSUME LossyInv, SlowEncoders = FALSE, NEW r \in Reconnectors, RetryThreadStep(r)
    PROVE  LossyInv'
<1> USE DEF stream
<1>0. pc[r] \in {"r_begin", "r_wait", "wait_event", "plugin_start", "r_check", "r_end"}
      /\ ~reconnect_stop_event /\ Unstopped
  BY DEF RetryThreadStep, RetryStep, RetryBegin, RetryTimeout, RetryHalted, RetryCheck, RetryEnd,
         WaitStoppingEvent, StartRefused, StartConnecting, LossyInv, Unstopped
<1>1. ASSUME NEW l \in {"none", "r_wait", "wait_event", "plugin_start", "r_end"},
             pc' = [pc EXCEPT ![r] = l],
             reconnecting' <=> reconnecting,
             UNCHANGED <<active, data_active, stopping_event, code, signals, asked, starts,
                         reconnect_stop_event, stop_event, stream_active, connecting>>
      PROVE  /\ Unstopped' /\ pc' = [x \in Threads |-> pc'[x]] /\ pc'[r] = l
             /\ \A u \in {"user", "connect", "send", "end"} : pc'[u] = pc[u]
             /\ \A u \in Reconnectors \ {r} : pc'[u] = pc[u]
  <2>1. /\ pc' = [x \in Threads |-> pc'[x]] /\ pc'[r] = l
        /\ \A u \in Threads \ {r} : pc'[u] = pc[u]
    BY <1>1, GoesTo DEF LossyInv
  <2>2. /\ \A u \in {"user", "connect", "send", "end", "encoder"} : pc'[u] = pc[u]
        /\ \A u \in Reconnectors \ {r} : pc'[u] = pc[u]
    BY <2>1
  <2>3. ~asked' /\ ~stop_event' /\ stopping_event' /\ ~reconnect_stop_event'
    <3>1. ~asked /\ ~stop_event /\ stopping_event /\ ~reconnect_stop_event
      BY <1>0 DEF Unstopped
    <3>. QED  BY <1>1, <3>1
  <2>4. connecting' <=> ~(pc'["connect"] = "none")
    <3>1. connecting <=> ~(pc["connect"] = "none")
      BY <1>0 DEF Unstopped
    <3>. QED  BY <1>1, <2>2, <3>1
  <2>5. \A u \in Reconnectors :
          pc'[u] \in {"none", "r_begin", "r_wait", "wait_event", "plugin_start", "r_check", "r_end"}
    BY <1>0, <2>1, <2>2 DEF Unstopped
  <2>6. Unstopped'
    BY <1>0, <2>2, <2>3, <2>4, <2>5 DEF Unstopped
  <2>. QED  BY <2>1, <2>2, <2>6
\* The thread waits, or tries again.
<1>2. ASSUME NEW l \in {"r_wait", "wait_event", "plugin_start"}, pc' = [pc EXCEPT ![r] = l],
             pc[r] \in {"r_begin", "r_wait", "wait_event"},
             reconnecting' = reconnecting,
             UNCHANGED <<active, data_active, stopping_event, code, signals, asked, starts,
                         reconnect_stop_event, stop_event, stream_active, connecting>>,
             l = "wait_event" => pc["connect"] = "none" /\ pc["send"] = "none" /\ pc["end"] = "none",
             l = "plugin_start" => pc[r] = "wait_event"
      PROVE  LossyInv'
  <2>1. /\ Unstopped' /\ pc' = [x \in Threads |-> pc'[x]] /\ pc'[r] = l
        /\ \A u \in {"user", "connect", "send", "end"} : pc'[u] = pc[u]
        /\ \A u \in Reconnectors \ {r} : pc'[u] = pc[u]
    BY <1>1, <1>2
  <2>2. r \in Waiters /\ Waiters' = Waiters
    BY <1>2, <2>1 DEF Waiters
  <2>3. Waiting /\ starts > 0
    BY <2>2 DEF LossyInv, NotStarted, Begun, Attempt, OnAir, Breaking, Over
  <2>4. \A u \in Waiters : u = r
    BY <2>2, <2>3 DEF Waiting
  <2>5. l \in {"wait_event", "plugin_start"} => pc["connect"] = "none" /\ pc["send"] = "none" /\ pc["end"] = "none"
    BY <1>2, <2>2, <2>3 DEF Waiting
  <2>6. Off' /\ Leaving' /\ pc'["user"] = "idle" /\ signals' = <<>> /\ starts' > 0
    BY <1>2, <2>1, <2>3 DEF Waiting, Off, Leaving
  <2>7. Waiting'
    BY <2>1, <2>2, <2>4, <2>5, <2>6 DEF Waiting
  <2>. QED  BY <1>2, <2>1, <2>6, <2>7 DEF LossyInv
\* The thread is done.
<1>3. ASSUME NEW l \in {"r_end", "none"}, pc' = [pc EXCEPT ![r] = l], pc[r] \in {"r_check", "r_end"},
             reconnecting' <=> reconnecting,
             UNCHANGED <<active, data_active, stopping_event, stop_code, code, signals, asked, starts,
                         reconnect_stop_event, stop_event, stream_active, connecting>>
      PROVE  LossyInv'
  <2>1. /\ Unstopped' /\ pc' = [x \in Threads |-> pc'[x]] /\ pc'[r] = l
        /\ \A u \in {"user", "connect", "send", "end"} : pc'[u] = pc[u]
        /\ \A u \in Reconnectors \ {r} : pc'[u] = pc[u]
    BY <1>1, <1>3
  <2>2. Waiters' = Waiters /\ r \notin Waiters
    BY <1>3, <2>1 DEF Waiters
  <2>3. CASE NotStarted
    <3>1. NotStarted'
      BY <1>3, <2>1, <2>2, <2>3 DEF NotStarted
    <3>. QED  BY <1>3, <2>1, <3>1 DEF LossyInv
  <2>4. CASE starts > 0 /\ Begun
    <3>1. Begun' /\ starts' > 0
      BY <1>3, <2>1, <2>2, <2>4 DEF Begun, Off
    <3>. QED  BY <1>3, <2>1, <3>1 DEF LossyInv
  <2>5. CASE starts > 0 /\ Attempt
    <3>1. Attempt' /\ starts' > 0
      BY <1>3, <2>1, <2>2, <2>5 DEF Attempt
    <3>. QED  BY <1>3, <2>1, <3>1 DEF LossyInv
  <2>6. CASE starts > 0 /\ OnAir
    <3>1. OnAir' /\ starts' > 0
      BY <1>3, <2>1, <2>2, <2>6 DEF OnAir
    <3>. QED  BY <1>3, <2>1, <3>1 DEF LossyInv
  <2>7. CASE starts > 0 /\ Breaking
    <3>1. Breaking' /\ starts' > 0
      BY <1>3, <2>1, <2>2, <2>7 DEF Breaking, Off
    <3>. QED  BY <1>3, <2>1, <3>1 DEF LossyInv
  <2>8. CASE starts > 0 /\ Waiting
    <3>1. \A u \in Waiters : pc'[u] = pc[u]
      BY <2>1, <2>2 DEF Waiters
    <3>2. Waiting' /\ starts' > 0
      BY <1>3, <2>1, <2>2, <2>8, <3>1 DEF Waiting, Off, Leaving
    <3>. QED  BY <1>3, <2>1, <3>2 DEF LossyInv
  <2>9. CASE starts > 0 /\ Over
    <3>1. Over' /\ starts' > 0
      BY <1>3, <2>1, <2>2, <2>9 DEF Over, Off, Leaving
    <3>. QED  BY <1>3, <2>1, <3>1 DEF LossyInv
  <2>. QED  BY <2>3, <2>4, <2>5, <2>6, <2>7, <2>8, <2>9 DEF LossyInv
<1>4. CASE RetryBegin(r) /\ UNCHANGED <<stream, network>>
  BY <1>2, <1>4 DEF RetryBegin, flags, local, calls
<1>5. CASE RetryTimeout(r) /\ UNCHANGED <<stream, network>>
  BY <1>2, <1>5 DEF RetryTimeout, DelayIsOver, flags, local, calls, retry
<1>6. CASE WaitStoppingEvent(r) /\ UNCHANGED <<stream, network>>
  BY <1>2, <1>6 DEF WaitStoppingEvent, flags, local, calls, retry
<1>7. CASE RetryCheck(r) /\ UNCHANGED <<stream, network>>
  <2>1. reconnecting' <=> reconnecting
    BY <1>0, <1>7 DEF RetryCheck
  <2>2. /\ pc' = [pc EXCEPT ![r] = "r_end"] /\ pc[r] = "r_check"
        /\ UNCHANGED <<active, data_active, stopping_event, stop_code, code, signals, asked, starts,
                       reconnect_stop_event, stop_event, stream_active, connecting>>
    BY <1>7 DEF RetryCheck, local, calls, retry
  <2>. QED  BY <1>3, <2>1, <2>2
<1>8. CASE RetryEnd(r) /\ UNCHANGED <<stream, network>>
  <2>1. /\ pc' = [pc EXCEPT ![r] = "none"] /\ pc[r] = "r_end"
        /\ UNCHANGED <<active, data_active, reconnecting, stopping_event, stop_code, code, signals, asked,
                       starts, reconnect_stop_event, stop_event, stream_active, connecting>>
    BY <1>8 DEF RetryEnd, flags, local, calls
  <2>. QED  BY <1>3, <2>1
<1>9. CASE StartConnecting(r)
  <2>1. /\ pc' = [pc EXCEPT ![r] = "r_check", !["connect"] = "init_connect"] /\ connecting' = TRUE
        /\ pc[r] = "plugin_start" /\ ~active /\ pc["end"] = "none" /\ pc["connect"] = "none"
        /\ UNCHANGED <<active, data_active, reconnecting, stopping_event, stop_code, code, signals, asked,
                       starts, reconnect_stop_event, stop_event, stream_active>>
    BY <1>9 DEF StartConnecting, Started, outputRest, flags, calls, retry
  <2>2. /\ pc' = [x \in Threads |-> pc'[x]] /\ pc'[r] = "r_check" /\ pc'["connect"] = "init_connect"
        /\ \A u \in Threads \ {r, "connect"} : pc'[u] = pc[u]
    BY <2>1 DEF LossyInv
  <2>3. \A u \in Reconnectors \ {r} : pc'[u] = pc[u]
    BY <2>2
  <2>4. \A u \in {"user", "encoder", "send", "end"} : pc'[u] = pc[u]
    BY <2>2
  <2>5. r \in Waiters
    BY <2>1 DEF Waiters
  <2>6. Waiting /\ starts > 0
    BY <2>5 DEF LossyInv, NotStarted, Begun, Attempt, OnAir, Breaking, Over
  <2>7. Waiters' = {}
    <3>1. \A u \in Reconnectors \ {r} : u \notin Waiters
      BY <2>5, <2>6 DEF Waiting
    <3>. QED  BY <2>2, <2>3, <3>1 DEF Waiters
  <2>8. pc["send"] = "none" /\ ~stream_active /\ ~data_active /\ pc["user"] = "idle" /\ signals = <<>>
    BY <2>1, <2>5, <2>6 DEF Waiting, Leaving, Off
  <2>9. Attempt' /\ starts' > 0
    <3>1. ~active' /\ ~data_active' /\ ~stream_active' /\ signals' = <<>> /\ starts' > 0
      BY <2>1, <2>6, <2>8
    <3>2. pc'["user"] = "idle" /\ pc'["send"] = "none" /\ pc'["end"] = "none"
      BY <2>1, <2>4, <2>8
    <3>. QED  BY <2>2, <2>7, <3>1, <3>2 DEF Attempt
  <2>10. Unstopped'
    <3>1. ~asked' /\ ~stop_event' /\ stopping_event' /\ ~reconnect_stop_event'
      <4>1. ~asked /\ ~stop_event /\ stopping_event /\ ~reconnect_stop_event
        BY <1>0 DEF Unstopped
      <4>. QED  BY <2>1, <4>1
    <3>2. \A u \in Reconnectors :
            pc'[u] \in {"none", "r_begin", "r_wait", "wait_event", "plugin_start", "r_check", "r_end"}
      BY <1>0, <2>2, <2>3 DEF Unstopped
    <3>. QED  BY <1>0, <2>1, <2>2, <2>4, <3>1, <3>2 DEF Unstopped
  <2>. QED  BY <2>1, <2>2, <2>9, <2>10 DEF LossyInv
<1>10. ~(RetryHalted(r) \/ StartRefused(r))
  <2>1. pc[r] = "plugin_start" => ~active
    <3>1. ASSUME pc[r] = "plugin_start" PROVE ~active
      <4>1. r \in Waiters
        BY <3>1 DEF Waiters
      <4>2. Waiting
        BY <4>1 DEF LossyInv, NotStarted, Begun, Attempt, OnAir, Breaking, Over
      <4>. QED  BY <3>1, <4>1, <4>2 DEF Waiting, Off
    <3>. QED  BY <3>1
  <2>. QED  BY <1>0, <2>1 DEF RetryHalted, StartRefused
<1>. QED  BY <1>4, <1>5, <1>6, <1>7, <1>8, <1>9, <1>10 DEF RetryThreadStep, RetryStep

(* The output is down in the beginning.                                    *)
LEMMA InitLossy == Init => LossyInv
<1>. SUFFICES ASSUME Init PROVE LossyInv
  OBVIOUS
<1>1. /\ pc = [t \in Threads |-> IF t = "user" THEN "idle" ELSE "none"]
      /\ code = [t \in Threads |-> "SUCCESS"]
      /\ \A r \in Reconnectors : pc[r] = "none"
  BY DEF Init, OutputInit
<1>2. Unstopped /\ NotStarted
  BY <1>1 DEF Init, OutputInit, Unstopped, NotStarted, Waiters
<1>. QED  BY <1>1, <1>2 DEF LossyInv

(* A step of a session that nobody stops.                                  *)
LEMMA StepLossy ==
    ASSUME LossyInv, TypeOK, [Next]_vars, MaxStops = 0, MaxForces = 0, EncoderMayFail = FALSE,
           SlowEncoders = FALSE
    PROVE  LossyInv'
<1>1. CASE UserStarts \/ UserStep
  BY <1>1, LossyUser
<1>2. CASE ConnectStep
  BY <1>2, LossyConnects, LossyTail, LossyRefused DEF ConnectStep, BeginStep
<1>3. CASE SendStep \/ Broken
  <2>1. ~(SendStops \/ ReconnectHalted("send"))
    BY DEF SendStops, ReconnectHalted, Halted, LossyInv, Unstopped
  <2>. QED  BY <1>3, <2>1, LossyBreaks, LossySends, LossyReconnects DEF SendStep, EndingStep
<1>4. CASE EndStep
  BY <1>4, LossyEnds
<1>5. CASE \E r \in Reconnectors : RetryThreadStep(r)
  BY <1>5, LossyRetries
<1>6. ~(UserStops \/ EncoderStops)
  <2>1. stops \in Nat /\ forces \in Nat
    BY DEF TypeOK, OutputTypeOK
  <2>2. ~(stops < MaxStops) /\ ~(forces < MaxForces)
    BY <2>1
  <2>. QED  BY <2>2 DEF UserStops, Stop, ForceStop, EncoderStops, EncoderFails
<1>7. ~EncoderStep
  <2>1. pc["encoder"] = "none"
    BY DEF LossyInv, Unstopped
  <2>. QED  BY <2>1 DEF EncoderStep, CallerStep, EncoderReports, StopStep, ResetStoppingEvent, HaltReconnect,
                JoinReconnect, EndingStep, SignalStop, EndDataCapture, Ends, EndSpawn, ReconnectHalted,
                GiveUp, Reconnect, StopIgnored, PluginStop, JoinConnect, StopStream, SetStopEvent
<1>8. CASE UNCHANGED vars
  <2>1. UNCHANGED <<active, data_active, reconnecting, stopping_event, stop_code, pc, code, signals, asked,
                    starts, reconnect_stop_event, connecting, stream_active, stop_event>>
    BY <1>8 DEF vars, outputVars, flags, local, calls, retry, stream
  <2>2. (Unstopped => Unstopped') /\ (NotStarted => NotStarted') /\ (Begun => Begun')
        /\ (Attempt => Attempt') /\ (OnAir => OnAir')
    BY <2>1 DEF Unstopped, Waiters, Off, NotStarted, Begun, Attempt, OnAir
  <2>3. (Breaking => Breaking') /\ (Waiting => Waiting') /\ (Over => Over')
    BY <2>1 DEF Waiters, Off, Leaving, Breaking, Waiting, Over
  <2>. QED  BY <2>1, <2>2, <2>3 DEF LossyInv
<1>. QED  BY <1>1, <1>2, <1>3, <1>4, <1>5, <1>6, <1>7, <1>8 DEF Next

(* What LossyInv says of the application.                                  *)
LEMMA LossyTells ==
    ASSUME LossyInv, TypeOK
    PROVE  EndIsTold
<1>1. signals = <<>> \/ \E c \in Bad : signals = <<c>>
  BY DEF LossyInv, NotStarted, Begun, Attempt, OnAir, Breaking, Waiting, Over
<1>2. OneStopSignal /\ SuccessMeansAsked
  <2>0. ~asked
    BY DEF LossyInv, Unstopped
  <2>1. ASSUME NEW c \in Bad, signals = <<c>> PROVE OneStopSignal /\ SuccessMeansAsked
    <3>1. Len(signals) = 1 /\ DOMAIN signals = {1} /\ signals[1] = c
      BY <2>1
    <3>2. c # "SUCCESS"
      BY <2>1 DEF Bad
    <3>. QED  BY <2>0, <3>1, <3>2 DEF OneStopSignal, SuccessMeansAsked
  <2>2. CASE signals = <<>>
    <3>1. Len(signals) = 0 /\ DOMAIN signals = {}
      BY <2>2
    <3>. QED  BY <3>1 DEF OneStopSignal, SuccessMeansAsked
  <2>. QED  BY <1>1, <2>1, <2>2
<1>3. ASSUME AtRest, starts > 0
      PROVE  /\ ~reconnecting /\ ~connecting /\ stream_active = active /\ data_active = active
             /\ active <=> signals = <<>>
             /\ ~active => stopping_event /\ ~stop_event
  <2>1. /\ pc["user"] = "idle" /\ pc["connect"] = "none" /\ pc["end"] = "none"
        /\ pc["send"] \in {"none", "sending"} /\ \A r \in Reconnectors : pc[r] = "none"
    <3>1. /\ pc["user"] = "idle" /\ pc["connect"] = "none" /\ pc["end"] = "none"
          /\ pc["send"] \in {"none", "sending"}
      BY <1>3 DEF AtRest
    <3>2. ASSUME NEW r \in Reconnectors PROVE pc[r] = "none"
      BY <1>3 DEF AtRest
    <3>. QED  BY <3>1, <3>2
  <2>2. Waiters = {} /\ ~connecting /\ stopping_event /\ ~stop_event
    BY <2>1 DEF Waiters, LossyInv, Unstopped
  <2>3. OnAir \/ Over
    <3>1. ~(starts = 0)
      BY <1>3
    <3>. QED  BY <2>1, <2>2, <3>1 DEF LossyInv, NotStarted, Begun, Attempt, Breaking, Waiting
  <2>4. ~reconnecting /\ (stream_active <=> active) /\ (data_active <=> active) /\ (active <=> signals = <<>>)
    <3>1. CASE OnAir
      BY <2>1, <3>1 DEF OnAir
    <3>2. CASE Over
      <4>1. PICK c \in Bad : signals = <<c>>
        BY <3>2 DEF Over
      <4>2. signals # <<>>
        BY <4>1
      <4>3. ~active /\ ~data_active /\ ~reconnecting
        BY <2>1, <3>2 DEF Over, Off
      <4>4. ~stream_active
        BY <2>1, <3>2 DEF Over, Leaving
      <4>. QED  BY <4>2, <4>3, <4>4
    <3>. QED  BY <2>3, <3>1, <3>2
  <2>5. {active, data_active, stream_active} \subseteq BOOLEAN
    BY Zenon DEF TypeOK, OutputTypeOK
  <2>6. stream_active = active /\ data_active = active
    BY <2>4, <2>5, Zenon
  <2>. QED  BY <2>2, <2>4, <2>6
<1>4. RestIsSettled
  BY <1>3, Zenon DEF RestIsSettled
<1>. QED  BY <1>2, <1>4 DEF EndIsTold

(* The "stop" signal of obs_output_signal_stop and of rtmp_stream_stop: one *)
(* per session, SUCCESS only if somebody asked for the stop, and a session *)
(* whose threads are all back is live or over.  It holds with stops at any *)
(* moment where no connection breaks, and with connections that break at   *)
(* any moment where nobody stops the output and its encoders stop within   *)
(* the retry delay; a stop that meets a disconnection can be lost.         *)
THEOREM EndsAreTold ==
    ASSUME MaxForces = 0, EncoderMayFail = FALSE,
           MaxDrops = 0 \/ (MaxStops = 0 /\ SlowEncoders = FALSE)
    PROVE  Spec => []EndIsTold
<1>1. CASE MaxDrops = 0
  <2>1. TypeOK /\ SteadyInv /\ [Next]_vars => SteadyInv'
    BY <1>1, StepSteady
  <2>2. TypeOK /\ SteadyInv => EndIsTold
    BY SteadyTells
  <2>. QED  BY InitSteady, TypeCorrect, <2>1, <2>2, PTL DEF Spec
<1>2. CASE MaxStops = 0 /\ SlowEncoders = FALSE
  <2>1. TypeOK /\ LossyInv /\ [Next]_vars => LossyInv'
    BY <1>2, StepLossy
  <2>2. TypeOK /\ LossyInv => EndIsTold
    BY LossyTells
  <2>. QED  BY InitLossy, TypeCorrect, <2>1, <2>2, PTL DEF Spec
<1>. QED  BY <1>1, <1>2
=============================================================================
