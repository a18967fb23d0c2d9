------------------------------ MODULE RtmpStream ------------------------------
(***************************************************************************)
(* The RTMP output, plugins/obs-outputs/rtmp-stream.c, as an output of     *)
(* libobs: its connect thread, its send thread and the stop of both,       *)
(* composed with the session of the output (Output).  Packets, bitrates    *)
(* and the contents of the connection are left out; the network may refuse *)
(* a connection or break it.                                               *)
(***************************************************************************)
EXTENDS Output

CONSTANTS
    MaxRefusals,    \* bound on connections refused
    MaxDrops        \* bound on connections broken

ASSUME NetworkAssumption == {MaxRefusals, MaxDrops} \subseteq Nat

VARIABLES
    \* struct rtmp_stream
    connecting,
    stream_active,  \* stream->active
    stop_event,     \* whether it is signalled
    stop_now,       \* stop_ts = 0
    disconnected, encode_error,
    \* send_thread's local
    saw_error,
    \* the network
    refusals, drops

stream == <<connecting, stream_active, stop_event, stop_now, disconnected,
            encode_error, saw_error>>
network == <<refusals, drops>>
vars == <<outputVars, stream, network>>

\* What the plugin's steps leave alone in the output.
outputRest == <<flags, stopping_event, stop_code, retry,
                end_data_capture_thread_active, force, calls, signals>>

Init ==
    /\ OutputInit
    /\ connecting = FALSE /\ stream_active = FALSE /\ stop_event = FALSE
    /\ stop_now = FALSE /\ disconnected = FALSE /\ encode_error = FALSE
    /\ saw_error = FALSE
    /\ refusals = 0 /\ drops = 0

\* obs_output_signal_stop is called with this code.
CallSignalStop(t, c) == Go(t, "signal_stop") /\ code' = [code EXCEPT ![t] = c]

-----------------------------------------------------------------------------
(* rtmp_stream_start                                                       *)

\* obs_output_actual_start is over.
Started(t) == IF t = "user" THEN "idle" ELSE "r_check"

\* obs_output_can_begin_data_capture refuses: data is still captured.
StartRefused(t) ==
    /\ At(t, "plugin_start") /\ active
    /\ Go(t, Started(t))
    /\ UNCHANGED <<outputRest, code, stream, network>>

StartConnecting(t) ==
    /\ At(t, "plugin_start") /\ ~active /\ At("end", "none")
    /\ At("connect", "none")
    /\ connecting' = TRUE
    /\ pc' = [pc EXCEPT ![t] = Started(t), !["connect"] = "init_connect"]
    /\ UNCHANGED <<outputRest, code, stream_active, stop_event, stop_now,
                   disconnected, encode_error, saw_error, network>>

-----------------------------------------------------------------------------
(* connect_thread                                                          *)

\* init_connect
InitConnect ==
    /\ At("connect", "init_connect")
    /\ stop_event => At("send", "none")
    /\ disconnected' = FALSE /\ encode_error' = FALSE
    /\ Go("connect", "try_connect")
    /\ UNCHANGED <<outputRest, code, connecting, stream_active, stop_event,
                   stop_now, saw_error, network>>

Refused ==
    /\ At("connect", "try_connect") /\ refusals < MaxRefusals
    /\ refusals' = refusals + 1
    /\ CallSignalStop("connect", "CONNECT_FAILED")
    /\ UNCHANGED <<outputRest, stream, drops>>

\* try_connect, init_send: the send thread is created before the stream is
\* active.
Connected ==
    /\ At("connect", "try_connect") /\ At("send", "none")
    /\ pc' = [pc EXCEPT !["connect"] = "go_active", !["send"] = "sending"]
    /\ UNCHANGED <<outputRest, code, stream, network>>

GoActive ==
    /\ At("connect", "go_active")
    /\ stream_active' = TRUE
    /\ Go("connect", "begin")
    /\ UNCHANGED <<outputRest, code, connecting, stop_event, stop_now,
                   disconnected, encode_error, saw_error, network>>

\* Detaches itself unless somebody will join it.
ConnectTail ==
    /\ At("connect", "back")
    /\ Go("connect", IF stop_event THEN "joinable" ELSE "detached")
    /\ UNCHANGED <<outputRest, code, stream, network>>

ConnectDone ==
    /\ At("connect", "joinable") \/ At("connect", "detached")
    /\ connecting' = FALSE
    /\ Go("connect", "none")
    /\ UNCHANGED <<outputRest, code, stream_active, stop_event, stop_now,
                   disconnected, encode_error, saw_error, network>>

-----------------------------------------------------------------------------
(* send_thread                                                             *)

Broken ==
    /\ At("send", "sending") /\ active /\ data_active /\ drops < MaxDrops
    /\ drops' = drops + 1
    /\ disconnected' = TRUE
    /\ Go("send", "leave")
    /\ UNCHANGED <<outputRest, code, connecting, stream_active, stop_event,
                   stop_now, encode_error, saw_error, refusals>>

\* Stops at once, or with the packet that is past stop_ts.
SendStops ==
    /\ At("send", "sending") /\ stop_event
    /\ stop_now \/ (active /\ data_active)
    /\ Go("send", "leave")
    /\ UNCHANGED <<outputRest, code, stream, network>>

\* Reads encode_error, then says goodbye to the server.
Leave ==
    /\ At("send", "leave")
    /\ saw_error' = encode_error
    /\ Go("send", "report")
    /\ UNCHANGED <<outputRest, code, connecting, stream_active, stop_event,
                   stop_now, disconnected, encode_error, network>>

\* Mut: reports every end as a disconnection, a stop too.
ReportMut == CallSignalStop("send", "DISCONNECTED")

Report ==
    \/ ~stop_event /\ CallSignalStop("send", "DISCONNECTED")
    \/ stop_event /\ saw_error /\ CallSignalStop("send", "ENCODE_ERROR")
    \/ stop_event /\ ~saw_error /\ Go("send", "end_capture") /\ UNCHANGED code

SendReport ==
    /\ At("send", "report")
    /\ Report
    /\ UNCHANGED <<outputRest, stream, network>>

SendCleanup ==
    /\ At("send", "back")
    /\ stop_event' = FALSE
    /\ Go("send", "go_inactive")
    /\ UNCHANGED <<outputRest, code, connecting, stream_active, stop_now,
                   disconnected, encode_error, saw_error, network>>

GoInactive ==
    /\ At("send", "go_inactive")
    /\ stream_active' = FALSE
    /\ Go("send", "none")
    /\ UNCHANGED <<outputRest, code, connecting, stop_event, stop_now,
                   disconnected, encode_error, saw_error, network>>

-----------------------------------------------------------------------------
(* rtmp_stream_stop, on the thread that stops the output                   *)

StopIgnored(t) ==
    /\ At(t, "plugin_stop") /\ stop_event /\ ~force[t]
    /\ Go(t, Return(t))
    /\ UNCHANGED <<outputRest, code, stream, network>>

PluginStop(t) ==
    /\ At(t, "plugin_stop") /\ ~(stop_event /\ ~force[t])
    /\ Go(t, IF connecting THEN "join_connect" ELSE "stop_stream")
    /\ UNCHANGED <<outputRest, code, stream, network>>

\* The join of a thread that is detached does not wait for it.
JoinConnect(t) ==
    /\ At(t, "join_connect")
    /\ At("connect", "none") \/ At("connect", "detached")
    /\ Go(t, "stop_stream")
    /\ UNCHANGED <<outputRest, code, stream, network>>

StopStream(t) ==
    /\ At(t, "stop_stream")
    /\ stop_now' = force[t]
    /\ IF stream_active
       THEN Go(t, "set_stop_event") /\ UNCHANGED code
       ELSE CallSignalStop(t, "SUCCESS")
    /\ UNCHANGED <<outputRest, connecting, stream_active, stop_event, disconnected,
                   encode_error, saw_error, network>>

\* Mut: signals the stop itself although the send thread will.
AfterStopEventMut(t) == "signal_stop"

\* The send thread does the rest.
AfterStopEvent(t) == Return(t)

SetStopEvent(t) ==
    /\ At(t, "set_stop_event")
    /\ stop_event' = TRUE
    /\ Go(t, AfterStopEvent(t))
    /\ UNCHANGED <<outputRest, code, connecting, stream_active, stop_now,
                   disconnected, encode_error, saw_error, network>>

\* full_stop goes on: rtmp_stream_data is called with no packet.
EncoderReports ==
    /\ At("encoder", "back")
    /\ encode_error' = (encode_error \/ (stream_active /\ ~disconnected))
    /\ Go("encoder", "none")
    /\ UNCHANGED <<outputRest, code, connecting, stream_active, stop_event,
                   stop_now, disconnected, saw_error, network>>

-----------------------------------------------------------------------------

\* The application starts an output that is down; the last instructions of
\* the threads of the previous session are over by then.
UserStarts ==
    /\ ~active /\ ~reconnecting
    /\ starts > 0 => signals # <<>>
    /\ At("connect", "none") /\ At("send", "none")
    /\ Start
    /\ UNCHANGED <<stream, network>>

UserStops == (Stop \/ ForceStop) /\ UNCHANGED <<stream, network>>
EncoderStops == EncoderFails /\ UNCHANGED <<stream, network>>

CallerStep(t) ==
    \/ (StopStep(t) \/ EndingStep(t)) /\ UNCHANGED <<stream, network>>
    \/ StopIgnored(t) \/ PluginStop(t) \/ JoinConnect(t) \/ StopStream(t)
    \/ SetStopEvent(t)

UserStep ==
    \/ CallerStep("user")
    \/ WaitStoppingEvent("user") /\ UNCHANGED <<stream, network>>
    \/ StartRefused("user") \/ StartConnecting("user")

EncoderStep == CallerStep("encoder") \/ EncoderReports

ConnectStep ==
    \/ (BeginStep \/ EndingStep("connect")) /\ UNCHANGED <<stream, network>>
    \/ InitConnect \/ Refused \/ Connected \/ GoActive \/ ConnectTail \/ ConnectDone

SendStep ==
    \/ EndingStep("send") /\ UNCHANGED <<stream, network>>
    \/ SendStops \/ Leave \/ SendReport \/ SendCleanup \/ GoInactive

EndStep == EndThreadStep /\ UNCHANGED <<stream, network>>

RetryThreadStep(r) ==
    \/ RetryStep(r) /\ UNCHANGED <<stream, network>>
    \/ StartRefused(r) \/ StartConnecting(r)

Next == \/ UserStarts \/ UserStops \/ EncoderStops \/ Broken
        \/ UserStep \/ EncoderStep \/ ConnectStep \/ SendStep \/ EndStep
        \/ \E r \in Reconnectors : RetryThreadStep(r)

Spec == Init /\ [][Next]_vars

\* Threads run: what they wait for may never come, but they do not stop by
\* themselves.  Nobody has to start, stop or break anything.
Fairness ==
    /\ WF_vars(UserStep) /\ WF_vars(EncoderStep) /\ WF_vars(ConnectStep)
    /\ WF_vars(SendStep) /\ WF_vars(EndStep)
    /\ \A r \in Reconnectors : WF_vars(RetryThreadStep(r))

FairSpec == Spec /\ Fairness

-----------------------------------------------------------------------------
(* Properties *)

\* No thread is in a call; the send thread may wait for packets.
AtRest ==
    \A t \in Threads : \/ At(t, IF t = "user" THEN "idle" ELSE "none")
                       \/ t = "send" /\ At(t, "sending") /\ ~stop_event

TypeOK ==
    /\ OutputTypeOK
    /\ {connecting, stream_active, stop_event, stop_now} \subseteq BOOLEAN
    /\ {disconnected, encode_error, saw_error} \subseteq BOOLEAN
    /\ {refusals, drops} \subseteq Nat

\* One "stop" signal per session: the application that hears it may start the
\* output again, and takes a second one for the end of that session.
OneStopSignal == Len(signals) <= 1

\* When no thread is inside a call, the output either delivers data on a live
\* stream, or it is down, the application knows, and it can be started again.
RestIsSettled ==
    AtRest /\ starts > 0 =>
        /\ ~reconnecting /\ ~connecting
        /\ stream_active = active /\ data_active = active
        /\ active <=> signals = <<>>
        /\ ~active => stopping_event /\ ~stop_event

\* The code of the signal tells a stop that was asked for from one that was not.
SuccessMeansAsked ==
    \A i \in DOMAIN signals : signals[i] = "SUCCESS" <=> asked

(* obs_output_signal_stop: what the application is told is what happened.  *)
(* The threads of the stream and of the output that meet in the end of a   *)
(* session tell it once and with the right code, and never leave a session *)
(* behind that is neither live nor over.                                   *)
EndIsTold == OneStopSignal /\ SuccessMeansAsked /\ RestIsSettled

(* The encoders are stopped by the end of one capture before the next one  *)
(* begins with them: end_data_capture_thread stops the encoders of the     *)
(* output, whoever started them.                                           *)
CapturesDoNotOverlap == At("end", "end_active") => ~data_active

(* obs_output_stop: after it, the output does not go on by itself.         *)
StopIsObeyed == asked /\ AtRest => ~active /\ ~reconnecting

\* obs_output_stop comes back to the application.
StopReturns == At("user", "reset_event") ~> At("user", "idle")

\* obs_output_start comes back to the application.
StartReturns == At("user", "wait_event") ~> At("user", "idle")

\* A session that is to stop does: the application is told so.
StopIsAnswered == asked ~> signals # <<>>

(* obs_output_start and obs_output_stop wait for events and join threads;  *)
(* they come back to the application, whatever it has interrupted, and the *)
(* stop signal follows.                                                    *)
CallsAreAnswered == StartReturns /\ StopReturns /\ StopIsAnswered

(* A reconnecting output reconnects or gives up.                           *)
ReconnectEnds == reconnecting ~> (~reconnecting /\ (data_active \/ signals # <<>>))
=============================================================================
