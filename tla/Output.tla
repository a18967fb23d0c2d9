-------------------------------- MODULE Output --------------------------------
(***************************************************************************)
(* The session of an output, libobs/obs-output.c: start, stop, force stop, *)
(* the end of the data capture and automatic reconnection, as run by       *)
(*                                                                         *)
(*   "user"      the application's thread (obs_output_start, _stop, ...)   *)
(*   "encoder"   a thread whose encoder fails (full_stop, obs-encoder.c)   *)
(*   "connect", "send"  the threads of the implementation of the output    *)
(*   "end"       end_data_capture_thread                                   *)
(*   Reconnectors  instances of reconnect_thread                           *)
(*                                                                         *)
(* pc[t] is where thread t stands.  No lock protects the flags of an       *)
(* output: each step reads or writes what one thread does between two      *)
(* points where another can get in.  There is no delay (delay_sec = 0).    *)
(* The labels "plugin_start", "plugin_stop" and "back" are where a thread  *)
(* is in the implementation of the output; a module that extends this one  *)
(* takes it from there.                                                    *)
(***************************************************************************)
EXTENDS Integers, FiniteSets, Sequences

CONSTANTS
    Reconnectors,   \* names for the instances of reconnect_thread
    RetryMax,       \* reconnect_retry_max; 0: never reconnects
    EncoderMayFail, \* whether an encode call may fail
    SlowEncoders,   \* whether stopping them may take longer than the retry delay
    MaxStarts,      \* bound on obs_output_start calls
    MaxStops,       \* bound on obs_output_stop calls
    MaxForces       \* bound on obs_output_force_stop calls

ASSUME ReconnectorsAssumption ==
    {"user", "encoder", "connect", "send", "end", "none"} \cap Reconnectors = {}
ASSUME RetryAssumption == RetryMax \in Nat
ASSUME FailAssumption == {EncoderMayFail, SlowEncoders} \subseteq BOOLEAN
ASSUME LimitsAssumption == {MaxStarts, MaxStops, MaxForces} \subseteq Nat

VARIABLES
    \* struct obs_output
    active, data_active, reconnecting,
    stopping_event,         \* whether it is signalled: stopping() is its negation
    stop_code,
    reconnect_stop_event,   \* whether it is signalled
    reconnect_retries, reconnect_thread, reconnect_thread_active,
    end_data_capture_thread_active,
    \* threads
    pc,
    force,                  \* force[t]: the stop in progress is immediate
    code,                   \* code[t]: the argument of obs_output_signal_stop
    \* history
    starts, stops, forces,  \* calls made so far
    failed,                 \* an encoder has failed in this session
    asked,                  \* a stop was asked for since the latest start
    signals                 \* the codes of the "stop" signals since then

flags == <<active, data_active, reconnecting>>
retry == <<reconnect_stop_event, reconnect_retries, reconnect_thread,
           reconnect_thread_active>>
local == <<force, code>>
calls == <<starts, stops, forces, failed, asked>>
outputVars == <<flags, stopping_event, stop_code, retry,
                end_data_capture_thread_active, pc, local, calls, signals>>

Callers == {"user", "encoder"}
Threads == Callers \cup {"connect", "send", "end"} \cup Reconnectors
Codes == {"SUCCESS", "CONNECT_FAILED", "DISCONNECTED", "ENCODE_ERROR"}

Go(t, l) == pc' = [pc EXCEPT ![t] = l]
At(t, l) == pc[t] = l

\* Where a thread goes on after a call into libobs that ended the session.
Return(t) == IF t = "user" THEN "idle" ELSE "back"

-----------------------------------------------------------------------------

OutputInit ==
    /\ active = FALSE /\ data_active = FALSE /\ reconnecting = FALSE
    /\ stopping_event = TRUE /\ stop_code = "SUCCESS"
    /\ reconnect_stop_event = FALSE /\ reconnect_retries = 0
    /\ reconnect_thread = "none" /\ reconnect_thread_active = FALSE
    /\ end_data_capture_thread_active = FALSE
    /\ pc = [t \in Threads |-> IF t = "user" THEN "idle" ELSE "none"]
    /\ force = [t \in Callers |-> FALSE]
    /\ code = [t \in Threads |-> "SUCCESS"]
    /\ starts = 0 /\ stops = 0 /\ forces = 0
    /\ failed = FALSE /\ asked = FALSE /\ signals = <<>>

-----------------------------------------------------------------------------
(* obs_output_start, obs_output_actual_start                               *)

\* obs_output_start
Start ==
    /\ At("user", "idle") /\ starts < MaxStarts
    /\ starts' = starts + 1
    /\ asked' = FALSE /\ signals' = <<>> /\ failed' = FALSE
    /\ Go("user", "wait_event")
    /\ UNCHANGED <<flags, stopping_event, stop_code, retry,
                   end_data_capture_thread_active, local, stops, forces>>

\* obs_output_actual_start: of the caller, or of a reconnect thread.
WaitStoppingEvent(t) ==
    /\ At(t, "wait_event") /\ stopping_event
    /\ stop_code' = "SUCCESS"
    /\ Go(t, "plugin_start")
    /\ UNCHANGED <<flags, stopping_event, retry, end_data_capture_thread_active,
                   local, calls, signals>>

-----------------------------------------------------------------------------
(* obs_output_stop, obs_output_force_stop, obs_output_actual_stop          *)

BeginStop(t, immediately) ==
    /\ force' = [force EXCEPT ![t] = immediately]
    /\ asked' = TRUE
    /\ Go(t, "reset_event")

\* obs_output_stop of an output that is active or reconnecting.
Stop ==
    /\ At("user", "idle") /\ stops < MaxStops
    /\ stops' = stops + 1
    /\ \/ reconnecting
       \/ active /\ stopping_event
    /\ BeginStop("user", reconnecting)
    /\ stop_code' = IF reconnecting /\ stopping_event THEN "SUCCESS" ELSE stop_code
    /\ UNCHANGED <<flags, stopping_event, retry, end_data_capture_thread_active,
                   code, starts, forces, failed, signals>>

\* obs_output_force_stop
ForceStop ==
    /\ At("user", "idle") /\ forces < MaxForces /\ starts > 0
    /\ forces' = forces + 1
    /\ BeginStop("user", TRUE)
    /\ stop_code' = IF stopping_event THEN "SUCCESS" ELSE stop_code
    /\ UNCHANGED <<flags, stopping_event, retry, end_data_capture_thread_active,
                   code, starts, stops, failed, signals>>

\* full_stop of an encoder that delivers packets.
EncoderFails ==
    /\ EncoderMayFail /\ ~failed
    /\ At("encoder", "none") /\ active /\ data_active
    /\ failed' = TRUE
    /\ BeginStop("encoder", TRUE)
    /\ stop_code' = IF stopping_event THEN "SUCCESS" ELSE stop_code
    /\ UNCHANGED <<flags, stopping_event, retry, end_data_capture_thread_active,
                   code, starts, stops, forces, signals>>

\* obs_output_actual_stop, up to the join of the reconnect thread.
ResetStoppingEvent(t) ==
    /\ At(t, "reset_event")
    /\ stopping_event' = FALSE
    /\ Go(t, "halt_reconnect")
    /\ UNCHANGED <<flags, stop_code, retry, end_data_capture_thread_active, local,
                   calls, signals>>

HaltReconnect(t) ==
    /\ At(t, "halt_reconnect")
    /\ reconnect_stop_event' = (reconnect_stop_event \/ reconnecting)
    /\ Go(t, IF reconnecting /\ reconnect_thread_active
             THEN "join_reconnect" ELSE "plugin_stop")
    /\ UNCHANGED <<flags, stopping_event, stop_code, reconnect_retries,
                   reconnect_thread, reconnect_thread_active,
                   end_data_capture_thread_active, local, calls, signals>>

JoinReconnect(t) ==
    /\ At(t, "join_reconnect") /\ At(reconnect_thread, "none")
    /\ Go(t, "plugin_stop")
    /\ UNCHANGED <<flags, stopping_event, stop_code, retry,
                   end_data_capture_thread_active, local, calls, signals>>

-----------------------------------------------------------------------------
(* obs_output_begin_data_capture, on the connect thread.                   *)

BeginDataCapture ==
    /\ At("connect", "begin")
    /\ IF active
       THEN Go("connect", "back") /\ UNCHANGED data_active
       ELSE Go("connect", "begin_active") /\ data_active' = TRUE
    /\ UNCHANGED <<active, reconnecting, stopping_event, stop_code, retry,
                   end_data_capture_thread_active, local, calls, signals>>

BeginActive ==
    /\ At("connect", "begin_active")
    /\ active' = TRUE
    /\ Go("connect", "begin_signal")
    /\ UNCHANGED <<data_active, reconnecting, stopping_event, stop_code, retry,
                   end_data_capture_thread_active, local, calls, signals>>

\* Signals "start", or "reconnect_success".
BeginSignal ==
    /\ At("connect", "begin_signal")
    /\ reconnecting' = FALSE
    /\ Go("connect", "back")
    /\ UNCHANGED <<active, data_active, stopping_event, stop_code, retry,
                   end_data_capture_thread_active, local, calls, signals>>

-----------------------------------------------------------------------------
(* obs_output_signal_stop, obs_output_end_data_capture_internal            *)

CanReconnect(t) == \/ reconnecting /\ code[t] # "SUCCESS"
                   \/ RetryMax > 0 /\ code[t] = "DISCONNECTED"

\* Mut: keeps the code of an earlier call.
RecordedMut(t) == stop_code

\* output->stop_code = code
Recorded(t) == code[t]

\* obs_output_signal_stop.  "end_capture": with the "stop" signal;
\* "end_quietly": without, and output_reconnect comes next.
SignalStop(t) ==
    /\ At(t, "signal_stop")
    /\ stop_code' = Recorded(t)
    /\ IF CanReconnect(t)
       THEN Go(t, "end_quietly") /\ UNCHANGED reconnecting
       ELSE Go(t, "end_capture") /\ reconnecting' = FALSE
    /\ UNCHANGED <<active, data_active, stopping_event, retry,
                   end_data_capture_thread_active, local, calls, signals>>

Ends(t) == At(t, "end_capture") \/ At(t, "end_quietly")

\* signal_stop, and stop_code is reset.
Announce == /\ signals' = Append(signals, stop_code)
            /\ stop_code' = "SUCCESS"

\* signal = false: the output is about to reconnect.
Silent == UNCHANGED <<signals, stop_code>>

\* There is no capture to end.
EndNothing(t) ==
    IF At(t, "end_capture")
    THEN Announce /\ stopping_event' = TRUE /\ Go(t, Return(t))
    ELSE Silent /\ UNCHANGED stopping_event /\ Go(t, "reconnect")

\* Mut: leaves data_active to the thread that ends the capture.
CaptureOffMut == data_active

\* os_atomic_set_bool(&output->data_active, false)
CaptureOff == FALSE

EndDataCapture(t) ==
    /\ Ends(t)
    /\ IF ~active \/ ~data_active
       THEN EndNothing(t) /\ UNCHANGED data_active
       ELSE /\ data_active' = CaptureOff
            /\ Go(t, IF At(t, "end_capture") THEN "end_spawn" ELSE "end_spawn_quietly")
            /\ UNCHANGED <<signals, stop_code, stopping_event>>
    /\ UNCHANGED <<active, reconnecting, retry, end_data_capture_thread_active,
                   local, calls>>

\* Joins the thread that ended an earlier capture and starts the next one.
EndSpawn(t) ==
    /\ At(t, "end_spawn") \/ At(t, "end_spawn_quietly")
    /\ At("end", "none")
    /\ end_data_capture_thread_active' = TRUE
    /\ IF At(t, "end_spawn")
       THEN /\ Announce
            /\ pc' = [pc EXCEPT !["end"] = "end_active", ![t] = Return(t)]
       ELSE /\ Silent
            /\ pc' = [pc EXCEPT !["end"] = "end_active", ![t] = "reconnect"]
    /\ UNCHANGED <<flags, stopping_event, retry, local, calls>>

(* end_data_capture_thread: the encoders have been stopped.                *)

EndActive ==
    /\ At("end", "end_active")
    /\ active' = FALSE
    /\ Go("end", "end_signal")
    /\ UNCHANGED <<data_active, reconnecting, stopping_event, stop_code, retry,
                   end_data_capture_thread_active, local, calls, signals>>

\* Mut: forgets to say that the stop is over.
CaptureEndedMut == stopping_event

\* os_event_signal(output->stopping_event)
CaptureEnded == TRUE

EndSignal ==
    /\ At("end", "end_signal")
    /\ stopping_event' = CaptureEnded
    /\ Go("end", "end_flag")
    /\ UNCHANGED <<flags, stop_code, retry, end_data_capture_thread_active, local,
                   calls, signals>>

EndFlag ==
    /\ At("end", "end_flag")
    /\ end_data_capture_thread_active' = FALSE
    /\ Go("end", "none")
    /\ UNCHANGED <<flags, stopping_event, stop_code, retry, local, calls, signals>>

-----------------------------------------------------------------------------
(* output_reconnect, reconnect_thread                                      *)

Halted == reconnecting /\ reconnect_stop_event
Retries == IF reconnecting THEN reconnect_retries ELSE 0

\* Mut: one retry too many.
MayRetryMut == Retries <= RetryMax

\* reconnect_retries < reconnect_retry_max
MayRetry == Retries < RetryMax

\* Mut: gives up without a word to obs_output_active.
GaveUpMut == reconnecting

\* os_atomic_set_bool(&output->reconnecting, false)
GaveUp == FALSE

\* A stop came in: output_reconnect leaves the rest to it.
ReconnectHalted(t) ==
    /\ At(t, "reconnect") /\ Halted
    /\ reconnecting' = FALSE
    /\ Go(t, Return(t))
    /\ UNCHANGED <<active, data_active, stopping_event, stop_code, retry,
                   end_data_capture_thread_active, local, calls, signals>>

\* Out of retries: stops for good.
GiveUp(t) ==
    /\ At(t, "reconnect") /\ ~Halted /\ ~MayRetry
    /\ reconnect_retries' = Retries
    /\ stop_code' = "DISCONNECTED" /\ reconnecting' = GaveUp
    /\ Go(t, "end_capture")
    /\ UNCHANGED <<active, data_active, stopping_event, reconnect_stop_event,
                   reconnect_thread, reconnect_thread_active,
                   end_data_capture_thread_active, local, calls, signals>>

Reconnect(t, r) ==
    /\ At(t, "reconnect") /\ ~Halted /\ MayRetry
    /\ At(r, "none")
    /\ reconnect_retries' = Retries + 1
    /\ reconnecting' = TRUE
    /\ reconnect_stop_event' = (reconnect_stop_event /\ reconnecting)
    /\ stop_code' = "DISCONNECTED"
    /\ reconnect_thread' = r
    /\ pc' = [pc EXCEPT ![t] = Return(t), ![r] = "r_begin"]
    /\ UNCHANGED <<active, data_active, stopping_event, reconnect_thread_active,
                   end_data_capture_thread_active, local, calls, signals>>

RetryBegin(r) ==
    /\ At(r, "r_begin")
    /\ reconnect_thread_active' = TRUE
    /\ Go(r, "r_wait")
    /\ UNCHANGED <<flags, stopping_event, stop_code, reconnect_stop_event,
                   reconnect_retries, reconnect_thread,
                   end_data_capture_thread_active, local, calls, signals>>

\* The retry delay takes seconds: the thread that asked for the retry is
\* long done, and so is a stop that began before it did.
DelayIsOver ==
    /\ At("connect", "none") /\ At("send", "none")
    /\ SlowEncoders \/ At("end", "none")
    /\ \A t \in Callers : pc[t] \in {"idle", "none", "reset_event", "halt_reconnect"}

\* The delay is over and nobody has stopped the output.
RetryTimeout(r) ==
    /\ At(r, "r_wait") /\ ~reconnect_stop_event
    /\ DelayIsOver
    /\ Go(r, "wait_event")
    /\ UNCHANGED <<flags, stopping_event, stop_code, retry,
                   end_data_capture_thread_active, local, calls, signals>>

RetryHalted(r) ==
    /\ At(r, "r_wait") /\ reconnect_stop_event
    /\ Go(r, "r_check")
    /\ UNCHANGED <<flags, stopping_event, stop_code, retry,
                   end_data_capture_thread_active, local, calls, signals>>

RetryCheck(r) ==
    /\ At(r, "r_check")
    /\ reconnecting' = (reconnecting /\ ~reconnect_stop_event)
    /\ Go(r, "r_end")
    /\ UNCHANGED <<active, data_active, stopping_event, stop_code, retry,
                   end_data_capture_thread_active, local, calls, signals>>

RetryEnd(r) ==
    /\ At(r, "r_end")
    /\ reconnect_thread_active' = FALSE
    /\ Go(r, "none")
    /\ UNCHANGED <<flags, stopping_event, stop_code, reconnect_stop_event,
                   reconnect_retries, reconnect_thread,
                   end_data_capture_thread_active, local, calls, signals>>

-----------------------------------------------------------------------------

\* The steps of thread t in libobs, once it is in a call.
StopStep(t) == ResetStoppingEvent(t) \/ HaltReconnect(t) \/ JoinReconnect(t)
BeginStep == BeginDataCapture \/ BeginActive \/ BeginSignal
EndingStep(t) == \/ SignalStop(t) \/ EndDataCapture(t) \/ EndSpawn(t)
                 \/ ReconnectHalted(t) \/ GiveUp(t)
                 \/ \E r \in Reconnectors : Reconnect(t, r)
EndThreadStep == EndActive \/ EndSignal \/ EndFlag
RetryStep(r) == \/ RetryBegin(r) \/ RetryTimeout(r) \/ RetryHalted(r)
                \/ RetryCheck(r) \/ RetryEnd(r) \/ WaitStoppingEvent(r)

OutputTypeOK ==
    /\ {active, data_active, reconnecting, stopping_event} \subseteq BOOLEAN
    /\ {reconnect_stop_event, reconnect_thread_active,
        end_data_capture_thread_active} \subseteq BOOLEAN
    /\ stop_code \in Codes
    /\ reconnect_retries \in 0..RetryMax
    /\ reconnect_thread \in Reconnectors \cup {"none"}
    /\ force \in [Callers -> BOOLEAN] /\ code \in [Threads -> Codes]
    /\ {starts, stops, forces} \subseteq Nat
    /\ {failed, asked} \subseteq BOOLEAN
=============================================================================
