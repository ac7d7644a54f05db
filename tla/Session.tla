------------------------------ MODULE Session ------------------------------
(***************************************************************************)
(* The Remote Play session orchestrator of src/lib/src/session.c.          *)
(*                                                                         *)
(* One module for the session object and the threads that share its       *)
(* state_mutex:                                                            *)
(*   - the embedder thread calling the public API (init, start, stop,     *)
(*     set_login_pin, join, fini);                                         *)
(*   - the session thread running session_thread_func, with the           *)
(*     request-session client session_thread_request_session inlined as   *)
(*     the steps between its blocking calls;                               *)
(*   - the control channel (ctrl) thread, an external collaborator that   *)
(*     sets ctrl_failed, ctrl_session_id_received and                      *)
(*     ctrl_login_pin_requested under state_mutex;                         *)
(*   - the stream connection, whose blocking run() ends on a remote event *)
(*     or after chiaki_stream_connection_stop.                             *)
(*                                                                         *)
(* state_mutex is not a variable: the session thread holds it everywhere  *)
(* except at the program counters in MutexReleased (the waits, the        *)
(* cancellable connect and recv, the stream run and the quit path), so    *)
(* every segment of code between two of those points is one atomic step, *)
(* and the other threads' locked sections are enabled only there.         *)
(***************************************************************************)
EXTENDS Naturals

CONSTANTS
    NumAddrs,        \* addresses getaddrinfo resolved for the host
    ServerVersions,  \* RP-Version strings a console may answer with
    MaxPinRequests,  \* bound on the Login PIN requests of the ctrl
    MaxPinEntries,   \* bound on the embedder's calls of set_login_pin
    InitFailures     \* the steps of chiaki_session_init that may fail

InitSteps == {"cond", "mutex", "stop_pipe", "ctrl", "stream", "addrinfo"}

ASSUME ConstantsAssumption ==
    /\ NumAddrs \in Nat \ {0}
    /\ MaxPinRequests \in Nat
    /\ MaxPinEntries \in Nat
    /\ InitFailures \subseteq InitSteps
    /\ "absent" \notin ServerVersions

-----------------------------------------------------------------------------
(* ChiakiTarget, chiaki_rp_version_string and chiaki_rp_version_parse.    *)

Targets == {"PS4_UNKNOWN", "PS4_8", "PS4_9", "PS4_10", "PS5_UNKNOWN", "PS5_1"}
UnknownTargets == {"PS4_UNKNOWN", "PS5_UNKNOWN"}
PS5Targets == {"PS5_UNKNOWN", "PS5_1"}

NULL == "NULL"

RpVersionString(t) ==
    CASE t = "PS4_8"  -> "8.0"
      [] t = "PS4_9"  -> "9.0"
      [] t = "PS4_10" -> "10.0"
      [] t = "PS5_1"  -> "1.0"
      [] OTHER        -> NULL

\* Fault variant: the "9.0" case is missing from the PS4 comparisons.
RpVersionParseNo9(s, is_ps5) ==
    IF is_ps5
    THEN IF s = "1.0" THEN "PS5_1" ELSE "PS5_UNKNOWN"
    ELSE CASE s = "8.0"  -> "PS4_8"
           [] s = "10.0" -> "PS4_10"
           [] OTHER      -> "PS4_UNKNOWN"

RpVersionParse(s, is_ps5) ==
    IF is_ps5
    THEN IF s = "1.0" THEN "PS5_1" ELSE "PS5_UNKNOWN"
    ELSE CASE s = "8.0"  -> "PS4_8"
           [] s = "9.0"  -> "PS4_9"
           [] s = "10.0" -> "PS4_10"
           [] OTHER      -> "PS4_UNKNOWN"

QuitReasons ==
    {"NONE", "STOPPED", "SESSION_REQUEST_UNKNOWN",
     "SESSION_REQUEST_CONNECTION_REFUSED", "SESSION_REQUEST_RP_IN_USE",
     "SESSION_REQUEST_RP_CRASH", "SESSION_REQUEST_RP_VERSION_MISMATCH",
     "CTRL_UNKNOWN", "CTRL_CONNECTION_REFUSED", "CTRL_CONNECT_FAILED",
     "STREAM_CONNECTION_UNKNOWN", "STREAM_CONNECTION_REMOTE_DISCONNECTED"}

\* The quit reasons the request-session client assigns.
RequestQuitReasons ==
    {"SESSION_REQUEST_UNKNOWN", "SESSION_REQUEST_CONNECTION_REFUSED",
     "SESSION_REQUEST_RP_IN_USE", "SESSION_REQUEST_RP_CRASH",
     "SESSION_REQUEST_RP_VERSION_MISMATCH"}

\* Error codes session_thread_request_session returns.
RequestResults == {"SUCCESS", "VERSION_MISMATCH", "NETWORK", "UNKNOWN", "INVALID_DATA"}

\* The parts of a session-init HTTP response parse_session_response reads:
\* whether the code is 200, the RP-Nonce header (absent, decoding to 16
\* bytes, or not), RP-Application-Reason and RP-Version. Reasons other than
\* the four the code names (REGIST_FAILED, INVALID_PSN_ID, no header) are
\* "OTHER".
AppReasons == {"IN_USE", "CRASH", "RP_VERSION", "UNKNOWN", "OTHER"}
Responses ==
    [code200 : BOOLEAN, nonce : {"absent", "valid", "invalid"},
     reason : AppReasons, version : {"absent"} \cup ServerVersions]

Resources == {"cond", "mutex", "stop_pipe", "ctrl", "stream"}

SessionPCs ==
    {"idle", "start", "cand", "connect", "recv", "req_done", "settle",
     "wait_ctrl", "wait_pin", "wait_sid", "senkusha", "stream",
     "quit_ctrl", "ctrl_join", "quit", "done"}

\* Where the session thread does not hold state_mutex.
MutexReleased ==
    {"idle", "start", "connect", "recv", "settle", "wait_ctrl", "wait_pin",
     "wait_sid", "stream", "quit_ctrl", "ctrl_join", "quit", "done"}

-----------------------------------------------------------------------------
VARIABLES
    life,            \* lifecycle of the ChiakiSession object
    acquired,        \* acquired[r]: times init acquired resource r
    released,        \* released[r]: times r was finalized
    ps5,             \* connect_info.ps5
    pc,              \* session thread program counter
    target,          \* session->target
    server_target,   \* the local server_target of session_thread_func
    attempt,         \* which session request (1..3) is running
    addr,            \* the addrinfo candidate being tried
    req_result,      \* what the last session request returned
    should_stop,     \* session->should_stop (and the tripped stop pipe)
    quit_reason,     \* session->quit_reason
    ctrl,            \* ctrl thread: "none", "running", "stopping", "exited", "joined"
    ctrl_failed,
    ctrl_session_id_received,
    ctrl_login_pin_requested,
    ctrl_pin_requests, \* PIN requests the ctrl has made
    ctrl_pins,       \* PINs the session has handed to the ctrl
    login_pin_entered,
    login_pin_entered_at, \* pin_events when the PIN in the slot was set
    pin_entries,     \* calls of set_login_pin so far
    pin_events,      \* LOGIN_PIN_REQUEST events sent
    quit_event,      \* reason carried by the QUIT event, "none" before it
    ecdh             \* session->ecdh: "none", "inited", "finalized"

lifeVars == <<life, acquired, released, ps5>>
reqVars == <<target, server_target, attempt, addr, req_result>>
ctrlVars == <<ctrl, ctrl_failed, ctrl_session_id_received,
              ctrl_login_pin_requested, ctrl_pin_requests, ctrl_pins>>
pinVars == <<login_pin_entered, login_pin_entered_at, pin_entries, pin_events>>
vars == <<lifeVars, pc, reqVars, should_stop, quit_reason, ctrlVars,
          pinVars, quit_event, ecdh>>

SessionHoldsMutex == pc \notin MutexReleased

-----------------------------------------------------------------------------
(* The object's lifecycle: chiaki_session_init / _start / _stop / _join /  *)
(* _fini and chiaki_session_set_login_pin, called by the embedder.        *)

\* Position of each step in chiaki_session_init; "none" is a successful init.
InitOrder ==
    [cond |-> 1, mutex |-> 2, stop_pipe |-> 3, ctrl |-> 4, stream |-> 5,
     addrinfo |-> 6, none |-> 7]

\* Fault variant: error_state_mutex does not fall through to error_state_cond.
InitUnwindNoFallThrough(fp) ==
    CASE fp = "mutex"     -> {"cond"}
      [] fp = "stop_pipe" -> {"mutex"}
      [] fp = "ctrl"      -> {"stop_pipe", "ctrl", "mutex", "cond"}
      [] fp = "stream"    -> {"ctrl", "mutex", "cond"}
      [] fp = "addrinfo"  -> Resources
      [] OTHER            -> {}

\* What the goto unwinding of chiaki_session_init finalizes when step fp
\* fails: the labels error_state_cond .. error_stop_pipe fall through, and a
\* getaddrinfo failure calls chiaki_session_fini.
InitUnwind(fp) ==
    CASE fp = "mutex"     -> {"cond"}
      [] fp = "stop_pipe" -> {"mutex", "cond"}
      [] fp = "ctrl"      -> {"stop_pipe", "ctrl", "mutex", "cond"}
      [] fp = "stream"    -> {"ctrl", "mutex", "cond"}
      [] fp = "addrinfo"  -> Resources
      [] OTHER            -> {}

Init ==
    /\ life = "uninit"
    /\ acquired = [r \in Resources |-> 0]
    /\ released = [r \in Resources |-> 0]
    /\ ps5 = FALSE
    /\ pc = "idle"
    /\ target = "PS4_UNKNOWN"
    /\ server_target = "PS4_UNKNOWN"
    /\ attempt = 1
    /\ addr = 1
    /\ req_result = "UNKNOWN"
    /\ should_stop = FALSE
    /\ quit_reason = "NONE"
    /\ ctrl = "none"
    /\ ctrl_failed = FALSE
    /\ ctrl_session_id_received = FALSE
    /\ ctrl_login_pin_requested = FALSE
    /\ ctrl_pin_requests = 0
    /\ ctrl_pins = 0
    /\ login_pin_entered = FALSE
    /\ login_pin_entered_at = 0
    /\ pin_entries = 0
    /\ pin_events = 0
    /\ quit_event = "none"
    /\ ecdh = "none"

SessionInit ==
    /\ life = "uninit"
    /\ \E fp \in InitFailures \cup {"none"}, is_ps5 \in BOOLEAN :
         /\ acquired' = [r \in Resources |->
                           IF InitOrder[r] < InitOrder[fp] THEN 1 ELSE 0]
         /\ released' = [r \in Resources |->
                           IF r \in InitUnwind(fp) THEN 1 ELSE 0]
         /\ life' = IF fp = "none" THEN "inited" ELSE "init_failed"
         /\ ps5' = (fp = "none" /\ is_ps5)
         /\ target' = IF is_ps5 THEN "PS5_1" ELSE "PS4_10"
    /\ UNCHANGED <<pc, server_target, attempt, addr, req_result, should_stop,
                   quit_reason, ctrlVars, pinVars, quit_event, ecdh>>

SessionStart ==
    /\ life = "inited"
    /\ life' = "started"
    /\ pc' = "start"
    /\ UNCHANGED <<acquired, released, ps5, reqVars, should_stop, quit_reason,
                   ctrlVars, pinVars, quit_event, ecdh>>

SessionStop ==
    /\ life = "started"
    /\ ~SessionHoldsMutex
    /\ should_stop' = TRUE
    /\ UNCHANGED <<lifeVars, pc, reqVars, quit_reason, ctrlVars, pinVars,
                   quit_event, ecdh>>

SessionSetLoginPin ==
    /\ life = "started"
    /\ ~SessionHoldsMutex
    /\ pin_entries < MaxPinEntries
    /\ login_pin_entered' = TRUE
    /\ login_pin_entered_at' = pin_events
    /\ pin_entries' = pin_entries + 1
    /\ UNCHANGED <<lifeVars, pc, reqVars, should_stop, quit_reason, ctrlVars,
                   pin_events, quit_event, ecdh>>

SessionJoin ==
    /\ life = "started"
    /\ pc = "done"
    /\ life' = "joined"
    /\ UNCHANGED <<acquired, released, ps5, pc, reqVars, should_stop,
                   quit_reason, ctrlVars, pinVars, quit_event, ecdh>>

SessionFini ==
    /\ life \in {"inited", "joined"}
    /\ released' = [r \in Resources |-> released[r] + 1]
    /\ life' = "finalized"
    /\ UNCHANGED <<acquired, ps5, pc, reqVars, should_stop, quit_reason,
                   ctrlVars, pinVars, quit_event, ecdh>>

-----------------------------------------------------------------------------
(* session_thread_request_session: the candidate loop, the request and    *)
(* the classification of the response.                                    *)

\* target_out is &server_target for the first two requests, NULL for the third.
HasTargetOut == attempt < 3

IsSuccess(resp) == resp.code200 /\ resp.nonce # "absent"

\* The RP-Version mismatch branch: the console names a version other than ours.
IsVersionReport(resp) ==
    /\ ~IsSuccess(resp)
    /\ resp.reason \in {"RP_VERSION", "UNKNOWN"}
    /\ HasTargetOut
    /\ resp.version # "absent"
    /\ resp.version # RpVersionString(target)

ApplicationReasonQuit(reason) ==
    CASE reason = "IN_USE"     -> "SESSION_REQUEST_RP_IN_USE"
      [] reason = "CRASH"      -> "SESSION_REQUEST_RP_CRASH"
      [] reason = "RP_VERSION" -> "SESSION_REQUEST_RP_VERSION_MISMATCH"
      [] OTHER                 -> "SESSION_REQUEST_UNKNOWN"

\* The request returns err, having set the quit reason to qr.
RequestFails(qr, err) ==
    /\ quit_reason' = qr
    /\ req_result' = err
    /\ pc' = "req_done"

\* No candidate connected: the quit reason is kept unless it is NONE.
RequestNoSocket ==
    RequestFails(IF quit_reason = "NONE" THEN "SESSION_REQUEST_UNKNOWN"
                                         ELSE quit_reason,
                 "NETWORK")

\* Fault variant: a skipped candidate is not checked against the end of the list.
RequestCandidatePastEnd ==
    /\ pc = "cand"
    /\ \/ /\ addr <= NumAddrs
          /\ pc' = "connect"
          /\ UNCHANGED <<addr, req_result, quit_reason>>
       \/ /\ addr' = addr + 1
          /\ UNCHANGED <<pc, req_result, quit_reason>>
       \/ /\ addr > NumAddrs
          /\ RequestNoSocket
          /\ UNCHANGED addr
    /\ UNCHANGED <<lifeVars, target, server_target, attempt, should_stop,
                   ctrlVars, pinVars, quit_event, ecdh>>

RequestCandidate ==
    /\ pc = "cand"
    /\ \/ /\ addr <= NumAddrs
          /\ pc' = "connect"
          /\ UNCHANGED <<addr, req_result, quit_reason>>
       \/ /\ addr <= NumAddrs           \* malloc, family, getnameinfo or socket failed
          /\ addr' = addr + 1
          /\ UNCHANGED <<pc, req_result, quit_reason>>
       \/ /\ addr > NumAddrs
          /\ RequestNoSocket
          /\ UNCHANGED addr
    /\ UNCHANGED <<lifeVars, target, server_target, attempt, should_stop,
                   ctrlVars, pinVars, quit_event, ecdh>>

\* Connected: the request is formatted and sent with state_mutex held.
\* (No version string for the target returns INVALID_DATA; TargetKnown
\* shows that this early return is never taken.)
RequestSend ==
    IF RpVersionString(target) = NULL
    THEN RequestFails("SESSION_REQUEST_UNKNOWN", "INVALID_DATA")
    ELSE \/ RequestFails("SESSION_REQUEST_UNKNOWN", "NETWORK") \* send() failed
         \/ /\ pc' = "recv"
            /\ UNCHANGED <<quit_reason, req_result>>

\* chiaki_stop_pipe_connect returns and state_mutex is locked again.
RequestConnectReturns ==
    /\ pc = "connect"
    /\ \/ /\ should_stop                \* CANCELED: break out of the loop
          /\ RequestFails("STOPPED", "NETWORK")
          /\ UNCHANGED addr
       \/ /\ quit_reason' = "SESSION_REQUEST_CONNECTION_REFUSED"
          /\ addr' = addr + 1
          /\ pc' = "cand"
          /\ UNCHANGED req_result
       \/ /\ quit_reason' = "NONE"      \* any other connect error
          /\ addr' = addr + 1
          /\ pc' = "cand"
          /\ UNCHANGED req_result
       \/ /\ RequestSend
          /\ UNCHANGED addr
    /\ UNCHANGED <<lifeVars, target, server_target, attempt, should_stop,
                   ctrlVars, pinVars, quit_event, ecdh>>

\* The classification of a parsed response.
ApplyResponse(resp) ==
    \/ /\ IsSuccess(resp) /\ resp.nonce = "valid"
       /\ req_result' = "SUCCESS"
       /\ UNCHANGED <<quit_reason, server_target>>
    \/ /\ IsSuccess(resp) /\ resp.nonce = "invalid"
       /\ req_result' = "UNKNOWN"
       /\ quit_reason' = "SESSION_REQUEST_UNKNOWN"
       /\ UNCHANGED server_target
    \/ /\ IsVersionReport(resp)
       /\ req_result' = "VERSION_MISMATCH"
       /\ LET parsed == RpVersionParse(resp.version, ps5) IN
          \/ /\ parsed \notin UnknownTargets
             /\ server_target' = parsed
             /\ UNCHANGED quit_reason
          \/ /\ parsed \in UnknownTargets /\ resp.version = "5.0"
             /\ server_target' = "PS4_9"
             /\ UNCHANGED quit_reason
          \/ /\ parsed \in UnknownTargets /\ resp.version # "5.0"
             /\ server_target' = parsed
             /\ quit_reason' = "SESSION_REQUEST_RP_VERSION_MISMATCH"
    \/ /\ ~IsSuccess(resp) /\ ~IsVersionReport(resp)
       /\ quit_reason' = ApplicationReasonQuit(resp.reason)
       /\ req_result' = IF resp.reason = "RP_VERSION" THEN "VERSION_MISMATCH"
                                                      ELSE "UNKNOWN"
       /\ UNCHANGED server_target

\* chiaki_recv_http_header returns and state_mutex is locked again.
RequestRecvReturns ==
    /\ pc = "recv"
    /\ \/ /\ should_stop                \* CANCELED
          /\ RequestFails("STOPPED", "NETWORK")
          /\ UNCHANGED server_target
       \/ /\ RequestFails("SESSION_REQUEST_UNKNOWN", "NETWORK") \* timeout, error, parse
          /\ UNCHANGED server_target
       \/ /\ \E resp \in Responses : ApplyResponse(resp)
          /\ pc' = "req_done"
    /\ UNCHANGED <<lifeVars, target, attempt, addr, should_stop, ctrlVars,
                   pinVars, quit_event, ecdh>>

-----------------------------------------------------------------------------
(* session_thread_func.                                                   *)

\* The first step of the thread: lock state_mutex and CHECK_STOP(quit).
ThreadStart ==
    /\ pc = "start"
    /\ \/ /\ should_stop
          /\ quit_reason' = "STOPPED"
          /\ pc' = "quit"
          /\ UNCHANGED <<server_target, attempt, addr>>
       \/ /\ ~should_stop
          /\ pc' = "cand"
          /\ server_target' = "PS4_UNKNOWN"
          /\ attempt' = 1
          /\ addr' = 1
          /\ UNCHANGED quit_reason
    /\ UNCHANGED <<lifeVars, target, req_result, should_stop, ctrlVars,
                   pinVars, quit_event, ecdh>>

\* Fault variant: the retry does not check that server_target is known.
RetryWithAnyServerTarget ==
    /\ req_result = "VERSION_MISMATCH"
    /\ attempt < 3

\* The request phase ends: retry with the server's version, quit, or go on.
RetryWithServerTarget ==
    /\ req_result = "VERSION_MISMATCH"
    /\ server_target \notin UnknownTargets
    /\ attempt < 3

RequestReturned ==
    /\ pc = "req_done"
    /\ \/ /\ RetryWithServerTarget
          /\ target' = server_target
          /\ attempt' = attempt + 1
          /\ addr' = 1
          /\ pc' = "cand"
       \/ /\ ~RetryWithServerTarget /\ req_result # "SUCCESS"
          /\ pc' = "quit"
          /\ UNCHANGED <<target, attempt, addr>>
       \/ /\ req_result = "SUCCESS"     \* rpcrypt init, then the 10 ms wait
          /\ pc' = "settle"
          /\ UNCHANGED <<target, attempt, addr>>
    /\ UNCHANGED <<lifeVars, server_target, req_result, should_stop,
                   quit_reason, ctrlVars, pinVars, quit_event, ecdh>>

\* The timed wait before chiaki_ctrl_start returns (its result is not
\* looked at), and the ctrl thread is started.
SettleReturns ==
    /\ pc = "settle"
    /\ \/ /\ pc' = "quit"               \* chiaki_ctrl_start failed
          /\ UNCHANGED ctrl
       \/ /\ ctrl' = "running"
          /\ pc' = "wait_ctrl"
    /\ UNCHANGED <<lifeVars, reqVars, should_stop, quit_reason, ctrl_failed,
                   ctrl_session_id_received, ctrl_login_pin_requested,
                   ctrl_pin_requests, ctrl_pins, pinVars, quit_event, ecdh>>

\* Fault variant: CHECK_STOP(quit) where CHECK_STOP(quit_ctrl) belongs.
StopToQuit ==
    /\ quit_reason' = "STOPPED"
    /\ pc' = "quit"

\* CHECK_STOP(quit_ctrl).
StopToQuitCtrl ==
    /\ quit_reason' = "STOPPED"
    /\ pc' = "quit_ctrl"

\* The ctrl_failed label.
CtrlFailedQuit ==
    /\ quit_reason' = IF quit_reason = "NONE" THEN "CTRL_UNKNOWN" ELSE quit_reason
    /\ pc' = "quit_ctrl"

\* The head of the Login PIN loop and the session-id gate after it.
PinLoopHead ==
    \/ /\ ctrl_login_pin_requested
       /\ ctrl_login_pin_requested' = FALSE
       /\ pin_events' = pin_events + 1  \* LOGIN_PIN_REQUEST event
       /\ pc' = "wait_pin"
       /\ UNCHANGED quit_reason
    \/ /\ ~ctrl_login_pin_requested /\ ~ctrl_session_id_received
       /\ CtrlFailedQuit
       /\ UNCHANGED <<ctrl_login_pin_requested, pin_events>>
    \/ /\ ~ctrl_login_pin_requested /\ ctrl_session_id_received
       /\ pc' = "senkusha"
       /\ UNCHANGED <<ctrl_login_pin_requested, pin_events, quit_reason>>

\* The wait on session_check_state_pred_ctrl_start after chiaki_ctrl_start
\* returns (on the predicate or on the SESSION_EXPECT_TIMEOUT_MS timeout).
CtrlStartWaitReturns ==
    /\ pc = "wait_ctrl"
    /\ \/ /\ should_stop
          /\ StopToQuitCtrl
          /\ UNCHANGED <<ctrl_login_pin_requested, pin_events>>
       \/ /\ ~should_stop /\ ctrl_failed
          /\ CtrlFailedQuit
          /\ UNCHANGED <<ctrl_login_pin_requested, pin_events>>
       \/ /\ ~should_stop /\ ~ctrl_failed
          /\ PinLoopHead
    /\ UNCHANGED <<lifeVars, reqVars, should_stop, ctrl, ctrl_failed,
                   ctrl_session_id_received, ctrl_pin_requests, ctrl_pins,
                   login_pin_entered, login_pin_entered_at, pin_entries,
                   quit_event, ecdh>>

\* Fault variant: the PIN predicate does not look at should_stop.
PinPredNoStop == ctrl_failed \/ login_pin_entered

\* session_check_state_pred_pin
PinPred == should_stop \/ ctrl_failed \/ login_pin_entered

\* Fault variant: after the PIN wait the ctrl_failed check is skipped.
PinWaitNoFailCheck ==
    /\ pc = "wait_pin"
    /\ PinPred
    /\ \/ /\ should_stop
          /\ StopToQuitCtrl
          /\ UNCHANGED <<ctrl_pins, login_pin_entered>>
       \/ /\ ~should_stop
          /\ ctrl_pins' = ctrl_pins + 1
          /\ login_pin_entered' = FALSE
          /\ pc' = "wait_sid"
          /\ UNCHANGED quit_reason
    /\ UNCHANGED <<lifeVars, reqVars, should_stop, ctrl, ctrl_failed,
                   ctrl_session_id_received, ctrl_login_pin_requested,
                   ctrl_pin_requests, login_pin_entered_at, pin_entries,
                   pin_events, quit_event, ecdh>>

\* The untimed wait for a PIN returns; the PIN is handed to the ctrl and the
\* slot is freed.
PinWaitReturns ==
    /\ pc = "wait_pin"
    /\ PinPred
    /\ \/ /\ should_stop
          /\ StopToQuitCtrl
          /\ UNCHANGED <<ctrl_pins, login_pin_entered>>
       \/ /\ ~should_stop /\ ctrl_failed
          /\ CtrlFailedQuit
          /\ UNCHANGED <<ctrl_pins, login_pin_entered>>
       \/ /\ ~should_stop /\ ~ctrl_failed
          /\ ctrl_pins' = ctrl_pins + 1 \* chiaki_ctrl_set_login_pin
          /\ login_pin_entered' = FALSE
          /\ pc' = "wait_sid"
          /\ UNCHANGED quit_reason
    /\ UNCHANGED <<lifeVars, reqVars, should_stop, ctrl, ctrl_failed,
                   ctrl_session_id_received, ctrl_login_pin_requested,
                   ctrl_pin_requests, login_pin_entered_at, pin_entries,
                   pin_events, quit_event, ecdh>>

\* The timed wait for the session id after a PIN returns, then CHECK_STOP
\* and the loop head again.
SessionIdWaitReturns ==
    /\ pc = "wait_sid"
    /\ \/ /\ should_stop
          /\ StopToQuitCtrl
          /\ UNCHANGED <<ctrl_login_pin_requested, pin_events>>
       \/ /\ ~should_stop
          /\ PinLoopHead
    /\ UNCHANGED <<lifeVars, reqVars, should_stop, ctrl, ctrl_failed,
                   ctrl_session_id_received, ctrl_pin_requests, ctrl_pins,
                   login_pin_entered, login_pin_entered_at, pin_entries,
                   quit_event, ecdh>>

\* Fault variant: a failed or canceled Senkusha QUITs to quit, past quit_ctrl.
SenkushaQuitSkipsCtrl ==
    /\ pc = "senkusha"
    /\ \/ /\ pc' = "quit"
          /\ UNCHANGED ecdh
       \/ /\ ecdh' = "inited"
          /\ pc' = "stream"
    /\ UNCHANGED <<lifeVars, reqVars, should_stop, quit_reason, ctrlVars,
                   pinVars, quit_event>>

\* Senkusha, the handshake key and ECDH, all with state_mutex held. A
\* failed init, a CANCELED run, or a failed random or ECDH init quits; any
\* other Senkusha failure falls back to default MTU and RTT.
Senkusha ==
    /\ pc = "senkusha"
    /\ \/ /\ pc' = "quit_ctrl"
          /\ UNCHANGED ecdh
       \/ /\ ecdh' = "inited"
          /\ pc' = "stream"
    /\ UNCHANGED <<lifeVars, reqVars, should_stop, quit_reason, ctrlVars,
                   pinVars, quit_event>>

StreamQuitReason(err) ==
    CASE err = "DISCONNECTED" -> "STREAM_CONNECTION_REMOTE_DISCONNECTED"
      [] err \in {"SUCCESS", "CANCELED"} -> "STOPPED"
      [] OTHER -> "STREAM_CONNECTION_UNKNOWN"

\* chiaki_stream_connection_run returns by itself (remote disconnect, error).
StreamRunReturns ==
    /\ pc = "stream"
    /\ \E err \in {"DISCONNECTED", "OTHER"} :
         quit_reason' = StreamQuitReason(err)
    /\ ecdh' = "finalized"              \* chiaki_ecdh_fini
    /\ pc' = "quit_ctrl"
    /\ UNCHANGED <<lifeVars, reqVars, should_stop, ctrlVars, pinVars,
                   quit_event>>

\* chiaki_stream_connection_run returns SUCCESS or CANCELED after
\* chiaki_stream_connection_stop, which chiaki_session_stop calls.
StreamStopped ==
    /\ pc = "stream"
    /\ should_stop
    /\ \E err \in {"SUCCESS", "CANCELED"} : quit_reason' = StreamQuitReason(err)
    /\ ecdh' = "finalized"              \* chiaki_ecdh_fini
    /\ pc' = "quit_ctrl"
    /\ UNCHANGED <<lifeVars, reqVars, should_stop, ctrlVars, pinVars,
                   quit_event>>

\* The quit_ctrl label: chiaki_ctrl_stop, then chiaki_ctrl_join waits.
QuitCtrl ==
    /\ pc = "quit_ctrl"
    /\ ctrl' = IF ctrl = "running" THEN "stopping" ELSE ctrl
    /\ pc' = "ctrl_join"
    /\ UNCHANGED <<lifeVars, reqVars, should_stop, quit_reason, ctrl_failed,
                   ctrl_session_id_received, ctrl_login_pin_requested,
                   ctrl_pin_requests, ctrl_pins, pinVars, quit_event, ecdh>>

CtrlJoined ==
    /\ pc = "ctrl_join"
    /\ ctrl = "exited"
    /\ ctrl' = "joined"
    /\ pc' = "quit"
    /\ UNCHANGED <<lifeVars, reqVars, should_stop, quit_reason, ctrl_failed,
                   ctrl_session_id_received, ctrl_login_pin_requested,
                   ctrl_pin_requests, ctrl_pins, pinVars, quit_event, ecdh>>

\* The quit label: the QUIT event carries session->quit_reason.
SendQuitEvent ==
    /\ pc = "quit"
    /\ quit_event' = quit_reason
    /\ pc' = "done"
    /\ UNCHANGED <<lifeVars, reqVars, should_stop, quit_reason, ctrlVars,
                   pinVars, ecdh>>
-----------------------------------------------------------------------------
(* The control channel, through its contract with the session (ctrl.c is  *)
(* not part of this repository): while running it sets, under state_mutex, *)
(* the session id, a Login PIN request (answered before the next one) or a *)
(* failure, possibly with a quit reason of its own; after chiaki_ctrl_stop *)
(* its thread exits.                                                      *)

CtrlQuitReasons == {"CTRL_UNKNOWN", "CTRL_CONNECTION_REFUSED", "CTRL_CONNECT_FAILED"}

CtrlActs ==
    /\ ctrl = "running"
    /\ ~SessionHoldsMutex

CtrlSessionId ==
    /\ CtrlActs
    /\ ~ctrl_session_id_received
    /\ ctrl_pins = ctrl_pin_requests
    /\ ctrl_session_id_received' = TRUE
    /\ UNCHANGED <<lifeVars, pc, reqVars, should_stop, quit_reason, ctrl,
                   ctrl_failed, ctrl_login_pin_requested, ctrl_pin_requests,
                   ctrl_pins, pinVars, quit_event, ecdh>>

CtrlLoginPinRequest ==
    /\ CtrlActs
    /\ ~ctrl_session_id_received
    /\ ctrl_pins = ctrl_pin_requests
    /\ ctrl_pin_requests < MaxPinRequests
    /\ ctrl_login_pin_requested' = TRUE
    /\ ctrl_pin_requests' = ctrl_pin_requests + 1
    /\ UNCHANGED <<lifeVars, pc, reqVars, should_stop, quit_reason, ctrl,
                   ctrl_failed, ctrl_session_id_received, ctrl_pins, pinVars,
                   quit_event, ecdh>>

CtrlFail ==
    /\ CtrlActs
    /\ \E qr \in {quit_reason} \cup CtrlQuitReasons : quit_reason' = qr
    /\ ctrl_failed' = TRUE
    /\ ctrl' = "exited"
    /\ UNCHANGED <<lifeVars, pc, reqVars, should_stop, ctrl_session_id_received,
                   ctrl_login_pin_requested, ctrl_pin_requests, ctrl_pins,
                   pinVars, quit_event, ecdh>>

CtrlExit ==
    /\ ctrl = "stopping"
    /\ ctrl' = "exited"
    /\ UNCHANGED <<lifeVars, pc, reqVars, should_stop, quit_reason, ctrl_failed,
                   ctrl_session_id_received, ctrl_login_pin_requested,
                   ctrl_pin_requests, ctrl_pins, pinVars, quit_event, ecdh>>

-----------------------------------------------------------------------------
Embedder ==
    \/ SessionInit \/ SessionStart \/ SessionStop \/ SessionSetLoginPin
    \/ SessionJoin \/ SessionFini

\* The steps of the session thread that it takes by itself: every wait it
\* blocks in is timed, cancelled by should_stop, or (the PIN wait) enabled.
SessionThread ==
    \/ ThreadStart \/ RequestCandidate \/ RequestConnectReturns
    \/ RequestRecvReturns \/ RequestReturned \/ SettleReturns
    \/ CtrlStartWaitReturns \/ PinWaitReturns \/ SessionIdWaitReturns
    \/ Senkusha \/ QuitCtrl \/ CtrlJoined \/ SendQuitEvent

Ctrl == CtrlSessionId \/ CtrlLoginPinRequest \/ CtrlFail \/ CtrlExit

Next ==
    \/ Embedder
    \/ SessionThread
    \/ StreamRunReturns \/ StreamStopped
    \/ Ctrl

\* The session thread and the ctrl thread's exit after chiaki_ctrl_stop are
\* weakly fair, and so is the stream's return once it has been stopped. The
\* embedder, the console and the ctrl's protocol progress are not.
Fairness ==
    /\ WF_vars(SessionThread)
    /\ WF_vars(StreamStopped)
    /\ WF_vars(CtrlExit)

Spec == Init /\ [][Next]_vars /\ Fairness

-----------------------------------------------------------------------------
\* The types of the lifecycle and of the session thread's own state.
LifeTypeOK ==
    /\ life \in {"uninit", "init_failed", "inited", "started", "joined", "finalized"}
    /\ acquired \in [Resources -> 0..1]
    /\ released \in [Resources -> 0..2]
    /\ ps5 \in BOOLEAN
    /\ pc \in SessionPCs
    /\ should_stop \in BOOLEAN
    /\ quit_reason \in QuitReasons
    /\ quit_event \in QuitReasons \cup {"none"}
    /\ ecdh \in {"none", "inited", "finalized"}

\* The types of the request-session state.
RequestTypeOK ==
    /\ target \in Targets
    /\ server_target \in Targets
    /\ attempt \in 1..3
    /\ addr \in 1..(NumAddrs + 1)
    /\ req_result \in RequestResults

\* The types of the ctrl flags and of the PIN slot.
CtrlTypeOK ==
    /\ ctrl \in {"none", "running", "stopping", "exited", "joined"}
    /\ ctrl_failed \in BOOLEAN
    /\ ctrl_session_id_received \in BOOLEAN
    /\ ctrl_login_pin_requested \in BOOLEAN
    /\ ctrl_pin_requests \in 0..MaxPinRequests
    /\ ctrl_pins \in 0..MaxPinRequests
    /\ login_pin_entered \in BOOLEAN
    /\ login_pin_entered_at \in 0..MaxPinRequests
    /\ pin_entries \in 0..MaxPinEntries
    /\ pin_events \in 0..MaxPinRequests

\* Every variable of the session has its type.
TypeOK == LifeTypeOK /\ RequestTypeOK /\ CtrlTypeOK

\* The bookkeeping of the PIN exchange: each ctrl request raises the flag
\* once, the session turns it into one event and then hands over at most
\* one PIN per event; fini runs at most once; and the candidate loop only
\* connects to an address of the list.
CountersConsistent ==
    /\ ctrl_pins <= pin_events
    /\ pin_events <= ctrl_pin_requests
    /\ ctrl_login_pin_requested => pin_events + 1 = ctrl_pin_requests
    /\ ~ctrl_login_pin_requested => pin_events = ctrl_pin_requests
    /\ pc = "wait_pin" => ctrl_pins < pin_events
    /\ login_pin_entered_at <= pin_events
    /\ life # "finalized" => released \in [Resources -> 0..1]
    /\ pc = "connect" => addr <= NumAddrs

\* The init steps whose goto unwinding in chiaki_session_init releases
\* exactly what the steps before them acquired.
SoundInitFailures == {"cond", "mutex", "stop_pipe", "addrinfo"}

\* What a successful init leaves acquired and released: everything and
\* nothing while the session lives, and once fini has run each resource
\* released exactly once. (A failed init is not constrained here: what its
\* labels release depends on which step failed, see ResourcesBalanced.)
ResourcesInv ==
    /\ life \in {"inited", "started", "joined"} =>
          /\ acquired = [r \in Resources |-> 1]
          /\ released = [r \in Resources |-> 0]
    /\ life = "finalized" =>
          /\ acquired = [r \in Resources |-> 1]
          /\ released = acquired

\* The inductive form of TypeOK.
TypeInv == TypeOK /\ CountersConsistent

\* Once initialised, the session never speaks an unknown target: every
\* version the renegotiation of session_thread_func adopts from
\* session_thread_request_session's target_out is a known one.
TargetKnown == life # "uninit" => target \notin UnknownTargets

\* Where session_thread_func is relative to the ctrl thread: no ctrl before
\* chiaki_ctrl_start, a running or failed ctrl until quit_ctrl, a stopped
\* or exited one while chiaki_ctrl_join waits, and none left at quit; the
\* QUIT event is the thread's last step; and the thread has not run before
\* chiaki_session_start, and has once it has been started.
CtrlPhaseConsistent ==
    /\ life \in {"uninit", "init_failed", "inited"} => pc = "idle"
    /\ life = "started" => pc # "idle"
    /\ pc \in {"idle", "start", "cand", "connect", "recv", "req_done",
              "settle"} => ctrl = "none"
    /\ pc \in {"wait_ctrl", "wait_pin", "wait_sid", "senkusha", "stream",
              "quit_ctrl"} => ctrl \in {"running", "exited"}
    /\ pc = "ctrl_join" => ctrl \in {"stopping", "exited"}
    /\ pc \in {"quit", "done"} => ctrl \in {"none", "joined"}
    /\ quit_event # "none" => pc = "done"

\* ctrl_failed and the ctrl's state agree: the flag is set only by the ctrl
\* as it exits with a failure, so before chiaki_ctrl_stop an exited ctrl is
\* a failed one, and a ctrl that is running or stopping has not failed.
CtrlFailedConsistent ==
    /\ ctrl \in {"none", "running", "stopping"} => ~ctrl_failed
    /\ pc \in {"wait_ctrl", "wait_pin", "wait_sid", "senkusha", "stream",
              "quit_ctrl"} /\ ctrl = "exited" => ctrl_failed

\* The QUIT event is sent only after the ctrl thread, if it was started, has
\* been stopped and joined: every exit of session_thread_func after
\* chiaki_ctrl_start goes through quit_ctrl.
CtrlJoinedBeforeQuit == quit_event # "none" => ctrl \in {"none", "joined"}

\* When init fails or fini has run, each resource chiaki_session_init
\* acquired has been finalized exactly once, and no other.
ResourcesBalanced ==
    life \in {"init_failed", "finalized"} => released = acquired

\* The session calls chiaki_ctrl_set_login_pin only on a ctrl that is still
\* running and has a PIN request the session has not yet answered, with a
\* PIN in the slot: a ctrl failure that races the embedder's
\* chiaki_session_set_login_pin during the untimed PIN wait is seen before
\* the PIN is forwarded.
PinForward ==
    ctrl_pins' # ctrl_pins =>
        /\ ctrl = "running"
        /\ ctrl_pins < ctrl_pin_requests
        /\ login_pin_entered

PinForwardedToLiveCtrl == [][PinForward]_vars

\* The RP-Version the session sends for its target reads back, through
\* chiaki_rp_version_parse with that target's console family, as the same
\* target: the version string and parse tables agree on every target that
\* init or a VERSION_MISMATCH retry can adopt, so a retried request is not
\* answered with a mismatch for the version the console itself named.
RpVersionRoundTrip ==
    life # "uninit" =>
        /\ RpVersionString(target) # NULL
        /\ RpVersionParse(RpVersionString(target), target \in PS5Targets) = target

\* chiaki_session_stop makes a started session send its QUIT event: every
\* wait, connect and recv of the session thread is cancelled by should_stop
\* or ends by itself, the stream run is stopped, the ctrl is stopped.
StopLeadsToQuit == (life = "started" /\ should_stop) ~> (quit_event # "none")
\* The refinement mapping onto SessionPhases: the phase of each program
\* counter of session_thread_func, and a ctrl that is live from
\* chiaki_ctrl_start until chiaki_ctrl_join has returned.
PhaseOf(p) ==
    CASE p = "idle" -> "idle"
      [] p \in {"start", "cand", "connect", "recv", "req_done", "settle"} -> "request"
      [] p \in {"wait_ctrl", "wait_pin", "wait_sid", "senkusha"} -> "ctrl"
      [] p = "stream" -> "stream"
      [] p \in {"quit_ctrl", "ctrl_join"} -> "teardown"
      [] p = "quit" -> "quit"
      [] p = "done" -> "done"

CtrlLive == ctrl \in {"running", "stopping", "exited"}

Abs == INSTANCE SessionPhases
         WITH phase <- PhaseOf(pc), ctrlLive <- CtrlLive, stop <- should_stop,
              reported <- quit_event, granted <- (req_result = "SUCCESS"),
              Reasons <- QuitReasons

\* session_thread_func implements the phase protocol: it starts the ctrl
\* only after a successful request, never goes back to an earlier phase,
\* stops and joins the ctrl before the one QUIT event, and once
\* chiaki_session_stop has been called it keeps moving until that event.
ImplementsPhases == Abs!PSpec

-----------------------------------------------------------------------------
(* What the spec and the code's comments say of the session, which the    *)
(* code does not do (runs expected to find a violation).                  *)

\* The QUIT event always carries a reason: "internal errors are converted
\* to a (quit_reason, optional reason_str) pair at the boundary of each
\* phase" and CANCELED is reported as STOPPED. session_thread_func quits
\* with the reason still NONE when chiaki_ctrl_start fails, and when
\* Senkusha is canceled or fails to init, or the handshake key or ECDH fail.
QuitReasonAssigned == quit_event # "NONE"

\* A QUIT event that names a session-request failure comes from a session
\* that never started its ctrl: once chiaki_ctrl_start has run, the
\* request has succeeded and any later failure belongs to the ctrl or the
\* stream. The request client records CONNECTION_REFUSED for a refused
\* candidate, and an RP-Version mismatch for a request that is then
\* retried, and does not clear them when a later candidate or attempt
\* succeeds; the ctrl_failed label keeps any reason that is not NONE, so a
\* later ctrl failure or session-id timeout is reported as the request's.
QuitReasonFromCurrentPhase ==
    quit_event \in RequestQuitReasons => ctrl = "none"

\* The PIN the session hands to the ctrl answers the LOGIN_PIN_REQUEST
\* event it has just sent ("emit a LOGIN_PIN_REQUEST event; wait ...; when
\* PIN arrives, hand the bytes to the control channel"). The slot is not
\* cleared when the event is sent, so a PIN set before the event (an early
\* or repeated set_login_pin) is forwarded without the embedder answering.
PinAnswersLatestRequest ==
    [][pc = "wait_pin" /\ pc' = "wait_sid" => login_pin_entered_at = pin_events]_vars
====
