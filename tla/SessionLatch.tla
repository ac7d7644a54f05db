---------------------------- MODULE SessionLatch ----------------------------
(***************************************************************************)
(* The controller-state latch composed with the session.                   *)
(* chiaki_session_set_controller_state stores the embedder's controller    *)
(* state in session->controller_state and, if the stream's feedback        *)
(* sender is active, forwards it, all under the stream's                   *)
(* feedback_sender_mutex rather than state_mutex. The stream connection    *)
(* starts its feedback sender while it runs, from the latched state, and  *)
(* stops it before chiaki_stream_connection_run returns.                   *)
(***************************************************************************)
EXTENDS Session

CONSTANT ControllerStates   \* controller states the embedder may set; "idle" among them

ASSUME LatchAssumption == "idle" \in ControllerStates

VARIABLES
    controller_state,  \* session->controller_state
    fs_active,         \* stream_connection.feedback_sender_active
    fs_state           \* the state the feedback sender sends, "none" without a sender

latchVars == <<controller_state, fs_active, fs_state>>
allVars == <<vars, latchVars>>

\* chiaki_controller_state_set_idle in chiaki_session_init.
LatchInit ==
    /\ Init
    /\ controller_state = "idle"
    /\ fs_active = FALSE
    /\ fs_state = "none"

\* Fault variant: the new state is latched but not forwarded.
SetControllerStateNoForward ==
    /\ life = "started"
    /\ \E s \in ControllerStates : controller_state' = s
    /\ UNCHANGED <<vars, fs_active, fs_state>>

\* chiaki_session_set_controller_state, under feedback_sender_mutex.
SetControllerState ==
    /\ life = "started"
    /\ \E s \in ControllerStates :
         /\ controller_state' = s
         /\ fs_state' = IF fs_active THEN s ELSE fs_state
    /\ UNCHANGED <<vars, fs_active>>

\* The stream connection starts its feedback sender from the latched
\* state, under feedback_sender_mutex.
FeedbackSenderStart ==
    /\ pc = "stream"
    /\ ~fs_active
    /\ fs_active' = TRUE
    /\ fs_state' = controller_state
    /\ UNCHANGED <<vars, controller_state>>

\* A step of the session; leaving the stream phase means the stream's run
\* has returned, and it stops its feedback sender before it does.
SessionStep ==
    /\ Next
    /\ fs_active' = (fs_active /\ pc' = "stream")
    /\ fs_state' = IF fs_active' THEN fs_state ELSE "none"
    /\ UNCHANGED controller_state

LatchNext == SessionStep \/ SetControllerState \/ FeedbackSenderStart

LatchSpec == LatchInit /\ [][LatchNext]_allVars

\* While the feedback sender is active it sends the controller state the
\* embedder set last: a state set before the stream started its sender, or
\* while it runs, is never lost by the race between
\* chiaki_session_set_controller_state and the sender's start and stop.
FeedbackCurrent == fs_active => fs_state = controller_state

=============================================================================
