# TLA+ models of the Chiaki session orchestrator

This directory holds TLA+ models of `src/lib/src/session.c`, the part of
Chiaki that negotiates a Remote Play session with a console, supervises the
control channel (ctrl), hands over to the stream connection and reports one
QUIT event to the embedder. The project has these parts:

- the detailed model, `Session.tla`;
- its abstract specification, `SessionPhases.tla`;
- the controller-state latch composed with the session, `SessionLatch.tla`;
- TLC configurations that check them on small instances;
- TLAPS proofs, in `SessionProofs.tla`, `SessionPinProofs.tla`,
  `SessionRefinement.tla`, `SessionPhasesProofs.tla` and
  `SessionLatchProofs.tla`, of every invariant and action property the
  passing runs check and of the safety part of the refinement, for every
  value of the constants.

## The system

`session.c` has these parts. Line numbers refer to `src/lib/src/session.c`.

| Part | Code | Role |
|---|---|---|
| Lifecycle API | `chiaki_session_init` 166-241, `_fini` 243-255, `_start` 257-264, `_stop` 266-279, `_join` 281-284, `_set_controller_state` 286-296, `_set_login_pin` 298-314 | Called by the embedder thread. `init` acquires six resources with goto unwinding. `stop` sets `should_stop`, trips the stop pipe, signals the condition and stops the stream. `set_login_pin` fills the PIN slot. |
| Cancellable waiter | predicates 324-346, the waits at 400, 408, 431, 448 | Every wait releases `state_mutex`. All three predicates contain `should_stop`. Only the PIN wait is untimed. |
| Session state machine | `session_thread_func` 350-540 | Runs these phases in order: up to three session requests, the 10 ms settle, ctrl start, the PIN loop, the session-id gate, Senkusha, handshake key and ECDH, the stream run, and quit via `quit_ctrl`/`quit`. |
| Request-session client | `parse_session_response` 552-570, `session_thread_request_session` 576-825 | Walks the candidate addresses with a cancellable connect (mutex released), sends the request, and does a cancellable recv (mutex released). It then classifies the response into SUCCESS, VERSION_MISMATCH (with a server target) or a terminal error with a quit reason. |
| Ctrl supervisor | `chiaki_ctrl_start/stop/join` calls, 404, 524-525 | The ctrl thread sets `ctrl_failed`, `ctrl_session_id_received` and `ctrl_login_pin_requested` under `state_mutex`. |
| Stream handover | 500-521 | Unlocks, runs the stream, relocks, classifies the result and finalizes ECDH. |
| Helpers | `chiaki_rp_version_string` 55-70, `chiaki_rp_version_parse` 72-87 | Map between targets and RP-Version strings. |

The threads interact only through `state_mutex`/`state_cond` and the flags
they guard:
- The embedder calls the API.
- The session thread runs the phases.
- The ctrl thread (`ctrl.c`, not in this repository) sets its flags.
- The stream connection's `run` returns by itself, or after `stop`.

## The module `Session.tla`

**Mutex as control state.** `state_mutex` is not a variable. The session
thread holds it at every program counter outside `MutexReleased`: the
thread's start, connect, recv, the three waits, the stream run and the quit
path. So each stretch of code between two release points is one atomic
action, and the embedder's and the ctrl's locked sections are enabled only
when `~SessionHoldsMutex`.

**State.** The variables follow the fields of `ChiakiSession`:
- `life`, `acquired[r]`, `released[r]`: the object's lifecycle and the
  resources `init` acquired and `fini` or the unwinding released;
- `pc`: the session thread's program counter;
- `target`, `server_target`, `attempt` (which of the three requests),
  `addr` (the candidate), `req_result`;
- `should_stop`, `quit_reason`;
- the ctrl's state and flags, and counters of PIN requests (`ctrl_pin_requests`)
  and PINs forwarded (`ctrl_pins`);
- the PIN slot, and `pin_events` (LOGIN_PIN_REQUEST events sent);
- `quit_event` (the reason in the QUIT event), `ecdh`.

**Actions.** There is one action per segment of code:

| Actions | Code they model |
|---|---|
| `SessionInit`, `SessionStart`, `SessionStop`, `SessionSetLoginPin`, `SessionJoin`, `SessionFini` | the API functions |
| `SessionInit` with `InitUnwind(fp)` | a failure at step `fp` and what the labels finalize |
| `ThreadStart` | lock and `CHECK_STOP(quit)` |
| `RequestCandidate` | the candidate loop body up to the connect |
| `RequestConnectReturns` | the connect's result, the send, and the early returns between them |
| `RequestRecvReturns` with `ApplyResponse` | the recv and the classification |
| `RequestReturned` | the retry logic of 374-397 |
| `SettleReturns` | the 10 ms wait and `chiaki_ctrl_start` |
| `CtrlStartWaitReturns`, `PinWaitReturns`, `SessionIdWaitReturns` | the three waits with the checks after them; the PIN loop's head is `PinLoopHead` |
| `Senkusha` | 462-499, run with the mutex held |
| `StreamRunReturns`, `StreamStopped` | the stream's two ways to return |
| `QuitCtrl`, `CtrlJoined`, `SendQuitEvent` | the quit path |

**Abstractions.**
- A response is a record: code 200 or not, nonce absent/valid/invalid,
  application reason, and RP-Version from `ServerVersions`. The HTTP text,
  the hex key and the base64 decoding are reduced to these outcomes.
- A timed wait may return at any time, because the code never reads its
  result.
- The ctrl thread is modelled from its contract in the spec (`CtrlSessionId`,
  `CtrlLoginPinRequest`, `CtrlFail`, `CtrlExit`), marked `spec_modelled` in
  PROJECT.json.

**Fault variants.** `RequestCandidatePastEnd`, `RetryWithAnyServerTarget`,
`StopToQuit`, `InitUnwindNoFallThrough`, `PinPredNoStop`, `PinWaitNoFailCheck`,
`RpVersionParseNo9`, `SenkushaQuitSkipsCtrl`
and (in `SessionLatch`) `SetControllerStateNoForward` are plausible
bugs of the code they stand beside. The mutants of PROJECT.json substitute
them for the real definitions.

**Fairness.** `WF_vars(SessionThread) /\ WF_vars(StreamStopped) /\ WF_vars(CtrlExit)`.
- The session thread is always able to continue: every wait is timed, is
  cancelled by `should_stop`, or (the PIN wait) is enabled only when its
  predicate holds.
- A stopped stream returns, because `chiaki_stream_connection_stop` is
  called by `stop`.
- A stopped ctrl exits.

The embedder, the console and the ctrl's protocol progress get no fairness.

## The abstract specification `SessionPhases.tla`

This is what the session promises its embedder, in seven phases: idle,
request, ctrl, stream, teardown, quit, done. It has five variables:
- `phase`;
- `ctrlLive`: a ctrl has been started and not joined;
- `stop`;
- `reported`: the QUIT reason;
- `granted`: the console granted the last session request.

Its steps:
- `Answer` records the outcome of a session request, in the request phase.
- `Establish` starts the ctrl, only from the request phase and only when
  the last request was granted.
- `Abandon` leaves the request phase without a ctrl.
- `Teardown` and `Joined` pass through the ctrl's stop and join.
- `Report` sends the one QUIT event, and only when no ctrl is live.
- `Stop` may happen in any phase after idle.
- The only fairness is `WF(stop /\ Advance)`: a stopped session does not
  stay short of done.

`Session` maps onto it by `Abs == INSTANCE SessionPhases WITH ...`:
- `PhaseOf(pc)` gives the phase of each program counter of
  `session_thread_func`;
- `CtrlLive` holds while the ctrl is running, stopping or exited (not yet
  joined);
- `should_stop` maps to `stop`, `quit_event` to `reported`, and
  `req_result = "SUCCESS"` to `granted`. The steps of the request client
  that set `req_result` are `Answer` steps.

The property `ImplementsPhases == Abs!PSpec`, fairness included, is checked
by TLC in the session_safety run. Its safety part is proved (see below).

## The composition `SessionLatch.tla`

`chiaki_session_set_controller_state` (286-296) is guarded by the stream's
`feedback_sender_mutex`, not by `state_mutex`. It latches the state and
forwards it when the feedback sender is active. `SessionLatch` extends
`Session` with:
- the latch;
- the sender's activity;
- the state the sender holds.

The feedback sender's start (from the latched state) and its stop (before
the stream's run returns) are modelled from the stream's contract in
section 4.5 of the spec. Each step of `Session` is composed with the sender
stopping when the session leaves the stream phase.

## Runs

All runs use `MCSession.tla` with these constants:
- `NumAddrs = 2`, so a refused first candidate can be followed by a second;
- `ServerVersions = {"8.0","9.0","10.0","1.0","5.0","7.0"}`, which gives
  the two other PS4 versions, our own version, the PS5 version, the 5.0
  fix-up and an unparsable one;
- `MaxPinRequests = 2`, so an incorrect PIN can be asked again;
- `MaxPinEntries = 3`, so early and repeated entries happen.

These bounds reach every branch of the code. The only exception is the
INVALID_DATA branch at 700-706, which is dead because `TargetKnown` holds.

| Run | cfg | Expect | Shows |
|---|---|---|---|
| session_safety | MCSession.cfg | pass | About 186,000 states. `TypeOK`; `TargetKnown` (no unknown Rp-Version is ever sent); `CtrlJoinedBeforeQuit` (every exit after ctrl start stops and joins the ctrl); `ResourcesBalanced` for the init failures whose unwinding is right; `StopLeadsToQuit` (a stop always produces the QUIT event under the fairness above); `ImplementsPhases` (the refinement of SessionPhases); `RpVersionRoundTrip` (the session's target reads back as itself through `chiaki_rp_version_string` and `chiaki_rp_version_parse`); `PinForwardedToLiveCtrl` (an action property: `chiaki_ctrl_set_login_pin` is called only on a running ctrl with an unanswered request and a PIN in the slot, even when the ctrl fails during the PIN wait). `InitFailures` is `{cond, mutex, stop_pipe, addrinfo}`. |
| session_latch | MCSessionLatch.cfg | pass | 25,844 states, one address, three controller states. `FeedbackCurrent`: an active feedback sender always sends the last state the embedder set, in every interleaving of set_controller_state with the sender's start and stop. |
| init_unwind | MCSession_InitUnwind.cfg | violation | With ctrl or stream init failing, the labels at 231-238 finalize a ctrl never initialised (ctrl failure) or leak the stop pipe (stream failure). |
| quit_reason_assigned | MCSession_QuitReasonAssigned.cfg | violation | A failing `chiaki_ctrl_start` (405) or a cancelled Senkusha (476) quits with reason NONE. |
| quit_reason_from_current_phase | MCSession_QuitReasonFromCurrentPhase.cfg | violation | `QuitReasonFromCurrentPhase`: a session-request reason is reported only by a session that never started its ctrl. The trace: the first candidate is refused (639), the second succeeds without clearing the reason, the 5 s session-id wait at 408 expires, the ctrl_failed label (454-459) keeps the reason, the ctrl is stopped and joined, and QUIT reports CONNECTION_REFUSED. A failing `chiaki_ctrl_start` (405) reports the same stale reason, but with no ctrl started, so this property does not count it. |
| pin_answers_latest_request | MCSession_PinAnswersLatestRequest.cfg | violation | A PIN entered before the LOGIN_PIN_REQUEST event is forwarded as its answer. |

Deadlock checking is off in every cfg. The reason: once the QUIT event is
sent and the session is finalized, nothing can move, and the real program
has stopped too.

## Proofs

All proofs assume only `ConstantsAssumption`: `NumAddrs` is a positive
natural, the two bounds are naturals, `InitFailures` is a subset of the init
steps, and `"absent"` is not a server version.

- `TypeCorrect`: `Spec => []TypeOK`. TypeOK is not inductive by itself, so
  the proof uses `TypeInv == TypeOK /\ CountersConsistent`. The added
  conjuncts:
  - bound the PIN counters: each ctrl request raises the flag once, each
    event forwards at most one PIN, and the PIN wait is entered only with a
    PIN owed;
  - say that `fini` has not run yet, so `released` is still 0 or 1;
  - say that the connect is only reached for an existing candidate, so
    `addr + 1` stays in range.

  `InitTypeInv` and `NextTypeInv` prove it, with one case per action and,
  under each, one step per group of the invariant.
- `TargetKnownInvariant`: `Spec => []TargetKnown`. This is inductive relative
  to `TypeInv`, because the target is set only by `init` and by the retry,
  whose guard requires a known `server_target`.
- `CtrlJoinedBeforeQuitInvariant`: `Spec => []CtrlJoinedBeforeQuit`. This
  uses the inductive invariant `CtrlPhaseConsistent`, which ties the session
  thread's pc to the ctrl's state:
  - no ctrl before the ctrl start;
  - a running or failed ctrl up to `quit_ctrl`;
  - a stopping or exited ctrl while the join waits;
  - none, or a joined one, at `quit`;
  - the QUIT event is the last step.

- `FiniBalancedInvariant`: `Spec => []FiniBalanced`, for every set of
  failing init steps. A session that init set up completely and fini
  finalized has released each resource exactly once. The proof uses
  `ResourcesInv`: while the session lives, everything is acquired and
  nothing released; fini releases everything once; a failed init never
  reaches fini. The balance after a failed init (`ResourcesBalanced`) is
  not proved. It is false for the ctrl and stream failures (the
  init_unwind run), and the session_safety run checks it only for the
  other four failures.
- `ImplementsPhasesSafety` (in `SessionRefinement.tla`):
  `Spec => Abs!PInit /\ [][Abs!PNext]_Abs!avars`. `InitRefines` maps the
  initial state. `NextRefines` maps each action, one case per action, to
  an abstract step or a stutter, under `RefInv == TypeInv /\
  CtrlPhaseConsistent /\ SettleGranted`. Examples:
  - the request client's steps are `Answer` steps or stutters;
  - `SettleReturns` is `Abandon` or `Establish`, which is allowed because
    `SettleGranted` says the settle step has a granted request;
  - `CtrlJoined` is `Joined`;
  - `SendQuitEvent` is `Report`, which is allowed because
    `CtrlPhaseConsistent` puts a joined or absent ctrl at `quit`;
  - `SessionStop` is `Stop`, because a started session's thread has left
    idle.

- `RpVersionRoundTripInvariant` (in `SessionProofs.tla`):
  `Spec => []RpVersionRoundTrip`, from `TargetKnownInvariant` and the lemma
  `RpVersionInverse`: the version helpers are inverse on the four targets
  that have a version string.
- `PinForwardedToLiveCtrlTheorem` (in `SessionPinProofs.tla`):
  `Spec => PinForwardedToLiveCtrl`, an action property. `NextPinForward`
  shows that the only step that changes `ctrl_pins` is the third branch of
  `PinWaitReturns`; there `PinPred` with `~should_stop /\ ~ctrl_failed`
  gives the PIN, `CountersConsistent` the unanswered request. That the ctrl
  is running needs a new inductive invariant, `CtrlFailedConsistent`
  (lemma `NextCtrlFailed`): `ctrl_failed` is false while the ctrl is
  absent, running or stopping, and before `quit_ctrl` an exited ctrl is a
  failed one, since only `CtrlFail` sets the flag and it exits the ctrl in
  the same step, while `CtrlExit` happens only after `chiaki_ctrl_stop`,
  at `ctrl_join`.
- `PhasesInvariant` (in `SessionPhasesProofs.tla`): in the abstract
  protocol a ctrl is live exactly in the ctrl, stream and teardown phases,
  and a reason is reported only when done. `SessionRespectsPhases` (in
  `SessionRefinement.tla`) carries it to `Session` through
  `ImplementsPhasesSafety`, with the abstract theorem instantiated under the
  same mapping (`AbsProofs == INSTANCE SessionPhasesProofs WITH ...`).
- `FeedbackCurrentInvariant` (in `SessionLatchProofs.tla`):
  `LatchSpec => []FeedbackCurrent`. The invariant is inductive by itself.
  `LatchNextIsSessionStep` shows every step of the composition is a step
  of `Session` or leaves its variables alone, and
  `LatchCtrlJoinedBeforeQuit` uses it to carry `CtrlJoinedBeforeQuit` to
  the composition.

TLC checked `TypeInv`, `CtrlPhaseConsistent`, `CtrlFailedConsistent` and
`ResourcesInv` as invariants on the session_safety instance before they
were proved.

Only model-checked: the liveness properties, because the prover does not
handle fairness or ENABLED: `StopLeadsToQuit`, and the fairness part of
`ImplementsPhases`. The runs expected to find a violation are not proved
either; they are counterexamples.

## Not modelled

- A failure to lock the feedback mutex in `set_controller_state` (289):
  the mutex is initialised by a successful init, so the lock cannot fail.
- Senkusha's own run: it is one atomic step holding `state_mutex`, so a
  stop during the probe waits for the probe (the deadlock hazard in
  PROJECT.json).
- The ctrl passthroughs `goto_bed` and `keyboard_*` (827-845).
- `chiaki_rp_application_reason_string`, `chiaki_quit_reason_string` and the
  video profile presets: pure tables.
- The DID layout and the `connect_info` copies in `init`.
- `quit_reason_str`/`strdup` and the PIN bytes.
- The HTTP text and the `format_hex` and `snprintf` failures: these are
  unreachable for a 16-byte key in a 512-byte buffer.
- A thread-creation failure in `chiaki_session_start`.
- The data of rpcrypt, the nonce, the MTU and the RTT.

## Plan for later work

- A separate module for the request-session client with an abstract
  contract (SUCCESS, VERSION_MISMATCH with a target, or a failure with a
  reason) and the refinement of the candidate loop to it.
