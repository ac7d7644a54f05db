-------------------------- MODULE SessionRefinement --------------------------
(***************************************************************************)
(* The safety part of the refinement of SessionPhases by Session: under    *)
(* the mapping Abs of Session, every initial state is an initial state of  *)
(* the phase protocol and every step of the session, its embedder, its     *)
(* ctrl and its stream is a step of the protocol or leaves its variables  *)
(* unchanged.                                                             *)
(***************************************************************************)
EXTENDS SessionProofs

\* The ctrl is started only from the settle step, which the request phase
\* reaches only with a granted request; req_result changes only while a
\* request runs.
SettleGranted == pc = "settle" => req_result = "SUCCESS"

\* The invariant the step simulation rests on.
RefInv == TypeInv /\ CtrlPhaseConsistent /\ SettleGranted

LEMMA NextSettleGranted == SettleGranted /\ [Next]_vars => SettleGranted'
<1> SUFFICES ASSUME SettleGranted, [Next]_vars PROVE SettleGranted'
  OBVIOUS
<1> USE DEF SettleGranted, lifeVars, reqVars, ctrlVars, pinVars
<1>1. CASE SessionInit
  BY <1>1 DEF SessionInit, InitOrder, InitUnwind, Resources, Targets, InitSteps
<1>2. CASE SessionStart
  BY <1>2 DEF SessionStart, SessionPCs
<1>3. CASE SessionStop
  BY <1>3 DEF SessionStop
<1>4. CASE SessionSetLoginPin
  BY <1>4 DEF SessionSetLoginPin
<1>5. CASE SessionJoin
  BY <1>5 DEF SessionJoin
<1>6. CASE SessionFini
  BY <1>6 DEF SessionFini
<1>7. CASE RequestCandidate
  BY <1>7 DEF RequestCandidate, RequestNoSocket, RequestFails, SessionPCs, RequestResults, QuitReasons
<1>8. CASE RequestConnectReturns
  BY <1>8 DEF RequestConnectReturns, RequestSend, RequestNoSocket, RequestFails, SessionPCs, RequestResults, QuitReasons
<1>9. CASE RequestRecvReturns
  BY <1>9 DEF RequestRecvReturns, ApplyResponse, RequestFails, IsSuccess, IsVersionReport, ApplicationReasonQuit, RpVersionParse, UnknownTargets, SessionPCs, RequestResults, QuitReasons, Targets
<1>10. CASE ThreadStart
  BY <1>10 DEF ThreadStart, SessionPCs, QuitReasons, Targets
<1>11. CASE RequestReturned
  BY <1>11 DEF RequestReturned, RetryWithServerTarget, SessionPCs
<1>12. CASE SettleReturns
  BY <1>12 DEF SettleReturns, SessionPCs
<1>13. CASE CtrlStartWaitReturns
  BY <1>13 DEF CtrlStartWaitReturns, StopToQuitCtrl, CtrlFailedQuit, PinLoopHead, SessionPCs, QuitReasons
<1>14. CASE PinWaitReturns
  BY <1>14 DEF PinWaitReturns, PinPred, StopToQuitCtrl, CtrlFailedQuit, SessionPCs, QuitReasons
<1>15. CASE SessionIdWaitReturns
  BY <1>15 DEF SessionIdWaitReturns, StopToQuitCtrl, PinLoopHead, CtrlFailedQuit, SessionPCs, QuitReasons
<1>16. CASE Senkusha
  BY <1>16 DEF Senkusha, SessionPCs
<1>17. CASE StreamRunReturns
  BY <1>17 DEF StreamRunReturns, StreamQuitReason, SessionPCs, QuitReasons
<1>18. CASE StreamStopped
  BY <1>18 DEF StreamStopped, StreamQuitReason, SessionPCs, QuitReasons
<1>19. CASE QuitCtrl
  BY <1>19 DEF QuitCtrl, SessionPCs
<1>20. CASE CtrlJoined
  BY <1>20 DEF CtrlJoined, SessionPCs
<1>21. CASE SendQuitEvent
  BY <1>21 DEF SendQuitEvent, SessionPCs
<1>22. CASE CtrlSessionId
  BY <1>22 DEF CtrlSessionId, CtrlActs
<1>23. CASE CtrlLoginPinRequest
  BY <1>23 DEF CtrlLoginPinRequest, CtrlActs
<1>24. CASE CtrlFail
  BY <1>24 DEF CtrlFail, CtrlActs, CtrlQuitReasons, QuitReasons
<1>25. CASE CtrlExit
  BY <1>25 DEF CtrlExit
<1>26. CASE UNCHANGED vars
  BY <1>26 DEF vars
<1>27. QED
  BY <1>1, <1>2, <1>3, <1>4, <1>5, <1>6, <1>7, <1>8, <1>9, <1>10, <1>11, <1>12, <1>13, <1>14, <1>15, <1>16, <1>17, <1>18, <1>19, <1>20, <1>21, <1>22, <1>23, <1>24, <1>25, <1>26
  DEF Next, Embedder, SessionThread, Ctrl

LEMMA RefInvariant == Spec => []RefInv
<1>1. Init => CtrlPhaseConsistent /\ SettleGranted
  BY DEF Init, CtrlPhaseConsistent, SettleGranted
<1>2. QED
  BY <1>1, InitTypeInv, NextTypeInv, NextCtrlPhase, NextSettleGranted, PTL DEF Spec, RefInv

LEMMA InitRefines == Init => Abs!PInit
  BY DEF Init, Abs!PInit, PhaseOf, CtrlLive

LEMMA NextRefines == RefInv /\ [Next]_vars => [Abs!PNext]_Abs!avars
<1> SUFFICES ASSUME RefInv, [Next]_vars PROVE [Abs!PNext]_Abs!avars
  OBVIOUS
<1> USE DEF RefInv, SettleGranted, TypeInv, TypeOK, lifeVars, reqVars, ctrlVars, pinVars
<1>1. CASE SessionInit
  BY <1>1 DEF SessionInit, InitOrder, InitUnwind, Resources, Targets, InitSteps,
     Abs!PNext, Abs!Advance, Abs!Answer, Abs!Begin, Abs!Establish, Abs!Abandon, Abs!Handover,
     Abs!Teardown, Abs!Joined, Abs!Report, Abs!Stop, Abs!avars, PhaseOf, CtrlLive, CtrlPhaseConsistent, LifeTypeOK
<1>2. CASE SessionStart
  BY <1>2 DEF SessionStart, SessionPCs,
     Abs!PNext, Abs!Advance, Abs!Answer, Abs!Begin, Abs!Establish, Abs!Abandon, Abs!Handover,
     Abs!Teardown, Abs!Joined, Abs!Report, Abs!Stop, Abs!avars, PhaseOf, CtrlLive, CtrlPhaseConsistent, LifeTypeOK
<1>3. CASE SessionStop
  <2>1. pc \in SessionPCs \ {"idle"}
    BY <1>3 DEF SessionStop, CtrlPhaseConsistent, LifeTypeOK
  <2>2. PhaseOf(pc) # "idle"
    BY <2>1 DEF PhaseOf, SessionPCs
  <2>3. Abs!Stop
    BY <1>3, <2>2 DEF SessionStop, Abs!Stop, CtrlLive
  <2>4. QED
    BY <2>3 DEF Abs!PNext
<1>4. CASE SessionSetLoginPin
  BY <1>4 DEF SessionSetLoginPin,
     Abs!PNext, Abs!Advance, Abs!Answer, Abs!Begin, Abs!Establish, Abs!Abandon, Abs!Handover,
     Abs!Teardown, Abs!Joined, Abs!Report, Abs!Stop, Abs!avars, PhaseOf, CtrlLive, CtrlPhaseConsistent, LifeTypeOK
<1>5. CASE SessionJoin
  BY <1>5 DEF SessionJoin,
     Abs!PNext, Abs!Advance, Abs!Answer, Abs!Begin, Abs!Establish, Abs!Abandon, Abs!Handover,
     Abs!Teardown, Abs!Joined, Abs!Report, Abs!Stop, Abs!avars, PhaseOf, CtrlLive, CtrlPhaseConsistent, LifeTypeOK
<1>6. CASE SessionFini
  BY <1>6 DEF SessionFini,
     Abs!PNext, Abs!Advance, Abs!Answer, Abs!Begin, Abs!Establish, Abs!Abandon, Abs!Handover,
     Abs!Teardown, Abs!Joined, Abs!Report, Abs!Stop, Abs!avars, PhaseOf, CtrlLive, CtrlPhaseConsistent, LifeTypeOK
<1>7. CASE RequestCandidate
  BY <1>7 DEF RequestCandidate, RequestNoSocket, RequestFails, SessionPCs, RequestResults, QuitReasons,
     Abs!PNext, Abs!Advance, Abs!Answer, Abs!Begin, Abs!Establish, Abs!Abandon, Abs!Handover,
     Abs!Teardown, Abs!Joined, Abs!Report, Abs!Stop, Abs!avars, PhaseOf, CtrlLive, CtrlPhaseConsistent, LifeTypeOK
<1>8. CASE RequestConnectReturns
  BY <1>8 DEF RequestConnectReturns, RequestSend, RequestNoSocket, RequestFails, SessionPCs, RequestResults, QuitReasons,
     Abs!PNext, Abs!Advance, Abs!Answer, Abs!Begin, Abs!Establish, Abs!Abandon, Abs!Handover,
     Abs!Teardown, Abs!Joined, Abs!Report, Abs!Stop, Abs!avars, PhaseOf, CtrlLive, CtrlPhaseConsistent, LifeTypeOK
<1>9. CASE RequestRecvReturns
  BY <1>9 DEF RequestRecvReturns, ApplyResponse, RequestFails, IsSuccess, IsVersionReport, ApplicationReasonQuit, RpVersionParse, UnknownTargets, SessionPCs, RequestResults, QuitReasons, Targets,
     Abs!PNext, Abs!Advance, Abs!Answer, Abs!Begin, Abs!Establish, Abs!Abandon, Abs!Handover,
     Abs!Teardown, Abs!Joined, Abs!Report, Abs!Stop, Abs!avars, PhaseOf, CtrlLive, CtrlPhaseConsistent, LifeTypeOK
<1>10. CASE ThreadStart
  BY <1>10 DEF ThreadStart, SessionPCs, QuitReasons, Targets,
     Abs!PNext, Abs!Advance, Abs!Answer, Abs!Begin, Abs!Establish, Abs!Abandon, Abs!Handover,
     Abs!Teardown, Abs!Joined, Abs!Report, Abs!Stop, Abs!avars, PhaseOf, CtrlLive, CtrlPhaseConsistent, LifeTypeOK
<1>11. CASE RequestReturned
  BY <1>11 DEF RequestReturned, RetryWithServerTarget, SessionPCs,
     Abs!PNext, Abs!Advance, Abs!Answer, Abs!Begin, Abs!Establish, Abs!Abandon, Abs!Handover,
     Abs!Teardown, Abs!Joined, Abs!Report, Abs!Stop, Abs!avars, PhaseOf, CtrlLive, CtrlPhaseConsistent, LifeTypeOK
<1>12. CASE SettleReturns
  BY <1>12 DEF SettleReturns, SessionPCs,
     Abs!PNext, Abs!Advance, Abs!Answer, Abs!Begin, Abs!Establish, Abs!Abandon, Abs!Handover,
     Abs!Teardown, Abs!Joined, Abs!Report, Abs!Stop, Abs!avars, PhaseOf, CtrlLive, CtrlPhaseConsistent, LifeTypeOK
<1>13. CASE CtrlStartWaitReturns
  BY <1>13 DEF CtrlStartWaitReturns, StopToQuitCtrl, CtrlFailedQuit, PinLoopHead, SessionPCs, QuitReasons,
     Abs!PNext, Abs!Advance, Abs!Answer, Abs!Begin, Abs!Establish, Abs!Abandon, Abs!Handover,
     Abs!Teardown, Abs!Joined, Abs!Report, Abs!Stop, Abs!avars, PhaseOf, CtrlLive, CtrlPhaseConsistent, LifeTypeOK
<1>14. CASE PinWaitReturns
  BY <1>14 DEF PinWaitReturns, PinPred, StopToQuitCtrl, CtrlFailedQuit, SessionPCs, QuitReasons,
     Abs!PNext, Abs!Advance, Abs!Answer, Abs!Begin, Abs!Establish, Abs!Abandon, Abs!Handover,
     Abs!Teardown, Abs!Joined, Abs!Report, Abs!Stop, Abs!avars, PhaseOf, CtrlLive, CtrlPhaseConsistent, LifeTypeOK
<1>15. CASE SessionIdWaitReturns
  BY <1>15 DEF SessionIdWaitReturns, StopToQuitCtrl, PinLoopHead, CtrlFailedQuit, SessionPCs, QuitReasons,
     Abs!PNext, Abs!Advance, Abs!Answer, Abs!Begin, Abs!Establish, Abs!Abandon, Abs!Handover,
     Abs!Teardown, Abs!Joined, Abs!Report, Abs!Stop, Abs!avars, PhaseOf, CtrlLive, CtrlPhaseConsistent, LifeTypeOK
<1>16. CASE Senkusha
  BY <1>16 DEF Senkusha, SessionPCs,
     Abs!PNext, Abs!Advance, Abs!Answer, Abs!Begin, Abs!Establish, Abs!Abandon, Abs!Handover,
     Abs!Teardown, Abs!Joined, Abs!Report, Abs!Stop, Abs!avars, PhaseOf, CtrlLive, CtrlPhaseConsistent, LifeTypeOK
<1>17. CASE StreamRunReturns
  BY <1>17 DEF StreamRunReturns, StreamQuitReason, SessionPCs, QuitReasons,
     Abs!PNext, Abs!Advance, Abs!Answer, Abs!Begin, Abs!Establish, Abs!Abandon, Abs!Handover,
     Abs!Teardown, Abs!Joined, Abs!Report, Abs!Stop, Abs!avars, PhaseOf, CtrlLive, CtrlPhaseConsistent, LifeTypeOK
<1>18. CASE StreamStopped
  BY <1>18 DEF StreamStopped, StreamQuitReason, SessionPCs, QuitReasons,
     Abs!PNext, Abs!Advance, Abs!Answer, Abs!Begin, Abs!Establish, Abs!Abandon, Abs!Handover,
     Abs!Teardown, Abs!Joined, Abs!Report, Abs!Stop, Abs!avars, PhaseOf, CtrlLive, CtrlPhaseConsistent, LifeTypeOK
<1>19. CASE QuitCtrl
  BY <1>19 DEF QuitCtrl, SessionPCs,
     Abs!PNext, Abs!Advance, Abs!Answer, Abs!Begin, Abs!Establish, Abs!Abandon, Abs!Handover,
     Abs!Teardown, Abs!Joined, Abs!Report, Abs!Stop, Abs!avars, PhaseOf, CtrlLive, CtrlPhaseConsistent, LifeTypeOK
<1>20. CASE CtrlJoined
  BY <1>20 DEF CtrlJoined, SessionPCs,
     Abs!PNext, Abs!Advance, Abs!Answer, Abs!Begin, Abs!Establish, Abs!Abandon, Abs!Handover,
     Abs!Teardown, Abs!Joined, Abs!Report, Abs!Stop, Abs!avars, PhaseOf, CtrlLive, CtrlPhaseConsistent, LifeTypeOK
<1>21. CASE SendQuitEvent
  BY <1>21 DEF SendQuitEvent, SessionPCs,
     Abs!PNext, Abs!Advance, Abs!Answer, Abs!Begin, Abs!Establish, Abs!Abandon, Abs!Handover,
     Abs!Teardown, Abs!Joined, Abs!Report, Abs!Stop, Abs!avars, PhaseOf, CtrlLive, CtrlPhaseConsistent, LifeTypeOK
<1>22. CASE CtrlSessionId
  BY <1>22 DEF CtrlSessionId, CtrlActs,
     Abs!PNext, Abs!Advance, Abs!Answer, Abs!Begin, Abs!Establish, Abs!Abandon, Abs!Handover,
     Abs!Teardown, Abs!Joined, Abs!Report, Abs!Stop, Abs!avars, PhaseOf, CtrlLive, CtrlPhaseConsistent, LifeTypeOK
<1>23. CASE CtrlLoginPinRequest
  BY <1>23 DEF CtrlLoginPinRequest, CtrlActs,
     Abs!PNext, Abs!Advance, Abs!Answer, Abs!Begin, Abs!Establish, Abs!Abandon, Abs!Handover,
     Abs!Teardown, Abs!Joined, Abs!Report, Abs!Stop, Abs!avars, PhaseOf, CtrlLive, CtrlPhaseConsistent, LifeTypeOK
<1>24. CASE CtrlFail
  BY <1>24 DEF CtrlFail, CtrlActs, CtrlQuitReasons, QuitReasons,
     Abs!PNext, Abs!Advance, Abs!Answer, Abs!Begin, Abs!Establish, Abs!Abandon, Abs!Handover,
     Abs!Teardown, Abs!Joined, Abs!Report, Abs!Stop, Abs!avars, PhaseOf, CtrlLive, CtrlPhaseConsistent, LifeTypeOK
<1>25. CASE CtrlExit
  BY <1>25 DEF CtrlExit,
     Abs!PNext, Abs!Advance, Abs!Answer, Abs!Begin, Abs!Establish, Abs!Abandon, Abs!Handover,
     Abs!Teardown, Abs!Joined, Abs!Report, Abs!Stop, Abs!avars, PhaseOf, CtrlLive, CtrlPhaseConsistent, LifeTypeOK
<1>26. CASE UNCHANGED vars
  BY <1>26 DEF vars, Abs!avars, PhaseOf, CtrlLive
<1>27. QED
  BY <1>1, <1>2, <1>3, <1>4, <1>5, <1>6, <1>7, <1>8, <1>9, <1>10, <1>11, <1>12, <1>13, <1>14, <1>15, <1>16, <1>17, <1>18, <1>19, <1>20, <1>21, <1>22, <1>23, <1>24, <1>25, <1>26
  DEF Next, Embedder, SessionThread, Ctrl

\* session_thread_func, with the API calls, the ctrl and the stream around
\* it, only takes steps the phase protocol allows: the ctrl is started
\* after a successful request, the phases never go back, and the QUIT
\* event is sent once, with no ctrl left unjoined.
THEOREM ImplementsPhasesSafety == Spec => Abs!PInit /\ [][Abs!PNext]_Abs!avars
<1>1. Spec => Abs!PInit
  BY InitRefines, PTL DEF Spec
<1>2. Spec => [][Abs!PNext]_Abs!avars
  BY RefInvariant, NextRefines, PTL DEF Spec
<1>3. QED
  BY <1>1, <1>2

-----------------------------------------------------------------------------
(* What the phase protocol guarantees carries over to the session through *)
(* the refinement mapping: PhasesInvariant, proved of SessionPhases, holds *)
(* of the image of every behaviour of Session.                            *)

AbsProofs == INSTANCE SessionPhasesProofs
               WITH phase <- PhaseOf(pc), ctrlLive <- CtrlLive, stop <- should_stop,
                    reported <- quit_event, granted <- (req_result = "SUCCESS"),
                    Reasons <- QuitReasons

\* A ctrl thread that chiaki_ctrl_start created and chiaki_ctrl_join has not
\* yet reaped exists exactly while session_thread_func is between the
\* ctrl's start and the return of its join, and the QUIT event has been
\* sent only by a thread that has finished: derived from the abstract
\* protocol, not from the session's own invariants.
THEOREM SessionRespectsPhases == Spec => []AbsProofs!PhasesInv
<1>1. Abs!PInit <=> AbsProofs!PInit
  BY DEF Abs!PInit, AbsProofs!PInit
<1>2. [Abs!PNext]_Abs!avars <=> [AbsProofs!PNext]_AbsProofs!avars
  BY DEF Abs!PNext, AbsProofs!PNext, Abs!Advance, AbsProofs!Advance,
     Abs!Answer, AbsProofs!Answer, Abs!Begin, AbsProofs!Begin, Abs!Establish, AbsProofs!Establish,
     Abs!Abandon, AbsProofs!Abandon, Abs!Handover, AbsProofs!Handover,
     Abs!Teardown, AbsProofs!Teardown, Abs!Joined, AbsProofs!Joined,
     Abs!Report, AbsProofs!Report, Abs!Stop, AbsProofs!Stop,
     Abs!avars, AbsProofs!avars
<1>3. Spec => AbsProofs!PInit /\ [][AbsProofs!PNext]_AbsProofs!avars
  BY ImplementsPhasesSafety, <1>1, <1>2, PTL
<1>4. QED
  BY <1>3, AbsProofs!PhasesInvariant
=============================================================================
