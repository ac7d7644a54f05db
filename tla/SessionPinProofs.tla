--------------------------- MODULE SessionPinProofs ---------------------------
(***************************************************************************)
(* Proofs about the Login PIN exchange between session_thread_func and    *)
(* the ctrl thread, for every value of the constants.                     *)
(***************************************************************************)
EXTENDS SessionProofs

-----------------------------------------------------------------------------
(* CtrlFailedConsistent is inductive relative to TypeInv and              *)
(* CtrlPhaseConsistent: only CtrlFail sets ctrl_failed, and it sets        *)
(* the ctrl to exited in the same step; a ctrl that exits after            *)
(* chiaki_ctrl_stop does so at ctrl_join, past the pcs the second          *)
(* conjunct names.                                                         *)

LEMMA NextCtrlFailed ==
    TypeInv /\ CtrlPhaseConsistent /\ CtrlFailedConsistent /\ [Next]_vars
      => CtrlFailedConsistent'
<1> SUFFICES ASSUME TypeInv, CtrlPhaseConsistent, CtrlFailedConsistent, [Next]_vars
             PROVE CtrlFailedConsistent'
  OBVIOUS
<1> USE DEF lifeVars, reqVars, ctrlVars, pinVars
<1>1. CASE SessionInit
  BY <1>1 DEF SessionInit, InitOrder, InitUnwind, Resources, Targets, InitSteps, CtrlFailedConsistent, CtrlPhaseConsistent,
     TypeInv, TypeOK, LifeTypeOK, CtrlTypeOK
<1>2. CASE SessionStart
  BY <1>2 DEF SessionStart, SessionPCs, CtrlFailedConsistent, CtrlPhaseConsistent,
     TypeInv, TypeOK, LifeTypeOK, CtrlTypeOK
<1>3. CASE SessionStop
  BY <1>3 DEF SessionStop, CtrlFailedConsistent, CtrlPhaseConsistent,
     TypeInv, TypeOK, LifeTypeOK, CtrlTypeOK
<1>4. CASE SessionSetLoginPin
  BY <1>4 DEF SessionSetLoginPin, CtrlFailedConsistent, CtrlPhaseConsistent,
     TypeInv, TypeOK, LifeTypeOK, CtrlTypeOK
<1>5. CASE SessionJoin
  BY <1>5 DEF SessionJoin, CtrlFailedConsistent, CtrlPhaseConsistent,
     TypeInv, TypeOK, LifeTypeOK, CtrlTypeOK
<1>6. CASE SessionFini
  BY <1>6 DEF SessionFini, CtrlFailedConsistent, CtrlPhaseConsistent,
     TypeInv, TypeOK, LifeTypeOK, CtrlTypeOK
<1>7. CASE RequestCandidate
  BY <1>7 DEF RequestCandidate, RequestNoSocket, RequestFails, SessionPCs, RequestResults, QuitReasons, CtrlFailedConsistent, CtrlPhaseConsistent,
     TypeInv, TypeOK, LifeTypeOK, CtrlTypeOK
<1>8. CASE RequestConnectReturns
  BY <1>8 DEF RequestConnectReturns, RequestSend, RequestNoSocket, RequestFails, SessionPCs, RequestResults, QuitReasons, CtrlFailedConsistent, CtrlPhaseConsistent,
     TypeInv, TypeOK, LifeTypeOK, CtrlTypeOK
<1>9. CASE RequestRecvReturns
  BY <1>9 DEF RequestRecvReturns, ApplyResponse, RequestFails, IsSuccess, IsVersionReport, ApplicationReasonQuit, RpVersionParse, UnknownTargets, SessionPCs, RequestResults, QuitReasons, Targets, CtrlFailedConsistent, CtrlPhaseConsistent,
     TypeInv, TypeOK, LifeTypeOK, CtrlTypeOK
<1>10. CASE ThreadStart
  BY <1>10 DEF ThreadStart, SessionPCs, QuitReasons, Targets, CtrlFailedConsistent, CtrlPhaseConsistent,
     TypeInv, TypeOK, LifeTypeOK, CtrlTypeOK
<1>11. CASE RequestReturned
  BY <1>11 DEF RequestReturned, RetryWithServerTarget, SessionPCs, CtrlFailedConsistent, CtrlPhaseConsistent,
     TypeInv, TypeOK, LifeTypeOK, CtrlTypeOK
<1>12. CASE SettleReturns
  BY <1>12 DEF SettleReturns, SessionPCs, CtrlFailedConsistent, CtrlPhaseConsistent,
     TypeInv, TypeOK, LifeTypeOK, CtrlTypeOK
<1>13. CASE CtrlStartWaitReturns
  BY <1>13 DEF CtrlStartWaitReturns, StopToQuitCtrl, CtrlFailedQuit, PinLoopHead, SessionPCs, QuitReasons, CtrlFailedConsistent, CtrlPhaseConsistent,
     TypeInv, TypeOK, LifeTypeOK, CtrlTypeOK
<1>14. CASE PinWaitReturns
  BY <1>14 DEF PinWaitReturns, PinPred, StopToQuitCtrl, CtrlFailedQuit, SessionPCs, QuitReasons, CtrlFailedConsistent, CtrlPhaseConsistent,
     TypeInv, TypeOK, LifeTypeOK, CtrlTypeOK
<1>15. CASE SessionIdWaitReturns
  BY <1>15 DEF SessionIdWaitReturns, StopToQuitCtrl, PinLoopHead, CtrlFailedQuit, SessionPCs, QuitReasons, CtrlFailedConsistent, CtrlPhaseConsistent,
     TypeInv, TypeOK, LifeTypeOK, CtrlTypeOK
<1>16. CASE Senkusha
  BY <1>16 DEF Senkusha, SessionPCs, CtrlFailedConsistent, CtrlPhaseConsistent,
     TypeInv, TypeOK, LifeTypeOK, CtrlTypeOK
<1>17. CASE StreamRunReturns
  BY <1>17 DEF StreamRunReturns, StreamQuitReason, SessionPCs, QuitReasons, CtrlFailedConsistent, CtrlPhaseConsistent,
     TypeInv, TypeOK, LifeTypeOK, CtrlTypeOK
<1>18. CASE StreamStopped
  BY <1>18 DEF StreamStopped, StreamQuitReason, SessionPCs, QuitReasons, CtrlFailedConsistent, CtrlPhaseConsistent,
     TypeInv, TypeOK, LifeTypeOK, CtrlTypeOK
<1>19. CASE QuitCtrl
  BY <1>19 DEF QuitCtrl, SessionPCs, CtrlFailedConsistent, CtrlPhaseConsistent,
     TypeInv, TypeOK, LifeTypeOK, CtrlTypeOK
<1>20. CASE CtrlJoined
  BY <1>20 DEF CtrlJoined, SessionPCs, CtrlFailedConsistent, CtrlPhaseConsistent,
     TypeInv, TypeOK, LifeTypeOK, CtrlTypeOK
<1>21. CASE SendQuitEvent
  BY <1>21 DEF SendQuitEvent, SessionPCs, CtrlFailedConsistent, CtrlPhaseConsistent,
     TypeInv, TypeOK, LifeTypeOK, CtrlTypeOK
<1>22. CASE CtrlSessionId
  BY <1>22 DEF CtrlSessionId, CtrlActs, CtrlFailedConsistent, CtrlPhaseConsistent,
     TypeInv, TypeOK, LifeTypeOK, CtrlTypeOK
<1>23. CASE CtrlLoginPinRequest
  BY <1>23 DEF CtrlLoginPinRequest, CtrlActs, CtrlFailedConsistent, CtrlPhaseConsistent,
     TypeInv, TypeOK, LifeTypeOK, CtrlTypeOK
<1>24. CASE CtrlFail
  BY <1>24 DEF CtrlFail, CtrlActs, CtrlQuitReasons, QuitReasons, CtrlFailedConsistent, CtrlPhaseConsistent,
     TypeInv, TypeOK, LifeTypeOK, CtrlTypeOK
<1>25. CASE CtrlExit
  BY <1>25 DEF CtrlExit, CtrlFailedConsistent, CtrlPhaseConsistent,
     TypeInv, TypeOK, LifeTypeOK, CtrlTypeOK
<1>26. CASE UNCHANGED vars
  BY <1>26 DEF vars, CtrlFailedConsistent
<1>27. QED
  BY <1>1, <1>2, <1>3, <1>4, <1>5, <1>6, <1>7, <1>8, <1>9, <1>10, <1>11, <1>12, <1>13, <1>14, <1>15, <1>16, <1>17, <1>18, <1>19, <1>20, <1>21, <1>22, <1>23, <1>24, <1>25, <1>26
  DEF Next, Embedder, SessionThread, Ctrl
-----------------------------------------------------------------------------
(* Every step that hands a PIN to the ctrl is the third branch of         *)
(* PinWaitReturns: there should_stop and ctrl_failed are both false, so    *)
(* the predicate of the wait says a PIN is in the slot, the ctrl is the    *)
(* running one (an exited ctrl at wait_pin has failed), and the PIN loop's *)
(* bookkeeping leaves an unanswered request.                               *)

LEMMA NextPinForward ==
    TypeInv /\ CtrlPhaseConsistent /\ CtrlFailedConsistent /\ [Next]_vars
      => PinForward
<1> SUFFICES ASSUME TypeInv, CtrlPhaseConsistent, CtrlFailedConsistent, [Next]_vars,
                    ctrl_pins' # ctrl_pins
             PROVE  /\ ctrl = "running"
                    /\ ctrl_pins < ctrl_pin_requests
                    /\ login_pin_entered
  BY DEF PinForward
<1> USE DEF lifeVars, reqVars, ctrlVars, pinVars
<1>1. CASE SessionInit
  BY <1>1 DEF SessionInit
<1>2. CASE SessionStart
  BY <1>2 DEF SessionStart
<1>3. CASE SessionStop
  BY <1>3 DEF SessionStop
<1>4. CASE SessionSetLoginPin
  BY <1>4 DEF SessionSetLoginPin
<1>5. CASE SessionJoin
  BY <1>5 DEF SessionJoin
<1>6. CASE SessionFini
  BY <1>6 DEF SessionFini
<1>7. CASE RequestCandidate
  BY <1>7 DEF RequestCandidate
<1>8. CASE RequestConnectReturns
  BY <1>8 DEF RequestConnectReturns
<1>9. CASE RequestRecvReturns
  BY <1>9 DEF RequestRecvReturns
<1>10. CASE ThreadStart
  BY <1>10 DEF ThreadStart
<1>11. CASE RequestReturned
  BY <1>11 DEF RequestReturned
<1>12. CASE SettleReturns
  BY <1>12 DEF SettleReturns
<1>13. CASE CtrlStartWaitReturns
  BY <1>13 DEF CtrlStartWaitReturns, StopToQuitCtrl, CtrlFailedQuit, PinLoopHead
<1>14. CASE PinWaitReturns
  <2>1. pc = "wait_pin" /\ ~should_stop /\ ~ctrl_failed
    BY <1>14 DEF PinWaitReturns, StopToQuitCtrl, CtrlFailedQuit
  <2>2. login_pin_entered
    BY <1>14, <2>1 DEF PinWaitReturns, PinPred
  <2>3. ctrl = "running"
    BY <2>1 DEF CtrlPhaseConsistent, CtrlFailedConsistent
  <2>4. ctrl_pins < ctrl_pin_requests
    BY <2>1 DEF TypeInv, TypeOK, CtrlTypeOK, CountersConsistent
  <2>5. QED
    BY <2>2, <2>3, <2>4
<1>15. CASE SessionIdWaitReturns
  BY <1>15 DEF SessionIdWaitReturns, StopToQuitCtrl, CtrlFailedQuit, PinLoopHead
<1>16. CASE Senkusha
  BY <1>16 DEF Senkusha
<1>17. CASE StreamRunReturns
  BY <1>17 DEF StreamRunReturns
<1>18. CASE StreamStopped
  BY <1>18 DEF StreamStopped
<1>19. CASE QuitCtrl
  BY <1>19 DEF QuitCtrl
<1>20. CASE CtrlJoined
  BY <1>20 DEF CtrlJoined
<1>21. CASE SendQuitEvent
  BY <1>21 DEF SendQuitEvent
<1>22. CASE CtrlSessionId
  BY <1>22 DEF CtrlSessionId, CtrlActs
<1>23. CASE CtrlLoginPinRequest
  BY <1>23 DEF CtrlLoginPinRequest, CtrlActs
<1>24. CASE CtrlFail
  BY <1>24 DEF CtrlFail, CtrlActs
<1>25. CASE CtrlExit
  BY <1>25 DEF CtrlExit
<1>26. CASE UNCHANGED vars
  BY <1>26 DEF vars
<1>27. QED
  BY <1>1, <1>2, <1>3, <1>4, <1>5, <1>6, <1>7, <1>8, <1>9, <1>10, <1>11, <1>12, <1>13, <1>14, <1>15, <1>16, <1>17, <1>18, <1>19, <1>20, <1>21, <1>22, <1>23, <1>24, <1>25, <1>26
  DEF Next, Embedder, SessionThread, Ctrl

\* The session hands a PIN to the ctrl only while that ctrl is running and
\* has a request the session has not yet answered, and only with a PIN in
\* the slot, whatever the interleaving of a ctrl failure with the PIN wait.
THEOREM PinForwardedToLiveCtrlTheorem == Spec => PinForwardedToLiveCtrl
<1>1. Init => CtrlPhaseConsistent /\ CtrlFailedConsistent
  BY DEF Init, CtrlPhaseConsistent, CtrlFailedConsistent
<1>2. Spec => []TypeInv
  BY InitTypeInv, NextTypeInv, PTL DEF Spec
<1>3. Spec => [](CtrlPhaseConsistent /\ CtrlFailedConsistent)
  BY <1>1, <1>2, NextCtrlPhase, NextCtrlFailed, PTL DEF Spec
<1>4. QED
  BY <1>2, <1>3, NextPinForward, PTL DEF Spec, PinForwardedToLiveCtrl

====
