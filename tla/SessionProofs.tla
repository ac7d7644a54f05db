--------------------------- MODULE SessionProofs ---------------------------
(***************************************************************************)
(* Proofs about Session for every value of its constants.                 *)
(***************************************************************************)
EXTENDS Session, TLAPS


-----------------------------------------------------------------------------
(* TypeInv is inductive: TypeOK together with the PIN bookkeeping that    *)
(* bounds the counters the PIN loop increments.                           *)

LEMMA InitTypeInv == Init => TypeInv
<1> SUFFICES ASSUME Init PROVE TypeInv
  OBVIOUS
<1>1. acquired \in [Resources -> 0..1] /\ released \in [Resources -> 0..1]
  BY DEF Init
<1>7. released \in [Resources -> 0..2]
  BY DEF Init
<1>2. LifeTypeOK
  BY <1>1, <1>7, Zenon DEF Init, LifeTypeOK, SessionPCs, QuitReasons
<1>8. NumAddrs \in Nat /\ NumAddrs >= 1
      /\ MaxPinRequests \in Nat /\ MaxPinEntries \in Nat
  BY ConstantsAssumption
<1>3. RequestTypeOK
  BY <1>8 DEF Init, RequestTypeOK, Targets, RequestResults
<1>9. /\ ctrl \in {"none", "running", "stopping", "exited", "joined"}
      /\ ctrl_failed \in BOOLEAN
      /\ ctrl_session_id_received \in BOOLEAN
      /\ ctrl_login_pin_requested \in BOOLEAN
      /\ login_pin_entered \in BOOLEAN
  BY Zenon DEF Init
<1>10. /\ ctrl_pin_requests \in 0..MaxPinRequests
       /\ ctrl_pins \in 0..MaxPinRequests
       /\ login_pin_entered_at \in 0..MaxPinRequests
       /\ pin_entries \in 0..MaxPinEntries
       /\ pin_events \in 0..MaxPinRequests
  BY <1>8 DEF Init
<1>4. CtrlTypeOK
  BY <1>9, <1>10, Zenon DEF CtrlTypeOK
<1>5. CountersConsistent
  <2>1. life # "finalized" => released \in [Resources -> 0..1]
    BY <1>1
  <2>2. pc # "connect" /\ pc # "wait_pin"
    BY DEF Init
  <2>3. QED
    BY <2>1, <2>2 DEF Init, CountersConsistent
<1>6. QED
  BY <1>2, <1>3, <1>4, <1>5 DEF TypeInv, TypeOK

LEMMA NextTypeInv == TypeInv /\ [Next]_vars => TypeInv'
<1> SUFFICES ASSUME TypeInv, [Next]_vars PROVE TypeInv'
  OBVIOUS
<1> USE ConstantsAssumption DEF TypeInv, TypeOK, lifeVars, reqVars, ctrlVars, pinVars
<1>1. CASE SessionInit
  <2>1. LifeTypeOK'
    BY <1>1 DEF SessionInit, InitOrder, InitUnwind, Resources, Targets, InitSteps,
       LifeTypeOK, RequestTypeOK, CtrlTypeOK, CountersConsistent
  <2>2. RequestTypeOK'
    BY <1>1 DEF SessionInit, InitOrder, InitUnwind, Resources, Targets, InitSteps,
       LifeTypeOK, RequestTypeOK, CtrlTypeOK, CountersConsistent
  <2>3. CtrlTypeOK'
    BY <1>1 DEF SessionInit, InitOrder, InitUnwind, Resources, Targets, InitSteps,
       LifeTypeOK, RequestTypeOK, CtrlTypeOK, CountersConsistent
  <2>4. CountersConsistent'
    BY <1>1 DEF SessionInit, InitOrder, InitUnwind, Resources, Targets, InitSteps,
       LifeTypeOK, RequestTypeOK, CtrlTypeOK, CountersConsistent
  <2>5. QED
    BY <2>1, <2>2, <2>3, <2>4
<1>2. CASE SessionStart
  <2>1. LifeTypeOK'
    BY <1>2 DEF SessionStart, SessionPCs,
       LifeTypeOK, RequestTypeOK, CtrlTypeOK, CountersConsistent
  <2>2. RequestTypeOK'
    BY <1>2 DEF SessionStart, SessionPCs,
       LifeTypeOK, RequestTypeOK, CtrlTypeOK, CountersConsistent
  <2>3. CtrlTypeOK'
    BY <1>2 DEF SessionStart, SessionPCs,
       LifeTypeOK, RequestTypeOK, CtrlTypeOK, CountersConsistent
  <2>4. CountersConsistent'
    BY <1>2 DEF SessionStart, SessionPCs,
       LifeTypeOK, RequestTypeOK, CtrlTypeOK, CountersConsistent
  <2>5. QED
    BY <2>1, <2>2, <2>3, <2>4
<1>3. CASE SessionStop
  <2>1. LifeTypeOK'
    BY <1>3 DEF SessionStop,
       LifeTypeOK, RequestTypeOK, CtrlTypeOK, CountersConsistent
  <2>2. RequestTypeOK'
    BY <1>3 DEF SessionStop,
       LifeTypeOK, RequestTypeOK, CtrlTypeOK, CountersConsistent
  <2>3. CtrlTypeOK'
    BY <1>3 DEF SessionStop,
       LifeTypeOK, RequestTypeOK, CtrlTypeOK, CountersConsistent
  <2>4. CountersConsistent'
    BY <1>3 DEF SessionStop,
       LifeTypeOK, RequestTypeOK, CtrlTypeOK, CountersConsistent
  <2>5. QED
    BY <2>1, <2>2, <2>3, <2>4
<1>4. CASE SessionSetLoginPin
  <2>1. LifeTypeOK'
    BY <1>4 DEF SessionSetLoginPin,
       LifeTypeOK, RequestTypeOK, CtrlTypeOK, CountersConsistent
  <2>2. RequestTypeOK'
    BY <1>4 DEF SessionSetLoginPin,
       LifeTypeOK, RequestTypeOK, CtrlTypeOK, CountersConsistent
  <2>3. CtrlTypeOK'
    BY <1>4 DEF SessionSetLoginPin,
       LifeTypeOK, RequestTypeOK, CtrlTypeOK, CountersConsistent
  <2>4. CountersConsistent'
    BY <1>4 DEF SessionSetLoginPin,
       LifeTypeOK, RequestTypeOK, CtrlTypeOK, CountersConsistent
  <2>5. QED
    BY <2>1, <2>2, <2>3, <2>4
<1>5. CASE SessionJoin
  <2>1. LifeTypeOK'
    BY <1>5 DEF SessionJoin,
       LifeTypeOK, RequestTypeOK, CtrlTypeOK, CountersConsistent
  <2>2. RequestTypeOK'
    BY <1>5 DEF SessionJoin,
       LifeTypeOK, RequestTypeOK, CtrlTypeOK, CountersConsistent
  <2>3. CtrlTypeOK'
    BY <1>5 DEF SessionJoin,
       LifeTypeOK, RequestTypeOK, CtrlTypeOK, CountersConsistent
  <2>4. CountersConsistent'
    BY <1>5 DEF SessionJoin,
       LifeTypeOK, RequestTypeOK, CtrlTypeOK, CountersConsistent
  <2>5. QED
    BY <2>1, <2>2, <2>3, <2>4
<1>6. CASE SessionFini
  <2>1. LifeTypeOK'
    BY <1>6 DEF SessionFini,
       LifeTypeOK, RequestTypeOK, CtrlTypeOK, CountersConsistent
  <2>2. RequestTypeOK'
    BY <1>6 DEF SessionFini,
       LifeTypeOK, RequestTypeOK, CtrlTypeOK, CountersConsistent
  <2>3. CtrlTypeOK'
    BY <1>6 DEF SessionFini,
       LifeTypeOK, RequestTypeOK, CtrlTypeOK, CountersConsistent
  <2>4. CountersConsistent'
    BY <1>6 DEF SessionFini,
       LifeTypeOK, RequestTypeOK, CtrlTypeOK, CountersConsistent
  <2>5. QED
    BY <2>1, <2>2, <2>3, <2>4
<1>7. CASE RequestCandidate
  <2>1. LifeTypeOK'
    BY <1>7 DEF RequestCandidate, RequestNoSocket, RequestFails, SessionPCs, RequestResults, QuitReasons,
       LifeTypeOK, RequestTypeOK, CtrlTypeOK, CountersConsistent
  <2>2. RequestTypeOK'
    BY <1>7 DEF RequestCandidate, RequestNoSocket, RequestFails, SessionPCs, RequestResults, QuitReasons,
       LifeTypeOK, RequestTypeOK, CtrlTypeOK, CountersConsistent
  <2>3. CtrlTypeOK'
    BY <1>7 DEF RequestCandidate, RequestNoSocket, RequestFails, SessionPCs, RequestResults, QuitReasons,
       LifeTypeOK, RequestTypeOK, CtrlTypeOK, CountersConsistent
  <2>4. CountersConsistent'
    BY <1>7 DEF RequestCandidate, RequestNoSocket, RequestFails, SessionPCs, RequestResults, QuitReasons,
       LifeTypeOK, RequestTypeOK, CtrlTypeOK, CountersConsistent
  <2>5. QED
    BY <2>1, <2>2, <2>3, <2>4
<1>8. CASE RequestConnectReturns
  <2>1. LifeTypeOK'
    BY <1>8 DEF RequestConnectReturns, RequestSend, RequestNoSocket, RequestFails, SessionPCs, RequestResults, QuitReasons,
       LifeTypeOK, RequestTypeOK, CtrlTypeOK, CountersConsistent
  <2>2. RequestTypeOK'
    BY <1>8 DEF RequestConnectReturns, RequestSend, RequestNoSocket, RequestFails, SessionPCs, RequestResults, QuitReasons,
       LifeTypeOK, RequestTypeOK, CtrlTypeOK, CountersConsistent
  <2>3. CtrlTypeOK'
    BY <1>8 DEF RequestConnectReturns, RequestSend, RequestNoSocket, RequestFails, SessionPCs, RequestResults, QuitReasons,
       LifeTypeOK, RequestTypeOK, CtrlTypeOK, CountersConsistent
  <2>4. CountersConsistent'
    BY <1>8 DEF RequestConnectReturns, RequestSend, RequestNoSocket, RequestFails, SessionPCs, RequestResults, QuitReasons,
       LifeTypeOK, RequestTypeOK, CtrlTypeOK, CountersConsistent
  <2>5. QED
    BY <2>1, <2>2, <2>3, <2>4
<1>9. CASE RequestRecvReturns
  <2>1. LifeTypeOK'
    BY <1>9 DEF RequestRecvReturns, ApplyResponse, RequestFails, IsSuccess, IsVersionReport, ApplicationReasonQuit, RpVersionParse, UnknownTargets, SessionPCs, RequestResults, QuitReasons, Targets,
       LifeTypeOK, RequestTypeOK, CtrlTypeOK, CountersConsistent
  <2>2. RequestTypeOK'
    BY <1>9 DEF RequestRecvReturns, ApplyResponse, RequestFails, IsSuccess, IsVersionReport, ApplicationReasonQuit, RpVersionParse, UnknownTargets, SessionPCs, RequestResults, QuitReasons, Targets,
       LifeTypeOK, RequestTypeOK, CtrlTypeOK, CountersConsistent
  <2>3. CtrlTypeOK'
    BY <1>9 DEF RequestRecvReturns, ApplyResponse, RequestFails, IsSuccess, IsVersionReport, ApplicationReasonQuit, RpVersionParse, UnknownTargets, SessionPCs, RequestResults, QuitReasons, Targets,
       LifeTypeOK, RequestTypeOK, CtrlTypeOK, CountersConsistent
  <2>4. CountersConsistent'
    BY <1>9 DEF RequestRecvReturns, ApplyResponse, RequestFails, IsSuccess, IsVersionReport, ApplicationReasonQuit, RpVersionParse, UnknownTargets, SessionPCs, RequestResults, QuitReasons, Targets,
       LifeTypeOK, RequestTypeOK, CtrlTypeOK, CountersConsistent
  <2>5. QED
    BY <2>1, <2>2, <2>3, <2>4
<1>10. CASE ThreadStart
  <2>1. LifeTypeOK'
    BY <1>10 DEF ThreadStart, SessionPCs, QuitReasons, Targets,
       LifeTypeOK, RequestTypeOK, CtrlTypeOK, CountersConsistent
  <2>2. RequestTypeOK'
    BY <1>10 DEF ThreadStart, SessionPCs, QuitReasons, Targets,
       LifeTypeOK, RequestTypeOK, CtrlTypeOK, CountersConsistent
  <2>3. CtrlTypeOK'
    BY <1>10 DEF ThreadStart, SessionPCs, QuitReasons, Targets,
       LifeTypeOK, RequestTypeOK, CtrlTypeOK, CountersConsistent
  <2>4. CountersConsistent'
    BY <1>10 DEF ThreadStart, SessionPCs, QuitReasons, Targets,
       LifeTypeOK, RequestTypeOK, CtrlTypeOK, CountersConsistent
  <2>5. QED
    BY <2>1, <2>2, <2>3, <2>4
<1>11. CASE RequestReturned
  <2>1. LifeTypeOK'
    BY <1>11 DEF RequestReturned, RetryWithServerTarget, SessionPCs,
       LifeTypeOK, RequestTypeOK, CtrlTypeOK, CountersConsistent
  <2>2. RequestTypeOK'
    BY <1>11 DEF RequestReturned, RetryWithServerTarget, SessionPCs,
       LifeTypeOK, RequestTypeOK, CtrlTypeOK, CountersConsistent
  <2>3. CtrlTypeOK'
    BY <1>11 DEF RequestReturned, RetryWithServerTarget, SessionPCs,
       LifeTypeOK, RequestTypeOK, CtrlTypeOK, CountersConsistent
  <2>4. CountersConsistent'
    BY <1>11 DEF RequestReturned, RetryWithServerTarget, SessionPCs,
       LifeTypeOK, RequestTypeOK, CtrlTypeOK, CountersConsistent
  <2>5. QED
    BY <2>1, <2>2, <2>3, <2>4
<1>12. CASE SettleReturns
  <2>1. LifeTypeOK'
    BY <1>12 DEF SettleReturns, SessionPCs,
       LifeTypeOK, RequestTypeOK, CtrlTypeOK, CountersConsistent
  <2>2. RequestTypeOK'
    BY <1>12 DEF SettleReturns, SessionPCs,
       LifeTypeOK, RequestTypeOK, CtrlTypeOK, CountersConsistent
  <2>3. CtrlTypeOK'
    BY <1>12 DEF SettleReturns, SessionPCs,
       LifeTypeOK, RequestTypeOK, CtrlTypeOK, CountersConsistent
  <2>4. CountersConsistent'
    BY <1>12 DEF SettleReturns, SessionPCs,
       LifeTypeOK, RequestTypeOK, CtrlTypeOK, CountersConsistent
  <2>5. QED
    BY <2>1, <2>2, <2>3, <2>4
<1>13. CASE CtrlStartWaitReturns
  <2>1. LifeTypeOK'
    BY <1>13 DEF CtrlStartWaitReturns, StopToQuitCtrl, CtrlFailedQuit, PinLoopHead, SessionPCs, QuitReasons,
       LifeTypeOK, RequestTypeOK, CtrlTypeOK, CountersConsistent
  <2>2. RequestTypeOK'
    BY <1>13 DEF CtrlStartWaitReturns, StopToQuitCtrl, CtrlFailedQuit, PinLoopHead, SessionPCs, QuitReasons,
       LifeTypeOK, RequestTypeOK, CtrlTypeOK, CountersConsistent
  <2>3. CtrlTypeOK'
    BY <1>13 DEF CtrlStartWaitReturns, StopToQuitCtrl, CtrlFailedQuit, PinLoopHead, SessionPCs, QuitReasons,
       LifeTypeOK, RequestTypeOK, CtrlTypeOK, CountersConsistent
  <2>4. CountersConsistent'
    BY <1>13 DEF CtrlStartWaitReturns, StopToQuitCtrl, CtrlFailedQuit, PinLoopHead, SessionPCs, QuitReasons,
       LifeTypeOK, RequestTypeOK, CtrlTypeOK, CountersConsistent
  <2>5. QED
    BY <2>1, <2>2, <2>3, <2>4
<1>14. CASE PinWaitReturns
  <2>1. LifeTypeOK'
    BY <1>14 DEF PinWaitReturns, PinPred, StopToQuitCtrl, CtrlFailedQuit, SessionPCs, QuitReasons,
       LifeTypeOK, RequestTypeOK, CtrlTypeOK, CountersConsistent
  <2>2. RequestTypeOK'
    BY <1>14 DEF PinWaitReturns, PinPred, StopToQuitCtrl, CtrlFailedQuit, SessionPCs, QuitReasons,
       LifeTypeOK, RequestTypeOK, CtrlTypeOK, CountersConsistent
  <2>3. CtrlTypeOK'
    <3>1. CASE should_stop
      BY <1>14, <3>1 DEF PinWaitReturns, StopToQuitCtrl, CtrlTypeOK
    <3>2. CASE ~should_stop /\ ctrl_failed
      BY <1>14, <3>2 DEF PinWaitReturns, CtrlFailedQuit, CtrlTypeOK
    <3>3. CASE ~should_stop /\ ~ctrl_failed
      <4>1. ctrl_pins + 1 <= MaxPinRequests
        BY <1>14 DEF PinWaitReturns, CtrlTypeOK, CountersConsistent
      <4>2. ctrl_pins' \in 0..MaxPinRequests
        BY <1>14, <3>3, <4>1 DEF PinWaitReturns, CtrlTypeOK
      <4>3. login_pin_entered' \in BOOLEAN
        BY <1>14, <3>3 DEF PinWaitReturns
      <4>4. QED
        BY <1>14, <3>3, <4>2, <4>3, Zenon DEF PinWaitReturns, CtrlTypeOK
    <3>4. QED
      BY <3>1, <3>2, <3>3
  <2>4. CountersConsistent'
    <3>1. CASE should_stop
      BY <1>14, <3>1 DEF PinWaitReturns, StopToQuitCtrl, CountersConsistent
    <3>2. CASE ~should_stop /\ ctrl_failed
      BY <1>14, <3>2 DEF PinWaitReturns, CtrlFailedQuit, CountersConsistent
    <3>3. CASE ~should_stop /\ ~ctrl_failed
      BY <1>14, <3>3 DEF PinWaitReturns, CountersConsistent, CtrlTypeOK
    <3>4. QED
      BY <3>1, <3>2, <3>3
  <2>5. QED
    BY <2>1, <2>2, <2>3, <2>4
<1>15. CASE SessionIdWaitReturns
  <2>1. LifeTypeOK'
    BY <1>15 DEF SessionIdWaitReturns, StopToQuitCtrl, PinLoopHead, CtrlFailedQuit, SessionPCs, QuitReasons,
       LifeTypeOK, RequestTypeOK, CtrlTypeOK, CountersConsistent
  <2>2. RequestTypeOK'
    BY <1>15 DEF SessionIdWaitReturns, StopToQuitCtrl, PinLoopHead, CtrlFailedQuit, SessionPCs, QuitReasons,
       LifeTypeOK, RequestTypeOK, CtrlTypeOK, CountersConsistent
  <2>3. CtrlTypeOK'
    BY <1>15 DEF SessionIdWaitReturns, StopToQuitCtrl, PinLoopHead, CtrlFailedQuit, SessionPCs, QuitReasons,
       LifeTypeOK, RequestTypeOK, CtrlTypeOK, CountersConsistent
  <2>4. CountersConsistent'
    BY <1>15 DEF SessionIdWaitReturns, StopToQuitCtrl, PinLoopHead, CtrlFailedQuit, SessionPCs, QuitReasons,
       LifeTypeOK, RequestTypeOK, CtrlTypeOK, CountersConsistent
  <2>5. QED
    BY <2>1, <2>2, <2>3, <2>4
<1>16. CASE Senkusha
  <2>1. LifeTypeOK'
    BY <1>16 DEF Senkusha, SessionPCs,
       LifeTypeOK, RequestTypeOK, CtrlTypeOK, CountersConsistent
  <2>2. RequestTypeOK'
    BY <1>16 DEF Senkusha, SessionPCs,
       LifeTypeOK, RequestTypeOK, CtrlTypeOK, CountersConsistent
  <2>3. CtrlTypeOK'
    BY <1>16 DEF Senkusha, SessionPCs,
       LifeTypeOK, RequestTypeOK, CtrlTypeOK, CountersConsistent
  <2>4. CountersConsistent'
    BY <1>16 DEF Senkusha, SessionPCs,
       LifeTypeOK, RequestTypeOK, CtrlTypeOK, CountersConsistent
  <2>5. QED
    BY <2>1, <2>2, <2>3, <2>4
<1>17. CASE StreamRunReturns
  <2>1. LifeTypeOK'
    BY <1>17 DEF StreamRunReturns, StreamQuitReason, SessionPCs, QuitReasons,
       LifeTypeOK, RequestTypeOK, CtrlTypeOK, CountersConsistent
  <2>2. RequestTypeOK'
    BY <1>17 DEF StreamRunReturns, StreamQuitReason, SessionPCs, QuitReasons,
       LifeTypeOK, RequestTypeOK, CtrlTypeOK, CountersConsistent
  <2>3. CtrlTypeOK'
    BY <1>17 DEF StreamRunReturns, StreamQuitReason, SessionPCs, QuitReasons,
       LifeTypeOK, RequestTypeOK, CtrlTypeOK, CountersConsistent
  <2>4. CountersConsistent'
    BY <1>17 DEF StreamRunReturns, StreamQuitReason, SessionPCs, QuitReasons,
       LifeTypeOK, RequestTypeOK, CtrlTypeOK, CountersConsistent
  <2>5. QED
    BY <2>1, <2>2, <2>3, <2>4
<1>18. CASE StreamStopped
  <2>1. LifeTypeOK'
    BY <1>18 DEF StreamStopped, StreamQuitReason, SessionPCs, QuitReasons,
       LifeTypeOK, RequestTypeOK, CtrlTypeOK, CountersConsistent
  <2>2. RequestTypeOK'
    BY <1>18 DEF StreamStopped, StreamQuitReason, SessionPCs, QuitReasons,
       LifeTypeOK, RequestTypeOK, CtrlTypeOK, CountersConsistent
  <2>3. CtrlTypeOK'
    BY <1>18 DEF StreamStopped, StreamQuitReason, SessionPCs, QuitReasons,
       LifeTypeOK, RequestTypeOK, CtrlTypeOK, CountersConsistent
  <2>4. CountersConsistent'
    BY <1>18 DEF StreamStopped, StreamQuitReason, SessionPCs, QuitReasons,
       LifeTypeOK, RequestTypeOK, CtrlTypeOK, CountersConsistent
  <2>5. QED
    BY <2>1, <2>2, <2>3, <2>4
<1>19. CASE QuitCtrl
  <2>1. LifeTypeOK'
    BY <1>19 DEF QuitCtrl, SessionPCs,
       LifeTypeOK, RequestTypeOK, CtrlTypeOK, CountersConsistent
  <2>2. RequestTypeOK'
    BY <1>19 DEF QuitCtrl, SessionPCs,
       LifeTypeOK, RequestTypeOK, CtrlTypeOK, CountersConsistent
  <2>3. CtrlTypeOK'
    BY <1>19 DEF QuitCtrl, SessionPCs,
       LifeTypeOK, RequestTypeOK, CtrlTypeOK, CountersConsistent
  <2>4. CountersConsistent'
    BY <1>19 DEF QuitCtrl, SessionPCs,
       LifeTypeOK, RequestTypeOK, CtrlTypeOK, CountersConsistent
  <2>5. QED
    BY <2>1, <2>2, <2>3, <2>4
<1>20. CASE CtrlJoined
  <2>1. LifeTypeOK'
    BY <1>20 DEF CtrlJoined, SessionPCs,
       LifeTypeOK, RequestTypeOK, CtrlTypeOK, CountersConsistent
  <2>2. RequestTypeOK'
    BY <1>20 DEF CtrlJoined, SessionPCs,
       LifeTypeOK, RequestTypeOK, CtrlTypeOK, CountersConsistent
  <2>3. CtrlTypeOK'
    BY <1>20 DEF CtrlJoined, SessionPCs,
       LifeTypeOK, RequestTypeOK, CtrlTypeOK, CountersConsistent
  <2>4. CountersConsistent'
    BY <1>20 DEF CtrlJoined, SessionPCs,
       LifeTypeOK, RequestTypeOK, CtrlTypeOK, CountersConsistent
  <2>5. QED
    BY <2>1, <2>2, <2>3, <2>4
<1>21. CASE SendQuitEvent
  <2>1. LifeTypeOK'
    BY <1>21 DEF SendQuitEvent, SessionPCs,
       LifeTypeOK, RequestTypeOK, CtrlTypeOK, CountersConsistent
  <2>2. RequestTypeOK'
    BY <1>21 DEF SendQuitEvent, SessionPCs,
       LifeTypeOK, RequestTypeOK, CtrlTypeOK, CountersConsistent
  <2>3. CtrlTypeOK'
    BY <1>21 DEF SendQuitEvent, SessionPCs,
       LifeTypeOK, RequestTypeOK, CtrlTypeOK, CountersConsistent
  <2>4. CountersConsistent'
    BY <1>21 DEF SendQuitEvent, SessionPCs,
       LifeTypeOK, RequestTypeOK, CtrlTypeOK, CountersConsistent
  <2>5. QED
    BY <2>1, <2>2, <2>3, <2>4
<1>22. CASE CtrlSessionId
  <2>1. LifeTypeOK'
    BY <1>22 DEF CtrlSessionId, CtrlActs,
       LifeTypeOK, RequestTypeOK, CtrlTypeOK, CountersConsistent
  <2>2. RequestTypeOK'
    BY <1>22 DEF CtrlSessionId, CtrlActs,
       LifeTypeOK, RequestTypeOK, CtrlTypeOK, CountersConsistent
  <2>3. CtrlTypeOK'
    BY <1>22 DEF CtrlSessionId, CtrlActs,
       LifeTypeOK, RequestTypeOK, CtrlTypeOK, CountersConsistent
  <2>4. CountersConsistent'
    BY <1>22 DEF CtrlSessionId, CtrlActs,
       LifeTypeOK, RequestTypeOK, CtrlTypeOK, CountersConsistent
  <2>5. QED
    BY <2>1, <2>2, <2>3, <2>4
<1>23. CASE CtrlLoginPinRequest
  <2>1. LifeTypeOK'
    BY <1>23 DEF CtrlLoginPinRequest, CtrlActs,
       LifeTypeOK, RequestTypeOK, CtrlTypeOK, CountersConsistent
  <2>2. RequestTypeOK'
    BY <1>23 DEF CtrlLoginPinRequest, CtrlActs,
       LifeTypeOK, RequestTypeOK, CtrlTypeOK, CountersConsistent
  <2>3. CtrlTypeOK'
    BY <1>23 DEF CtrlLoginPinRequest, CtrlActs,
       LifeTypeOK, RequestTypeOK, CtrlTypeOK, CountersConsistent
  <2>4. CountersConsistent'
    BY <1>23 DEF CtrlLoginPinRequest, CtrlActs,
       LifeTypeOK, RequestTypeOK, CtrlTypeOK, CountersConsistent
  <2>5. QED
    BY <2>1, <2>2, <2>3, <2>4
<1>24. CASE CtrlFail
  <2>1. LifeTypeOK'
    BY <1>24 DEF CtrlFail, CtrlActs, CtrlQuitReasons, QuitReasons,
       LifeTypeOK, RequestTypeOK, CtrlTypeOK, CountersConsistent
  <2>2. RequestTypeOK'
    BY <1>24 DEF CtrlFail, CtrlActs, CtrlQuitReasons, QuitReasons,
       LifeTypeOK, RequestTypeOK, CtrlTypeOK, CountersConsistent
  <2>3. CtrlTypeOK'
    BY <1>24 DEF CtrlFail, CtrlActs, CtrlQuitReasons, QuitReasons,
       LifeTypeOK, RequestTypeOK, CtrlTypeOK, CountersConsistent
  <2>4. CountersConsistent'
    BY <1>24 DEF CtrlFail, CtrlActs, CtrlQuitReasons, QuitReasons,
       LifeTypeOK, RequestTypeOK, CtrlTypeOK, CountersConsistent
  <2>5. QED
    BY <2>1, <2>2, <2>3, <2>4
<1>25. CASE CtrlExit
  <2>1. LifeTypeOK'
    BY <1>25 DEF CtrlExit,
       LifeTypeOK, RequestTypeOK, CtrlTypeOK, CountersConsistent
  <2>2. RequestTypeOK'
    BY <1>25 DEF CtrlExit,
       LifeTypeOK, RequestTypeOK, CtrlTypeOK, CountersConsistent
  <2>3. CtrlTypeOK'
    BY <1>25 DEF CtrlExit,
       LifeTypeOK, RequestTypeOK, CtrlTypeOK, CountersConsistent
  <2>4. CountersConsistent'
    BY <1>25 DEF CtrlExit,
       LifeTypeOK, RequestTypeOK, CtrlTypeOK, CountersConsistent
  <2>5. QED
    BY <2>1, <2>2, <2>3, <2>4
<1>26. CASE UNCHANGED vars
  BY <1>26 DEF vars, LifeTypeOK, RequestTypeOK, CtrlTypeOK, CountersConsistent
<1>27. QED
  BY <1>1, <1>2, <1>3, <1>4, <1>5, <1>6, <1>7, <1>8, <1>9, <1>10, <1>11, <1>12, <1>13, <1>14, <1>15, <1>16, <1>17, <1>18, <1>19, <1>20, <1>21, <1>22, <1>23, <1>24, <1>25, <1>26
  DEF Next, Embedder, SessionThread, Ctrl

\* The session's variables keep their types in every reachable state.
THEOREM TypeCorrect == Spec => []TypeOK
<1>1. Spec => []TypeInv
  BY InitTypeInv, NextTypeInv, PTL DEF Spec
<1>2. QED
  BY <1>1, PTL DEF TypeInv

-----------------------------------------------------------------------------
(* TargetKnown is inductive relative to TypeInv: the version the request  *)
(* speaks is set by chiaki_session_init and replaced only by a known       *)
(* server_target on a retry.                                               *)

\* chiaki_rp_version_parse inverts chiaki_rp_version_string on every target
\* that has a version string, for that target's console family.
LEMMA RpVersionInverse ==
    ASSUME NEW t \in Targets \ UnknownTargets
    PROVE  /\ RpVersionString(t) # NULL
           /\ RpVersionParse(RpVersionString(t), t \in PS5Targets) = t
<1>1. t \in {"PS4_8", "PS4_9", "PS4_10", "PS5_1"}
  BY DEF Targets, UnknownTargets
<1>2. QED
  BY <1>1 DEF RpVersionString, RpVersionParse, PS5Targets, NULL

LEMMA NextTargetKnown == TypeInv /\ TargetKnown /\ [Next]_vars => TargetKnown'
<1> SUFFICES ASSUME TypeInv, TargetKnown, [Next]_vars PROVE TargetKnown'
  OBVIOUS
<1> USE DEF lifeVars, reqVars, ctrlVars, pinVars
<1>1. CASE SessionInit
  BY <1>1 DEF SessionInit, UnknownTargets, TargetKnown
<1>2. CASE SessionStart
  BY <1>2 DEF SessionStart, TargetKnown
<1>3. CASE SessionStop
  BY <1>3 DEF SessionStop, TargetKnown
<1>4. CASE SessionSetLoginPin
  BY <1>4 DEF SessionSetLoginPin, TargetKnown
<1>5. CASE SessionJoin
  BY <1>5 DEF SessionJoin, TargetKnown
<1>6. CASE SessionFini
  BY <1>6 DEF SessionFini, TargetKnown
<1>7. CASE RequestCandidate
  BY <1>7 DEF RequestCandidate, TargetKnown
<1>8. CASE RequestConnectReturns
  BY <1>8 DEF RequestConnectReturns, TargetKnown
<1>9. CASE RequestRecvReturns
  BY <1>9 DEF RequestRecvReturns, TargetKnown
<1>10. CASE ThreadStart
  BY <1>10 DEF ThreadStart, TargetKnown
<1>11. CASE RequestReturned
  BY <1>11 DEF RequestReturned, RetryWithServerTarget, TargetKnown
<1>12. CASE SettleReturns
  BY <1>12 DEF SettleReturns, TargetKnown
<1>13. CASE CtrlStartWaitReturns
  BY <1>13 DEF CtrlStartWaitReturns, TargetKnown
<1>14. CASE PinWaitReturns
  BY <1>14 DEF PinWaitReturns, TargetKnown
<1>15. CASE SessionIdWaitReturns
  BY <1>15 DEF SessionIdWaitReturns, TargetKnown
<1>16. CASE Senkusha
  BY <1>16 DEF Senkusha, TargetKnown
<1>17. CASE StreamRunReturns
  BY <1>17 DEF StreamRunReturns, TargetKnown
<1>18. CASE StreamStopped
  BY <1>18 DEF StreamStopped, TargetKnown
<1>19. CASE QuitCtrl
  BY <1>19 DEF QuitCtrl, TargetKnown
<1>20. CASE CtrlJoined
  BY <1>20 DEF CtrlJoined, TargetKnown
<1>21. CASE SendQuitEvent
  BY <1>21 DEF SendQuitEvent, TargetKnown
<1>22. CASE CtrlSessionId
  BY <1>22 DEF CtrlSessionId, TargetKnown
<1>23. CASE CtrlLoginPinRequest
  BY <1>23 DEF CtrlLoginPinRequest, TargetKnown
<1>24. CASE CtrlFail
  BY <1>24 DEF CtrlFail, TargetKnown
<1>25. CASE CtrlExit
  BY <1>25 DEF CtrlExit, TargetKnown
<1>26. CASE UNCHANGED vars
  BY <1>26 DEF vars, TargetKnown
<1>27. QED
  BY <1>1, <1>2, <1>3, <1>4, <1>5, <1>6, <1>7, <1>8, <1>9, <1>10, <1>11, <1>12, <1>13, <1>14, <1>15, <1>16, <1>17, <1>18, <1>19, <1>20, <1>21, <1>22, <1>23, <1>24, <1>25, <1>26
  DEF Next, Embedder, SessionThread, Ctrl

\* Once chiaki_session_init has run, session_thread_func never sends a
\* request with an unknown RP version: every version adopted from the
\* console's answer on a retry is a known one.
THEOREM TargetKnownInvariant == Spec => []TargetKnown
<1>1. Init => TargetKnown
  BY DEF Init, TargetKnown
<1>2. Spec => []TypeInv
  BY InitTypeInv, NextTypeInv, PTL DEF Spec
<1>3. QED
  BY <1>1, <1>2, NextTargetKnown, PTL DEF Spec


\* The target the session speaks, once initialised, survives the round trip
\* through its RP-Version string, in every behaviour.
THEOREM RpVersionRoundTripInvariant == Spec => []RpVersionRoundTrip
<1>1. TypeInv /\ TargetKnown => RpVersionRoundTrip
  <2> SUFFICES ASSUME TypeInv, TargetKnown, life # "uninit"
               PROVE  /\ RpVersionString(target) # NULL
                      /\ RpVersionParse(RpVersionString(target), target \in PS5Targets) = target
    BY DEF RpVersionRoundTrip
  <2>1. target \in Targets \ UnknownTargets
    BY DEF TypeInv, TypeOK, RequestTypeOK, TargetKnown
  <2>2. QED
    BY <2>1, RpVersionInverse
<1>2. Spec => []TypeInv
  BY InitTypeInv, NextTypeInv, PTL DEF Spec
<1>3. QED
  BY <1>1, <1>2, TargetKnownInvariant, PTL
-----------------------------------------------------------------------------
(* CtrlPhaseConsistent is inductive relative to TypeInv: every step of     *)
(* session_thread_func moves between pcs whose ctrl states agree, and the  *)
(* ctrl thread changes its own state only while it is running or stopping.*)

LEMMA NextCtrlPhase ==
    TypeInv /\ CtrlPhaseConsistent /\ [Next]_vars => CtrlPhaseConsistent'
<1> SUFFICES ASSUME TypeInv, CtrlPhaseConsistent, [Next]_vars
             PROVE CtrlPhaseConsistent'
  OBVIOUS
<1> USE DEF lifeVars, reqVars, ctrlVars, pinVars
<1>1. CASE SessionInit
  BY <1>1 DEF SessionInit, InitOrder, InitUnwind, Resources, Targets, InitSteps, CtrlPhaseConsistent,
     TypeInv, TypeOK, LifeTypeOK
<1>2. CASE SessionStart
  BY <1>2 DEF SessionStart, SessionPCs, CtrlPhaseConsistent,
     TypeInv, TypeOK, LifeTypeOK
<1>3. CASE SessionStop
  BY <1>3 DEF SessionStop, CtrlPhaseConsistent,
     TypeInv, TypeOK, LifeTypeOK
<1>4. CASE SessionSetLoginPin
  BY <1>4 DEF SessionSetLoginPin, CtrlPhaseConsistent,
     TypeInv, TypeOK, LifeTypeOK
<1>5. CASE SessionJoin
  BY <1>5 DEF SessionJoin, CtrlPhaseConsistent,
     TypeInv, TypeOK, LifeTypeOK
<1>6. CASE SessionFini
  BY <1>6 DEF SessionFini, CtrlPhaseConsistent,
     TypeInv, TypeOK, LifeTypeOK
<1>7. CASE RequestCandidate
  BY <1>7 DEF RequestCandidate, RequestNoSocket, RequestFails, SessionPCs, RequestResults, QuitReasons, CtrlPhaseConsistent,
     TypeInv, TypeOK, LifeTypeOK
<1>8. CASE RequestConnectReturns
  BY <1>8 DEF RequestConnectReturns, RequestSend, RequestNoSocket, RequestFails, SessionPCs, RequestResults, QuitReasons, CtrlPhaseConsistent,
     TypeInv, TypeOK, LifeTypeOK
<1>9. CASE RequestRecvReturns
  BY <1>9 DEF RequestRecvReturns, ApplyResponse, RequestFails, IsSuccess, IsVersionReport, ApplicationReasonQuit, RpVersionParse, UnknownTargets, SessionPCs, RequestResults, QuitReasons, Targets, CtrlPhaseConsistent,
     TypeInv, TypeOK, LifeTypeOK
<1>10. CASE ThreadStart
  BY <1>10 DEF ThreadStart, SessionPCs, QuitReasons, Targets, CtrlPhaseConsistent,
     TypeInv, TypeOK, LifeTypeOK
<1>11. CASE RequestReturned
  BY <1>11 DEF RequestReturned, RetryWithServerTarget, SessionPCs, CtrlPhaseConsistent,
     TypeInv, TypeOK, LifeTypeOK
<1>12. CASE SettleReturns
  BY <1>12 DEF SettleReturns, SessionPCs, CtrlPhaseConsistent,
     TypeInv, TypeOK, LifeTypeOK
<1>13. CASE CtrlStartWaitReturns
  BY <1>13 DEF CtrlStartWaitReturns, StopToQuitCtrl, CtrlFailedQuit, PinLoopHead, SessionPCs, QuitReasons, CtrlPhaseConsistent,
     TypeInv, TypeOK, LifeTypeOK
<1>14. CASE PinWaitReturns
  BY <1>14 DEF PinWaitReturns, PinPred, StopToQuitCtrl, CtrlFailedQuit, SessionPCs, QuitReasons, CtrlPhaseConsistent,
     TypeInv, TypeOK, LifeTypeOK
<1>15. CASE SessionIdWaitReturns
  BY <1>15 DEF SessionIdWaitReturns, StopToQuitCtrl, PinLoopHead, CtrlFailedQuit, SessionPCs, QuitReasons, CtrlPhaseConsistent,
     TypeInv, TypeOK, LifeTypeOK
<1>16. CASE Senkusha
  BY <1>16 DEF Senkusha, SessionPCs, CtrlPhaseConsistent,
     TypeInv, TypeOK, LifeTypeOK
<1>17. CASE StreamRunReturns
  BY <1>17 DEF StreamRunReturns, StreamQuitReason, SessionPCs, QuitReasons, CtrlPhaseConsistent,
     TypeInv, TypeOK, LifeTypeOK
<1>18. CASE StreamStopped
  BY <1>18 DEF StreamStopped, StreamQuitReason, SessionPCs, QuitReasons, CtrlPhaseConsistent,
     TypeInv, TypeOK, LifeTypeOK
<1>19. CASE QuitCtrl
  BY <1>19 DEF QuitCtrl, SessionPCs, CtrlPhaseConsistent,
     TypeInv, TypeOK, LifeTypeOK
<1>20. CASE CtrlJoined
  BY <1>20 DEF CtrlJoined, SessionPCs, CtrlPhaseConsistent,
     TypeInv, TypeOK, LifeTypeOK
<1>21. CASE SendQuitEvent
  BY <1>21 DEF SendQuitEvent, SessionPCs, CtrlPhaseConsistent,
     TypeInv, TypeOK, LifeTypeOK
<1>22. CASE CtrlSessionId
  BY <1>22 DEF CtrlSessionId, CtrlActs, CtrlPhaseConsistent,
     TypeInv, TypeOK, LifeTypeOK
<1>23. CASE CtrlLoginPinRequest
  BY <1>23 DEF CtrlLoginPinRequest, CtrlActs, CtrlPhaseConsistent,
     TypeInv, TypeOK, LifeTypeOK
<1>24. CASE CtrlFail
  BY <1>24 DEF CtrlFail, CtrlActs, CtrlQuitReasons, QuitReasons, CtrlPhaseConsistent,
     TypeInv, TypeOK, LifeTypeOK
<1>25. CASE CtrlExit
  BY <1>25 DEF CtrlExit, CtrlPhaseConsistent,
     TypeInv, TypeOK, LifeTypeOK
<1>26. CASE UNCHANGED vars
  BY <1>26 DEF vars, CtrlPhaseConsistent
<1>27. QED
  BY <1>1, <1>2, <1>3, <1>4, <1>5, <1>6, <1>7, <1>8, <1>9, <1>10, <1>11, <1>12, <1>13, <1>14, <1>15, <1>16, <1>17, <1>18, <1>19, <1>20, <1>21, <1>22, <1>23, <1>24, <1>25, <1>26
  DEF Next, Embedder, SessionThread, Ctrl

\* session_thread_func sends the QUIT event only once the ctrl thread it
\* started has been stopped and joined: no exit after chiaki_ctrl_start
\* bypasses the quit_ctrl label.
THEOREM CtrlJoinedBeforeQuitInvariant == Spec => []CtrlJoinedBeforeQuit
<1>1. Init => CtrlPhaseConsistent
  BY DEF Init, CtrlPhaseConsistent
<1>2. Spec => []TypeInv
  BY InitTypeInv, NextTypeInv, PTL DEF Spec
<1>3. Spec => []CtrlPhaseConsistent
  BY <1>1, <1>2, NextCtrlPhase, PTL DEF Spec
<1>4. CtrlPhaseConsistent => CtrlJoinedBeforeQuit
  BY DEF CtrlPhaseConsistent, CtrlJoinedBeforeQuit
<1>5. QED
  BY <1>3, <1>4, PTL

-----------------------------------------------------------------------------
(* ResourcesInv is inductive, whichever init steps may fail: a successful *)
(* init acquires everything and releases nothing, only a successful init  *)
(* leads to a session that fini may finalize, nothing between them touches *)
(* the resources, and fini releases each of them once.                     *)

LEMMA NextResourcesInv == ResourcesInv /\ [Next]_vars => ResourcesInv'
<1> SUFFICES ASSUME ResourcesInv, [Next]_vars PROVE ResourcesInv'
  OBVIOUS
<1> USE DEF lifeVars
<1>1. CASE SessionInit
  <2>1. PICK fp \in InitFailures \cup {"none"}, is_ps5 \in BOOLEAN :
          /\ acquired' = [r \in Resources |->
                            IF InitOrder[r] < InitOrder[fp] THEN 1 ELSE 0]
          /\ released' = [r \in Resources |->
                            IF r \in InitUnwind(fp) THEN 1 ELSE 0]
          /\ life' = IF fp = "none" THEN "inited" ELSE "init_failed"
    BY <1>1 DEF SessionInit
  <2>2. CASE fp = "none"
    BY <2>1, <2>2 DEF ResourcesInv, InitOrder, InitUnwind, Resources
  <2>3. CASE fp # "none"
    BY <2>1, <2>3 DEF ResourcesInv
  <2>4. QED
    BY <2>2, <2>3
<1>2. CASE SessionStart
  BY <1>2 DEF SessionStart, ResourcesInv
<1>3. CASE SessionStop
  BY <1>3 DEF SessionStop, ResourcesInv
<1>4. CASE SessionSetLoginPin
  BY <1>4 DEF SessionSetLoginPin, ResourcesInv
<1>5. CASE SessionJoin
  BY <1>5 DEF SessionJoin, ResourcesInv
<1>6. CASE SessionFini
  BY <1>6 DEF SessionFini, ResourcesInv
<1>7. CASE RequestCandidate
  BY <1>7 DEF RequestCandidate, ResourcesInv
<1>8. CASE RequestConnectReturns
  BY <1>8 DEF RequestConnectReturns, ResourcesInv
<1>9. CASE RequestRecvReturns
  BY <1>9 DEF RequestRecvReturns, ResourcesInv
<1>10. CASE ThreadStart
  BY <1>10 DEF ThreadStart, ResourcesInv
<1>11. CASE RequestReturned
  BY <1>11 DEF RequestReturned, ResourcesInv
<1>12. CASE SettleReturns
  BY <1>12 DEF SettleReturns, ResourcesInv
<1>13. CASE CtrlStartWaitReturns
  BY <1>13 DEF CtrlStartWaitReturns, ResourcesInv
<1>14. CASE PinWaitReturns
  BY <1>14 DEF PinWaitReturns, ResourcesInv
<1>15. CASE SessionIdWaitReturns
  BY <1>15 DEF SessionIdWaitReturns, ResourcesInv
<1>16. CASE Senkusha
  BY <1>16 DEF Senkusha, ResourcesInv
<1>17. CASE StreamRunReturns
  BY <1>17 DEF StreamRunReturns, ResourcesInv
<1>18. CASE StreamStopped
  BY <1>18 DEF StreamStopped, ResourcesInv
<1>19. CASE QuitCtrl
  BY <1>19 DEF QuitCtrl, ResourcesInv
<1>20. CASE CtrlJoined
  BY <1>20 DEF CtrlJoined, ResourcesInv
<1>21. CASE SendQuitEvent
  BY <1>21 DEF SendQuitEvent, ResourcesInv
<1>22. CASE CtrlSessionId
  BY <1>22 DEF CtrlSessionId, ResourcesInv
<1>23. CASE CtrlLoginPinRequest
  BY <1>23 DEF CtrlLoginPinRequest, ResourcesInv
<1>24. CASE CtrlFail
  BY <1>24 DEF CtrlFail, ResourcesInv
<1>25. CASE CtrlExit
  BY <1>25 DEF CtrlExit, ResourcesInv
<1>26. CASE UNCHANGED vars
  BY <1>26 DEF vars, ResourcesInv
<1>27. QED
  BY <1>1, <1>2, <1>3, <1>4, <1>5, <1>6, <1>7, <1>8, <1>9, <1>10, <1>11, <1>12, <1>13, <1>14, <1>15, <1>16, <1>17, <1>18, <1>19, <1>20, <1>21, <1>22, <1>23, <1>24, <1>25, <1>26
  DEF Next, Embedder, SessionThread, Ctrl

\* A session that chiaki_session_init set up completely and
\* chiaki_session_fini then finalized has released every resource init
\* acquired exactly once, whichever init steps may fail: no resource is
\* finalized twice by a join followed by fini, and none is leaked.
\* (For a failed init the balance is false: the init_unwind run shows the
\* ctrl and stream failures unwinding the wrong resources.)
FiniBalanced ==
    life = "finalized" => released = acquired /\ acquired = [r \in Resources |-> 1]

\* Every behaviour, for every set of failing init steps, keeps FiniBalanced.
THEOREM FiniBalancedInvariant == Spec => []FiniBalanced
<1>1. Init => ResourcesInv
  BY DEF Init, ResourcesInv
<1>2. ResourcesInv => FiniBalanced
  BY DEF ResourcesInv, FiniBalanced
<1>3. QED
  BY <1>1, <1>2, NextResourcesInv, PTL DEF Spec
=============================================================================
