------------------------- MODULE SessionLatchProofs -------------------------
(***************************************************************************)
(* Proofs about the controller-state latch composed with the session, for *)
(* every value of the constants.                                          *)
(***************************************************************************)
EXTENDS SessionLatch, SessionProofs

-----------------------------------------------------------------------------
(* FeedbackCurrent is inductive by itself. A session step keeps the latch  *)
(* and either keeps an active sender as it is or deactivates it; setting   *)
(* the state writes the same value to the latch and to an active sender;   *)
(* the sender starts from the latch.                                       *)

LEMMA NextFeedbackCurrent ==
    FeedbackCurrent /\ [LatchNext]_allVars => FeedbackCurrent'
<1> SUFFICES ASSUME FeedbackCurrent, [LatchNext]_allVars
             PROVE  FeedbackCurrent'
  OBVIOUS
<1>1. CASE SessionStep
  BY <1>1 DEF SessionStep, FeedbackCurrent
<1>2. CASE SetControllerState
  BY <1>2 DEF SetControllerState, FeedbackCurrent
<1>3. CASE FeedbackSenderStart
  BY <1>3 DEF FeedbackSenderStart, FeedbackCurrent
<1>4. CASE UNCHANGED allVars
  BY <1>4 DEF allVars, latchVars, FeedbackCurrent
<1>5. QED
  BY <1>1, <1>2, <1>3, <1>4 DEF LatchNext

\* While the stream's feedback sender is active it sends the controller
\* state the embedder last gave chiaki_session_set_controller_state, however
\* that call interleaves with the sender's start and stop.
THEOREM FeedbackCurrentInvariant == LatchSpec => []FeedbackCurrent
<1>1. LatchInit => FeedbackCurrent
  BY DEF LatchInit, FeedbackCurrent
<1>2. QED
  BY <1>1, NextFeedbackCurrent, PTL DEF LatchSpec

-----------------------------------------------------------------------------
(* The latch does not interfere with the session: every step of the       *)
(* composition is a step of Session or leaves the session's variables as   *)
(* they are, so whatever the session's safety theorems say holds of the    *)
(* composition too.                                                        *)

LEMMA LatchNextIsSessionStep == [LatchNext]_allVars => [Next]_vars
<1> SUFFICES ASSUME [LatchNext]_allVars PROVE [Next]_vars
  OBVIOUS
<1>1. CASE SessionStep
  BY <1>1 DEF SessionStep
<1>2. CASE SetControllerState \/ FeedbackSenderStart
  BY <1>2 DEF SetControllerState, FeedbackSenderStart
<1>3. CASE UNCHANGED allVars
  BY <1>3 DEF allVars
<1>4. QED
  BY <1>1, <1>2, <1>3 DEF LatchNext

\* Composed with the controller-state latch, the session still sends its
\* QUIT event only after the ctrl it started has been stopped and joined.
THEOREM LatchCtrlJoinedBeforeQuit == LatchSpec => []CtrlJoinedBeforeQuit
<1>1. LatchInit => TypeInv /\ CtrlPhaseConsistent
  BY InitTypeInv DEF LatchInit, CtrlPhaseConsistent, Init
<1>2. LatchSpec => [][Next]_vars
  BY LatchNextIsSessionStep, PTL DEF LatchSpec
<1>3. LatchSpec => [](TypeInv /\ CtrlPhaseConsistent)
  BY <1>1, <1>2, NextTypeInv, NextCtrlPhase, PTL DEF LatchSpec
<1>4. CtrlPhaseConsistent => CtrlJoinedBeforeQuit
  BY DEF CtrlPhaseConsistent, CtrlJoinedBeforeQuit
<1>5. QED
  BY <1>3, <1>4, PTL

=============================================================================
