------------------------- MODULE SessionPhasesProofs -------------------------
(***************************************************************************)
(* Proofs about the phase protocol SessionPhases, for every set of quit   *)
(* reasons.                                                               *)
(***************************************************************************)
EXTENDS SessionPhases, TLAPS

(* Each step keeps the ctrl's liveness in line with the phase: Establish  *)
(* is the only step into ctrl and makes the ctrl live, Joined the only     *)
(* step out of teardown to quit and ends it, and Abandon leaves request,   *)
(* where no ctrl is live. Report is the only step that names a reason and  *)
(* it moves to done.                                                       *)
LEMMA NextPhasesInv == PhasesInv /\ [PNext]_avars => PhasesInv'
<1> SUFFICES ASSUME PhasesInv, [PNext]_avars PROVE PhasesInv'
  OBVIOUS
<1>1. CASE Begin
  BY <1>1 DEF Begin, PhasesInv, PhasesTypeOK, Phases
<1>2. CASE Establish
  BY <1>2 DEF Establish, PhasesInv, PhasesTypeOK, Phases
<1>3. CASE Abandon
  BY <1>3 DEF Abandon, PhasesInv, PhasesTypeOK, Phases
<1>4. CASE Handover
  BY <1>4 DEF Handover, PhasesInv, PhasesTypeOK, Phases
<1>5. CASE Teardown
  BY <1>5 DEF Teardown, PhasesInv, PhasesTypeOK, Phases
<1>6. CASE Joined
  BY <1>6 DEF Joined, PhasesInv, PhasesTypeOK, Phases
<1>7. CASE Report
  BY <1>7 DEF Report, PhasesInv, PhasesTypeOK, Phases
<1>11. CASE Answer
  BY <1>11 DEF Answer, PhasesInv, PhasesTypeOK
<1>8. CASE Stop
  BY <1>8 DEF Stop, PhasesInv, PhasesTypeOK
<1>9. CASE UNCHANGED avars
  BY <1>9 DEF avars, PhasesInv, PhasesTypeOK
<1>10. QED
  BY <1>1, <1>2, <1>3, <1>4, <1>5, <1>6, <1>7, <1>8, <1>9, <1>11 DEF PNext, Advance

\* Every behaviour of the phase protocol (its safety part) keeps a live
\* ctrl exactly to the ctrl, stream and teardown phases and reports a QUIT
\* reason only when done.
THEOREM PhasesInvariant == PInit /\ [][PNext]_avars => []PhasesInv
<1>1. PInit => PhasesInv
  BY DEF PInit, PhasesInv, PhasesTypeOK, Phases
<1>2. QED
  BY <1>1, NextPhasesInv, PTL

=============================================================================
