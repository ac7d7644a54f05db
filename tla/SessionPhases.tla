--------------------------- MODULE SessionPhases ---------------------------
(***************************************************************************)
(* What a Remote Play session promises its embedder, without the steps     *)
(* that implement it: the session thread goes through its phases in order  *)
(* (request, ctrl, stream, teardown), the ctrl is started only when the    *)
(* last session request was granted and is joined before the single QUIT  *)
(* event, and once the embedder has asked it to stop the session keeps     *)
(* moving until it has reported its QUIT.                                  *)
(***************************************************************************)
CONSTANT Reasons      \* the quit reasons a QUIT event may carry

VARIABLES
    phase,     \* "idle", "request", "ctrl", "stream", "teardown", "quit", "done"
    ctrlLive,  \* a ctrl thread has been started and not yet joined
    stop,      \* the embedder has called stop
    reported,  \* the reason of the QUIT event, "none" before it
    granted    \* the console granted the last session request

avars == <<phase, ctrlLive, stop, reported, granted>>

Phases == {"idle", "request", "ctrl", "stream", "teardown", "quit", "done"}

PhasesTypeOK ==
    /\ phase \in Phases
    /\ ctrlLive \in BOOLEAN
    /\ stop \in BOOLEAN
    /\ reported \in Reasons \cup {"none"}
    /\ granted \in BOOLEAN

PInit ==
    /\ phase = "idle"
    /\ ctrlLive = FALSE
    /\ stop = FALSE
    /\ reported = "none"
    /\ granted = FALSE

\* The session thread is created.
Begin ==
    /\ phase = "idle"
    /\ phase' = "request"
    /\ UNCHANGED <<ctrlLive, stop, reported, granted>>

\* A session request of the request phase returns, granted or not.
Answer ==
    /\ phase = "request"
    /\ granted' \in BOOLEAN
    /\ UNCHANGED <<phase, ctrlLive, stop, reported>>

\* The last request was granted and the ctrl thread is started.
Establish ==
    /\ phase = "request"
    /\ granted
    /\ phase' = "ctrl"
    /\ ctrlLive' = TRUE
    /\ UNCHANGED <<stop, reported, granted>>

\* The request phase (or the start of the ctrl) failed or was stopped.
Abandon ==
    /\ phase = "request"
    /\ phase' = "quit"
    /\ UNCHANGED <<ctrlLive, stop, reported, granted>>

\* The ctrl is ready, the probe and the key material are done.
Handover ==
    /\ phase = "ctrl"
    /\ phase' = "stream"
    /\ UNCHANGED <<ctrlLive, stop, reported, granted>>

\* The ctrl or the stream phase ends, and the ctrl is being stopped.
Teardown ==
    /\ phase \in {"ctrl", "stream"}
    /\ phase' = "teardown"
    /\ UNCHANGED <<ctrlLive, stop, reported, granted>>

\* The ctrl thread has been joined.
Joined ==
    /\ phase = "teardown"
    /\ phase' = "quit"
    /\ ctrlLive' = FALSE
    /\ UNCHANGED <<stop, reported, granted>>

\* The single QUIT event, sent with no ctrl left running.
Report ==
    /\ phase = "quit"
    /\ ~ctrlLive
    /\ \E r \in Reasons : reported' = r
    /\ phase' = "done"
    /\ UNCHANGED <<ctrlLive, stop, granted>>

\* The embedder calls stop on a started session.
Stop ==
    /\ phase # "idle"
    /\ stop' = TRUE
    /\ UNCHANGED <<phase, ctrlLive, reported, granted>>

Advance == Begin \/ Establish \/ Abandon \/ Handover \/ Teardown \/ Joined \/ Report

PNext == Advance \/ Answer \/ Stop

\* A ctrl thread is live exactly in the ctrl, stream and teardown phases,
\* and the QUIT reason is known only once the session is done.
PhasesInv ==
    /\ PhasesTypeOK
    /\ ctrlLive <=> phase \in {"ctrl", "stream", "teardown"}
    /\ reported # "none" => phase = "done"

\* A stopped session cannot stay in a phase short of done.
PSpec == PInit /\ [][PNext]_avars /\ WF_avars(stop /\ Advance)

=============================================================================
