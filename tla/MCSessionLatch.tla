--------------------------- MODULE MCSessionLatch ---------------------------
EXTENDS SessionLatch

MCServerVersions == {"10.0", "9.0"}
MCControllerStates == {"idle", "pressed", "released"}

=============================================================================
