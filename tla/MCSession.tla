----------------------------- MODULE MCSession -----------------------------
(* Model-checking instance of Session: two resolved addresses, a console  *)
(* that may answer with our version, the two other PS4 ones, the "5.0",  *)
(* the PS5 version or an unknown one, and up to two PIN rounds.           *)
EXTENDS Session

MCServerVersions == {"8.0", "9.0", "10.0", "1.0", "5.0", "7.0"}

\* chiaki_session_init failures whose unwinding is correct.
MCInitFailuresSound == SoundInitFailures

\* Every step of chiaki_session_init may fail.
MCInitFailuresAll == InitSteps
=============================================================================
