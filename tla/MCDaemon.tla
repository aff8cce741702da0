------------------------------ MODULE MCDaemon ------------------------------
(* Small instances of Daemon.                                              *)
EXTENDS Daemon, TLC

MCOutcomes == {"ok", "error", "panic"}
TwoOutcomes == {"ok", "error"}
OneOutcome == {"ok"}
=============================================================================
