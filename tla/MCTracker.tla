------------------------------ MODULE MCTracker ------------------------------
(* Tracker for TLC: the constants are given in the configuration.          *)
EXTENDS Tracker
=============================================================================
