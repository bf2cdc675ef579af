---------------------------- MODULE MCBasePoller ----------------------------
(* BasePoller for TLC: one pool of the pair and one token, both deployed.  *)
EXTENDS BasePoller

OnePool == {[deployed |-> TRUE, pair |-> TRUE, ethIsToken0 |-> FALSE, initialized |-> TRUE]}
OneUsdc == {[deployed |-> TRUE, dec |-> 1]}
=============================================================================
