-------------------------- MODULE MCSessionAggregator --------------------------
(* SessionAggregator on few packets, with a file older than the timeout.     *)
EXTENDS SessionAggregator
===============================================================================
