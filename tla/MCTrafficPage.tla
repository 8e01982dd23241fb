---------------------------- MODULE MCTrafficPage ----------------------------
(* TrafficPage for a handful of requests and imports. *)
EXTENDS TrafficPage
===============================================================================
