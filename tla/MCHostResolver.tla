---------------------------- MODULE MCHostResolver ----------------------------
(* HostResolver with small limits, so that queue and cache do run full. *)
EXTENDS HostResolver
===============================================================================
