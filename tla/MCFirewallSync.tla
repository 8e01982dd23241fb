---------------------------- MODULE MCFirewallSync ----------------------------
(* FirewallSync on two addresses and three table rows. *)
EXTENDS FirewallSync, TLC

Symmetry == Permutations(Ip) \cup Permutations(ItemId)
===============================================================================
