------------------------------ MODULE BlockList ------------------------------
(***************************************************************************)
(* What the blacklist promises about the Windows firewall, with no table,  *)
(* no netsh and no restart: an address becomes wanted only while both its  *)
(* rules are in the firewall, and stops being wanted only once the         *)
(* firewall holds none of them.  FirewallSync implements this module.      *)
(***************************************************************************)

CONSTANTS
  Ip     (* the IPv4 addresses an operator may block *)

VARIABLES
  wanted, (* the addresses with an enabled blacklist entry       *)
  rules   (* the managed firewall rules, as <<address, side>>    *)

Side == {"OUT", "IN"}
RulesOf(ip) == {ip} \X Side

Init ==
  /\ wanted = {}
  /\ rules = {}

\* The firewall moves first, one address at a time.
ChangeRules(ip) ==
  /\ \E kept \in SUBSET RulesOf(ip) : rules' = (rules \ RulesOf(ip)) \cup kept
  /\ UNCHANGED wanted

Want(ip) ==
  /\ RulesOf(ip) \subseteq rules
  /\ wanted' = wanted \cup {ip}
  /\ UNCHANGED rules

Unwant(ip) ==
  /\ RulesOf(ip) \cap rules = {}
  /\ wanted' = wanted \ {ip}
  /\ UNCHANGED rules

Next == \E ip \in Ip : ChangeRules(ip) \/ Want(ip) \/ Unwant(ip)

Spec == Init /\ [][Next]_<<wanted, rules>>
==============================================================================
