---------------------------- MODULE MCRiskSummary ----------------------------
(* RiskSummary on both directions of a flow between two hosts and on a flow  *)
(* of a host to itself.                                                      *)
EXTENDS RiskSummary

ThreeFlows == {<<1, 2>>, <<2, 1>>, <<1, 1>>}

\* Nothing is claimed of a run that has seen both, so it is not followed.
NotBoth == ~(raced /\ died)
===============================================================================
