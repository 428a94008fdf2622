--------------------------- MODULE MCAgentDeploy ---------------------------
(***************************************************************************)
(* Instances of AgentDeploy for TLC.  The cfg files give the bounds.       *)
(***************************************************************************)
EXTENDS AgentDeploy, TLC

CONSTANTS d1, d2, k1, k2, own, any

OneDomain == {d1}
TwoDomains == {d1, d2}
OneTask == {k1}
OtherTask == {k2}
OneTarget == {own}
TwoTargets == {own, any}
OwnOnly == {{own}}
AnyOrBoth == {{any}, {own, any}}

\* No operator orders or chooses domains.
Symmetry == Permutations(TwoDomains)
=============================================================================
