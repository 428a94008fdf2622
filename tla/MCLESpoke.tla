----------------------------- MODULE MCLESpoke -----------------------------
(***************************************************************************)
(* Instances of LESpoke for TLC.  The cfg files give the bounds.           *)
(***************************************************************************)
EXTENDS LESpoke, TLC

CONSTANTS d1, d2, t1, t2, h1, h2

OneDomain == {d1}
TwoDomains == {d1, d2}
LastDomain == {d2}
OneTarget == {t1}
TwoTargets == {t1, t2}
OneHandler == {h1}
TwoHandlers == {h1, h2}

\* No operator orders or chooses domains.
DomainSymmetry == Permutations(TwoDomains)

\* ... nor handlers.
HandlerSymmetry == Permutations(TwoHandlers)
=============================================================================
