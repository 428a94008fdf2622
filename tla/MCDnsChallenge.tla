-------------------------- MODULE MCDnsChallenge --------------------------
(***************************************************************************)
(* Instances of DnsChallenge for TLC: two tenants with a file each and an  *)
(* account each, of which the first holds the domain's zone.               *)
(***************************************************************************)
EXTENDS DnsChallenge, TLC

CONSTANTS t1, t2, f1, f2, n1, n2, a, b, d1, h1, h2

TwoTenants == {t1, t2}
OwnFiles == t1 :> f1 @@ t2 :> f2
TwoNames == {n1, n2}
TwoAccounts == {a, b}
OneDomain == {d1}
OneHosts == a :> {d1} @@ b :> {}
TwoHandlers == {h1, h2}

Interchangeable == Permutations(TwoNames) \cup Permutations(TwoHandlers)
=============================================================================
