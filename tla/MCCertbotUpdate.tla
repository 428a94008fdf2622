-------------------------- MODULE MCCertbotUpdate --------------------------
(***************************************************************************)
(* Instances of CertbotUpdate for TLC.  rfc2136's plugin is bundled        *)
(* with the venv, hetzner's is installed on demand.                        *)
(***************************************************************************)
EXTENDS CertbotUpdate

CONSTANTS rfc2136, hetzner, h1, h2

SomeProviders == {rfc2136, hetzner}
BundledProviders == {rfc2136}
OneHandler == {h1}
TwoHandlers == {h1, h2}
=============================================================================
