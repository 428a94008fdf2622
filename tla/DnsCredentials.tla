-------------------------- MODULE DnsCredentials --------------------------
(***************************************************************************)
(* dns_credentials.py: named DNS-01 credentials, one file per tenant.      *)
(* Every function loads the file, and those that edit it replace it whole  *)
(* by an atomic rename, between two awaits of the event loop.              *)
(***************************************************************************)
EXTENDS Naturals

CONSTANTS
  Tenants,
  FileOf,     \* the file of each tenant: what _safe_tenant() makes of its id
  Names,      \* names of credentials
  Values,     \* values of credential fields
  Blank,      \* an empty field
  Corrupt,    \* a file that does not hold a JSON list
  None

ASSUME CredentialsAssumption ==
  /\ DOMAIN FileOf = Tenants
  /\ Blank \notin Values

VARIABLE store    \* the content of each file

Required ==
  [he_login |-> {"username", "password"}, cloudflare |-> {"api_token"},
   rfc2136 |-> {"server", "name", "secret"},
   route53 |-> {"access_key_id", "secret_access_key"}]

Secret ==
  [he_login |-> {"password"}, cloudflare |-> {"api_token"},
   rfc2136 |-> {"secret"}, route53 |-> {"secret_access_key"}]

Providers == DOMAIN Required
Files == {FileOf[t] : t \in Tenants}

\* Any of a provider's fields, each with a value or blank.
Fields(p) == UNION {[ks -> Values \cup {Blank}] : ks \in SUBSET Required[p]}
Credential == UNION {[provider : {p}, fields : Fields(p)] : p \in Providers}
Empty == [n \in Names |-> None]
Content == [Names -> Credential \cup {None}]

\* A file that cannot be parsed reads as empty.
Load(t) == IF store[FileOf[t]] = Corrupt THEN Empty ELSE store[FileOf[t]]

Save(t, creds) == store' = [store EXCEPT ![FileOf[t]] = creds]

Complete(c) ==
  \A k \in Required[c.provider] : k \in DOMAIN c.fields /\ c.fields[k] # Blank

\* The stored fields, if the provider is the same, under the new ones; a blank
\* secret leaves the stored one.
Merged(old, p, fields) ==
  LET base == IF old # None /\ old.provider = p THEN old.fields ELSE <<>>
      new == {k \in DOMAIN fields : ~(k \in Secret[p] /\ fields[k] = Blank)}
  IN  [provider |-> p,
       fields |-> [k \in DOMAIN base \cup new |->
                     IF k \in new THEN fields[k] ELSE base[k]]]

\* Mutant: only a new credential is checked.
UpsertTrusting(t, n, p, fields) ==
  LET c == Merged(Load(t)[n], p, fields) IN
    (Load(t)[n] # None \/ Complete(c)) /\ Save(t, [Load(t) EXCEPT ![n] = c])

\* Mutant: the file is replaced by the one credential.
UpsertAlone(t, n, p, fields) ==
  LET c == Merged(Load(t)[n], p, fields) IN
    Complete(c) /\ Save(t, [Empty EXCEPT ![n] = c])

\* upsert(): refused, with nothing changed, if a required field is missing.
Upsert(t, n, p, fields) ==
  LET c == Merged(Load(t)[n], p, fields) IN
    Complete(c) /\ Save(t, [Load(t) EXCEPT ![n] = c])

Delete(t, n) ==
  Load(t)[n] # None /\ Save(t, [Load(t) EXCEPT ![n] = None])

\* get(), as far as materialize() needs it.
Known(t, n) == Load(t)[n] # None

\* A disk or an editor spoils a file.
Spoil(f) == store[f] # Corrupt /\ store' = [store EXCEPT ![f] = Corrupt]

-----------------------------------------------------------------------------
StoreTypeOK == store \in [Files -> Content \cup {Corrupt}]

\* Every credential that a tenant can name has all the fields its provider
\* requires, whatever partial edits, changes of provider, deletions and spoiled
\* files came before: materialize() never hands certbot an empty secret
\* (dns_credentials.py:148-160).
StoredComplete ==
  \A t \in Tenants, n \in Names :
    Known(t, n) =>
      LET c == Load(t)[n] IN
        Required[c.provider] \subseteq {k \in DOMAIN c.fields : c.fields[k] \in Values}

\* A step changes what one tenant can read in at most one name, and what no other
\* tenant can read: "each tenant keeps its OWN set of named DNS credentials"
\* (dns_credentials.py:3-8), if their ids do not fall on one file; only a spoiled
\* file loses more.
EditsOneCredential ==
  [][\A t, u \in Tenants, m, n \in Names :
       /\ Load(t)[m] # (Load(t)[m])'
       /\ Load(u)[n] # (Load(u)[n])'
       /\ \A f \in Files : store'[f] # Corrupt \/ store[f] = Corrupt
       => FileOf[t] = FileOf[u] /\ m = n]_store
=============================================================================
