----------------------------- MODULE DnsProofs -----------------------------
(***************************************************************************)
(* Theorems about DnsChallenge, and the credentials it extends, for any    *)
(* tenants, files, names and accounts and any number of runs, commands and *)
(* faults.                                                                 *)
(***************************************************************************)
EXTENDS DnsChallenge, TLAPS

-----------------------------------------------------------------------------
(* Credentials and their files.                                            *)

\* Every field that the provider requires has a value.
Full(c) == \A k \in Required[c.provider] : k \in DOMAIN c.fields /\ c.fields[k] \in Values

\* Every credential of a file that can be read is full.
StoreFull ==
  \A f \in Files, n \in Names :
    store[f] # Corrupt /\ store[f][n] # None => Full(store[f][n])

StoreInv == StoreTypeOK /\ StoreFull

LEMMA FieldParts ==
  ASSUME NEW p \in Providers, NEW f
  PROVE  f \in Fields(p) <=>
           /\ f = [k \in DOMAIN f |-> f[k]]
           /\ DOMAIN f \subseteq Required[p]
           /\ \A k \in DOMAIN f : f[k] \in Values \cup {Blank}
<1>1. ASSUME f \in Fields(p)
      PROVE  \E ks \in SUBSET Required[p] : f \in [ks -> Values \cup {Blank}]
  BY <1>1 DEF Fields
<1>2. ASSUME f = [k \in DOMAIN f |-> f[k]], DOMAIN f \subseteq Required[p],
             \A k \in DOMAIN f : f[k] \in Values \cup {Blank}
      PROVE  f \in Fields(p)
  <2>1. f \in [DOMAIN f -> Values \cup {Blank}]
    BY <1>2
  <2> QED
    BY <1>2, <2>1 DEF Fields
<1> QED
  BY <1>1, <1>2

LEMMA CredentialParts ==
  ASSUME NEW c
  PROVE  c \in Credential <=>
           /\ c = [provider |-> c.provider, fields |-> c.fields]
           /\ c.provider \in Providers
           /\ c.fields \in Fields(c.provider)
<1>1. ASSUME c \in Credential
      PROVE  /\ c = [provider |-> c.provider, fields |-> c.fields]
             /\ c.provider \in Providers
             /\ c.fields \in Fields(c.provider)
  <2>1. PICK p \in Providers : c \in [provider : {p}, fields : Fields(p)]
    BY <1>1 DEF Credential
  <2> QED
    BY <2>1
<1>2. ASSUME c = [provider |-> c.provider, fields |-> c.fields],
             c.provider \in Providers, c.fields \in Fields(c.provider)
      PROVE  c \in Credential
  <2>1. c \in [provider : {c.provider}, fields : Fields(c.provider)]
    BY <1>2
  <2> QED
    BY <1>2, <2>1 DEF Credential
<1> QED
  BY <1>1, <1>2

\* What a tenant can read is a table of credentials, all of them full.
LEMMA LoadType ==
  ASSUME StoreInv, NEW t \in Tenants
  PROVE  /\ FileOf[t] \in Files
         /\ Load(t) \in Content
         /\ \A n \in Names : Load(t)[n] # None => Full(Load(t)[n])
<1>1. FileOf[t] \in Files
  BY DEF Files
<1>2. Empty \in Content /\ \A n \in Names : Empty[n] = None
  BY DEF Empty, Content
<1> QED
  BY <1>1, <1>2 DEF Load, StoreInv, StoreTypeOK, StoreFull

\* Fields merged over those of the same provider are fields of the provider.
LEMMA MergedType ==
  ASSUME NEW old \in Credential \cup {None}, NEW p \in Providers, NEW fields \in Fields(p)
  PROVE  Merged(old, p, fields) \in Credential
<1> DEFINE base == IF old # None /\ old.provider = p THEN old.fields ELSE <<>>
           new == {k \in DOMAIN fields : ~(k \in Secret[p] /\ fields[k] = Blank)}
           f == [k \in DOMAIN base \cup new |-> IF k \in new THEN fields[k] ELSE base[k]]
<1>1. DOMAIN fields \subseteq Required[p]
      /\ \A k \in DOMAIN fields : fields[k] \in Values \cup {Blank}
  BY FieldParts
<1>2. DOMAIN base \subseteq Required[p]
      /\ \A k \in DOMAIN base : base[k] \in Values \cup {Blank}
  <2>1. CASE old # None /\ old.provider = p
    <3>1. old.fields \in Fields(p)
      BY <2>1, CredentialParts
    <3> QED
      BY <2>1, <3>1, FieldParts
  <2>2. CASE ~(old # None /\ old.provider = p)
    BY <2>2
  <2> QED
    BY <2>1, <2>2
<1>3. /\ DOMAIN f \subseteq Required[p]
      /\ f = [k \in DOMAIN f |-> f[k]]
      /\ \A k \in DOMAIN f : f[k] \in Values \cup {Blank}
  BY <1>1, <1>2
<1>4. Merged(old, p, fields) = [provider |-> p, fields |-> f]
  BY DEF Merged
<1> HIDE DEF f
<1>5. f \in Fields(p)
  BY <1>3, FieldParts
<1> QED
  BY <1>4, <1>5, CredentialParts

LEMMA CompleteFull ==
  ASSUME NEW c \in Credential, Complete(c)
  PROVE  Full(c)
<1>1. c.provider \in Providers /\ c.fields \in Fields(c.provider)
  BY CredentialParts
<1>2. \A k \in DOMAIN c.fields : c.fields[k] \in Values \cup {Blank}
  BY <1>1, FieldParts
<1> QED
  BY <1>2 DEF Complete, Full

\* A file that is replaced by an edit of its content keeps its type and is full.
LEMMA SaveStore ==
  ASSUME StoreInv, NEW t \in Tenants, NEW n \in Names, NEW c \in Credential \cup {None},
         c # None => Full(c), Save(t, [Load(t) EXCEPT ![n] = c])
  PROVE  StoreInv'
<1>1. /\ FileOf[t] \in Files
      /\ Load(t) \in Content
      /\ \A m \in Names : Load(t)[m] # None => Full(Load(t)[m])
  BY LoadType
<1> DEFINE new == [Load(t) EXCEPT ![n] = c]
<1>2. new \in Content /\ \A m \in Names : new[m] # None => Full(new[m])
  BY <1>1 DEF Content
<1>3. store' = [store EXCEPT ![FileOf[t]] = new]
  BY DEF Save
<1>4. StoreTypeOK'
  BY <1>1, <1>2, <1>3 DEF StoreInv, StoreTypeOK
<1>5. ASSUME NEW f \in Files, NEW m \in Names, store'[f] # Corrupt, store'[f][m] # None
      PROVE  Full(store'[f][m])
  <2>1. CASE f = FileOf[t]
    BY <1>1, <1>2, <1>3, <1>5, <2>1 DEF StoreInv, StoreTypeOK
  <2>2. CASE f # FileOf[t]
    <3>1. store'[f] = store[f]
      BY <1>1, <1>3, <2>2 DEF StoreInv, StoreTypeOK
    <3> QED
      BY <1>5, <3>1 DEF StoreInv, StoreFull
  <2> QED
    BY <2>1, <2>2
<1> QED
  BY <1>4, <1>5 DEF StoreInv, StoreFull, Full

LEMMA UpsertStore ==
  ASSUME StoreInv, NEW t \in Tenants, NEW n \in Names, NEW p \in Providers,
         NEW fields \in Fields(p), Upsert(t, n, p, fields)
  PROVE  StoreInv'
<1> DEFINE c == Merged(Load(t)[n], p, fields)
<1>1. Load(t)[n] \in Credential \cup {None}
  BY LoadType DEF Content
<1>2. c \in Credential
  BY <1>1, MergedType
<1>3. Complete(c) /\ Save(t, [Load(t) EXCEPT ![n] = c])
  BY DEF Upsert
<1> QED
  BY <1>2, <1>3, CompleteFull, SaveStore

LEMMA DeleteStore ==
  ASSUME StoreInv, NEW t \in Tenants, NEW n \in Names, Delete(t, n)
  PROVE  StoreInv'
BY SaveStore DEF Delete

LEMMA SpoilStore ==
  ASSUME StoreInv, NEW f \in Files, Spoil(f)
  PROVE  StoreInv'
BY DEF StoreInv, StoreTypeOK, StoreFull, Spoil

\* The steps that touch a file.
LEMMA StoreSteps ==
  ASSUME [Next]_vars
  PROVE  \/ UNCHANGED store
         \/ \E t \in Tenants, n \in Names :
              \/ \E p \in {"he_login", "cloudflare"} : \E fields \in Fields(p) :
                   Upsert(t, n, p, fields)
              \/ Delete(t, n)
         \/ \E f \in Files : Spoil(f)
<1>1. ASSUME CredentialCommand
      PROVE  \E t \in Tenants, n \in Names :
               \/ \E p \in {"he_login", "cloudflare"} : \E fields \in Fields(p) :
                    Upsert(t, n, p, fields)
               \/ Delete(t, n)
  BY <1>1 DEF CredentialCommand, SetDnsCred, DeleteDnsCred
<1>2. ASSUME LoginCommand PROVE UNCHANGED store
  BY <1>2 DEF LoginCommand, SetHeLogin, SyncVaultDns, UpdateConfig, FileKeeps
<1>3. ASSUME CertCommand PROVE UNCHANGED store
  BY <1>3 DEF CertCommand, IssueCert, RenewCert, Launch
<1>4. ASSUME Challenge PROVE UNCHANGED store
  BY <1>4 DEF Challenge, StartHook, AddTxt, DelTxt, HookEnds, Validate, CertbotExits,
     Timeout, BotKeeps
<1>5. ASSUME Crash PROVE UNCHANGED store
  BY <1>5 DEF Crash
<1>6. ASSUME NEW f \in Files, SpoilFile(f) PROVE Spoil(f)
  BY <1>6 DEF SpoilFile
<1> QED
  BY <1>1, <1>2, <1>3, <1>4, <1>5, <1>6 DEF Next, vars

LEMMA StoreNext == StoreInv /\ [Next]_vars => StoreInv'
<1> SUFFICES ASSUME StoreInv, [Next]_vars PROVE StoreInv'
  OBVIOUS
<1>1. ASSUME UNCHANGED store PROVE StoreInv'
  BY <1>1 DEF StoreInv, StoreTypeOK, StoreFull
<1>2. {"he_login", "cloudflare"} \subseteq Providers
  BY DEF Providers, Required
<1> QED
  BY <1>1, <1>2, StoreSteps, UpsertStore, DeleteStore, SpoilStore

LEMMA StoreInit == Init => StoreInv
<1> SUFFICES ASSUME Init PROVE StoreInv
  OBVIOUS
<1>1. /\ "he_login" \in Providers
      /\ Required["he_login"] = {"username", "password"}
  BY DEF Providers, Required
<1>2. ASSUME NEW v \in Values
      PROVE  /\ [provider |-> "he_login",
                 fields |-> [username |-> v, password |-> v]] \in Credential
             /\ Full([provider |-> "he_login",
                      fields |-> [username |-> v, password |-> v]])
  <2> DEFINE f == [username |-> v, password |-> v]
             c == [provider |-> "he_login", fields |-> f]
  <2>1. f = [k \in {"username", "password"} |-> v]
    OBVIOUS
  <2>2. f \in Fields("he_login")
    BY <1>1, <2>1, FieldParts
  <2>3. c.provider = "he_login" /\ c.fields = f
    OBVIOUS
  <2>4. c \in Credential
    BY <1>1, <2>2, <2>3, CredentialParts
  <2> QED
    BY <1>1, <2>1, <2>3, <2>4 DEF Full
<1> DEFINE C == {None} \cup {[provider |-> "he_login",
                              fields |-> [username |-> v, password |-> v]] : v \in Values}
<1>3. \A c \in C : c \in Credential \cup {None} /\ (c # None => Full(c))
  BY <1>2
<1>4. \A g \in {[n \in Names |-> c] : c \in C} :
        /\ g \in Content
        /\ \A n \in Names : g[n] # None => Full(g[n])
  BY <1>3 DEF Content
<1> QED
  BY <1>4 DEF Init, StoreInv, StoreTypeOK, StoreFull

LEMMA SpecStore == Spec => []StoreInv
BY StoreInit, StoreNext, PTL DEF Spec

\* No sequence of partial edits, changes of provider, deletions and spoiled files
\* leaves a credential without a field its provider requires
\* (dns_credentials.py:129-158).
THEOREM CredentialsStayComplete == Spec => []StoredComplete
<1>1. StoreInv => StoredComplete
  BY LoadType DEF StoredComplete, Known, Full
<1> QED
  BY <1>1, SpecStore, PTL

\* An edit changes what can be read in one file and there under one name, whoever
\* shares the file ("each tenant keeps its OWN set", dns_credentials.py:3-8).
THEOREM EditsStayApart == Spec => EditsOneCredential
<1> DEFINE Apart ==
      \A t, u \in Tenants, m, n \in Names :
        /\ Load(t)[m] # (Load(t)[m])'
        /\ Load(u)[n] # (Load(u)[n])'
        /\ \A f \in Files : store'[f] # Corrupt \/ store[f] = Corrupt
        => FileOf[t] = FileOf[u] /\ m = n
<1>1. ASSUME StoreInv, NEW t0 \in Tenants, NEW n0 \in Names, NEW c,
             Save(t0, [Load(t0) EXCEPT ![n0] = c])
      PROVE  Apart
  <2>1. ASSUME NEW t \in Tenants, NEW m \in Names,
               \A f \in Files : store'[f] # Corrupt \/ store[f] = Corrupt,
               Load(t)[m] # (Load(t)[m])'
        PROVE  FileOf[t] = FileOf[t0] /\ m = n0
    <3>1. /\ store' = [store EXCEPT ![FileOf[t0]] = [Load(t0) EXCEPT ![n0] = c]]
          /\ FileOf[t] \in Files /\ FileOf[t0] \in Files
          /\ store \in [Files -> Content \cup {Corrupt}]
          /\ Load(t0) \in Content
      BY <1>1, LoadType DEF Save, StoreInv, StoreTypeOK
    <3>2. FileOf[t] = FileOf[t0]
      BY <2>1, <3>1 DEF Load
    <3>3. Load(t) = Load(t0) /\ store'[FileOf[t]] = [Load(t0) EXCEPT ![n0] = c]
      BY <3>1, <3>2 DEF Load
    <3>4. CASE store'[FileOf[t]] # Corrupt
      <4>1. (Load(t))' = [Load(t0) EXCEPT ![n0] = c]
        BY <3>3, <3>4 DEF Load
      <4> QED
        BY <2>1, <3>1, <3>2, <3>3, <4>1 DEF Content
    <3>5. CASE store'[FileOf[t]] = Corrupt
      <4>1. store[FileOf[t]] = Corrupt
        BY <2>1, <3>1, <3>5
      <4>2. Load(t) = Empty /\ (Load(t))' = Empty
        BY <3>5, <4>1 DEF Load, Empty
      <4> QED
        BY <2>1, <4>2
    <3> QED
      BY <3>4, <3>5
  <2> QED
    BY <2>1
<1>2. ASSUME StoreInv, NEW f \in Files, Spoil(f) PROVE Apart
  BY <1>2 DEF Spoil, StoreInv, StoreTypeOK
<1>3. StoreInv /\ [Next]_vars => [Apart]_store
  BY <1>1, <1>2, StoreSteps DEF Upsert, Delete
<1> QED
  BY <1>3, SpecStore, PTL DEF Spec, EditsOneCredential

-----------------------------------------------------------------------------
(* Runs of certbot, their hooks and their records.                         *)

\* The types of what is not a credential file.
RunTypeOK ==
  /\ ini \in Login \cup {None}
  /\ config \in Login \cup {None}
  /\ task \in [Handlers -> Runs \cup {None}]
  /\ bot \in Run \cup {None}
  /\ hooks \subseteq Hook
  /\ zone \subseteq Record
  /\ spared \subseteq Runs
  /\ used \in [runs : 0..MaxRuns, commands : Nat, faults : Nat]

\* Runs are numbered in the order in which they start.
Numbered ==
  /\ bot # None => bot.id <= used.runs
  /\ \A k \in hooks : k.run <= used.runs
  /\ \A r \in zone : r.run <= used.runs

\* A run has at most one hook, and certbot waits for it.
OneHook ==
  /\ \A k, l \in hooks : k.run = l.run => k = l
  /\ \A k \in hooks : bot # None /\ bot.id = k.run => bot.pc = k.mode

\* A run, its hook and its record are about one domain.
SameDomain ==
  /\ \A k \in hooks, r \in zone : k.run = r.run => k.dom = r.dom
  /\ \A k \in hooks : bot # None /\ bot.id = k.run => k.dom = bot.dom
  /\ \A r \in zone : bot # None /\ bot.id = r.run => r.dom = bot.dom

\* Only a run that was killed has a hook without having certbot.
HooksExplained ==
  \A k \in hooks : k.run \in spared \/ (bot # None /\ bot.id = k.run)

\* A record that certbot leaves, or has come to clean up, is explained.
RecordsExplained ==
  \A r \in zone :
    r.run \in spared \/ (bot # None /\ bot.id = r.run /\ bot.pc # "exit")

RInv ==
  /\ RunTypeOK
  /\ Numbered /\ OneHook /\ SameDomain
  /\ HooksExplained /\ RecordsExplained

LEMMA RunBounds == MaxRuns \in Nat /\ MaxCommands \in Nat /\ MaxFaults \in Nat
BY ChallengeAssumption

\* Steps that touch no run.
LEMMA RunsStay ==
  ASSUME RInv, UNCHANGED <<task, bot, hooks, zone, spared>>,
         ini' \in Login \cup {None}, config' \in Login \cup {None},
         used' \in [runs : 0..MaxRuns, commands : Nat, faults : Nat],
         used'.runs = used.runs
  PROVE  RInv'
<1>1. RunTypeOK'
  BY DEF RInv, RunTypeOK
<1> QED
  BY <1>1 DEF RInv, Numbered, OneHook, SameDomain, HooksExplained, RecordsExplained

\* Using up a bound that is not the number of runs.
LEMMA SpendType ==
  ASSUME RInv, NEW f \in {"commands", "faults"}, Spend(f)
  PROVE  /\ used' \in [runs : 0..MaxRuns, commands : Nat, faults : Nat]
         /\ used'.runs = used.runs
BY DEF RInv, RunTypeOK, Spend

LEMMA WritesType ==
  ASSUME RInv, NEW l \in Login \cup {None},
         NEW cost \in [runs : 0..MaxRuns, commands : Nat, faults : Nat],
         Writes(l, cost)
  PROVE  /\ ini' \in Login \cup {None}
         /\ used' \in [runs : 0..MaxRuns, commands : Nat, faults : Nat]
         /\ used'.runs = cost.runs
BY DEF RInv, RunTypeOK, Writes

LEMMA CommandType ==
  ASSUME RInv
  PROVE  /\ Command \in [runs : 0..MaxRuns, commands : Nat, faults : Nat]
         /\ Command.runs = used.runs
BY DEF RInv, RunTypeOK, Command

LEMMA CredentialCommandRuns == RInv /\ CredentialCommand => RInv'
<1> SUFFICES ASSUME RInv, CredentialCommand PROVE RInv'
  OBVIOUS
<1>1. StoreKeeps /\ Spend("commands")
  BY DEF CredentialCommand, SetDnsCred, DeleteDnsCred
<1> QED
  BY <1>1, SpendType, RunsStay DEF StoreKeeps, RInv, RunTypeOK

LEMMA LoginCommandRuns == RInv /\ LoginCommand => RInv'
<1> SUFFICES ASSUME RInv, LoginCommand PROVE RInv'
  OBVIOUS
<1>1. PICK l \in Login \cup {None} : SetHeLogin(l) \/ SyncVaultDns(l) \/ UpdateConfig(l)
  BY DEF LoginCommand
<1>2. FileKeeps /\ config' \in {l, config}
  BY <1>1 DEF SetHeLogin, SyncVaultDns, UpdateConfig
<1>3. Writes(l, Command) \/ (UNCHANGED ini /\ used' = Command)
  BY <1>1 DEF SetHeLogin, SyncVaultDns, UpdateConfig
<1> QED
  BY <1>2, <1>3, CommandType, WritesType, RunsStay DEF FileKeeps, RInv, RunTypeOK

LEMMA SpoilRuns == ASSUME NEW f \in Files PROVE RInv /\ SpoilFile(f) => RInv'
BY SpendType, RunsStay DEF SpoilFile, StoreKeeps, RInv, RunTypeOK

\* A login that an issue resolves has both halves, or there is none.
LEMMA ResolvedType ==
  ASSUME RInv, NEW req \in Request, NEW cred \in Credential \cup {None},
         cred # None => cred.provider = "he_login" /\ Full(cred)
  PROVE  Resolved(req, cred) \in Login \cup {None}
<1>1. cred # None => /\ cred.fields["username"] \in Values
                     /\ cred.fields["password"] \in Values
  BY DEF Full, Required
<1>2. config # None => config.user \in Values /\ config.pw \in Values
  BY DEF RInv, RunTypeOK, Login
<1>3. req.user \in Values \cup {Blank} /\ req.pw \in Values \cup {Blank}
  BY DEF Request
<1> DEFINE user == FirstOf(req.user, IF cred # None THEN cred.fields.username ELSE Blank,
                           IF config # None THEN config.user ELSE Blank)
           pw == FirstOf(req.pw, IF cred # None THEN cred.fields.password ELSE Blank,
                         IF config # None THEN config.pw ELSE Blank)
<1>4. user \in Values \cup {Blank} /\ pw \in Values \cup {Blank}
  BY <1>1, <1>2, <1>3 DEF FirstOf
<1> HIDE DEF user, pw
<1>5. Resolved(req, cred) = IF Blank \in {user, pw} THEN None ELSE [user |-> user, pw |-> pw]
  BY DEF Resolved, user, pw
<1> QED
  BY <1>4, <1>5 DEF Login

\* A new run has a number of its own.
LEMMA LaunchRuns ==
  ASSUME RInv, NEW h \in Handlers, NEW d \in Domains, NEW want \in Login \cup {None},
         Launch(h, d, want), used.runs < MaxRuns,
         ini' \in Login \cup {None},
         used' \in [runs : 0..MaxRuns, commands : Nat, faults : Nat],
         used'.runs = used.runs + 1
  PROVE  RInv'
<1>1. used.runs \in Nat /\ used.runs + 1 \in Runs
  BY RunBounds DEF RInv, RunTypeOK, Runs
<1>2. UNCHANGED <<config, hooks, zone, spared>>
  BY DEF Launch
<1>3. CASE bot = None
  <2> DEFINE new == [id |-> used.runs + 1, dom |-> d, want |-> want, h |-> h,
                     pc |-> "auth"]
  <2>1. bot' = new /\ task' = [task EXCEPT ![h] = used.runs + 1]
    BY <1>3 DEF Launch
  <2>2. new \in Run
    BY <1>1 DEF Run
  <2>3. RunTypeOK'
    BY <1>1, <1>2, <2>1, <2>2 DEF RInv, RunTypeOK
  <2>4. /\ \A k \in hooks : k.run # new.id /\ k.run \in Nat
        /\ \A r \in zone : r.run # new.id /\ r.run \in Nat
    BY <1>1 DEF RInv, RunTypeOK, Numbered, Hook, Record, Runs
  <2>5. Numbered'
    BY <1>1, <1>2, <2>1, <2>4 DEF RInv, Numbered
  <2> QED
    BY <1>2, <1>3, <2>1, <2>3, <2>4, <2>5
       DEF RInv, OneHook, SameDomain, HooksExplained, RecordsExplained
<1>4. CASE bot # None
  <2>1. UNCHANGED <<bot, task>>
    BY <1>4 DEF Launch
  <2>2. RunTypeOK'
    BY <1>2, <2>1 DEF RInv, RunTypeOK
  <2>3. Numbered'
    BY <1>1, <1>2, <2>1 DEF RInv, RunTypeOK, Numbered, Run, Hook, Record, Runs
  <2> QED
    BY <1>2, <2>1, <2>2, <2>3
       DEF RInv, OneHook, SameDomain, HooksExplained, RecordsExplained
<1> QED
  BY <1>3, <1>4

LEMMA RunCommandType ==
  ASSUME RInv, used.runs < MaxRuns
  PROVE  /\ RunCommand \in [runs : 0..MaxRuns, commands : Nat, faults : Nat]
         /\ RunCommand.runs = used.runs + 1
<1>1. /\ used \in [runs : 0..MaxRuns, commands : Nat, faults : Nat]
      /\ MaxRuns \in Nat
  BY RunBounds DEF RInv, RunTypeOK
<1>2. used.runs \in Nat /\ used.commands \in Nat /\ used.faults \in Nat
  BY <1>1
<1>3. used.runs + 1 \in 0..MaxRuns /\ used.commands + 1 \in Nat
  BY <1>1, <1>2
<1>4. [used EXCEPT !.runs = @ + 1] \in [runs : 0..MaxRuns, commands : Nat, faults : Nat]
  BY <1>1, <1>3
<1> DEFINE more == [used EXCEPT !.runs = @ + 1]
<1>5. more.commands = used.commands /\ more.runs = used.runs + 1
  BY <1>1
<1>6. RunCommand = [more EXCEPT !.commands = used.commands + 1]
  BY <1>1, <1>5 DEF RunCommand
<1> HIDE DEF more
<1> QED
  BY <1>3, <1>4, <1>5, <1>6 DEF more

LEMMA CertCommandRuns == StoreInv /\ RInv /\ CertCommand => RInv'
<1> SUFFICES ASSUME StoreInv, RInv, NEW h \in Handlers, NEW d \in Domains,
                    \/ \E t \in Tenants, n \in Names \cup {None}, req \in Request :
                         IssueCert(h, d, t, n, req)
                    \/ \E l \in Login \cup {None} : RenewCert(h, d, l)
             PROVE  RInv'
  BY DEF CertCommand
<1>1. ASSUME NEW t \in Tenants, NEW n \in Names \cup {None}, NEW req \in Request,
             IssueCert(h, d, t, n, req)
      PROVE  RInv'
  <2> DEFINE cred == IF n # None THEN Load(t)[n] ELSE None
             login == Resolved(req, cred)
  <2>1. cred \in Credential \cup {None}
        /\ (cred # None => cred.provider = "he_login" /\ Full(cred))
    BY <1>1, LoadType DEF IssueCert, Content, Known
  <2>2. login \in Login \cup {None}
    BY <2>1, ResolvedType
  <2>3. /\ ini' = IF login # None THEN login ELSE ini
        /\ used' = RunCommand /\ used.runs < MaxRuns
        /\ Launch(h, d, login)
    BY <1>1 DEF IssueCert, MayLaunch
  <2>4. ini' \in Login \cup {None}
    BY <2>2, <2>3 DEF RInv, RunTypeOK
  <2> HIDE DEF login
  <2> QED
    BY <2>2, <2>3, <2>4, RunCommandType, LaunchRuns
<1>2. ASSUME NEW l \in Login \cup {None}, RenewCert(h, d, l) PROVE RInv'
  <2>1. /\ Launch(h, d, None) /\ used.runs < MaxRuns
        /\ Writes(l, RunCommand) \/ (UNCHANGED ini /\ used' = RunCommand)
    BY <1>2 DEF RenewCert, MayLaunch
  <2>2. /\ ini' \in Login \cup {None}
        /\ used' \in [runs : 0..MaxRuns, commands : Nat, faults : Nat]
        /\ used'.runs = used.runs + 1
    BY <2>1, RunCommandType, WritesType DEF RInv, RunTypeOK
  <2> QED
    BY <2>1, <2>2, LaunchRuns
<1> QED
  BY <1>1, <1>2

LEMMA StartHookRuns == ASSUME NEW mode \in {"auth", "cleanup"}
                       PROVE  RInv /\ StartHook(mode) => RInv'
<1> SUFFICES ASSUME RInv, StartHook(mode) PROVE RInv'
  OBVIOUS
<1> DEFINE new == [run |-> bot.id, dom |-> bot.dom, mode |-> mode, login |-> ini,
                   want |-> bot.want]
<1>1. /\ bot # None /\ bot.pc = mode
      /\ \A k \in hooks : k.run # bot.id
      /\ hooks' = hooks \cup {new}
      /\ UNCHANGED <<ini, config, task, bot, zone, spared, used>>
  BY DEF StartHook, BotKeeps
<1>2. bot \in Run
  BY <1>1 DEF RInv, RunTypeOK
<1>3. new \in Hook
  BY <1>2 DEF Run, Hook, RInv, RunTypeOK
<1>4. RunTypeOK'
  BY <1>1, <1>3 DEF RInv, RunTypeOK
<1>5. new.run = bot.id /\ new.dom = bot.dom /\ new.mode = mode
  OBVIOUS
<1> HIDE DEF new
<1>6. Numbered'
  BY <1>1, <1>5 DEF RInv, Numbered
<1>7. OneHook'
  BY <1>1, <1>5 DEF RInv, OneHook
<1>8. SameDomain'
  BY <1>1, <1>5 DEF RInv, SameDomain
<1>9. HooksExplained' /\ RecordsExplained'
  BY <1>1, <1>5 DEF RInv, HooksExplained, RecordsExplained
<1> QED
  BY <1>4, <1>6, <1>7, <1>8, <1>9 DEF RInv

\* certbot goes on after one of its hooks.
LEMMA HookEndsType ==
  ASSUME RInv, NEW k \in hooks, NEW pc \in {"validate", "exit"}, HookEnds(k, pc)
  PROVE  /\ hooks' = hooks \ {k}
         /\ UNCHANGED <<ini, config, task>>
         /\ bot' \in Run \cup {None}
         /\ bot = None => bot' = None
         /\ bot # None => /\ bot' # None
                         /\ bot'.id = bot.id /\ bot'.dom = bot.dom
                         /\ bot'.pc = IF bot.id = k.run THEN pc ELSE bot.pc
<1>1. /\ hooks' = hooks \ {k}
      /\ UNCHANGED <<ini, config, task>>
      /\ IF bot # None /\ bot.id = k.run THEN BotGoes(pc) ELSE UNCHANGED bot
  BY DEF HookEnds, BotKeeps
<1>2. bot \in Run \cup {None}
  BY DEF RInv, RunTypeOK
<1>3. ASSUME bot # None
      PROVE  LET b == [bot EXCEPT !.pc = pc]
             IN  /\ b \in Run /\ b # None
                 /\ b.id = bot.id /\ b.dom = bot.dom /\ b.pc = pc
  BY <1>2, <1>3, NoneAssumption DEF Run
<1> QED
  BY <1>1, <1>2, <1>3 DEF BotGoes

LEMMA AddTxtRuns == RInv => \A k \in hooks : AddTxt(k) => RInv'
<1> SUFFICES ASSUME RInv, NEW k \in hooks, AddTxt(k) PROVE RInv'
  OBVIOUS
<1> DEFINE new == [dom |-> k.dom, run |-> k.run]
<1>1. /\ k.mode = "auth" /\ HookEnds(k, "validate") /\ UNCHANGED spared
      /\ zone' \in {zone, zone \cup {new}}
      /\ (UNCHANGED used) \/ Spend("faults")
  BY DEF AddTxt
<1>2. k \in Hook /\ new \in Record /\ new.dom = k.dom /\ new.run = k.run
  BY DEF RInv, RunTypeOK, Hook, Record
<1>3. /\ used' \in [runs : 0..MaxRuns, commands : Nat, faults : Nat]
      /\ used'.runs = used.runs
  BY <1>1, SpendType DEF RInv, RunTypeOK
<1>4. /\ hooks' = hooks \ {k}
      /\ UNCHANGED <<ini, config, task>>
      /\ bot' \in Run \cup {None}
      /\ bot = None => bot' = None
      /\ bot # None => /\ bot' # None
                      /\ bot'.id = bot.id /\ bot'.dom = bot.dom
                      /\ bot'.pc = IF bot.id = k.run THEN "validate" ELSE bot.pc
  BY <1>1, HookEndsType
<1> HIDE DEF new
<1>5. \A r \in zone' : r \in zone \/ r = new
  BY <1>1
<1>6. RunTypeOK'
  BY <1>1, <1>2, <1>3, <1>4 DEF RInv, RunTypeOK
<1>7. Numbered'
  BY <1>2, <1>3, <1>4, <1>5 DEF RInv, Numbered
<1>8. OneHook'
  BY <1>4 DEF RInv, OneHook
<1>9. SameDomain'
  BY <1>2, <1>4, <1>5 DEF RInv, SameDomain, OneHook
<1>10. HooksExplained'
  BY <1>1, <1>4 DEF RInv, HooksExplained
<1>11. RecordsExplained'
  <2>1. k.run \in spared \/ (bot # None /\ bot.id = k.run)
    BY DEF RInv, HooksExplained
  <2> QED
    BY <1>1, <1>2, <1>4, <1>5, <2>1 DEF RInv, RecordsExplained
<1> QED
  BY <1>6, <1>7, <1>8, <1>9, <1>10, <1>11 DEF RInv

\* Clean-up that reaches the panel leaves no record of its run.
LEMMA DelTxtRuns == RInv => \A k \in hooks : DelTxt(k) => RInv'
<1> SUFFICES ASSUME RInv, NEW k \in hooks, DelTxt(k) PROVE RInv'
  OBVIOUS
<1>1. /\ k.mode = "cleanup" /\ HookEnds(k, "exit")
      /\ (UNCHANGED used) \/ Spend("faults")
      /\ zone' \in {zone, zone \ RecordIds(k)}
      /\ spared' \in {spared, spared \cup {k.run}}
      /\ k.run \in spared' \/ zone' = zone \ RecordIds(k)
  BY DEF DelTxt
<1>2. k \in Hook
  BY DEF RInv, RunTypeOK
<1>3. /\ used' \in [runs : 0..MaxRuns, commands : Nat, faults : Nat]
      /\ used'.runs = used.runs
  BY <1>1, SpendType DEF RInv, RunTypeOK
<1>4. /\ hooks' = hooks \ {k}
      /\ UNCHANGED <<ini, config, task>>
      /\ bot' \in Run \cup {None}
      /\ bot = None => bot' = None
      /\ bot # None => /\ bot' # None
                      /\ bot'.id = bot.id /\ bot'.dom = bot.dom
                      /\ bot'.pc = IF bot.id = k.run THEN "exit" ELSE bot.pc
  BY <1>1, HookEndsType
<1>5. zone' \subseteq zone /\ spared \subseteq spared'
  BY <1>1
<1>6. RunTypeOK'
  BY <1>1, <1>2, <1>3, <1>4, <1>5 DEF RInv, RunTypeOK, Hook
<1>7. Numbered'
  BY <1>3, <1>4, <1>5 DEF RInv, Numbered
<1>8. OneHook'
  BY <1>4 DEF RInv, OneHook
<1>9. SameDomain'
  BY <1>4, <1>5 DEF RInv, SameDomain
<1>10. HooksExplained'
  BY <1>4, <1>5 DEF RInv, HooksExplained
<1>11. ASSUME NEW r \in zone'
       PROVE  r.run \in spared' \/ (bot' # None /\ bot'.id = r.run /\ bot'.pc # "exit")
  <2>1. CASE r.run = k.run
    <3>1. r.dom = k.dom
      BY <1>5, <2>1 DEF RInv, SameDomain
    <3>2. r \in RecordIds(k)
      BY <1>5, <2>1, <3>1 DEF RecordIds
    <3> QED
      BY <1>1, <2>1, <3>2
  <2>2. CASE r.run # k.run
    BY <1>4, <1>5, <2>2 DEF RInv, RecordsExplained
  <2> QED
    BY <2>1, <2>2
<1>12. RecordsExplained'
  BY <1>11 DEF RecordsExplained
<1> QED
  BY <1>6, <1>7, <1>8, <1>9, <1>10, <1>12 DEF RInv

LEMMA ValidateRuns == RInv /\ Validate => RInv'
<1> SUFFICES ASSUME RInv, Validate PROVE RInv'
  OBVIOUS
<1>1. /\ bot # None /\ bot.pc = "validate" /\ bot' = [bot EXCEPT !.pc = "cleanup"]
      /\ UNCHANGED <<ini, config, task, hooks, zone, spared, used>>
  BY DEF Validate, BotGoes, BotKeeps
<1>2. bot \in Run
  BY <1>1 DEF RInv, RunTypeOK
<1>3. /\ bot' \in Run /\ bot' # None
      /\ bot'.id = bot.id /\ bot'.dom = bot.dom /\ bot'.pc = "cleanup"
  BY <1>1, <1>2, NoneAssumption DEF Run
<1>4. RunTypeOK'
  BY <1>1, <1>3 DEF RInv, RunTypeOK
<1>5. ASSUME NEW k \in hooks, bot.id = k.run PROVE FALSE
  BY <1>1, <1>5 DEF RInv, OneHook, RunTypeOK, Hook
<1>6. OneHook'
  BY <1>1, <1>3, <1>5 DEF RInv, OneHook
<1> QED
  BY <1>1, <1>3, <1>4, <1>6
     DEF RInv, Numbered, SameDomain, HooksExplained, RecordsExplained

LEMMA TaskType ==
  ASSUME RInv, NEW h \in Handlers, Answered(h)
  PROVE  task' \in [Handlers -> Runs \cup {None}]
BY DEF RInv, RunTypeOK, Answered

\* certbot ends when no hook of its run is left, and no record.
LEMMA CertbotExitsRuns == RInv /\ CertbotExits => RInv'
<1> SUFFICES ASSUME RInv, CertbotExits PROVE RInv'
  OBVIOUS
<1>1. /\ bot # None /\ bot.pc = "exit" /\ bot' = None /\ Answered(bot.h)
      /\ UNCHANGED <<ini, config, hooks, zone, spared, used>>
  BY DEF CertbotExits, BotKeeps
<1>2. bot \in Run /\ bot.h \in Handlers
  BY <1>1 DEF RInv, RunTypeOK, Run
<1>3. RunTypeOK'
  BY <1>1, <1>2, TaskType DEF RInv, RunTypeOK
<1>4. HooksExplained'
  <2>1. ASSUME NEW k \in hooks, bot.id = k.run PROVE FALSE
    BY <1>1, <2>1 DEF RInv, OneHook, RunTypeOK, Hook
  <2> QED
    BY <1>1, <2>1 DEF RInv, HooksExplained
<1>5. RecordsExplained'
  BY <1>1 DEF RInv, RecordsExplained
<1> QED
  BY <1>1, <1>3, <1>4, <1>5 DEF RInv, Numbered, OneHook, SameDomain

LEMMA TimeoutRuns == RInv /\ Timeout => RInv'
<1> SUFFICES ASSUME RInv, Timeout PROVE RInv'
  OBVIOUS
<1>1. /\ bot # None /\ bot' = None /\ Answered(bot.h) /\ Spend("faults")
      /\ spared' = spared \cup {bot.id}
      /\ UNCHANGED <<ini, config, hooks, zone>>
  BY DEF Timeout, BotKeeps
<1>2. bot \in Run /\ bot.h \in Handlers /\ bot.id \in Runs
  BY <1>1 DEF RInv, RunTypeOK, Run
<1>3. /\ used' \in [runs : 0..MaxRuns, commands : Nat, faults : Nat]
      /\ used'.runs = used.runs
  BY <1>1, SpendType
<1>4. RunTypeOK'
  BY <1>1, <1>2, <1>3, TaskType DEF RInv, RunTypeOK
<1> QED
  BY <1>1, <1>3, <1>4
     DEF RInv, Numbered, OneHook, SameDomain, HooksExplained, RecordsExplained

LEMMA CrashRuns == RInv /\ Crash => RInv'
<1> SUFFICES ASSUME RInv, Crash PROVE RInv'
  OBVIOUS
<1>1. /\ bot' = None /\ hooks' = {} /\ config' = None
      /\ task' = [h \in Handlers |-> None]
      /\ spared' = IF bot = None THEN spared ELSE spared \cup {bot.id}
      /\ Spend("faults") /\ UNCHANGED <<ini, zone>>
  BY DEF Crash
<1>2. bot # None => bot.id \in Runs
  BY DEF RInv, RunTypeOK, Run
<1>3. /\ used' \in [runs : 0..MaxRuns, commands : Nat, faults : Nat]
      /\ used'.runs = used.runs
  BY <1>1, SpendType
<1>4. RunTypeOK'
  BY <1>1, <1>2, <1>3 DEF RInv, RunTypeOK
<1> QED
  BY <1>1, <1>3, <1>4
     DEF RInv, Numbered, OneHook, SameDomain, HooksExplained, RecordsExplained

LEMMA RunsInit == Init => RInv
BY RunBounds DEF Init, RInv, RunTypeOK, Numbered, OneHook, SameDomain, HooksExplained,
   RecordsExplained

LEMMA RunsNext == StoreInv /\ RInv /\ [Next]_vars => RInv'
<1> SUFFICES ASSUME StoreInv, RInv, [Next]_vars PROVE RInv'
  OBVIOUS
<1>1. ASSUME UNCHANGED vars PROVE RInv'
  BY <1>1, RunsStay DEF vars, RInv, RunTypeOK
<1>2. ASSUME Challenge PROVE RInv'
  BY <1>2, StartHookRuns, AddTxtRuns, DelTxtRuns, ValidateRuns, CertbotExitsRuns,
     TimeoutRuns DEF Challenge
<1> QED
  BY <1>1, <1>2, CredentialCommandRuns, LoginCommandRuns, CertCommandRuns, CrashRuns,
     SpoilRuns DEF Next

LEMMA SpecRuns == Spec => [](StoreInv /\ RInv)
<1>1. Init => StoreInv /\ RInv
  BY StoreInit, RunsInit
<1>2. StoreInv /\ RInv /\ [Next]_vars => (StoreInv /\ RInv)'
  BY StoreNext, RunsNext
<1> QED
  BY <1>1, <1>2, PTL DEF Spec

\* Every variable keeps its type, so no command starts a run beyond the bound and
\* no issue hands on half a login (le_spoke.py:688-703).
THEOREM TypeCorrect == Spec => []TypeOK
<1>1. StoreInv /\ RInv => TypeOK
  BY RunBounds DEF StoreInv, RInv, RunTypeOK, TypeOK
<1> QED
  BY <1>1, SpecRuns, PTL

\* A record that outlives its run was left by a killed run, a failed request or a
\* changed login (he_dns.py:203-237).
THEOREM RecordsAreCleanedUp == Spec => []NothingLeftBehind
<1>1. RInv => NothingLeftBehind
  BY DEF RInv, RecordsExplained, NothingLeftBehind
<1> QED
  BY <1>1, SpecRuns, PTL

\* The hook of another run removes nothing that the CA has yet to look for
\* (he_dns.py:234-237).
THEOREM RecordsStay == Spec => RecordStaysUntilValidated
<1> DEFINE Stays == \A r \in zone :
      bot # None /\ bot' # None /\ r.run = bot.id /\ bot.pc = "validate" => r \in zone'
<1>1. ASSUME RInv, NEW k \in hooks, DelTxt(k) PROVE Stays
  <2>1. k.mode = "cleanup" /\ zone' \in {zone, zone \ RecordIds(k)}
    BY <1>1 DEF DelTxt
  <2>2. bot # None /\ bot.pc = "validate" => k.run # bot.id
    BY <1>1, <2>1 DEF RInv, OneHook
  <2> QED
    BY <2>1, <2>2 DEF RecordIds
<1>2. ASSUME [Next]_vars, ~ \E k \in hooks : DelTxt(k)
      PROVE  zone \subseteq zone'
  BY <1>2 DEF Next, vars, CredentialCommand, SetDnsCred, DeleteDnsCred, StoreKeeps,
     LoginCommand, SetHeLogin, SyncVaultDns, UpdateConfig, FileKeeps, CertCommand,
     IssueCert, RenewCert, Launch, Challenge, StartHook, AddTxt, Validate, CertbotExits,
     Timeout, Crash, SpoilFile
<1>3. RInv /\ [Next]_vars => [Stays]_vars
  BY <1>1, <1>2
<1> QED
  BY <1>3, SpecRuns, PTL DEF Spec, RecordStaysUntilValidated
=============================================================================
