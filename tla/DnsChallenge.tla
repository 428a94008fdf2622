---------------------------- MODULE DnsChallenge ----------------------------
(***************************************************************************)
(* DNS-01 challenges with a Hurricane Electric account: where the login    *)
(* comes from (le_spoke.py, acme.py, the store of DnsCredentials), the one *)
(* file he-login.ini that hands it to the hook, and the hook itself        *)
(* (he_dns.py), which certbot runs once to add the challenge's TXT record  *)
(* and once to remove it.  certbot, the CA and the panel are external.     *)
(* An account is a member of Values: its user name and its password are    *)
(* written the same, and a login with two different ones is refused.       *)
(***************************************************************************)
EXTENDS DnsCredentials

CONSTANTS
  Domains,
  Hosts,       \* the domains whose zone each account holds
  Handlers,    \* command handlers, the renewal task among them
  MaxRuns,     \* bound: runs of certbot
  MaxCommands, \* bound: commands, those that run certbot included
  MaxFaults    \* bound: requests to the panel that fail, killed runs, spoiled
               \* files, restarts

ASSUME ChallengeAssumption ==
  /\ Hosts \in [Values -> SUBSET Domains]
  /\ {MaxRuns, MaxCommands, MaxFaults} \subseteq Nat

VARIABLES
  ini,      \* he-login.ini
  config,   \* the login in the spoke's config
  task,     \* the certbot run that each handler waits for, or has lost
  bot,      \* the certbot run that holds certbot's lock
  hooks,    \* hook processes under way
  zone,     \* TXT records at the panel
  spared,   \* ghost: runs whose clean-up a fault or a change of login kept from
            \* its record
  used      \* how much of each bound is used up

vars == <<store, ini, config, task, bot, hooks, zone, spared, used>>

Login == [user : Values, pw : Values]
Runs == 1..MaxRuns

\* A run of certbot for a domain; `want` is the login that its command, an issue,
\* resolved (a renewal does not say with which login the hook is to work).
Run == [id : Runs, dom : Domains, want : Login \cup {None}, h : Handlers,
        pc : {"auth", "validate", "cleanup", "exit"}]

ASSUME NoneAssumption == None \notin Run

\* A hook process, with the login it found in he-login.ini.
Hook == [run : Runs, dom : Domains, mode : {"auth", "cleanup"},
         login : Login \cup {None}, want : Login \cup {None}]

Record == [dom : Domains, run : Runs]

Spend(f) == used' = [used EXCEPT ![f] = @ + 1]
CanFail == used.faults < MaxFaults
MayCommand == used.commands < MaxCommands

-----------------------------------------------------------------------------
(* Commands that keep credentials and logins.                              *)

StoreKeeps == UNCHANGED <<ini, config, task, bot, hooks, zone, spared>>

SetDnsCred(t, n, p, fields) ==
  MayCommand /\ Spend("commands") /\ Upsert(t, n, p, fields) /\ StoreKeeps

DeleteDnsCred(t, n) ==
  MayCommand /\ Spend("commands") /\ Delete(t, n) /\ StoreKeeps

FileKeeps == UNCHANGED <<store, task, bot, hooks, zone, spared>>

\* write_he_creds() replaces the file, or raises and leaves it; `cost` is what the
\* command has used up by then.
Writes(l, cost) ==
  \/ ini' = l /\ used' = cost
  \/ CanFail /\ UNCHANGED ini /\ used' = [cost EXCEPT !.faults = @ + 1]

Command == [used EXCEPT !.commands = @ + 1]

\* The config has the login even if the file cannot be written.
SetHeLogin(l) ==
  /\ MayCommand /\ FileKeeps
  /\ config' = l /\ Writes(l, Command)

\* The new config replaces the whole old one, a login in it or not.
UpdateConfig(l) ==
  /\ MayCommand /\ FileKeeps
  /\ config' = l
  /\ IF l # None THEN Writes(l, Command) ELSE UNCHANGED ini /\ used' = Command

SyncVaultDns(l) ==
  /\ MayCommand /\ FileKeeps
  /\ UNCHANGED config /\ Writes(l, Command)

-----------------------------------------------------------------------------
(* Issue and renew commands.                                               *)

MayLaunch(h) ==
  task[h] = None /\ used.runs < MaxRuns /\ used.commands < MaxCommands

RunCommand == [used EXCEPT !.runs = @ + 1, !.commands = @ + 1]

\* certbot starts, or exits at once because another run holds its lock.
Launch(h, d, want) ==
  /\ IF bot = None
       THEN /\ bot' = [id |-> used.runs + 1, dom |-> d, want |-> want, h |-> h,
                       pc |-> "auth"]
            /\ task' = [task EXCEPT ![h] = used.runs + 1]
       ELSE UNCHANGED <<bot, task>>
  /\ UNCHANGED <<store, config, hooks, zone, spared>>

\* The first source that has a value: the request, the named credential, config.
FirstOf(a, b, c) == IF a # Blank THEN a ELSE IF b # Blank THEN b ELSE c

\* Mutant: a login with one half missing counts as one.
ResolvedPartly(req, cred) ==
  LET user == FirstOf(req.user, IF cred # None THEN cred.fields.username ELSE Blank,
                      IF config # None THEN config.user ELSE Blank)
      pw == FirstOf(req.pw, IF cred # None THEN cred.fields.password ELSE Blank,
                    IF config # None THEN config.pw ELSE Blank)
  IN  IF {Blank} = {user, pw} THEN None ELSE [user |-> user, pw |-> pw]

\* The login of an issue: user name and password are looked up independently.
Resolved(req, cred) ==
  LET user == FirstOf(req.user, IF cred # None THEN cred.fields.username ELSE Blank,
                      IF config # None THEN config.user ELSE Blank)
      pw == FirstOf(req.pw, IF cred # None THEN cred.fields.password ELSE Blank,
                    IF config # None THEN config.pw ELSE Blank)
  IN  IF Blank \in {user, pw} THEN None ELSE [user |-> user, pw |-> pw]

\* LE_ISSUE_CERT with a HE login, from a named credential of the tenant or not:
\* the login is written before certbot is launched (an issue that cannot write it
\* ends there).
IssueCert(h, d, t, n, req) ==
  /\ MayLaunch(h)
  /\ n # None => Known(t, n) /\ Load(t)[n].provider = "he_login"
  /\ LET login == Resolved(req, IF n # None THEN Load(t)[n] ELSE None) IN
       /\ ini' = IF login # None THEN login ELSE ini
       /\ used' = RunCommand
       /\ Launch(h, d, login)

\* LE_RENEW_CERT, with a login from the vault or without, and the renewal task: it
\* goes on when the login cannot be written.
RenewCert(h, d, vault) ==
  /\ MayLaunch(h)
  /\ IF vault # None THEN Writes(vault, RunCommand)
                     ELSE UNCHANGED ini /\ used' = RunCommand
  /\ Launch(h, d, None)

-----------------------------------------------------------------------------
(* certbot and the hook.                                                   *)

BotKeeps == UNCHANGED <<store, ini, config>>
BotGoes(pc) == bot' = [bot EXCEPT !.pc = pc]

\* certbot runs the hook, which reads he-login.ini first.
StartHook(mode) ==
  /\ bot # None /\ bot.pc = mode
  /\ \A k \in hooks : k.run # bot.id
  /\ hooks' = hooks \cup {[run |-> bot.id, dom |-> bot.dom, mode |-> mode,
                           login |-> ini, want |-> bot.want]}
  /\ BotKeeps /\ UNCHANGED <<task, bot, zone, spared, used>>

\* The login is accepted and the account holds the zone.
Reaches(k) ==
  /\ k.login # None
  /\ k.login.user = k.login.pw
  /\ k.dom \in Hosts[k.login.user]

\* The hook ends; certbot goes on, whatever its exit status, if it still runs.
HookEnds(k, pc) ==
  /\ hooks' = hooks \ {k}
  /\ IF bot # None /\ bot.id = k.run THEN BotGoes(pc) ELSE UNCHANGED bot
  /\ BotKeeps /\ UNCHANGED task

\* auth: the record is added, or a request fails before or after that.
AddTxt(k) ==
  /\ k.mode = "auth"
  /\ \/ /\ zone' = IF Reaches(k) THEN zone \cup {[dom |-> k.dom, run |-> k.run]}
                   ELSE zone
        /\ UNCHANGED used
     \/ CanFail /\ Spend("faults") /\ UNCHANGED zone
     \/ /\ CanFail /\ Spend("faults") /\ Reaches(k)
        /\ zone' = zone \cup {[dom |-> k.dom, run |-> k.run]}
  /\ HookEnds(k, "validate") /\ UNCHANGED spared

\* Mutant: every TXT row of the name, whatever its token.
RecordIdsOfName(k) == {r \in zone : r.dom = k.dom}

\* Mutant: no row is recognised, as before the parser was rewritten.
RecordIdsUnparsed(k) == {}

\* _record_ids(): the TXT rows of the name that carry the token.
RecordIds(k) == {r \in zone : r.dom = k.dom /\ r.run = k.run}

\* cleanup: they are deleted one by one, until a request fails.
DelTxt(k) ==
  /\ k.mode = "cleanup"
  /\ \/ /\ zone' = IF Reaches(k) THEN zone \ RecordIds(k) ELSE zone
        /\ spared' = IF Reaches(k) THEN spared ELSE spared \cup {k.run}
        /\ UNCHANGED used
     \/ /\ CanFail /\ Spend("faults")
        /\ spared' = spared \cup {k.run}
        /\ UNCHANGED zone
  /\ HookEnds(k, "exit")

\* The CA looks for the record; certbot cleans up either way.
Validate ==
  /\ bot # None /\ bot.pc = "validate"
  /\ BotGoes("cleanup")
  /\ BotKeeps /\ UNCHANGED <<task, hooks, zone, spared, used>>

Answered(h) == task' = [task EXCEPT ![h] = None]

CertbotExits ==
  /\ bot # None /\ bot.pc = "exit"
  /\ bot' = None /\ Answered(bot.h)
  /\ BotKeeps /\ UNCHANGED <<hooks, zone, spared, used>>

\* _run() kills certbot at its timeout: nobody cleans up, and a hook under way
\* goes on.
Timeout ==
  /\ bot # None /\ CanFail /\ Spend("faults")
  /\ spared' = spared \cup {bot.id}
  /\ bot' = None /\ Answered(bot.h)
  /\ BotKeeps /\ UNCHANGED <<hooks, zone>>

\* The process restarts; its children end with it.
Crash ==
  /\ CanFail /\ Spend("faults")
  /\ spared' = IF bot = None THEN spared ELSE spared \cup {bot.id}
  /\ bot' = None /\ hooks' = {} /\ config' = None
  /\ task' = [h \in Handlers |-> None]
  /\ UNCHANGED <<store, ini, zone>>

SpoilFile(f) ==
  /\ CanFail /\ Spend("faults")
  /\ Spoil(f) /\ StoreKeeps

-----------------------------------------------------------------------------
\* A spoke whose tenants may have stored a credential before.
Init ==
  /\ store \in [Files -> {[n \in Names |-> c] : c \in {None} \cup
        {[provider |-> "he_login", fields |-> [username |-> v, password |-> v]] :
           v \in Values}}]
  /\ ini = None /\ config = None
  /\ task = [h \in Handlers |-> None]
  /\ bot = None /\ hooks = {} /\ zone = {} /\ spared = {}
  /\ used = [runs |-> 0, commands |-> 0, faults |-> 0]

CredentialCommand ==
  \E t \in Tenants, n \in Names :
    \/ \E p \in {"he_login", "cloudflare"} : \E fields \in Fields(p) :
         SetDnsCred(t, n, p, fields)
    \/ DeleteDnsCred(t, n)

LoginCommand ==
  \/ \E l \in Login : SetHeLogin(l) \/ SyncVaultDns(l)
  \/ \E l \in Login \cup {None} : UpdateConfig(l)

Request == [user : Values \cup {Blank}, pw : Values \cup {Blank}]

CertCommand ==
  \E h \in Handlers, d \in Domains :
    \/ \E t \in Tenants, n \in Names \cup {None}, req \in Request :
         IssueCert(h, d, t, n, req)
    \/ \E l \in Login \cup {None} : RenewCert(h, d, l)

Challenge ==
  \/ \E mode \in {"auth", "cleanup"} : StartHook(mode)
  \/ \E k \in hooks : AddTxt(k) \/ DelTxt(k)
  \/ Validate \/ CertbotExits \/ Timeout

Next ==
  \/ CredentialCommand \/ LoginCommand \/ CertCommand
  \/ Challenge
  \/ Crash
  \/ \E f \in Files : SpoilFile(f)

Spec == Init /\ [][Next]_vars

-----------------------------------------------------------------------------
(* Properties.                                                             *)

\* Every variable has its type.
TypeOK ==
  /\ StoreTypeOK
  /\ ini \in Login \cup {None}
  /\ config \in Login \cup {None}
  /\ task \in [Handlers -> Runs \cup {None}]
  /\ bot \in Run \cup {None}
  /\ hooks \subseteq Hook
  /\ zone \subseteq Record
  /\ spared \subseteq Runs
  /\ used \in [runs : Nat, commands : Nat, faults : Nat]

\* No run loses the record it has put up before the CA has looked for it, though
\* a hook of another run of the same domain, killed or not, may be cleaning up
\* (he_dns.py:234-237).
RecordStaysUntilValidated ==
  [][\A r \in zone :
       bot # None /\ bot' # None /\ r.run = bot.id /\ bot.pc = "validate"
         => r \in zone']_vars

\* A record whose run is over, and whose hooks are, was left by a killed run, a
\* failed request, or a clean-up that found another login in the file: clean-up
\* itself finds what its run added (he_dns.py:203-237), where an earlier parser
\* "left every _acme-challenge TXT behind" (he_dns.py:126-130).
NothingLeftBehind ==
  \A r \in zone :
    \/ r.run \in spared
    \/ bot # None /\ bot.id = r.run
    \/ \E k \in hooks : k.run = r.run

\* The hook of an issue that has resolved a login uses that login: "per-request
\* wins, else the named credential, else the legacy single knob"
\* (le_spoke.py:688-689).
HookUsesOwnLogin ==
  \A k \in hooks : k.want # None => k.login = k.want
=============================================================================
