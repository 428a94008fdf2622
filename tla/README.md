# Verification of the certificate spoke

TLA+ models of the Let's Encrypt spoke (`lbockenstedt/le`), the TLC runs that check
them on small instances, and proofs checked by TLAPS. Paths like `le_spoke.py:220`
are under `src/src/` unless they say otherwise.

The program is one Python process (`LESpoke` on an asyncio event loop) that a hub
commands over a WebSocket. It keeps a ledger of managed certificates, runs certbot as
a subprocess to issue, renew and revoke them, and hands their material to the hub and
to Agents. What is hard about it is not any single function: it is the renewal task
and the command handlers sharing one dictionary across awaits of minutes, the ledger
file lagging behind that dictionary, certbot rewriting files under a reader, and the
process being cancelled, killed and restarted in the middle of it.

## Inventory

| Component | State | Operations | Interacts with | What makes it correct |
|---|---|---|---|---|
| Spoke coordinator, `le_spoke.py` | `_certs` (the ledger in memory), the renewal task and its `changed` flag, suspended handlers, `config` | `_renew_loop`, `_reconcile_and_renew`, `handle_command` and its `LE_*` commands, `_record_issue`, `_persist` | awaits certbot runs and hub events; shares `_certs` between the task and all handlers; is cancelled by `UPDATE_CONFIG` | no lost or resurrected entry or target; outcomes recorded in the right entry; edits saved; every due certificate renewed or its failure on record; every command answered |
| Ledger, `ledger.py` | the JSON file | `load`, atomic `save`, `upsert_cert`, `remove_cert`, `add_target`, `remove_target` | called by the coordinator | the file is always a whole table that was once in memory; acknowledged edits are in it |
| certbot wrapper, `acme.py` 408-556 | certbot's lock and processes, `live/<domain>` | `issue`, `renew`, `revoke`, `_run` with its 180 s kill | coordinator, certbot, DNS hook | an outcome reaches whoever waits for it; nobody waits for ever |
| Material reader, `acme.py` 635-742 | `_read_material_cache` | `read_material`, `expiring` | reads files certbot is rewriting | the hash, expiry and key that are returned are those of the current certificate |
| certbot self-update, `certbot_update.py` | the venv, the symlink, plugins | `ensure_certbot`, `refresh`, `ensure_venv_plugin` | run by the renewal task, which may be cancelled | a partial installation is completed later; plugins go where the active certbot loads them |
| Credential store, `dns_credentials.py`, and hook files, `acme.py` 196-237 | a JSON file per tenant; one `he-login.ini`, one `dns-<provider>.ini` | `upsert`, `delete`, `materialize`, `write_he_creds`, `write_dns_creds` | `_issue`, `_renew`, the hook | a run uses its own tenant's secret; a save keeps stored secrets |
| Hurricane Electric hook, `he_dns.py` | the zone's TXT records | `auth`, `cleanup` | run by certbot | a clean-up removes what its own run added |
| Agent deploy, `le_spoke.py` 894-1101, and `src/scripts/lm-le-install-cert` | temporary files and installed pair on the Agent, targets' push markers | `LE_DEPLOY_TO_AGENT`, `deploy_cached_cert_to_agent`, the helper | Agent connections, ledger | the installed pair matches; a marker says what the host has |
| Hub distribution (external) and the spoke's side of it | `material_hash`, `last_pushed_hash`, `last_status`; the hub's passes | `LE_GET_CERT`, `LE_CERT_RENEWED`, `LE_MARK_DISTRIBUTED`; polls, pushes | ledger, renewals, targets | every target is given the current certificate, none is skipped that needs it |
| Control plane, `control_plane.py` | the connection to the hub | `run_hub_mode`, `_on_agent_registered` | base class of another repository | - |
| Promotion, `src/.github/scripts/promote.sh` and workflows | the three branches, `VERSION` | pick, extend, restage, bump, back-merge | CI | a promotion is what it says; versions advance |
| Installers | files on the host | run once by an operator | - | - |

`PROJECT.json` lists the hazards behind this table, each at its line, with the
properties that would catch it going wrong.

## Modules

| Module | What it is |
|---|---|
| `CertRegistry` | Abstract: what the operator may count on about registered domains and targets. A table in memory, one on disk, `must` (facts every table has) and `may` (facts some table can have). |
| `LESpoke` | Detailed: the coordinator, the ledger, certbot runs. Implements `CertRegistry` with `mem <- Facts(certs)`, `disk <- Facts(file)`. |
| `MCLESpoke` | Instances of `LESpoke` for TLC. |
| `LESpokeProofs` | Type correctness and the inductive invariant, action by action. |
| `LESpokeRefinement` | `LESpoke` implements `CertRegistry`; hence the registry's promise. |
| `LESpokeLedger` | What `LESpoke`'s ledger holds: saves that are owed, material that only advances. |
| `MaterialCache` | `read_material` and its memo, one file system call at a time, against certbot. |
| `MaterialCacheProofs` | What a call returns and what the memo holds. |
| `AgentDeploy` | Deploys to one Agent host, on command and on connect, with the install helper. It takes the ledger's targets and `live/<d>` as `LESpoke` has them, reduced to what concerns one host. |
| `MCAgentDeploy` | Instances of `AgentDeploy` for TLC. |
| `CertbotUpdate` | Installing, linking and refreshing certbot, and plugins on demand, with subprocesses that outlive the task that started them. |
| `DnsCredentials` | The tenants' stored credentials: load, merge, save. |
| `DnsChallenge` | Extends `DnsCredentials` with the logins, the file that hands one to the hook, certbot's runs and the hook's records. |
| `Distribution` | One certificate on its way to its targets: ledger hashes and markers against the hub's polls and pushes. |
| `MCCertbotUpdate`, `MCDnsChallenge`, `MCDistribution` | Their instances for TLC. |
| `AgentDeployProofs`, `CertbotUpdateProofs`, `DistributionProofs` | All safety properties of these models, each from one inductive invariant. |
| `DnsProofs` | The same for `DnsChallenge` and the credentials it extends. |

A definition called "Mutant of ..." is a version of the next definition with a bug in
it; `PROJECT.json` names, for each property of each run, the mutant that breaks it.

### LESpoke: how it corresponds to the code

An action is what one task does between two awaits.

* The renewal task (`loop`, `snap`): `StartScan` is the certbot update and
  `list(certs.items())` (164-192). `NotDue`, `StartRenewal` and `AbortScan` are one
  iteration up to its first await (193-220), including the write of the reconciled
  material. `SkipRemoved`, `RecordRenewal` and `RenewalTimeout` are the three ways on
  from the await (219-251); `Notified` is the end of the event's await; `EndScan` the
  single save (253); `Wake` the end of a sleep or back-off (173-179). The walk over
  the snapshot does not yield between awaits, so handlers are guarded by `Turn`.
* `snap[d] = Attached` means the snapshot's object is still the ledger's; `Detach`
  gives it a copy of its own when a handler replaces or removes the entry, and
  `WriteHeld` then writes to the copy only. This is Python's object identity, which
  the code's correctness rests on.
* Handlers (`task`, `res`): a command that awaits certbot is suspended under the
  handler's name (`IssueCert`, `RenewCert`, `RevokeCert`, `DeployToAgent`) and
  resumed by an action of its own (`IssueDone`, `RenewOutcome`, `RenewNext`,
  `RenewDone`, `RenewAborts`, `RevokeDone`, `DeployDone`). Commands that do not await
  are one action.
* An Agent that connects is a task of its own (`Connect`, `PushNext`, `PushesDone`:
  `deploy_cached_cert_to_agent`, 1007-1053). It walks a snapshot of the entries and
  holds their objects and the target in hand (`held`), stamps that target after each
  deploy, and saves at its end if one deploy succeeded. What it stamps on an object
  that a handler has taken out of the ledger is lost; what it stamps without a success
  stays in memory until somebody saves.
* `Commit` is every handler's last segment: edit, `_persist`, answer. When the save
  raises, memory keeps the edit, the file does not, and the caller gets an error.
* certbot (external): one process at a time, `bot`; a second one fails at once
  (certbot's own lock). `CertbotSucceeds` and `CertbotFails` write what the run leaves
  in `live/<d>` and deliver the outcome; a failing or killed run may have written
  first. `RenewedOutOfBand` is certbot's timer, `Age` the clock.
* `UpdateConfig` cancels the renewal task wherever it awaits and leaves its certbot
  process running; `Crash` kills the process with its certbot child (systemd's control
  group) and reloads the file.

What is abstracted. Material is a version number: the hash and the expiry are always
written together, so `mat` stands for both. A certificate's window is
`due[d]`: versions up to it are inside it. Other fields of an entry (email, challenge,
staging, tenant, times) no property tells apart. Targets are a set; a position in the
list is some target of it. The scan takes the domains in any order. The spawn of a
process and the handler step that does it are one action (the code does not yield in
between to anything that can tell). An exit and the files it leaves are one step, and
exits are delivered one at a time (`NothingPending`). `MaterialCache` below is what
justifies reading `live[d]` for `read_material` here. A renewal command over an empty
ledger, which only saves, is left out. A domain of `Wide` has a renewal window longer
than certbot's own: `certbot renew` may then succeed and leave the old material, which
the scan and the command take for a renewal (`acme.py:536-538`, `le_spoke.py:232-239`).

### MaterialCache: how it corresponds to the code

`Call` is `isfile` (655), `Stat` is `os.stat` and the memo lookup (660-666),
`ReadFullchain`, `ReadPrivkey`, `ReadChain` the three reads (668-689), the last one
with the store into the memo (695). Between any two, certbot may take its next step:
it switches `privkey`, `chain`, `fullchain` in that order, as its `update_all_links_to`
does, and removes them in that order on a delete. A file's version stands for its
content and, for `fullchain`, for its modification time: certbot writes every version
to a file of its own, so two versions never share one. A read of a file that is there
may raise (`errors`), a certbot run may be killed between two files (`kills`).

### AgentDeploy: how it corresponds to the code

`dep[k]` is a task of the spoke that deploys to this host, one await at a time.
`Command` is `_deploy_to_agent_command` up to its first request (1062-1086, 928-945),
with the pair validation; `Connect` and `Visit` are `deploy_cached_cert_to_agent`, a
walk over a snapshot of the entries that reads, does not validate, and sends.
`WriteFile`, `StartHelper`, `Answer` and `GiveUp` are the requests of
`_deploy_cert_to_agent` (947-984), each of which may raise before or after the Agent
carried it out; a write may also be carried out late, when nobody waits for it any more
(`late`, `LateWrite`), and so may the removal (`LateRemoval`). `FinishCommand` and `FinishOne` are the `rm` of the `finally` (962-970)
with what follows it without an await: the stamp on the target and, for a command, the
save. `EndConnect` is the one conditional save of the walk (1049-1053). Commands and
connections are tasks of two kinds (`Commands`, `Connects`).
* An entry has the targets that match this host (`Targets`): one with the host's name
  (`Own`) and one with a blank identifier, either or both. A command finds or adds
  `Own` and stamps it; a walk stamps the first that matches, which may be the other
  one (`Matches`), and stops there (1048).

* `held[k]` is object identity again: the domains whose entry, and while one is being
  deployed whose target, the connect task holds is still the ledger's. `RemoveTarget`,
  `Reissue` and `Revoke` take it away; the stamp then goes to an object nobody saves.
* `helper[n]` is the script on the host: it checks that both files are readable and
  installs the certificate (`HelperInstallsCrt`, 28-35), then the key
  (`HelperInstallsKey`, 36); `HelperFails` is `set -e` or the Agent's 30 s limit. It
  goes on when the spoke gives up or restarts.
* A number in `Run` stands for a deploy under way and for its millisecond. `Stamps`
  lets a deploy have another's only while that one is about to send its first file.
* Auxiliary variables: `done` collects the pairs that were installed completely,
  `newest` the target that the last deploy of a domain stamped, `lost` the files no
  `rm` is going to be carried out for. `excused` are the domains whose record may be
  behind the host: (a) two deploys of it overlapped, or one began while an earlier
  one's helper was still at work, (b) the target was out of the ledger when the last
  deploy stamped it, (c) a restart cut a deploy off or went back to older markers. A
  later deploy that has the domain for itself ends the excuse.

What is abstracted: one host (deploys to different hosts share nothing but the ledger),
versions for contents. A helper that the Agent starts late is one whose first step is
long in coming. Of requests that are carried out late only those are kept apart whose
effect differs from an early one's. A file left behind that nothing reads is no longer
followed. `Reads` is what `MaterialCache` shows
`read_material` to return: the key may be ahead of the certificate, or empty.

### CertbotUpdate: how it corresponds to the code

A subprocess is a `job` of the task that awaits it. What the host has is `sys` (the
distribution's certbot), `venv`, `link` and the plugins each certbot can load; `Active`
is what a bare `certbot` runs. Versions are "old" and "new" (knows profiles).

* The renewal task (`loop`): `Ensure` is the test at `certbot_update.py:89` with the
  refresh behind it; `ProbeSystem`, `Decide`, `VenvMade`, `PipInstalled`, `ProbeVenv`
  and `Link` the rest of `ensure_certbot`, one await at a time, each with its early
  return; `Refresh` and `NextCycle` the daily refresh in `_renew_loop`. `why` says how
  the last ensure ended and is only read by a property.
* `link` is whether the symlink leads to the venv's certbot; `InVenv` is what
  `venv_certbot()` looks for, the file.
* An issue (`task`): `Issue` is `present()` with its memo and the choice of venv or
  apt in `ensure_dns_plugin`, `Show` and `PluginInstalled` the awaits of
  `ensure_venv_plugin` or apt-get, `Launch` the start of certbot.
* Jobs: `PipWrites` is the moment from which pip has half replaced the venv's certbot,
  or taken its `bin/certbot` or plugins away, `PipEnds` its end (with another pip at
  work beside it (`PipBeside`) what it put there may be gone), `JobFails` a failure or
  the kill at the time-out. `UpdateConfig`
  cancels the task and leaves its job to `Orphan`: nothing kills a subprocess whose
  task is cancelled (`certbot_update.py:57`). `Crash` ends all of them.

Left out: snap, `LM_LE_CERTBOT_BIN`, `apt-get update`. One job at most is an orphan.

### DnsCredentials and DnsChallenge: how they correspond to the code

`store` holds the file of each tenant; `Load`, `Save`, `Upsert`, `Delete` are the
functions of the same name, `Merged` the sentinel merge (`dns_credentials.py:141-149`).
A file that cannot be parsed reads as empty (`Corrupt`). `FileOf` is what
`_safe_tenant` makes of an id; two ids may share a file.

In `DnsChallenge` an account is a value of the fields, and a login is accepted if both
halves name the same account. `SetHeLogin`, `UpdateConfig`, `SyncVaultDns`, an issue
and a renewal with a vault login write `ini`, the one he-login.ini (`Writes`); `config`
is the login in memory. `Resolved` is the lookup at `le_spoke.py:690-691`. `StartHook`,
`AddTxt` and `DelTxt` are one run of the hook: it reads the file, logs in, and adds or
deletes; a request may fail before or after it took effect. A challenge's token is the
run's number. `Timeout` is `_run`'s kill, which neither cleans up nor ends the hook;
`Crash` ends all processes. `spared` records the runs whose clean-up a fault or another
login kept from its record.

Left out: optional fields, the providers whose INI file certbot reads itself, the
panel's HTML, wildcard and base domain of one name in one run.

### Distribution: how it corresponds to the code

`disk` is the version in `live`, `entry` and `file` the ledger entry in memory and on
disk: its `material_hash` and each target's `last_pushed_hash`. `Reconcile` and
`Renewed` are the two branches of the scan (198-211 and 231-239, the latter with
`LE_CERT_RENEWED`, sent or dropped), `EndRenewal` the save, `Issue`, `AddTarget`,
`RemoveTarget`, `Revoke` and `MarkDistributed` the commands, `Served` what
`LE_GET_CERT` answers. `unsaved` is `LESpoke`'s `changed` flag or suspended command,
in so far as a save is coming.

The hub is external. Assumed of it (from `ledger.py:3-5`, `le_spoke.py:358-363`,
`docs/le.md:71` and 88): an hourly sweep takes the targets whose marker differs from
the entry's hash; an event starts passes of its own (`Immediate`), which nothing keeps
apart from the sweep or from each other; a pass pulls the material once, pushes it
target by target, and reports each result with the hash it pushed, a failed push's too
or not at all. Between any two of these steps everything else may happen: a report may
come late, be lost, or name a version that another pass has overtaken.

`LE_MARK_DISTRIBUTED` stores the hash whatever the status (`le_spoke.py:877-880`), and
`Marked` does: a failed push whose hash was reported is skipped by the next sweep.
`given` is a history variable: the versions that a target was ever given.

## Runs

| Run | Instance | Bounds | Checks |
|---|---|---|---|
| `core` | 1 domain with a wide window, 1 agent target, 2 handlers (symmetric) | 2 versions, 2 commands, 1 cancelled task, 1 crash, 1 fault | `TypeOK`, `PromiseKept`, `SomebodyWillSave`, `RegistrySpec`, `MaterialAdvances` |
| `domains` | 2 domains with wide windows (symmetric), 1 agent target, 1 handler | 2 versions, 1 command, 1 fault | `PromiseKept`, `SomebodyWillSave`, `RegistrySpec` |
| `live` | 2 domains, one of them with a wide window, 1 handler, fair | 2 versions, 1 cancelled task, 1 fault, 1 renewal out of band, no command | `DueCertHandled` |
| `answers` | 1 domain, 2 handlers, fair | 2 versions, 2 commands | `CommandAnswered`, `DueCertHandled` |
| `reads` | - | 3 versions, 1 error, 1 kill | `TypeOK`, `MemoChainCurrent`, `ReturnsRecentChain`, `MemoConsistent` |
| `deploys` | 2 domains (symmetric), 2 targets that match the host, 1 command handler, 1 connect task | 2 versions, 2 tasks, 1 of: failure, failed save, edit, restart, shared millisecond | `TypeOK`, `MarkerTold`, `SuccessMeansInstalled`, `NoSecretLeft`, `SuccessOnRecord` |
| `pairs` | 1 domain, 1 target, 1 connect task | 2 versions, no failure | `PairsValidated` is violated |
| `updates` | 1 handler, 1 provider (bundled), fair | 1 cancelled task, 1 crash, 1 failure | `TypeOK`, `EnsuredIfBuilt`, `CertbotComesBack` |
| `plugins` | 1 handler, 2 providers (1 bundled) | no cancelled task, crash or failure | `PluginForActiveCertbot` is violated |
| `challenges` | 2 tenants, 2 names, 2 accounts, 1 domain, 2 handlers (names and handlers symmetric) | 2 certbot runs, 3 commands, 1 fault | `TypeOK`, `StoredComplete`, `EditsOneCredential`, `NothingLeftBehind`, `RecordStaysUntilValidated` |
| `logins` | as `challenges` | as `challenges` | `HookUsesOwnLogin` is violated |
| `pushes` | 2 targets, the sweep and 1 pass beside it, fair | 2 versions, 2 commands, 1 fault | `TypeOK`, `SkipIsSafe`, `Distributed` |

Why these bounds are enough for the cases to happen. Entries of different domains
interact only through the single save, the `changed` flag and certbot's lock, so two
domains show every way one affects another; the single-domain instances are for the
interleavings on one entry. Two suspended handlers plus the renewal task give three
parties on one entry, and two commands let an issue and a revoke or a target edit of it
overlap. Two versions tell old material from new; the third in `MaterialCache` lets a
read start before one switch and end after another. A fault can hit any save, any read
and any spawn, before or after the one crash and the one cancelled task.
In `deploys` two tasks (`MaxTasks`) are a command and a walk, two walks or two commands,
one during the other or after it; a walk deploys both domains, so one save stands for two
deploys of which one may fail, with a command's save in between. `MaxAtOnce` is enough
that no deploy ever waits for a number. A version installed, a renewal, and a second
deploy that fails half way need one renewal and one failure. An entry starts with either
target or both.
In `updates` one cancelled task is enough for two pips to overlap in the venv, a third
being the issue's; the failure can be the kill of any of them. In `challenges` two runs
of one domain overlap when the first is killed and its hook goes on; the third command
edits a credential or a login in between. In `pushes` two versions and a pass beside
the sweep let an older push or report come after a newer one; the fault is a lost event or
report, a failed push or a restart.

`challenges`, `logins`, `pushes` and `deploys` set `CHECK_DEADLOCK FALSE`: commands are
bounded; a certificate that is revoked, with nothing left to distribute, leaves nothing to
do, and so does an Agent host with no command and no connection any more. Of the other
passing runs none can stop: the renewal task goes on for good, and in `reads` so does the
reader.

Properties in words:

* `PromiseKept`: what an acknowledged command registered is in memory and in the file
  until a command removes it; neither ever holds what nobody asked for. This is what
  the comment at `le_spoke.py:183-188` says the in-place design is for.
* `RegistrySpec`: the spoke implements `CertRegistry`. In particular no step of the
  renewal task, of certbot or of a resumed handler edits registered facts otherwise
  than by its command.
* `SomebodyWillSave`: unless something failed or was cancelled, memory differs from
  the file only while some task is going to save. The push markers of agent targets are
  left out: a connect task in which no deploy succeeded leaves them unsaved.
* `MaterialAdvances`: no entry goes back to older material.
* `DueCertHandled`: a certificate inside its window is renewed or its failure is in
  the ledger, however long another domain's run hangs (`le_spoke.py:215-227`) and
  whatever commands do to it. Domains of `Wide` are left out.
* `CommandAnswered`: every command that reached certbot is answered.
* `MemoChainCurrent`, `ReturnsRecentChain`: the chain that is returned or remembered is
  the current one.
* `MemoConsistent`: with certbot at rest and no run killed, the memo is what a fresh
  read would give, though it may have been filled between any two switches.
* `MarkerTold`: a target is marked SUCCESS with a version only if that version was
  completely installed, whatever was renewed or re-issued during the deploy.
* `SuccessMeansInstalled`: the target that was stamped last, if marked SUCCESS, tells
  what the host has now, once nothing of the domain is under way and unless the domain is
  excused (above). A second target that matches the host may be behind.
* `NoSecretLeft`: certificates and keys stay in the host's `/tmp` only during their
  deploy, whatever step of it failed, but for a removal that failed, a restart, and a
  write carried out after the removal.
* `SuccessOnRecord`: after the deploys every success in memory is in the file.
* `EnsuredIfBuilt`: a start whose steps all succeeded ends with a certbot that knows
  profiles, but for what other tasks' pips do meanwhile.
* `CertbotComesBack`: on a host with the distribution's certbot, one that does not run
  does not stay the active one.
* `StoredComplete`, `EditsOneCredential`: stored credentials are whole, and an edit
  touches one of one tenant (or of the tenants that share its file).
* `RecordStaysUntilValidated`: no hook removes the record of another run that the CA has
  not looked at.
* `NothingLeftBehind`: a record outlives its run only if a fault or a change of login
  explains it.
* `SkipIsSafe`: a target the hub would skip was given the ledger's version, or the
  ledger says that giving it that version failed.
* `Distributed`: every registered target is given what is on disk, or its refusal of that
  version is on record, whatever was lost.

### Fairness

`Fairness` says three things. The renewal task goes on (weak): its sleeps, the
certbot update and event sends end, and asyncio resumes it. A handler whose await is
over is resumed (strong, per handler): asyncio's ready queue is first in, first out,
but the handler's action is disabled while a scan segment runs. certbot runs that
somebody waits for end (strong): `_run` kills them after 180 s (`acme.py:426-430`). A run
whose task was cancelled has nobody to kill it, and nothing is assumed of it. Nothing says that a run
succeeds, that a command arrives, or that time passes.

`CertbotUpdate`: the renewal task goes on, and subprocesses end (weak), which `_run`'s
time-outs enforce. That pip succeeds once the failures are used up is the assumption
under which `CertbotComesBack` is claimed: a pip that fails every day repairs nothing.

`Distribution`: the daily scan runs and saves, and the hub's sweep polls and goes
through with its pass (weak); both are loops that nothing disables for good. The passes
that events start need not come or end, nor certificates, events and commands, and
requests succeed once the faults are used up.

### What the violations show

* `pairs`. A deploy on connect sends what `read_material` returned without
  `_validate_cert_pair`. If certbot has switched the key and not yet the certificate,
  or the key could not be read, the host gets a pair that does not work and the target
  is marked SUCCESS. `docs/agent-hosting-topology.md:86-88` says every pair is validated
  before it reaches a host.
* `logins`. `issue` hands its login to the hook through the one he-login.ini. A login
  that any other command (in the trace `LE_SYNC_VAULT_DNS`) writes to the file before the
  issue's hook reads it replaces it: the hook of one tenant's issue works with another's
  account. `le_spoke.py:688-689` says which login an issue uses; of a renewal's nothing is
  said, and it is not checked.
* `plugins`. `ensure_dns_plugin` asks whether the venv has a certbot (`acme.py:153`), not
  whether it is the one that the link makes active. When the venv's certbot is too old to
  be linked (`certbot_update.py:127-129`), issues have their plugins put into it and run
  the distribution's certbot without them, though "on-demand plugins land where the active
  certbot can load them" (`certbot_update.py:168-171`, `acme.py:149-150`).

### Divergences without a run of their own

The properties state these as exceptions, so that what remains is checked.

* A read error on `privkey.pem` or `chain.pem` is an empty string that the memo keeps
  while `fullchain.pem` is unchanged (`acme.py:681`, against 640-641; excepted in
  `MemoConsistent`).
* A connect walk in which no deploy succeeded saves nothing, so its ERROR stays in
  memory (`le_spoke.py:1050`, against `docs/agent-hosting-topology.md:90-92`; see
  `SuccessOnRecord`).
* Two deploys to a host in the same millisecond share their temporary files
  (`le_spoke.py:942-945`; excepted in `MarkerTold` and `SuccessMeansInstalled`).
* An installation that was broken off after pip and before the link is taken for
  finished by every later start, and certbot stays the old one
  (`certbot_update.py:89`; excepted in `EnsuredIfBuilt`).
* A `certbot renew` that finds a certificate not yet due by its own window is taken for a
  renewal: the entry is stamped and `last_error` cleared (`acme.py:536-538`,
  `le_spoke.py:232-239`; domains of `Wide` are left out of `DueCertHandled`).
* Two passes of the hub may install an older version last, while the mark names the newer;
  a failed push whose hash was reported is not tried again (`le_spoke.py:877-880`).
  Nothing in this repository promises otherwise; `SkipIsSafe` and `Distributed` say what
  holds.
* Of two targets that match one host only one is stamped, and the other may go on telling
  an older success (`le_spoke.py:1048`, 1090).
* A scan that is cancelled loses the flag that its edits are to be saved: a failure that
  was reported may be missing from the file until the next scan has tried the domain again
  (`le_spoke.py:136`; `SomebodyWillSave` leaves cancelled tasks out).
* On a host without the distribution's certbot a venv whose `bin/certbot` a killed pip took
  away is only repaired at the next start of the renewal task (`certbot_update.py:147-154`;
  excepted in `CertbotComesBack`).
* A pip that is killed in the linked venv leaves no certbot that works until the next
  refresh, while `certbot_update.py:14-15` speaks of a working one after any failure;
  `CertbotComesBack` is what does hold.
* `present()` keeps "no certbot" for good, also when the renewal task has installed one
  (`acme.py:49-54`).

## Proofs

Every safety property that a passing run checks is also a theorem: 23 of them, in
eight modules, for every value of the constants under the modules' assumptions. The
assumptions say that the bounds are natural numbers (`BoundsAssumption`,
`DistributionAssumption`, `ChallengeAssumption`, `CertbotUpdateAssumption`), that the
names for "no such thing" and for tasks differ from the things they stand beside
(`NamesAssumption`, `NoneAssumption`, `CredentialsAssumption`), that a task of
`AgentDeploy` is a command or a connection and the host's own target is a target
(`TasksAssumption`, `TargetsAssumption`), and what the models start from: `Bundled` plugins are plugins, a tenant has a file, a login's accounts hold
domains, and `Distribution` and `AgentDeploy` have at least one version, since their
initial states have a certificate.

Each proof has the same shape: the properties are not inductive by themselves, an
invariant adds what the code relies on, one lemma per action shows that it is kept, and
the theorem reads the property off. What the invariants add is worth knowing to whoever
changes the code.

### LESpoke

* `TypeCorrect` (`LESpokeProofs`): `Spec => []TypeOK`. `IInv` adds three facts: a
  snapshot item that is `Attached` has an entry in the ledger (`Held` is an entry, not
  `None`), a suspended task knows its domain, and a process whose `who` is a task is one
  that task waits for. The first is what fails if a handler could remove an entry
  without `Detach`; it is used wherever the renewal task writes through its object. The
  lemmas at the top are about the operators (`EntryEdits`, `CommitType`, `LaunchRun`,
  `DetachType`).
* `Implements` (`LESpokeRefinement`): `Spec => RegistrySpec`. Initial states map to
  initial states. Every step maps to a command of the registry, its restart, its save,
  or a stutter: the lemmas `Commit...` say which registry command a commit is, given
  what the edit does to the facts of its entry; `WriteHeldKeeps` and `OutcomeTargets`
  say that renewal outcomes leave the facts alone.
* `PromiseHolds`: `Spec => []PromiseKept`, from `Implements` and the registry's own
  invariant.
* `SavesAreOwed` (`LESpokeLedger`): `Spec => []SomebodyWillSave`. It needs that a scan
  starts with its flag down (`FreshFlag`), that a connect task stamps agent targets only
  (`HoldsAgents`), and that material which makes no difference
  leaves the entry as it was (`SameMaterial`): that is why comparing before writing, at
  `le_spoke.py:199-203`, is enough to mark every change. Every step either settles the
  account (`Settled`) or leaves it alone (`Still`).
* `MaterialOnlyAdvances`: `Spec => MaterialAdvances`. What the ledger and its file know
  is never newer than what is on disk, unless the files are gone (`MaterialKnown`); and
  a re-issue finds its files: certbot's run matches the handler that waits for it
  (`RunMatches`), so between a successful exit and the handler's turn nothing removes
  them (`IssuedOnDisk`). The latter rests on `NothingPending`, the order in which
  asyncio delivers exits.

### MaterialCache

`MemoChainIsCurrent`, `TypeCorrect`, `RecentChainReturned` and `MemoIsConsistent`.
`IInv`: a reader past its first read holds the chain on disk unless certbot has switched
it since the stat (`ReaderCurrent`), and a switch under way goes to a version no reader,
memo or file has yet (`Versioned`). For the whole memo, `FInv` says what a read may have
found while the full chain is the one whose time was taken (`Fits`): it rests on
certbot's order, full chain last (`SwitchInOrder`), and fails with any other.

### AgentDeploy

`TypeCorrect`, `SecretsAreRemoved`, `SuccessWasInstalled`, `SuccessIsOnHost`,
`SuccessIsSaved`, for any number of domains, tasks and targets that match the host. An
entry that a task holds is in the ledger (`WellFormed`), so its stamps find a target. With
no shared millisecond, deploys in progress share neither number nor files, and no write of
another is still to come to them (`Apart`, `OwnFiles`), so the helper's run that a deploy
waits for works for it and its "done" means that the pair is installed (`OwnRun`). For a
domain that nothing excuses, deploys come one after the other and no helper of an earlier
one is still at work (`Alone`), hence what is in place follows the deploy step by step
(`InPlace`) and stays when it is over, for the target that was stamped last (`AtRest`).
`FileTold` carries `MarkerTold` over a restart, which goes back to the file; `UnsavedHeld`
says that a success that is not in the file is one whose walk is still going to save.

### DnsCredentials and DnsChallenge

`CredentialsStayComplete` and `EditsStayApart`, from `StoreInv`: every credential in a
file that can be read has its provider's fields. `TypeCorrect`, `RecordsAreCleanedUp` and
`RecordsStay`, from `RInv`: runs are numbered as they start, a run has at most one hook
and certbot waits for it (`OneHook`), a run, its hook and its record are about one
domain, and a hook without its certbot, or a record that certbot leaves, belongs to a run
in `spared` (`HooksExplained`, `RecordsExplained`).

### Distribution

`TypeCorrect`, `SkippingIsSafe`, for any number of passes beside each other. A pass that
has a success to report has given its target the version it pulled (`PassesTold`), and a
marker, in memory or in the file that a restart goes back to, names a version that its
target was given, or an error (`MarkersTold`). `given` only grows, so neither a re-issue
nor an overtaken report can break this.

### CertbotUpdate

`TypeCorrect`, which needs that an issue that looks for its plugin has one to look for
(`Named`).
`EnsuredIsNew`, from `Installed`: a linked venv has a new certbot or a pip at work in it,
and pip can only put a new one there (`LinkedIsNew`); what was probed new stays new or
linked (`ProbedIsNew`); only a venv that was found is kept (`KeptIsFound`).

### Model-checked only

* The liveness properties `DueCertHandled`, `CommandAnswered`, `CertbotComesBack` and
  `Distributed`: they need fairness and ENABLED, which the prover does not handle.
* The properties of the runs `pairs`, `logins` and `plugins`, which the code violates.

## Not modelled

* A ledger file that cannot be loaded: it becomes an empty ledger (`ledger.py:62-66`).
* Cancellation swallowed by `wait_for` in Python before 3.12.
* The settings of an issue (email, challenge, staging, tenant, EAB) and how they are
  stored; argv, PEM, INI and HTML text; the INI files of the other DNS providers.
* The connection to the hub, its authentication and routing: the base class is in
  another repository. So are the hub's distribution and the Agent, which are modelled as far
  as this repository describes them.
* Promotion of branches: a sequential script over git history that shares no state with
  the program. Installers: run once; what they leave is `CertbotUpdate`'s initial state.

## Plan

The modelling is complete as far as "Not modelled" says, and the safety properties are
proved. What is left, in this order:

1. Abstract specifications for two more components, model-checked and proved as
   refinements like `CertRegistry`: of `DnsCredentials`, a table of whole credentials
   per file with edits of one of them; of `MaterialCache`, a reader that returns some
   chain that was current during the call.
2. The safety part of what the liveness properties rest on: that no task waits for a
   process that nobody runs any more, and that a certificate that is due is in the next
   scan's snapshot.
