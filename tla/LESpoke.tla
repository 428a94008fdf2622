------------------------------ MODULE LESpoke ------------------------------
(***************************************************************************)
(* The certificate spoke's coordinator (src/src/le_spoke.py) with its      *)
(* ledger (src/src/ledger.py): one asyncio event loop on which the renewal *)
(* task and the command handlers interleave at their awaits, the ledger    *)
(* dictionary they share, the ledger file, and the certbot processes they  *)
(* wait for.                                                               *)
(*                                                                         *)
(* An action is what a task does between two awaits.  While the renewal    *)
(* task walks its snapshot without awaiting (loop.pc = "scan"), no handler *)
(* runs; certbot, the clock and a crash do not wait for the event loop.    *)
(*                                                                         *)
(* Certificate material is a version number: material_hash and not_after   *)
(* are always written together, so an entry's `mat` stands for both (0 for *)
(* None).  Versions of a domain up to due[d] are inside its renewal        *)
(* window.  The entries are Python objects: the renewal task's snapshot    *)
(* holds either the object that is still in the ledger (Attached) or one   *)
(* that a handler has since replaced or removed (a copy of its own).       *)
(***************************************************************************)
EXTENDS Naturals

CONSTANTS
  Domains,      \* certificate names
  Targets,      \* (module_type, identifier) pairs of distribution targets
  AgentTargets, \* those of module type "agent"
  Wide,         \* domains whose renewal window is wider than certbot's own
  Handlers,     \* tasks suspended at an await: commands, and Agents that connect
  Loop,         \* the renewal task
  None,         \* Python's None: no entry, no task, no process
  Attached,     \* a snapshot item that is the ledger's own object
  Managed,      \* the fact "this domain has an entry"
  MaxVersions,  \* bound: versions of material per domain
  MaxCommands,  \* bound: commands the hub sends, and Agents that connect
  MaxRestarts,  \* bound: UPDATE_CONFIG with a renew_interval
  MaxCrashes,   \* bound: restarts of the process
  MaxFaults,    \* bound: saves, reads or process spawns that fail
  MaxOutOfBand  \* bound: renewals by certbot's own timer

Tasks == Handlers \cup {Loop}

\* A ledger entry: material, last_error set, last_issue_error set, targets and
\* each target's last_pushed_hash.
Entry == [mat : Nat, failed : BOOLEAN, refused : BOOLEAN,
          tg : SUBSET Targets, pushed : [Targets -> Nat]]

Run == [who : Tasks \cup {None}, op : {"issue", "renew", "revoke"},
        dom : Domains, flag : BOOLEAN]

ASSUME NamesAssumption ==
  /\ Loop \notin Handlers
  /\ None \notin Domains \cup Tasks \cup Entry \cup Run
  /\ Attached \notin Entry \cup {None}
  /\ Managed \notin Targets
  /\ AgentTargets \subseteq Targets
  /\ Wide \subseteq Domains

ASSUME BoundsAssumption ==
  {MaxVersions, MaxCommands, MaxRestarts, MaxCrashes, MaxFaults,
   MaxOutOfBand} \subseteq Nat

VARIABLES
  certs,    \* LESpoke._certs: the ledger in memory
  file,     \* the ledger file
  live,     \* version under /etc/letsencrypt/live/<d>, 0 if none
  issued,   \* versions issued for d so far
  due,      \* versions up to this one are inside d's renewal window
  loop,     \* the renewal task: pc, the domain it renews, the `changed` flag
  snap,     \* the rest of its list(certs.items()) snapshot
  task,     \* the handler tasks
  held,     \* ledger objects that a connect task holds, as the facts they are
  res,      \* outcome of the certbot run each task waits for
  bot,      \* the certbot process that holds certbot's lock
  must,     \* facts the operator can count on ...
  may,      \* ... and facts the operator must expect (see CertRegistry)
  used      \* how much of each bound is used up

vars == <<certs, file, live, issued, due, loop, snap, task, held, res, bot,
          must, may, used>>

disk == <<live, issued, due>>

-----------------------------------------------------------------------------
(* The ledger.                                                             *)

NoTargets == [t \in Targets |-> 0]

Fact == Domains \X (Targets \cup {Managed})

FactsOf(d) == {d} \X (Targets \cup {Managed})

Registered(tab) == {d \in Domains : tab[d] # None}

\* The facts a ledger table states.
Facts(tab) ==
  {f \in Fact : tab[f[1]] # None /\ (f[2] = Managed \/ f[2] \in tab[f[1]].tg)}

\* What a failed save, read or spawn, or a command, takes from its bound.
Spend(commands, faults) ==
  /\ used.commands + commands <= MaxCommands
  /\ used.faults + faults <= MaxFaults
  /\ used' = [used EXCEPT !.commands = @ + commands, !.faults = @ + faults]

FaultUnless(ok) == IF ok THEN 0 ELSE 1

\* Mutant of Save: the file is truncated and then written in place.
SaveInPlace(tab, saved) ==
  file' = IF saved THEN tab ELSE [d \in Domains |-> None]

\* Ledger.save: the whole table replaces the file, or the save raises.
Save(tab, saved) == file' = IF saved THEN tab ELSE file

\* Mutant of Commit: the hub is answered before the ledger is saved.
CommitUnsaved(tab, dels, adds, saved) ==
  /\ certs' = tab
  /\ Save(tab, saved)
  /\ must' = (must \ dels) \cup adds
  /\ may' = (IF saved THEN may \ dels ELSE may) \cup adds

\* A handler's last segment: edit the table, persist it, answer the hub.  Only
\* a persisted edit is acknowledged.
Commit(tab, dels, adds, saved) ==
  /\ certs' = tab
  /\ Save(tab, saved)
  /\ must' = (must \ dels) \cup (IF saved THEN adds ELSE {})
  /\ may' = (IF saved THEN may \ dels ELSE may) \cup adds

AddedTarget(e, t) == [e EXCEPT !.tg = @ \cup {t}]

RemovedTarget(e, t) ==
  [e EXCEPT !.tg = @ \ {t}, !.pushed[t] = 0]

Pushed(e, t, v) == [e EXCEPT !.pushed[t] = v]

\* Mutant of Refused: the minimal entry has no targets.
RefusedBare(e) ==
  IF e = None THEN [mat |-> 0, failed |-> FALSE, refused |-> TRUE]
  ELSE [e EXCEPT !.refused = TRUE]

\* _record_issue for a failed attempt: a minimal entry, or the failure merged
\* into the entry there is.
Refused(e) ==
  IF e = None
  THEN [mat |-> 0, failed |-> FALSE, refused |-> TRUE,
        tg |-> {}, pushed |-> NoTargets]
  ELSE [e EXCEPT !.refused = TRUE]

\* Mutant of Reissued: the targets of the entry it replaces are forgotten.
ReissuedAfresh(e, m, ts) ==
  [mat |-> m, failed |-> FALSE, refused |-> FALSE, tg |-> ts,
   pushed |-> NoTargets]

\* The entry a successful issue stores: the targets of the entry it replaces
\* and those of the request, every push marker reset.
Reissued(e, m, ts) ==
  [mat |-> m, failed |-> FALSE, refused |-> FALSE,
   tg |-> (IF e = None THEN {} ELSE e.tg) \cup ts, pushed |-> NoTargets]

\* Mutant of Refreshed: what read_material returned is not looked at.
RefreshedBlindly(e, m) == [e EXCEPT !.mat = m]

\* A renewal outcome merged into an entry; m = 0 when read_material failed.
Refreshed(e, m) == IF m = 0 THEN e ELSE [e EXCEPT !.mat = m]

Renewed(e, m) == [Refreshed(e, m) EXCEPT !.failed = FALSE]

\* Mutant of RenewFailed: last_error is not set.
RenewFailedQuietly(e) == e

RenewFailed(e) == [e EXCEPT !.failed = TRUE]

\* expiring(entry), by the expiry date the entry carries.
Expiring(d, e) == e.mat # 0 /\ e.mat <= due[d]

\* read_material: the version on disk, or an error (0), which costs a fault if
\* the files are there.
ReadCost(d, m) == IF m = live[d] THEN 0 ELSE 1

-----------------------------------------------------------------------------
(* certbot (external).  Its lock admits one run at a time; a second run    *)
(* exits at once with an error.                                            *)

\* Mutant of Launch: a command that finds the lock taken waits, and nobody wakes
\* it.
LaunchQueued(who, op, d, flag) ==
  /\ bot' = IF bot = None
            THEN [who |-> who, op |-> op, dom |-> d, flag |-> flag] ELSE bot
  /\ res' = [res EXCEPT ![who] =
               IF bot = None \/ who \in Handlers THEN "run" ELSE "fail"]

Launch(who, op, d, flag) ==
  /\ bot' = IF bot = None
            THEN [who |-> who, op |-> op, dom |-> d, flag |-> flag] ELSE bot
  /\ res' = [res EXCEPT ![who] = IF bot = None THEN "run" ELSE "fail"]

Finished == {"ok", "fail"}

\* asyncio delivers child exits in order: a run does not end while the outcome
\* of an earlier one is still to be delivered.
NothingPending == \A k \in Tasks : res[k] \notin Finished

NewVersion(d) == IF issued[d] < MaxVersions THEN {issued[d] + 1} ELSE {}

\* What a successful run leaves in live/<d>.  flag is --force-renewal for issue
\* and renew, --delete for revoke.  A renewal that is not yet due by certbot's own
\* reckoning succeeds and does nothing (acme.py:528-538): inside the ledger's
\* window that happens to the Wide domains.
Effect(run) ==
  LET d == run.dom IN
  CASE run.op = "issue" ->
         NewVersion(d) \cup
         (IF live[d] # 0 /\ ~run.flag THEN {live[d]} ELSE {})
    [] run.op = "renew" ->
         IF live[d] = 0 THEN {}
         ELSE NewVersion(d) \cup
              (IF run.flag \/ (d \notin Wide /\ live[d] <= due[d]) THEN {}
               ELSE {live[d]})
    [] run.op = "revoke" ->
         IF live[d] = 0 THEN {} ELSE {IF run.flag THEN 0 ELSE live[d]}

\* certbot writes v under live/<d>.
Write(d, v) ==
  /\ live' = [live EXCEPT ![d] = v]
  /\ issued' = [issued EXCEPT ![d] = IF v > @ THEN v ELSE @]

Exit(outcome) ==
  /\ bot' = None
  /\ res' = IF bot.who = None THEN res ELSE [res EXCEPT ![bot.who] = outcome]
  /\ UNCHANGED <<certs, file, due, loop, snap, task, held, must, may, used>>

CertbotSucceeds ==
  /\ bot # None /\ NothingPending
  /\ \E v \in Effect(bot) : Write(bot.dom, v)
  /\ Exit("ok")

\* certbot fails, or _run kills it at its timeout: before or after it has
\* written the files.
CertbotFails ==
  /\ bot # None /\ NothingPending
  /\ \E v \in Effect(bot) \cup {live[bot.dom]} : Write(bot.dom, v)
  /\ Exit("fail")

\* A renewal by certbot's own timer or by hand, which the spoke does not see.
RenewedOutOfBand(d) ==
  /\ bot = None /\ live[d] # 0
  /\ used.outOfBand < MaxOutOfBand
  /\ used' = [used EXCEPT !.outOfBand = @ + 1]
  /\ \E v \in NewVersion(d) : Write(d, v)
  /\ UNCHANGED <<certs, file, due, loop, snap, task, held, res, bot,
                 must, may>>

\* Time passes: the certificate on disk enters its renewal window.
Age(d) ==
  /\ due[d] < live[d]
  /\ due' = [due EXCEPT ![d] = live[d]]
  /\ UNCHANGED <<certs, file, live, issued, loop, snap, task, held, res, bot,
                 must, may, used>>

-----------------------------------------------------------------------------
(* The renewal task: _renew_loop and _reconcile_and_renew.                 *)

NoSnapshot == [d \in Domains |-> None]

\* The entry object the task's snapshot holds for d.
Held(d) == IF snap[d] = Attached THEN certs[d] ELSE snap[d]

\* Mutant of WriteHeld: the task puts its object back under the domain's name.
WriteBack(d, e) == certs' = [certs EXCEPT ![d] = e]

\* Writing through that object reaches the ledger only while it is in there.
WriteHeld(d, e) ==
  certs' = IF snap[d] = Attached THEN [certs EXCEPT ![d] = e] ELSE certs

\* A handler replaced or removed d's entry: the snapshot keeps the old object, and
\* what a connect task holds of it is not the ledger's any more.
Detach(d) ==
  /\ snap' = IF snap[d] = Attached THEN [snap EXCEPT ![d] = certs[d]] ELSE snap
  /\ held' = [h \in Handlers |-> held[h] \ FactsOf(d)]

GoTo(pc) == loop' = [pc |-> pc, cur |-> None, changed |-> FALSE]

\* certbot is ensured and refreshed; the scan starts from list(certs.items()).
StartScan ==
  /\ loop.pc = "prepare"
  /\ GoTo("scan")
  /\ snap' = [d \in Domains |-> IF certs[d] = None THEN None ELSE Attached]
  /\ UNCHANGED <<certs, file, disk, task, res, bot, must, may, held, used>>

\* The iteration for d up to its first await: the entry takes what is on disk.
Reconcile(d, m) ==
  /\ loop.pc = "scan" /\ snap[d] # None
  /\ m \in {live[d], 0}
  /\ WriteHeld(d, Refreshed(Held(d), m))

\* Mutant of Differs: the entry is compared after it took the new material.
DiffersTooLate(d, m) == m # 0 /\ m # Refreshed(Held(d), m).mat

Differs(d, m) == m # 0 /\ m # Held(d).mat

NotDue(d) ==
  /\ \E m \in {live[d], 0} :
       /\ Reconcile(d, m)
       /\ Spend(0, ReadCost(d, m))
       /\ ~Expiring(d, Refreshed(Held(d), m))
       /\ loop' = [loop EXCEPT !.changed = @ \/ Differs(d, m)]
  /\ snap' = [snap EXCEPT ![d] = None]
  /\ UNCHANGED <<file, disk, task, res, bot, must, may, held>>

StartRenewal(d) ==
  /\ \E m \in {live[d], 0} :
       /\ Reconcile(d, m)
       /\ Spend(0, ReadCost(d, m))
       /\ Expiring(d, Refreshed(Held(d), m))
       /\ loop' = [pc |-> "renew", cur |-> d,
                   changed |-> loop.changed \/ Differs(d, m)]
       /\ snap' = IF snap[d] = Attached THEN snap
                  ELSE [snap EXCEPT ![d] = Refreshed(@, m)]
  /\ Launch(Loop, "renew", d, FALSE)
  /\ UNCHANGED <<file, disk, task, must, may, held>>

\* Starting certbot raises: the scan is abandoned, nothing is saved.
AbortScan(d) ==
  /\ Reconcile(d, live[d])
  /\ Spend(0, 1)
  /\ Expiring(d, Refreshed(Held(d), live[d]))
  /\ GoTo("sleep")
  /\ snap' = NoSnapshot
  /\ UNCHANGED <<file, disk, task, res, bot, must, may, held>>

RenewalOutcome == loop.pc = "renew" /\ res[Loop] \in Finished

\* Mutant of Notify: the outcome is not marked as a change to save.
NotifyUnmarked(d, e) ==
  /\ WriteHeld(d, e)
  /\ loop' = [loop EXCEPT !.pc = "notify", !.cur = None]
  /\ snap' = [snap EXCEPT ![d] = None]
  /\ res' = [res EXCEPT ![Loop] = "none"]

\* After an outcome the task awaits the hub event; it does not use the entry
\* any more.
Notify(d, e) ==
  /\ WriteHeld(d, e)
  /\ loop' = [pc |-> "notify", cur |-> None, changed |-> TRUE]
  /\ snap' = [snap EXCEPT ![d] = None]
  /\ res' = [res EXCEPT ![Loop] = "none"]

\* A handler removed the domain while certbot ran: skip it.
SkipRemoved ==
  /\ RenewalOutcome
  /\ certs[loop.cur] = None
  /\ loop' = [loop EXCEPT !.pc = "scan", !.cur = None]
  /\ snap' = [snap EXCEPT ![loop.cur] = None]
  /\ res' = [res EXCEPT ![Loop] = "none"]
  /\ UNCHANGED <<certs, file, disk, task, bot, must, may, held, used>>

RecordRenewal ==
  LET d == loop.cur IN
  /\ RenewalOutcome /\ certs[d] # None
  /\ \/ /\ res[Loop] = "ok"
        /\ \E m \in {live[d], 0} :
             /\ Spend(0, ReadCost(d, m))
             /\ Notify(d, Renewed(Held(d), m))
     \/ /\ res[Loop] = "fail"
        /\ Notify(d, RenewFailed(Held(d)))
        /\ UNCHANGED used
  /\ UNCHANGED <<file, disk, task, bot, must, may, held>>

\* The 600 s bound on one domain: certbot is left running, and the outcome is
\* recorded without looking whether the domain is still managed.
RenewalTimeout ==
  LET d == loop.cur IN
  /\ loop.pc = "renew" /\ res[Loop] = "run"
  /\ Notify(d, RenewFailed(Held(d)))
  /\ bot' = [bot EXCEPT !.who = None]
  /\ UNCHANGED <<file, disk, task, must, may, held, used>>

\* The event is sent, or dropped with a warning.
Notified ==
  /\ loop.pc = "notify"
  /\ loop' = [loop EXCEPT !.pc = "scan"]
  /\ UNCHANGED <<certs, file, disk, snap, task, res, bot,
                 must, may, held, used>>

\* The scan is over: the ledger is saved if anything changed.  When the save
\* raises, the task backs off and the next scan starts afresh.
EndScan ==
  /\ loop.pc = "scan" /\ snap = NoSnapshot
  /\ \E saved \in BOOLEAN :
       /\ ~loop.changed => saved
       /\ Spend(0, FaultUnless(saved))
       /\ file' = IF loop.changed /\ saved THEN certs ELSE file
  /\ GoTo("sleep")
  /\ UNCHANGED <<certs, disk, snap, task, res, bot, must, may, held>>

\* The interval, or the back-off, is over.
Wake ==
  /\ loop.pc = "sleep"
  /\ GoTo("prepare")
  /\ UNCHANGED <<certs, file, disk, snap, task, res, bot,
                 must, may, held, used>>

-----------------------------------------------------------------------------
(* handle_command.  A handler runs when the event loop is not in the scan. *)

Turn == loop.pc # "scan"

Idle == [op |-> "idle", dom |-> None, pc |-> "idle", todo |-> {},
         req |-> {}, flag |-> FALSE, mat |-> 0]

Suspend(h, op, d, pc, todo, req, flag, m) ==
  task' = [task EXCEPT ![h] = [op |-> op, dom |-> d, pc |-> pc, todo |-> todo,
                               req |-> req, flag |-> flag, mat |-> m]]

Finish(h) ==
  /\ task' = [task EXCEPT ![h] = Idle]
  /\ res' = [res EXCEPT ![h] = "none"]

Awaits(h, op) == Turn /\ task[h].op = op /\ res[h] \in Finished

\* UPDATE_CONFIG with a renew_interval: the running task is cancelled wherever
\* it awaits, its unsaved `changed` and a pending outcome with it, and a new
\* one starts.  A certbot it waited for goes on by itself.
UpdateConfig ==
  /\ Turn
  /\ used.restarts < MaxRestarts
  /\ used' = [used EXCEPT !.restarts = @ + 1]
  /\ GoTo("prepare")
  /\ snap' = NoSnapshot
  /\ res' = [res EXCEPT ![Loop] = "none"]
  /\ bot' = IF res[Loop] = "run" THEN [bot EXCEPT !.who = None] ELSE bot
  /\ UNCHANGED <<certs, file, disk, task, must, may, held>>

\* LE_ADD_TARGET (idempotent).
AddTarget(d, t) ==
  /\ Turn /\ certs[d] # None
  /\ \E saved \in BOOLEAN :
       /\ Spend(1, FaultUnless(saved))
       /\ Commit([certs EXCEPT ![d] = AddedTarget(@, t)], {}, {<<d, t>>}, saved)
  /\ UNCHANGED <<disk, loop, snap, task, res, bot, held>>

\* LE_REMOVE_TARGET, by a position that holds some target t.
RemoveTarget(d, t) ==
  /\ Turn /\ certs[d] # None /\ t \in certs[d].tg
  /\ \E saved \in BOOLEAN :
       /\ Spend(1, FaultUnless(saved))
       /\ Commit([certs EXCEPT ![d] = RemovedTarget(@, t)], {<<d, t>>}, {}, saved)
  /\ held' = [h \in Handlers |-> held[h] \ {<<d, t>>}]
  /\ UNCHANGED <<disk, loop, snap, task, res, bot>>

\* LE_MARK_DISTRIBUTED: the hub reports a push of some version, the current one
\* or one it fetched earlier.
MarkDistributed(d, t, v) ==
  /\ Turn /\ certs[d] # None /\ t \in certs[d].tg
  /\ v \in 1..issued[d]
  /\ \E saved \in BOOLEAN :
       /\ Spend(1, FaultUnless(saved))
       /\ Commit([certs EXCEPT ![d] = Pushed(@, t, v)], {}, {}, saved)
  /\ UNCHANGED <<disk, loop, snap, task, res, bot, held>>

\* _record_issue(success=False), then the error goes to the hub.
RecordIssue(d, saved) ==
  Commit([certs EXCEPT ![d] = Refused(@)], {}, {<<d, Managed>>}, saved)

\* LE_ISSUE_CERT whose credential or parameters do not resolve: no certbot run.
RefuseIssue(d) ==
  /\ Turn
  /\ \E saved \in BOOLEAN : Spend(1, FaultUnless(saved)) /\ RecordIssue(d, saved)
  /\ UNCHANGED <<disk, loop, snap, task, res, bot, held>>

\* LE_ISSUE_CERT with targets ts, up to the await of certbot.
IssueCert(h, d, ts, force) ==
  /\ Turn /\ task[h] = Idle
  /\ Spend(1, 0)
  /\ Suspend(h, "issue", d, "certbot", {}, ts, force, 0)
  /\ Launch(h, "issue", d, force)
  /\ UNCHANGED <<certs, file, disk, loop, snap, must, may, held>>

\* LE_SET_CLIENTAUTH: a forced issue of a managed cert, from its stored settings.
SetClientAuth(h, d) == certs[d] # None /\ IssueCert(h, d, {}, TRUE)

IssueDone(h) ==
  LET d == task[h].dom IN
  /\ Awaits(h, "issue")
  /\ \/ /\ res[h] = "ok"
        /\ \E m \in {live[d], 0}, saved \in BOOLEAN :
             /\ Spend(0, ReadCost(d, m) + FaultUnless(saved))
             /\ Commit([certs EXCEPT ![d] = Reissued(@, m, task[h].req)], {},
                       {<<d, Managed>>} \cup ({d} \X task[h].req), saved)
        /\ Detach(d)
     \/ /\ res[h] = "fail"
        /\ \E saved \in BOOLEAN :
             Spend(0, FaultUnless(saved)) /\ RecordIssue(d, saved)
        /\ UNCHANGED <<snap, held>>
  /\ Finish(h)
  /\ UNCHANGED <<disk, loop, bot>>

\* LE_RENEW_CERT for one managed domain (flag: force) or for all of them.
RenewCert(h, d, ds, force) ==
  /\ Turn /\ task[h] = Idle
  /\ d \in ds /\ (ds = {d} \/ ~force)
  /\ ds \in {{d}, Registered(certs)} /\ ds \subseteq Registered(certs)
  /\ Spend(1, 0)
  /\ Suspend(h, "renew", d, "certbot", ds \ {d}, {}, force, 0)
  /\ Launch(h, "renew", d, force)
  /\ UNCHANGED <<certs, file, disk, loop, snap, must, may, held>>

\* certbot's outcome goes into the entry the domain has by now, then the hub
\* event is awaited.
RenewOutcome(h) ==
  LET d == task[h].dom IN
  /\ Awaits(h, "renew") /\ certs[d] # None
  /\ \/ /\ res[h] = "ok"
        /\ \E m \in {live[d], 0} :
             /\ Spend(0, ReadCost(d, m))
             /\ certs' = [certs EXCEPT ![d] = Renewed(@, m)]
     \/ /\ res[h] = "fail"
        /\ certs' = [certs EXCEPT ![d] = RenewFailed(@)]
        /\ UNCHANGED used
  /\ task' = [task EXCEPT ![h].pc = "notify"]
  /\ res' = [res EXCEPT ![h] = "none"]
  /\ UNCHANGED <<file, disk, loop, snap, bot, must, may, held>>

\* The event is out, or the domain was removed meanwhile: on to the next one.
RenewMoves(h) ==
  \/ Turn /\ task[h].op = "renew" /\ task[h].pc = "notify"
  \/ Awaits(h, "renew") /\ certs[task[h].dom] = None

RenewNext(h, d) ==
  /\ RenewMoves(h) /\ d \in task[h].todo
  /\ task' = [task EXCEPT ![h].dom = d, ![h].pc = "certbot", ![h].todo = @ \ {d}]
  /\ Launch(h, "renew", d, task[h].flag)
  /\ UNCHANGED <<certs, file, disk, loop, snap, must, may, held, used>>

\* The last domain is done: one save for all of them.
RenewDone(h) ==
  /\ RenewMoves(h) /\ task[h].todo = {}
  /\ \E saved \in BOOLEAN : Spend(0, FaultUnless(saved)) /\ Save(certs, saved)
  /\ Finish(h)
  /\ UNCHANGED <<certs, disk, loop, snap, bot, must, may, held>>

\* Starting certbot for the next domain raises: the command fails unsaved.
RenewAborts(h) ==
  /\ RenewMoves(h) /\ task[h].todo # {}
  /\ Spend(0, 1)
  /\ Finish(h)
  /\ UNCHANGED <<certs, file, disk, loop, snap, bot, must, may, held>>

\* LE_REVOKE_CERT, of a managed domain or not (flag: delete).
RevokeCert(h, d, delete) ==
  /\ Turn /\ task[h] = Idle
  /\ Spend(1, 0)
  /\ Suspend(h, "revoke", d, "certbot", {}, {}, delete, 0)
  /\ Launch(h, "revoke", d, delete)
  /\ UNCHANGED <<certs, file, disk, loop, snap, must, may, held>>

RevokeDone(h) ==
  LET d == task[h].dom IN
  /\ Awaits(h, "revoke")
  /\ \/ /\ res[h] = "ok"
        /\ \E saved \in BOOLEAN :
             /\ Spend(0, FaultUnless(saved))
             /\ Commit([certs EXCEPT ![d] = None], FactsOf(d), {}, saved)
        /\ Detach(d)
     \/ /\ res[h] = "fail"
        /\ UNCHANGED <<certs, file, snap, must, may, held, used>>
  /\ Finish(h)
  /\ UNCHANGED <<disk, loop, bot>>

\* LE_DEPLOY_TO_AGENT: the material read now is what the Agent gets.
DeployToAgent(h, d) ==
  /\ Turn /\ task[h] = Idle
  /\ live[d] # 0
  /\ Spend(1, 0)
  /\ Suspend(h, "deploy", d, "agent", {}, {}, FALSE, live[d])
  /\ UNCHANGED <<certs, file, disk, loop, snap, res, bot, must, may, held>>

\* Whatever the Agent answered, its host is a target of the entry the domain
\* has by now, marked with the material that was sent.
DeployDone(h, t) ==
  LET d == task[h].dom IN
  /\ Turn /\ task[h].op = "deploy"
  /\ IF certs[d] = None
     THEN UNCHANGED <<certs, file, must, may, used>>
     ELSE \E saved \in BOOLEAN :
            /\ Spend(0, FaultUnless(saved))
            /\ Commit([certs EXCEPT ![d] =
                         Pushed(AddedTarget(@, t), t, task[h].mat)],
                      {}, {<<d, t>>}, saved)
  /\ Finish(h)
  /\ UNCHANGED <<disk, loop, snap, bot, held>>

\* deploy_cached_cert_to_agent reads d's material and awaits the Agent.  It has
\* the entries of its snapshot still to visit in hand, and the target it will
\* stamp: those of `objects` that are the ledger's own.  rest are the entries
\* after d that have a matching target and readable material.
BeginPush(h, d, rest, match, installed, objects) ==
  LET ahead == objects \cap (rest \X {Managed}) IN
  /\ live[d] # 0
  /\ Suspend(h, "connect", d, "agent", rest, match, installed, live[d])
  /\ \/ /\ <<d, Managed>> \in objects
        /\ \E t \in certs[d].tg \cap match :
             held' = [held EXCEPT ![h] = ahead \cup {<<d, t>>}]
     \/ /\ <<d, Managed>> \notin objects
        /\ held' = [held EXCEPT ![h] = ahead]

\* An Agent connects; match are the agent targets that name its host or any host.
Connect(h, d) ==
  /\ Turn /\ task[h] = Idle
  /\ Spend(1, 0)
  /\ d \in Registered(certs)
  /\ \E rest \in SUBSET (Registered(certs) \ {d}), match \in SUBSET AgentTargets :
       BeginPush(h, d, rest, match, FALSE, Registered(certs) \X {Managed})
  /\ UNCHANGED <<certs, file, disk, loop, snap, res, bot, must, may>>

\* The target in hand is stamped with what was sent, whatever the Agent said.
Stamped(h) ==
  [d \in Domains |->
     IF certs[d] = None THEN None
     ELSE [certs[d] EXCEPT
             !.pushed = [t \in Targets |->
                IF <<d, t>> \in held[h] THEN task[h].mat ELSE certs[d].pushed[t]]]]

PushNext(h) ==
  /\ Turn /\ task[h].op = "connect"
  /\ certs' = Stamped(h)
  /\ \E ok \in BOOLEAN, d \in task[h].todo :
       \E rest \in SUBSET (task[h].todo \ {d}) :
         BeginPush(h, d, rest, task[h].req, task[h].flag \/ ok, held[h])
  /\ UNCHANGED <<file, disk, loop, snap, res, bot, must, may, used>>

\* The ledger is saved if the Agent installed anything; otherwise the stamps
\* stay in memory and wait for somebody else's save.
PushesDone(h) ==
  /\ Turn /\ task[h].op = "connect"
  /\ certs' = Stamped(h)
  /\ \E ok, saved \in BOOLEAN :
       LET installed == task[h].flag \/ ok IN
       /\ ~installed => saved
       /\ Spend(0, FaultUnless(saved))
       /\ file' = IF installed /\ saved THEN Stamped(h) ELSE file
  /\ Finish(h)
  /\ held' = [held EXCEPT ![h] = {}]
  /\ UNCHANGED <<disk, loop, snap, bot, must, may>>

\* The process dies, its certbot child with it, and starts again: the ledger is
\* what the file holds.
Crash ==
  /\ used.crashes < MaxCrashes
  /\ used' = [used EXCEPT !.crashes = @ + 1]
  /\ certs' = file
  /\ GoTo("prepare")
  /\ snap' = NoSnapshot
  /\ task' = [h \in Handlers |-> Idle]
  /\ res' = [k \in Tasks |-> "none"]
  /\ bot' = None
  /\ held' = [h \in Handlers |-> {}]
  /\ UNCHANGED <<file, disk, must, may>>

-----------------------------------------------------------------------------

\* The process starts on a ledger file that an earlier run left, each managed
\* domain with its first certificate on disk and not yet pushed anywhere.
InitialEntry ==
  {[mat |-> 1, failed |-> FALSE, refused |-> FALSE, tg |-> ts,
    pushed |-> NoTargets] : ts \in SUBSET Targets}

Init ==
  /\ file \in [Domains -> InitialEntry \cup {None}]
  /\ certs = file
  /\ live = [d \in Domains |-> IF file[d] = None THEN 0 ELSE 1]
  /\ issued = live
  /\ due = [d \in Domains |-> 0]
  /\ loop = [pc |-> "prepare", cur |-> None, changed |-> FALSE]
  /\ snap = NoSnapshot
  /\ task = [h \in Handlers |-> Idle]
  /\ res = [k \in Tasks |-> "none"]
  /\ bot = None
  /\ must = Facts(file)
  /\ may = Facts(file)
  /\ held = [h \in Handlers |-> {}]
  /\ used = [commands |-> 0, restarts |-> 0, crashes |-> 0, faults |-> 0,
             outOfBand |-> 0]

LoopStep ==
  \/ StartScan
  \/ \E d \in Domains : NotDue(d) \/ StartRenewal(d) \/ AbortScan(d)
  \/ SkipRemoved \/ RecordRenewal \/ RenewalTimeout
  \/ Notified \/ EndScan \/ Wake

Resume(h) ==
  \/ IssueDone(h) \/ RevokeDone(h)
  \/ RenewOutcome(h) \/ RenewDone(h) \/ RenewAborts(h)
  \/ \E d \in Domains : RenewNext(h, d)
  \/ \E t \in AgentTargets : DeployDone(h, t)
  \/ PushNext(h) \/ PushesDone(h)

Request(h) ==
  \E d \in Domains :
    \/ \E ts \in SUBSET Targets, force \in BOOLEAN : IssueCert(h, d, ts, force)
    \/ SetClientAuth(h, d)
    \/ \E ds \in SUBSET Domains, force \in BOOLEAN : RenewCert(h, d, ds, force)
    \/ \E delete \in BOOLEAN : RevokeCert(h, d, delete)
    \/ DeployToAgent(h, d)
    \/ Connect(h, d)

Command ==
  \/ UpdateConfig
  \/ \E d \in Domains :
       \/ RefuseIssue(d)
       \/ \E t \in Targets :
            \/ AddTarget(d, t) \/ RemoveTarget(d, t)
            \/ \E v \in 1..issued[d] : MarkDistributed(d, t, v)
  \/ \E h \in Handlers : Request(h)

Certbot == CertbotSucceeds \/ CertbotFails

AwaitedCertbot == bot # None /\ bot.who # None /\ Certbot

Environment == \E d \in Domains : RenewedOutOfBand(d) \/ Age(d)

Next ==
  \/ LoopStep
  \/ \E h \in Handlers : Resume(h)
  \/ Command
  \/ Certbot
  \/ Environment
  \/ Crash

Spec == Init /\ [][Next]_vars

\* asyncio resumes every task whose await is over: it stays in the ready queue
\* while a scan segment runs (hence strong fairness).  Sleeps, event sends and
\* requests to Agents end, and a certbot run ends because the task that waits for
\* it kills it at _run's timeout (acme.py:426-430), whatever outcomes of other
\* runs are delivered meanwhile.  A run whose task was cancelled, or gave it up
\* after 600 s, nobody kills: it may go on for ever.
Fairness ==
  /\ WF_vars(LoopStep)
  /\ \A h \in Handlers : SF_vars(Resume(h))
  /\ SF_vars(AwaitedCertbot)

FairSpec == Spec /\ Fairness

-----------------------------------------------------------------------------
(* Properties.                                                             *)

LoopState ==
  [pc : {"prepare", "scan", "renew", "notify", "sleep"},
   cur : Domains \cup {None}, changed : BOOLEAN]

TaskState ==
  [op : {"idle", "issue", "renew", "revoke", "deploy", "connect"},
   dom : Domains \cup {None}, pc : {"idle", "certbot", "notify", "agent"},
   todo : SUBSET Domains, req : SUBSET Targets, flag : BOOLEAN, mat : Nat]

Budget == [commands : Nat, restarts : Nat, crashes : Nat, faults : Nat,
           outOfBand : Nat]

\* Every variable has its type.
TypeOK ==
  /\ certs \in [Domains -> Entry \cup {None}]
  /\ file \in [Domains -> Entry \cup {None}]
  /\ live \in [Domains -> Nat]
  /\ issued \in [Domains -> Nat]
  /\ due \in [Domains -> Nat]
  /\ loop \in LoopState
  /\ snap \in [Domains -> Entry \cup {None, Attached}]
  /\ task \in [Handlers -> TaskState]
  /\ res \in [Tasks -> {"none", "run", "ok", "fail"}]
  /\ bot \in Run \cup {None}
  /\ must \subseteq Fact
  /\ may \subseteq Fact
  /\ held \in [Handlers -> SUBSET Fact]
  /\ used \in Budget

\* What the operator was told about managed certificates and their targets is
\* in the ledger and in its file, and neither holds an entry or a target that
\* nobody asked for, while the renewal task and other commands are suspended
\* over the same entries, saves fail and the process restarts
\* (le_spoke.py:183-188, 727-736; ledger.py:69-77).
PromiseKept ==
  /\ must \subseteq Facts(certs) /\ Facts(certs) \subseteq may
  /\ must \subseteq Facts(file) /\ Facts(file) \subseteq may

Registry == INSTANCE CertRegistry WITH mem <- Facts(certs), disk <- Facts(file)

\* The spoke implements the registry: no step of the renewal task, of certbot or
\* of a suspended handler edits the registered facts; a command edits them as
\* the registry's command does.
RegistrySpec == Registry!Spec

\* The ledger without the push markers of agent targets.
Unmarked(tab) ==
  [d \in Domains |->
     IF tab[d] = None THEN None
     ELSE [tab[d] EXCEPT !.pushed = [t \in Targets |->
             IF t \in AgentTargets THEN 0 ELSE tab[d].pushed[t]]]]

\* As long as no save, read or spawn failed and no renewal task was cancelled, a
\* change to the ledger that is not in the file yet is owed a save by a task that
\* is still going to make it: the renewal task's `changed` flag, or a renew
\* command that saves once at its end (le_spoke.py:253, 838).  The push markers
\* of agent targets are left out: a connect task in which no deploy succeeded
\* leaves its stamps unsaved (le_spoke.py:1042-1053).
SomebodyWillSave ==
  Unmarked(certs) # Unmarked(file) /\ used.faults = 0 /\ used.restarts = 0 =>
    \/ loop.changed
    \/ \E h \in Handlers : task[h].op = "renew"

\* No task takes an entry back to older material than it had, or to none at all
\* except in a step that costs a fault: a re-issue whose files cannot be read
\* (le_spoke.py:229, 819).
MaterialAdvances ==
  [][\A d \in Domains :
       certs[d] # None /\ certs'[d] # None /\ used'.crashes = used.crashes
         => \/ certs'[d].mat >= certs[d].mat
            \/ certs'[d].mat = 0 /\ used'.faults > used.faults]_vars

DueCert(d) == certs[d] # None /\ live[d] # 0 /\ live[d] <= due[d]

\* A managed certificate inside its renewal window is renewed, or its failure is
\* in the ledger, whatever other domains and commands do: one stuck domain does
\* not starve the others (le_spoke.py:216-227).  Nothing is promised of a domain
\* whose window is wider than certbot's own: there certbot may succeed without
\* renewing, and the scan takes that for a renewal (acme.py:536-538,
\* le_spoke.py:232-239).
DueCertHandled ==
  \A d \in Domains \ Wide :
    DueCert(d) ~> (~DueCert(d) \/ certs[d].failed)

\* A command that reached certbot is answered, though certbot's lock is held by
\* the renewal task, by another command or by a run nobody waits for any more.
CommandAnswered ==
  \A h \in Handlers : (task[h].op # "idle") ~> (task[h].op = "idle")
=============================================================================
