--------------------------- MODULE CertbotUpdate ---------------------------
(***************************************************************************)
(* certbot_update.py and its callers: the renewal task that installs a     *)
(* recent certbot into a venv and links it ahead of the distribution's,    *)
(* the daily refresh, and DNS-01 issues that install a plugin on demand    *)
(* (acme.ensure_dns_plugin).  Every subprocess is a job that runs while    *)
(* the event loop goes on; a job outlives the task that a new              *)
(* renew_interval cancels.  pip, apt and certbot are external.             *)
(***************************************************************************)
EXTENDS Naturals

CONSTANTS
  Providers,      \* DNS providers with a pip and an apt package
  Bundled,        \* VENV_PLUGINS
  Handlers,       \* command handlers that may issue at the same time
  Loop,           \* the renewal task
  Orphan,         \* stands for a renewal task that was cancelled
  None,
  MaxRestarts,    \* bound: cancelled renewal tasks
  MaxCrashes,     \* bound: restarts of the process
  MaxFailures     \* bound: subprocesses that fail or are killed

ASSUME CertbotUpdateAssumption ==
  /\ Bundled \subseteq Providers
  /\ {Loop, Orphan} \cap Handlers = {} /\ Loop # Orphan
  /\ {MaxRestarts, MaxCrashes, MaxFailures} \subseteq Nat

VARIABLES
  sys,        \* the distribution's certbot: "none", "old" or "new" (>= 4.0)
  venv,       \* the venv: "none", "bare" (no bin/certbot), "half" (a
              \* bin/certbot that does not run), "old" or "new"
  link,       \* SYMLINK names the venv's certbot
  pypi,       \* the certbot that pip can install on this host's Python
  plugins,    \* the plugins each certbot can load
  present,    \* the memo of acme.present()
  job,        \* the subprocess of each task, if any
  loop,       \* the renewal task
  task,       \* the issue of each handler
  used        \* how much of each bound is used up

vars == <<sys, venv, link, pypi, plugins, present, job, loop, task, used>>

Tasks == {Loop, Orphan} \cup Handlers

\* A subprocess: what it installs, and whether pip has begun to replace files.
Job == [cmd : {"venv", "pip", "apt"}, what : SUBSET Providers,
        wrote : BOOLEAN]
Start(cmd, what) == [cmd |-> cmd, what |-> what, wrote |-> FALSE]

\* venv_certbot()
InVenv == venv \in {"half", "old", "new"}

\* What a bare `certbot` runs: /usr/local/bin precedes /usr/bin, and a dangling
\* link is skipped.
Where == IF link /\ InVenv THEN "venv" ELSE "apt"
Active == IF Where = "venv" THEN venv ELSE sys
Usable == Active \in {"old", "new"}

Spend(f) == used' = [used EXCEPT ![f] = @ + 1]
CanFail == used.failures < MaxFailures

NoIssue == [pc |-> "idle", prov |-> None, where |-> "apt", has |-> FALSE,
            saw |-> "none"]
FreshLoop == [pc |-> "ensure", saw |-> "none", why |-> "built"]

-----------------------------------------------------------------------------
(* ensure_certbot() and refresh() in the renewal task.                     *)

LoopGoes(pc) == loop' = [loop EXCEPT !.pc = pc]
Turns(why) == loop' = [pc |-> "cycle", saw |-> "none", why |-> why]
GivesUp == Turns("failed")
LoopKeeps == UNCHANGED <<sys, venv, pypi, plugins, present, task>>

\* A venv certbot is only refreshed; otherwise the system's version is probed.
Ensure ==
  /\ loop.pc = "ensure"
  /\ IF InVenv
       THEN /\ loop' = [loop EXCEPT !.pc = "kept", !.why = "found"]
            /\ job' = [job EXCEPT ![Loop] = Start("pip", Bundled)]
       ELSE LoopGoes("probe") /\ UNCHANGED job
  /\ LoopKeeps /\ UNCHANGED <<link, used>>

Kept ==
  /\ loop.pc = "kept" /\ job[Loop] = None
  /\ Turns(loop.why)
  /\ LoopKeeps /\ UNCHANGED <<link, job, used>>

\* Mutant: the version is taken as it comes, a certbot that does not run included.
ProbeRaw(pc, next, version) ==
  /\ loop.pc = pc
  /\ loop' = [loop EXCEPT !.pc = next, !.saw = version]
  /\ LoopKeeps /\ UNCHANGED <<link, job, used>>

\* certbot --version, of the system's or of the new certbot.
Probe(pc, next, version) ==
  /\ loop.pc = pc
  /\ \/ /\ loop' = [loop EXCEPT !.pc = next,
                      !.saw = IF version \in {"old", "new"} THEN version ELSE "none"]
        /\ UNCHANGED used
     \/ /\ CanFail /\ Spend("failures")
        /\ loop' = [loop EXCEPT !.pc = next, !.saw = "none"]
  /\ LoopKeeps /\ UNCHANGED <<link, job>>

ProbeSystem == Probe("probe", "decide", Active)

\* Mutant: any certbot will do.
DecideAny ==
  /\ loop.pc = "decide"
  /\ \/ loop.saw # "none" /\ Turns("built") /\ UNCHANGED job
     \/ /\ loop.saw = "none" /\ LoopGoes("venv")
        /\ job' = [job EXCEPT ![Loop] = Start("venv", {})]
  /\ LoopKeeps /\ UNCHANGED <<link, used>>

Decide ==
  /\ loop.pc = "decide"
  /\ \/ /\ loop.saw = "new" /\ Turns("built") /\ UNCHANGED <<job, used>>
     \/ /\ loop.saw # "new" /\ LoopGoes("venv") /\ UNCHANGED used
        /\ job' = [job EXCEPT ![Loop] = Start("venv", {})]
     \/ /\ loop.saw # "new" /\ CanFail /\ Spend("failures") /\ GivesUp
        /\ UNCHANGED job
  /\ LoopKeeps /\ UNCHANGED link

VenvMade ==
  /\ loop.pc = "venv" /\ job[Loop] = None
  /\ IF loop.saw = "fail" THEN GivesUp /\ UNCHANGED job
     ELSE /\ LoopGoes("pip")
          /\ job' = [job EXCEPT ![Loop] = Start("pip", Bundled)]
  /\ LoopKeeps /\ UNCHANGED <<link, used>>

PipInstalled ==
  /\ loop.pc = "pip" /\ job[Loop] = None
  /\ IF loop.saw = "fail" \/ ~InVenv THEN GivesUp ELSE LoopGoes("check")
  /\ LoopKeeps /\ UNCHANGED <<link, job, used>>

ProbeVenv == Probe("check", "link", venv)

\* os.remove and os.symlink; either may raise, with the old link gone or not.
Link ==
  /\ loop.pc = "link"
  /\ \/ loop.saw # "new" /\ GivesUp /\ UNCHANGED <<link, used>>
     \/ /\ loop.saw = "new"
        /\ IF InVenv THEN link' = TRUE /\ Turns("built")
           ELSE link' = FALSE /\ GivesUp
        /\ UNCHANGED used
     \/ /\ loop.saw = "new" /\ CanFail /\ Spend("failures") /\ GivesUp
        /\ link' \in {link, FALSE}
  /\ LoopKeeps /\ UNCHANGED job

\* Mutant: pip only looks after a certbot that runs.
RefreshWorking ==
  /\ loop.pc = "cycle"
  /\ LoopGoes("refresh")
  /\ job' = [job EXCEPT ![Loop] = IF venv \in {"old", "new"}
                                  THEN Start("pip", Bundled)
                                  ELSE Start("apt", {})]
  /\ LoopKeeps /\ UNCHANGED <<link, used>>

\* refresh(): pip -U in a venv, else the distribution's upgrade.
Refresh ==
  /\ loop.pc = "cycle"
  /\ LoopGoes("refresh")
  /\ job' = [job EXCEPT ![Loop] = IF InVenv THEN Start("pip", Bundled)
                                  ELSE Start("apt", {})]
  /\ LoopKeeps /\ UNCHANGED <<link, used>>

\* The scan and the sleep until the next cycle leave all this alone.
NextCycle ==
  /\ loop.pc = "refresh" /\ job[Loop] = None
  /\ Turns("built")
  /\ LoopKeeps /\ UNCHANGED <<link, job, used>>

-----------------------------------------------------------------------------
(* An issue: acme.present(), ensure_dns_plugin(), then certbot.            *)

HandlerKeeps == UNCHANGED <<sys, venv, link, pypi, plugins, loop, used>>

\* acme.present() looks certbot up once.
Lookup ==
  present' = IF present # "unset" THEN present
             ELSE IF Active = "none" THEN "no" ELSE "yes"

\* The active certbot starts, for a plugin that was found or put with the `where`
\* one.
Launch(h, p, where) ==
  task' = [task EXCEPT ![h] =
             [NoIssue EXCEPT !.pc = "certbot", !.prov = p, !.where = where,
                             !.has = p \in plugins[Where]]]

Waits(h, p, where, pc) ==
  task' = [task EXCEPT ![h] =
             [NoIssue EXCEPT !.pc = pc, !.prov = p, !.where = where]]

Status == Lookup /\ HandlerKeeps /\ UNCHANGED <<job, task>>

Issue(h, p) ==
  /\ task[h].pc = "idle"
  /\ Lookup /\ present' = "yes"
  /\ \/ InVenv /\ Waits(h, p, "venv", "show") /\ UNCHANGED job
     \/ ~InVenv /\ p \in plugins.apt /\ Launch(h, p, "apt") /\ UNCHANGED job
     \/ /\ ~InVenv /\ p \notin plugins.apt
        /\ Waits(h, p, "apt", "install")
        /\ job' = [job EXCEPT ![h] = Start("apt", {p})]
  /\ HandlerKeeps

\* pip show, then pip install unless the plugin is there.
Show(h) ==
  /\ task[h].pc = "show"
  /\ LET p == task[h].prov IN
       \/ p \in plugins.venv /\ Launch(h, p, "venv") /\ UNCHANGED job
       \/ /\ p \notin plugins.venv
          /\ Waits(h, p, "venv", "install")
          /\ job' = [job EXCEPT ![h] = Start("pip", {p})]
  /\ HandlerKeeps /\ UNCHANGED present

PluginInstalled(h) ==
  /\ task[h].pc = "install" /\ job[h] = None
  /\ IF task[h].saw = "ok" THEN Launch(h, task[h].prov, task[h].where)
     ELSE task' = [task EXCEPT ![h] = NoIssue]
  /\ HandlerKeeps /\ UNCHANGED <<present, job>>

Issued(h) ==
  /\ task[h].pc = "certbot"
  /\ task' = [task EXCEPT ![h] = NoIssue]
  /\ HandlerKeeps /\ UNCHANGED <<present, job>>

-----------------------------------------------------------------------------
(* Subprocesses, which go on whether or not anybody waits for them.        *)

\* The end of a job, and what _run() returns to the task that awaits it.
Ends(k, result) ==
  /\ job' = [job EXCEPT ![k] = None]
  /\ loop' = IF k = Loop THEN [loop EXCEPT !.saw = result] ELSE loop
  /\ task' = IF k \in Handlers THEN [task EXCEPT ![k].saw = result] ELSE task

Running(k, cmd) == job[k] # None /\ job[k].cmd = cmd
JobKeeps == UNCHANGED <<link, pypi, present>>

\* pip replaces files, one package after the other: those of the plugins it was
\* asked for, and certbot's or not.
PipWrites(k) ==
  /\ Running(k, "pip") /\ ~job[k].wrote
  /\ job' = [job EXCEPT ![k].wrote = TRUE]
  /\ venv' \in {venv, "half", "bare"}
  /\ \E gone \in SUBSET job[k].what : plugins' = [plugins EXCEPT !.venv = @ \ gone]
  /\ JobKeeps /\ UNCHANGED <<sys, loop, task, used>>

\* Another pip has files taken away.
PipBeside(k) == \E other \in Tasks \ {k} : Running(other, "pip") /\ job[other].wrote

\* It succeeds, or finds nothing to replace.
PipEnds(k) ==
  /\ Running(k, "pip")
  /\ IF job[k].wrote THEN venv' \in IF PipBeside(k) THEN {venv, pypi} ELSE {pypi}
     ELSE venv \in {"old", "new"} /\ UNCHANGED venv
  /\ plugins' = [plugins EXCEPT !.venv = @ \cup job[k].what]
  /\ Ends(k, "ok")
  /\ JobKeeps /\ UNCHANGED <<sys, used>>

VenvEnds(k) ==
  /\ Running(k, "venv")
  /\ venv' = IF venv = "none" THEN "bare" ELSE venv
  /\ Ends(k, "ok")
  /\ JobKeeps /\ UNCHANGED <<sys, plugins, used>>

AptEnds(k) ==
  /\ Running(k, "apt")
  /\ sys' \in IF k \in Handlers \/ sys = "none" THEN {sys} ELSE {sys, "new"}
  /\ plugins' = [plugins EXCEPT !.apt = @ \cup job[k].what]
  /\ Ends(k, "ok")
  /\ JobKeeps /\ UNCHANGED <<venv, used>>

\* It fails before it changes anything, or is killed at its timeout: what pip has
\* taken away by then stays away.
JobFails(k) ==
  /\ job[k] # None /\ CanFail /\ Spend("failures")
  /\ Ends(k, "fail")
  /\ JobKeeps /\ UNCHANGED <<sys, venv, plugins>>

HostUpgraded ==
  /\ pypi = "old" /\ pypi' = "new"
  /\ UNCHANGED <<sys, venv, link, plugins, present, job, loop, task, used>>

-----------------------------------------------------------------------------
\* A new renew_interval cancels the task; its subprocess goes on.
UpdateConfig ==
  /\ used.restarts < MaxRestarts /\ Spend("restarts")
  /\ job[Orphan] = None
  /\ job' = [job EXCEPT ![Orphan] = job[Loop], ![Loop] = None]
  /\ loop' = FreshLoop
  /\ UNCHANGED <<sys, venv, link, pypi, plugins, present, task>>

\* The process restarts and takes its subprocesses with it.
Crash ==
  /\ used.crashes < MaxCrashes /\ Spend("crashes")
  /\ job' = [k \in Tasks |-> None]
  /\ loop' = FreshLoop
  /\ task' = [h \in Handlers |-> NoIssue]
  /\ present' = "unset"
  /\ UNCHANGED <<sys, venv, link, pypi, plugins>>

\* The host as the installer leaves it, or with a venv that an earlier run made.
Init ==
  /\ sys \in {"none", "old"}
  /\ \E apt \in SUBSET Bundled :
       \/ venv = "none" /\ link = FALSE /\ plugins = [venv |-> {}, apt |-> apt]
       \/ venv = "new" /\ link = TRUE
          /\ plugins = [venv |-> Bundled, apt |-> apt]
  /\ pypi \in IF venv = "new" THEN {"new"} ELSE {"old", "new"}
  /\ present = "unset"
  /\ job = [k \in Tasks |-> None]
  /\ loop = FreshLoop
  /\ task = [h \in Handlers |-> NoIssue]
  /\ used = [restarts |-> 0, crashes |-> 0, failures |-> 0]

LoopStep ==
  \/ Ensure \/ Kept \/ ProbeSystem \/ Decide \/ VenvMade \/ PipInstalled
  \/ ProbeVenv \/ Link \/ Refresh \/ NextCycle

Handle(h) ==
  \/ \E p \in Providers : Issue(h, p)
  \/ Show(h) \/ PluginInstalled(h) \/ Issued(h)

JobStep(k) ==
  PipWrites(k) \/ PipEnds(k) \/ VenvEnds(k) \/ AptEnds(k) \/ JobFails(k)

Next ==
  \/ LoopStep
  \/ Status
  \/ \E h \in Handlers : Handle(h)
  \/ \E k \in Tasks : JobStep(k)
  \/ HostUpgraded
  \/ UpdateConfig
  \/ Crash

Spec == Init /\ [][Next]_vars

\* asyncio resumes the renewal task when its subprocess is over, and _run() ends
\* every subprocess at its timeout; pip works again once failures are used up.
Fairness ==
  /\ WF_vars(LoopStep)
  /\ \A k \in Tasks :
       WF_vars(PipWrites(k)) /\ WF_vars(PipEnds(k) \/ VenvEnds(k) \/ AptEnds(k))

FairSpec == Spec /\ Fairness

-----------------------------------------------------------------------------
(* Properties.                                                             *)

\* Every variable has its type.
TypeOK ==
  /\ sys \in {"none", "old", "new"}
  /\ venv \in {"none", "bare", "half", "old", "new"}
  /\ link \in BOOLEAN
  /\ pypi \in {"old", "new"}
  /\ plugins \in [venv : SUBSET Providers, apt : SUBSET Providers]
  /\ present \in {"unset", "no", "yes"}
  /\ job \in [Tasks -> Job \cup {None}]
  /\ loop \in [pc : {"ensure", "kept", "probe", "decide", "venv", "pip", "check",
                     "link", "cycle", "refresh"},
               saw : {"none", "old", "new", "ok", "fail"},
               why : {"built", "found", "failed"}]
  /\ task \in [Handlers -> [pc : {"idle", "show", "install", "certbot"},
                            prov : Providers \cup {None},
                            where : {"venv", "apt"}, has : BOOLEAN,
                            saw : {"none", "ok", "fail"}]]
  /\ used \in [restarts : Nat, crashes : Nat, failures : Nat]

EnsureDone == loop.pc \in {"kept", "decide", "link"} /\ loop'.pc = "cycle"

Broken == venv \in {"half", "bare"}

\* A start of the renewal task none of whose steps failed leaves a certbot that
\* knows profiles active (certbot_update.py:84-87), unless it found one that was
\* never linked; a pip at work in the venv, or broken off there, may hide it.
EnsuredIfBuilt ==
  [][EnsureDone /\ loop'.why # "failed" =>
       Active' = "new" \/ Broken \/ (loop'.why = "found" /\ ~link)]_vars

\* On a host with the distribution's certbot, a certbot that does not run (a pip
\* killed half way left it at the link) does not stay so: the daily refresh runs
\* pip again until it runs, or its bin/certbot is gone and the distribution's is
\* the active one again, also after the task was cancelled or the process
\* restarted (certbot_update.py:14-15, 144-154).
CertbotComesBack == (sys # "none" /\ ~Usable) ~> Usable

\* "On-demand plugins land where the active certbot can load them"
\* (certbot_update.py:170-172): once the renewal task's start is over and no
\* certbot of the venv is linked, a certbot that an issue starts has its plugin.
PluginForActiveCertbot ==
  [][\A h \in Handlers :
       (loop.pc \in {"cycle", "refresh"} /\ ~link
          /\ task[h].pc # "certbot" /\ task'[h].pc = "certbot") => task'[h].has]_vars
=============================================================================
