------------------------ MODULE CertbotUpdateProofs ------------------------
(***************************************************************************)
(* Theorems about CertbotUpdate, for any providers and handlers and any    *)
(* number of cancelled tasks, restarts and failures.                       *)
(***************************************************************************)
EXTENDS CertbotUpdate, TLAPS

-----------------------------------------------------------------------------
(* Types.                                                                  *)

LoopState ==
  [pc : {"ensure", "kept", "probe", "decide", "venv", "pip", "check", "link", "cycle",
         "refresh"},
   saw : {"none", "old", "new", "ok", "fail"},
   why : {"built", "found", "failed"}]

IssueState ==
  [pc : {"idle", "show", "install", "certbot"}, prov : Providers \cup {None},
   where : {"venv", "apt"}, has : BOOLEAN,
   saw : {"none", "ok", "fail"}]

Uses == [restarts : Nat, crashes : Nat, failures : Nat]

LEMMA Types ==
  ASSUME TypeOK
  PROVE  /\ sys \in {"none", "old", "new"}
         /\ venv \in {"none", "bare", "half", "old", "new"}
         /\ link \in BOOLEAN /\ pypi \in {"old", "new"}
         /\ plugins \in [venv : SUBSET Providers, apt : SUBSET Providers]
         /\ present \in {"unset", "no", "yes"}
         /\ job \in [Tasks -> Job \cup {None}]
         /\ loop \in LoopState /\ task \in [Handlers -> IssueState] /\ used \in Uses
BY DEF TypeOK, LoopState, IssueState, Uses

LEMMA Typed ==
  ASSUME sys' \in {"none", "old", "new"},
         venv' \in {"none", "bare", "half", "old", "new"},
         link' \in BOOLEAN, pypi' \in {"old", "new"},
         plugins' \in [venv : SUBSET Providers, apt : SUBSET Providers],
         present' \in {"unset", "no", "yes"},
         job' \in [Tasks -> Job \cup {None}],
         loop' \in LoopState, task' \in [Handlers -> IssueState], used' \in Uses
  PROVE  TypeOK'
BY DEF TypeOK, LoopState, IssueState, Uses

LEMMA TaskParts == Loop \in Tasks /\ Orphan \in Tasks /\ Handlers \subseteq Tasks
BY DEF Tasks

LEMMA StartType ==
  ASSUME NEW cmd \in {"venv", "pip", "apt"}, NEW what \in SUBSET Providers
  PROVE  /\ Start(cmd, what) \in Job
         /\ Start(cmd, what).cmd = cmd /\ Start(cmd, what).what = what
BY DEF Start, Job

LEMMA SpendType ==
  ASSUME TypeOK, NEW f \in {"restarts", "crashes", "failures"}, Spend(f)
  PROVE  used' \in Uses
BY Types DEF Spend, Uses

LEMMA Fresh == FreshLoop \in LoopState /\ NoIssue \in IssueState
BY DEF FreshLoop, LoopState, NoIssue, IssueState

\* Steps of the renewal task: it goes to another state and may start a subprocess.
LEMMA LoopStepType ==
  ASSUME TypeOK, LoopStep
  PROVE  /\ loop' \in LoopState /\ link' \in BOOLEAN /\ used' \in Uses
         /\ job' \in [Tasks -> Job \cup {None}]
         /\ \A h \in Handlers : job'[h] = job[h]
         /\ LoopKeeps
<1> USE DEF LoopKeeps
<1>1. \A pc \in {"kept", "probe", "decide", "venv", "pip", "check", "link", "refresh"} :
        [loop EXCEPT !.pc = pc] \in LoopState
  BY Types DEF LoopState
<1>2. \A why \in {"built", "found", "failed"} :
        Turns(why) => loop' \in LoopState
  BY DEF Turns, LoopState
<1>3. GivesUp => loop' \in LoopState
  BY <1>2 DEF GivesUp
<1>4. \A pc \in {"kept", "probe", "decide", "venv", "pip", "check", "link", "refresh"} :
        LoopGoes(pc) => loop' \in LoopState
  BY <1>1 DEF LoopGoes
<1>5. ASSUME NEW cmd \in {"venv", "pip", "apt"}, NEW what \in {{}, Bundled},
             job' = [job EXCEPT ![Loop] = Start(cmd, what)]
      PROVE  /\ job' \in [Tasks -> Job \cup {None}]
             /\ \A h \in Handlers : job'[h] = job[h]
  <2>1. Start(cmd, what) \in Job
    BY StartType, CertbotUpdateAssumption
  <2> QED
    BY <1>5, <2>1, Types, TaskParts, CertbotUpdateAssumption
<1>6. ASSUME NEW next \in {"decide", "link"}, NEW pc, NEW version, Probe(pc, next, version)
      PROVE  loop' \in LoopState /\ used' \in Uses /\ UNCHANGED <<link, job>> /\ LoopKeeps
  <2>1. \A v \in {"none", "old", "new"} : [loop EXCEPT !.pc = next, !.saw = v] \in LoopState
    BY Types DEF LoopState
  <2>2. PICK v \in {"none", "old", "new"} :
          /\ loop' = [loop EXCEPT !.pc = next, !.saw = v]
          /\ UNCHANGED used \/ Spend("failures")
          /\ UNCHANGED <<link, job>> /\ LoopKeeps
    BY <1>6 DEF Probe
  <2> QED
    BY <2>1, <2>2, Types, SpendType
<1>7. CASE Ensure
  <2>1. [loop EXCEPT !.pc = "kept", !.why = "found"] \in LoopState
    BY Types DEF LoopState
  <2> QED
    BY <1>4, <1>5, <1>7, <2>1, Types DEF Ensure
<1>8. CASE Kept
  <2>1. loop.why \in {"built", "found", "failed"}
    BY Types DEF LoopState
  <2> QED
    BY <1>2, <1>8, <2>1, Types DEF Kept
<1>9. CASE ProbeSystem \/ ProbeVenv
  BY <1>6, <1>9, Types DEF ProbeSystem, ProbeVenv
<1>10. CASE Decide
  BY <1>2, <1>3, <1>4, <1>5, <1>10, Types, SpendType DEF Decide
<1>11. CASE VenvMade
  BY <1>3, <1>4, <1>5, <1>11, Types DEF VenvMade
<1>12. CASE PipInstalled
  BY <1>3, <1>4, <1>12, Types DEF PipInstalled
<1>13. CASE Link
  BY <1>2, <1>3, <1>13, Types, SpendType DEF Link
<1>14. CASE Refresh
  <2>1. PICK cmd \in {"venv", "pip", "apt"}, what \in {{}, Bundled} :
          job' = [job EXCEPT ![Loop] = Start(cmd, what)]
    BY <1>14 DEF Refresh
  <2> QED
    BY <1>4, <1>5, <1>14, <2>1, Types DEF Refresh
<1>15. CASE NextCycle
  BY <1>2, <1>15, Types DEF NextCycle
<1> QED
  BY <1>7, <1>8, <1>9, <1>10, <1>11, <1>12, <1>13, <1>14, <1>15 DEF LoopStep

\* What an issue does to its handler: it launches certbot, waits for a subprocess,
\* or ends.
LEMMA IssueStates ==
  ASSUME TypeOK, NEW h \in Handlers, NEW p \in Providers \cup {None},
         NEW where \in {"venv", "apt"}
  PROVE  /\ Launch(h, p, where) =>
              /\ task' \in [Handlers -> IssueState]
              /\ \A j \in Handlers \ {h} : task'[j] = task[j]
              /\ task'[h].pc = "certbot"
         /\ \A pc \in {"show", "install"} : Waits(h, p, where, pc) =>
              /\ task' \in [Handlers -> IssueState]
              /\ \A j \in Handlers \ {h} : task'[j] = task[j]
              /\ task'[h].pc = pc /\ task'[h].prov = p
         /\ task' = [task EXCEPT ![h] = NoIssue] =>
              /\ task' \in [Handlers -> IssueState]
              /\ \A j \in Handlers \ {h} : task'[j] = task[j]
              /\ task'[h].pc = "idle"
<1>1. task \in [Handlers -> IssueState] /\ NoIssue \in IssueState
  BY Types, Fresh
<1>2. ASSUME Launch(h, p, where)
      PROVE  /\ task' \in [Handlers -> IssueState]
             /\ \A j \in Handlers \ {h} : task'[j] = task[j]
             /\ task'[h].pc = "certbot"
  <2> DEFINE has == p \in plugins[Where]
             base == [NoIssue EXCEPT !.pc = "certbot", !.prov = p, !.where = where]
             new == [base EXCEPT !.has = has]
  <2>2. base \in IssueState /\ base.pc = "certbot"
    BY <1>1 DEF IssueState
  <2>3. task' = [task EXCEPT ![h] = new]
    BY <1>2 DEF Launch
  <2> HIDE DEF base
  <2>4. has \in BOOLEAN
    OBVIOUS
  <2> HIDE DEF has
  <2>5. new \in IssueState /\ new.pc = "certbot"
    BY <2>2, <2>4 DEF IssueState
  <2> HIDE DEF new
  <2> QED
    BY <1>1, <2>3, <2>5
<1>3. ASSUME NEW pc \in {"show", "install"}, Waits(h, p, where, pc)
      PROVE  /\ task' \in [Handlers -> IssueState]
             /\ \A j \in Handlers \ {h} : task'[j] = task[j]
             /\ task'[h].pc = pc /\ task'[h].prov = p
  <2> DEFINE new == [NoIssue EXCEPT !.pc = pc, !.prov = p, !.where = where]
  <2>2. new \in IssueState /\ new.pc = pc /\ new.prov = p
    BY <1>1 DEF IssueState
  <2>3. task' = [task EXCEPT ![h] = new]
    BY <1>3 DEF Waits
  <2> HIDE DEF new
  <2> QED
    BY <1>1, <2>2, <2>3
<1>4. NoIssue.pc = "idle"
  BY DEF NoIssue
<1> QED
  BY <1>1, <1>2, <1>3, <1>4

\* An issue that looks for its plugin in the venv has one to look for.
Named(h) == task[h].pc = "show" => task[h].prov \in Providers

PInv == TypeOK /\ \A h \in Handlers : Named(h)

LEMMA LoopStepNamed == PInv /\ LoopStep => PInv'
<1> SUFFICES ASSUME PInv, LoopStep PROVE PInv'
  OBVIOUS
<1>1. TypeOK' /\ UNCHANGED task
  BY LoopStepType, Types, Typed DEF PInv, LoopKeeps
<1> QED
  BY <1>1 DEF PInv, Named

\* A step that only concerns handler h.
LEMMA HandlerStep ==
  ASSUME PInv, NEW h \in Handlers, HandlerKeeps,
         present' \in {"unset", "no", "yes"},
         job' \in [Tasks -> Job \cup {None}], task' \in [Handlers -> IssueState],
         \A j \in Handlers \ {h} : task'[j] = task[j],
         (Named(h))'
  PROVE  PInv'
<1>1. TypeOK'
  BY Types, Typed DEF PInv, HandlerKeeps
<1>2. ASSUME NEW j \in Handlers \ {h} PROVE (Named(j))'
  BY DEF PInv, Named
<1> QED
  BY <1>1, <1>2 DEF PInv

\* The subprocess that installs a plugin.
LEMMA StartsJob ==
  ASSUME TypeOK, NEW h \in Handlers, NEW p \in Providers, NEW cmd \in {"pip", "apt"},
         job' = [job EXCEPT ![h] = Start(cmd, {p})]
  PROVE  job' \in [Tasks -> Job \cup {None}]
BY StartType, Types, TaskParts

LEMMA HandleNamed == ASSUME PInv, NEW h \in Handlers, Handle(h) PROVE PInv'
<1> USE DEF HandlerKeeps
<1>1. TypeOK /\ Named(h) /\ task[h] \in IssueState
  BY Types DEF PInv
<1>2. ASSUME NEW p \in Providers, Issue(h, p) PROVE PInv'
  <2>1. HandlerKeeps /\ present' \in {"unset", "no", "yes"}
    BY <1>1, <1>2, Types DEF Issue, Lookup
  <2>2. CASE InVenv /\ Waits(h, p, "venv", "show") /\ UNCHANGED job
    BY <1>1, <2>1, <2>2, IssueStates, Types, HandlerStep DEF Named
  <2>3. CASE Launch(h, p, "apt") /\ UNCHANGED job
    BY <1>1, <2>1, <2>3, IssueStates, Types, HandlerStep DEF Named
  <2>4. CASE Waits(h, p, "apt", "install") /\ job' = [job EXCEPT ![h] = Start("apt", {p})]
    BY <1>1, <2>1, <2>4, IssueStates, StartsJob, HandlerStep DEF Named
  <2> QED
    BY <1>2, <2>2, <2>3, <2>4 DEF Issue
<1>3. CASE Show(h)
  <2> DEFINE p == task[h].prov
  <2>1. HandlerKeeps /\ UNCHANGED present /\ p \in Providers
    BY <1>1, <1>3 DEF Show, Named
  <2>2. CASE Launch(h, p, "venv") /\ UNCHANGED job
    BY <1>1, <2>1, <2>2, IssueStates, Types, HandlerStep DEF Named
  <2>3. CASE Waits(h, p, "venv", "install") /\ job' = [job EXCEPT ![h] = Start("pip", {p})]
    BY <1>1, <2>1, <2>3, IssueStates, StartsJob, Types, HandlerStep DEF Named
  <2> QED
    BY <1>3, <2>2, <2>3 DEF Show
<1>4. CASE PluginInstalled(h)
  <2>1. HandlerKeeps /\ UNCHANGED <<present, job>>
    BY <1>4 DEF PluginInstalled
  <2>2. CASE Launch(h, task[h].prov, task[h].where)
    <3>1. task[h].prov \in Providers \cup {None} /\ task[h].where \in {"venv", "apt"}
      BY <1>1 DEF IssueState
    <3> QED
      BY <1>1, <2>1, <2>2, <3>1, IssueStates, Types, HandlerStep DEF Named
  <2>3. CASE task' = [task EXCEPT ![h] = NoIssue]
    <3>1. None \in Providers \cup {None} /\ "apt" \in {"venv", "apt"}
      OBVIOUS
    <3> QED
      BY <1>1, <2>1, <2>3, <3>1, IssueStates, Types, HandlerStep DEF Named
  <2> QED
    BY <1>4, <2>2, <2>3 DEF PluginInstalled
<1>5. CASE Issued(h)
  <2>1. /\ task' = [task EXCEPT ![h] = NoIssue]
        /\ HandlerKeeps /\ UNCHANGED <<present, job>>
    BY <1>5 DEF Issued
  <2>2. None \in Providers \cup {None} /\ "apt" \in {"venv", "apt"}
    OBVIOUS
  <2> QED
    BY <1>1, <2>1, <2>2, IssueStates, Types, HandlerStep DEF Named
<1> QED
  BY <1>2, <1>3, <1>4, <1>5 DEF Handle

\* The end of a subprocess, told to whoever waits for it.
LEMMA EndsEffect ==
  ASSUME TypeOK, NEW k \in Tasks, NEW result \in {"ok", "fail"}, Ends(k, result)
  PROVE  /\ job' \in [Tasks -> Job \cup {None}] /\ job'[k] = None
         /\ \A j \in Tasks \ {k} : job'[j] = job[j]
         /\ loop' \in LoopState /\ loop'.pc = loop.pc /\ loop'.why = loop.why
         /\ loop'.saw \in {loop.saw, "ok", "fail"}
         /\ task' \in [Handlers -> IssueState]
         /\ \A h \in Handlers :
              task'[h].pc = task[h].pc /\ task'[h].prov = task[h].prov
<1>1. /\ job' = [job EXCEPT ![k] = None]
      /\ loop' = IF k = Loop THEN [loop EXCEPT !.saw = result] ELSE loop
      /\ task' = IF k \in Handlers THEN [task EXCEPT ![k].saw = result] ELSE task
  BY DEF Ends
<1>2. /\ loop' \in LoopState /\ loop'.pc = loop.pc /\ loop'.why = loop.why
      /\ loop'.saw \in {loop.saw, "ok", "fail"}
  BY <1>1, Types DEF LoopState
<1>3. \A h \in Handlers :
        LET new == [task[h] EXCEPT !.saw = result] IN
        /\ new \in IssueState /\ new.pc = task[h].pc /\ new.prov = task[h].prov
  BY Types DEF IssueState
<1>4. \A h \in Handlers :
        task'[h] = IF h = k THEN [task[h] EXCEPT !.saw = result] ELSE task[h]
  BY <1>1, Types
<1>5. task' \in [Handlers -> IssueState]
  <2>1. CASE k \in Handlers
    <3>1. task' = [task EXCEPT ![k] = [task[k] EXCEPT !.saw = result]]
      BY <1>1, <2>1
    <3> QED
      BY <1>3, <2>1, <3>1, Types
  <2>2. CASE k \notin Handlers
    BY <1>1, <2>2, Types
  <2> QED
    BY <2>1, <2>2
<1>6. job' \in [Tasks -> Job \cup {None}] /\ job'[k] = None
      /\ \A j \in Tasks \ {k} : job'[j] = job[j]
  BY <1>1, Types
<1>7. \A h \in Handlers : task'[h].pc = task[h].pc /\ task'[h].prov = task[h].prov
  BY <1>3, <1>4
<1> QED
  BY <1>2, <1>5, <1>6, <1>7

LEMMA JobStepNamed == ASSUME PInv, NEW k \in Tasks, JobStep(k) PROVE PInv'
<1> USE DEF JobKeeps
<1>1. job[k] # None /\ job[k] \in Job
  BY Types DEF PInv, JobStep, PipWrites, PipEnds, VenvEnds, AptEnds, JobFails, Running
<1>2. CASE PipWrites(k)
  <2> DEFINE new == [job[k] EXCEPT !.wrote = TRUE]
  <2>1. new \in Job
    BY <1>1 DEF Job
  <2>2. PICK gone \in SUBSET job[k].what : plugins' = [plugins EXCEPT !.venv = @ \ gone]
    BY <1>2 DEF PipWrites
  <2>3. plugins' \in [venv : SUBSET Providers, apt : SUBSET Providers]
    BY <2>2, Types DEF PInv
  <2>4. /\ job' = [job EXCEPT ![k] = new] /\ venv' \in {venv, "half", "bare"}
        /\ UNCHANGED <<sys, loop, task, used, link, pypi, present>>
    BY <1>2, Types DEF PipWrites, PInv
  <2> HIDE DEF new
  <2>5. job' \in [Tasks -> Job \cup {None}]
    BY <2>1, <2>4, Types DEF PInv
  <2>6. TypeOK'
    BY <2>3, <2>4, <2>5, Types, Typed DEF PInv
  <2> QED
    BY <2>4, <2>6 DEF PInv, Named
<1>3. CASE PipEnds(k) \/ VenvEnds(k) \/ AptEnds(k)
  <2>1. /\ Ends(k, "ok") /\ UNCHANGED <<used, link, pypi, present>>
        /\ sys' \in {"none", "old", "new"}
        /\ venv' \in {"none", "bare", "half", "old", "new"}
    BY <1>3, Types DEF PInv, PipEnds, VenvEnds, AptEnds
  <2>2. job[k].what \in SUBSET Providers
    BY <1>1 DEF Job
  <2>3. plugins' \in [venv : SUBSET Providers, apt : SUBSET Providers]
    BY <1>3, <2>2, Types DEF PInv, PipEnds, VenvEnds, AptEnds
  <2>4. TypeOK'
    BY <2>1, <2>3, EndsEffect, Types, Typed DEF PInv
  <2> QED
    BY <2>1, <2>4, EndsEffect DEF PInv, Named
<1>4. CASE JobFails(k)
  <2>1. /\ Ends(k, "fail") /\ Spend("failures")
        /\ UNCHANGED <<link, pypi, present, sys, venv, plugins>>
    BY <1>4 DEF JobFails
  <2>2. TypeOK'
    BY <2>1, EndsEffect, SpendType, Types, Typed DEF PInv
  <2> QED
    BY <2>1, <2>2, EndsEffect DEF PInv, Named
<1> QED
  BY <1>2, <1>3, <1>4 DEF JobStep

LEMMA OtherNamed == PInv /\ (Status \/ HostUpgraded \/ UpdateConfig \/ Crash) => PInv'
<1> SUFFICES ASSUME PInv, Status \/ HostUpgraded \/ UpdateConfig \/ Crash PROVE PInv'
  OBVIOUS
<1>1. TypeOK
  BY DEF PInv
<1>2. CASE Status
  <2>1. TypeOK' /\ UNCHANGED task
    BY <1>1, <1>2, Types, Typed DEF Status, Lookup, HandlerKeeps
  <2> QED
    BY <2>1 DEF PInv, Named
<1>3. CASE HostUpgraded
  <2>1. TypeOK' /\ UNCHANGED task
    BY <1>1, <1>3, Types, Typed DEF HostUpgraded
  <2> QED
    BY <2>1 DEF PInv, Named
<1>4. CASE UpdateConfig
  <2>1. job' \in [Tasks -> Job \cup {None}]
    BY <1>1, <1>4, Types, TaskParts, CertbotUpdateAssumption DEF UpdateConfig
  <2>2. TypeOK' /\ UNCHANGED task
    BY <1>1, <1>4, <2>1, Fresh, SpendType, Types, Typed DEF UpdateConfig
  <2> QED
    BY <2>2 DEF PInv, Named
<1>5. CASE Crash
  <2>1. /\ job' \in [Tasks -> Job \cup {None}] /\ task' \in [Handlers -> IssueState]
        /\ \A h \in Handlers : task'[h].pc = "idle"
    BY <1>5, Fresh DEF Crash, NoIssue
  <2>2. TypeOK'
    BY <1>1, <1>5, <2>1, Fresh, SpendType, Types, Typed DEF Crash
  <2> QED
    BY <2>1, <2>2 DEF PInv, Named
<1> QED
  BY <1>2, <1>3, <1>4, <1>5

LEMMA NamedInit == Init => PInv
<1> SUFFICES ASSUME Init PROVE PInv
  OBVIOUS
<1>1. /\ sys \in {"none", "old", "new"} /\ venv \in {"none", "new"} /\ link \in BOOLEAN
      /\ pypi \in {"old", "new"} /\ present = "unset"
      /\ plugins \in [venv : SUBSET Providers, apt : SUBSET Providers]
  <2>1. PICK apt \in SUBSET Bundled :
          \/ venv = "none" /\ link = FALSE /\ plugins = [venv |-> {}, apt |-> apt]
          \/ venv = "new" /\ link = TRUE
             /\ plugins = [venv |-> Bundled, apt |-> apt]
    BY DEF Init
  <2>2. /\ apt \in SUBSET Providers /\ Bundled \in SUBSET Providers
        /\ {} \in SUBSET Providers
    BY CertbotUpdateAssumption
  <2>3. plugins \in [venv : SUBSET Providers, apt : SUBSET Providers]
    BY <2>1, <2>2
  <2>4. venv \in {"none", "new"} /\ link \in BOOLEAN
    BY <2>1
  <2> QED
    BY <2>3, <2>4 DEF Init
<1>2. /\ job \in [Tasks -> Job \cup {None}] /\ loop \in LoopState
      /\ task \in [Handlers -> IssueState] /\ used \in Uses
  BY Fresh DEF Init, Uses
<1>3. TypeOK
  BY <1>1, <1>2 DEF TypeOK, LoopState, IssueState, Uses
<1>4. \A h \in Handlers : task[h].pc = "idle"
  BY DEF Init, NoIssue
<1> QED
  BY <1>3, <1>4 DEF PInv, Named

LEMMA NamedNext == PInv /\ [Next]_vars => PInv'
<1>1. PInv /\ UNCHANGED vars => PInv'
  BY DEF PInv, Named, TypeOK, vars
<1> QED
  BY <1>1, LoopStepNamed, HandleNamed, JobStepNamed, OtherNamed DEF Next

LEMMA SpecNamed == Spec => []PInv
BY NamedInit, NamedNext, PTL DEF Spec

\* Every variable has its type, in every state that is reached.
THEOREM TypeCorrect == Spec => []TypeOK
<1>1. PInv => TypeOK
  BY DEF PInv
<1> QED
  BY <1>1, SpecNamed, PTL

(***************************************************************************)
(* What a finished installation leaves active.                             *)
(***************************************************************************)

\* A linked venv certbot, or one that is about to be linked, is a new one or a
\* pip is at work on it, and pip can only put a new one in its place.
LinkedIsNew ==
  /\ link \/ (loop.pc = "link" /\ loop.saw = "new") =>
       pypi = "new" /\ venv \in {"new", "half", "bare"}
  /\ venv = "new" => pypi = "new"

\* A probe that found a new certbot found the distribution's, or the linked one.
ProbedIsNew == loop.pc = "decide" /\ loop.saw = "new" => sys = "new" \/ link

\* What an installation leaves alone is a venv certbot it found.
KeptIsFound == loop.pc = "kept" => loop.why = "found"

Installed == LinkedIsNew /\ ProbedIsNew /\ KeptIsFound

LEMMA InstalledInit == Init => Installed
BY DEF Init, FreshLoop, Installed, LinkedIsNew, ProbedIsNew, KeptIsFound

\* What a subprocess and a step of the host leave of all this.
LEMMA InstalledByJobs ==
  ASSUME TypeOK, Installed, NEW k \in Tasks, JobStep(k)
  PROVE  Installed'
<1>1. /\ link' = link /\ pypi' = pypi /\ venv' \in {"none", "bare", "half", "old", "new"}
      /\ \/ loop' = loop
         \/ loop' = [loop EXCEPT !.saw = "ok"] \/ loop' = [loop EXCEPT !.saw = "fail"]
  BY DEF JobStep, PipWrites, PipEnds, VenvEnds, AptEnds, JobFails, JobKeeps, Ends, TypeOK
<1>2. /\ venv' \in {venv, "half", "bare", pypi} \/ (venv = "none" /\ venv' = "bare")
      /\ sys' \in {sys, "new"}
  BY DEF JobStep, PipWrites, PipEnds, VenvEnds, AptEnds, JobFails, JobKeeps, Ends, TypeOK
<1>3. /\ loop'.pc = loop.pc /\ loop'.why = loop.why
      /\ loop'.saw = "new" => loop.saw = "new"
  BY <1>1 DEF TypeOK
<1>4. LinkedIsNew'
  BY <1>1, <1>2, <1>3 DEF Installed, LinkedIsNew
<1>5. ProbedIsNew' /\ KeptIsFound'
  BY <1>1, <1>2, <1>3 DEF Installed, ProbedIsNew, KeptIsFound
<1> QED
  BY <1>4, <1>5 DEF Installed

\* The steps of the renewal task.
LEMMA InstalledByLoop ==
  ASSUME TypeOK, Installed, LoopStep
  PROVE  Installed'
<1>1. UNCHANGED <<sys, venv, pypi>>
  BY DEF LoopStep, Ensure, Kept, ProbeSystem, ProbeVenv, Probe, Decide, VenvMade,
    PipInstalled, Link, Refresh, NextCycle, LoopKeeps
<1>2. CASE link' = link /\ loop'.pc \notin {"kept", "decide", "link"}
  BY <1>1, <1>2 DEF Installed, LinkedIsNew, ProbedIsNew, KeptIsFound
<1>3. CASE Ensure
  <2>1. link' = link /\ loop'.pc \in {"kept", "probe"}
        /\ (loop'.pc = "kept" => loop'.why = "found")
    BY <1>3 DEF Ensure, LoopGoes, TypeOK
  <2> QED
    BY <1>1, <2>1 DEF Installed, LinkedIsNew, ProbedIsNew, KeptIsFound
<1>4. CASE ProbeSystem
  <2>1. link' = link /\ loop'.pc = "decide" /\ (loop'.saw = "new" => Active = "new")
    BY <1>4 DEF ProbeSystem, Probe, TypeOK
  <2>2. Active = "new" => sys = "new" \/ link
    BY DEF Active, Where
  <2> QED
    BY <1>1, <2>1, <2>2 DEF Installed, LinkedIsNew, ProbedIsNew, KeptIsFound
<1>5. CASE ProbeVenv
  <2>1. link' = link /\ loop'.pc = "link" /\ (loop'.saw = "new" => venv = "new")
    BY <1>5 DEF ProbeVenv, Probe, TypeOK
  <2> QED
    BY <1>1, <2>1 DEF Installed, LinkedIsNew, ProbedIsNew, KeptIsFound
<1>6. CASE Link
  <2>1. loop'.pc = "cycle" /\ loop.pc = "link"
    <3>1. \E why \in {"built", "failed"} : Turns(why)
      BY <1>6 DEF Link, GivesUp
    <3> QED
      BY <1>6, <3>1 DEF Link, Turns
  <2>2. link' = link \/ link' = FALSE \/ loop.saw = "new"
    BY <1>6 DEF Link
  <2> QED
    BY <1>1, <2>1, <2>2 DEF Installed, LinkedIsNew, ProbedIsNew, KeptIsFound
<1>7. CASE Kept \/ Decide \/ VenvMade \/ PipInstalled \/ Refresh \/ NextCycle
  <2>1. link' = link /\ loop'.pc \in {"cycle", "venv", "pip", "check", "refresh"}
    BY <1>7 DEF Kept, Decide, VenvMade, PipInstalled, Refresh, NextCycle, LoopKeeps,
      LoopGoes, GivesUp, Turns, TypeOK
  <2> QED
    BY <1>2, <2>1
<1> QED
  BY <1>3, <1>4, <1>5, <1>6, <1>7 DEF LoopStep

LEMMA InstalledNext == TypeOK /\ Installed /\ [Next]_vars => Installed'
<1> SUFFICES ASSUME TypeOK, Installed, [Next]_vars PROVE Installed'
  OBVIOUS
<1>1. CASE UNCHANGED vars
  BY <1>1 DEF vars, Installed, LinkedIsNew, ProbedIsNew, KeptIsFound
<1>2. CASE Status \/ \E h \in Handlers : Handle(h)
  <2>1. UNCHANGED <<sys, venv, link, pypi, loop>>
    BY <1>2 DEF Status, Handle, Issue, Show, PluginInstalled, Issued, HandlerKeeps
  <2> QED
    BY <2>1 DEF Installed, LinkedIsNew, ProbedIsNew, KeptIsFound
<1>3. CASE HostUpgraded
  BY <1>3 DEF HostUpgraded, Installed, LinkedIsNew, ProbedIsNew, KeptIsFound
<1>4. CASE UpdateConfig \/ Crash
  BY <1>4 DEF UpdateConfig, Crash, FreshLoop, Installed, LinkedIsNew, ProbedIsNew,
    KeptIsFound
<1> QED
  BY <1>1, <1>2, <1>3, <1>4, InstalledByLoop, InstalledByJobs DEF Next

\* A start of the renewal task none of whose steps failed leaves a certbot that
\* knows profiles active, or a pip at work in the venv hides it, or it found a
\* venv certbot that was never linked: on every instance.
THEOREM EnsuredIsNew == Spec => EnsuredIfBuilt
<1> DEFINE Goal == EnsureDone /\ loop'.why # "failed" =>
                     (Active)' = "new" \/ Broken \/ (loop'.why = "found" /\ ~link)
<1>1. ASSUME TypeOK, Installed, Next PROVE Goal
  <2> SUFFICES ASSUME EnsureDone, loop'.why # "failed"
               PROVE  (Active)' = "new" \/ Broken \/ (loop'.why = "found" /\ ~link)
    OBVIOUS
  <2>1. ~ \E k \in Tasks : JobStep(k)
    <3> SUFFICES ASSUME NEW k \in Tasks, JobStep(k) PROVE FALSE
      OBVIOUS
    <3>1. \/ loop' = loop
          \/ loop' = [loop EXCEPT !.saw = "ok"] \/ loop' = [loop EXCEPT !.saw = "fail"]
      BY DEF JobStep, PipWrites, PipEnds, VenvEnds, AptEnds, JobFails, Ends
    <3>2. loop'.pc = loop.pc
      BY <1>1, <3>1 DEF TypeOK
    <3> QED
      BY <3>2 DEF EnsureDone
  <2>2. LoopStep
    <3>1. ~(Status \/ HostUpgraded \/ \E h \in Handlers : Handle(h))
      <4>1. Status \/ HostUpgraded \/ (\E h \in Handlers : Handle(h)) => loop' = loop
        BY DEF Status, Handle, Issue, Show, PluginInstalled, Issued, HandlerKeeps,
          HostUpgraded
      <4> QED
        BY <4>1 DEF EnsureDone
    <3>2. ~(UpdateConfig \/ Crash)
      BY DEF EnsureDone, UpdateConfig, Crash, FreshLoop
    <3> QED
      BY <1>1, <2>1, <3>1, <3>2 DEF Next
  <2>3. Kept \/ Decide \/ Link
    BY <2>2 DEF EnsureDone, LoopStep, Ensure, ProbeSystem, ProbeVenv, Probe,
      VenvMade, PipInstalled, Refresh, NextCycle
  <2>4. UNCHANGED <<sys, venv, pypi>>
    BY <2>3 DEF Kept, Decide, Link, LoopKeeps
  <2>5. CASE Kept
    <3>1. loop'.why = "found" /\ link' = link
      BY <1>1, <2>5 DEF Kept, Turns, Installed, KeptIsFound
    <3> QED
      BY <1>1, <2>4, <3>1
        DEF Installed, LinkedIsNew, Active, Where, InVenv, Broken
  <2>6. CASE Decide
    <3>1. loop.pc = "decide" /\ loop.saw = "new" /\ link' = link
      BY <1>1, <2>6 DEF Decide, GivesUp, Turns, EnsureDone, LoopGoes, TypeOK
    <3> QED
      BY <1>1, <2>4, <3>1
        DEF Installed, LinkedIsNew, ProbedIsNew, Active, Where, InVenv, Broken
  <2>7. CASE Link
    <3>1. loop.pc = "link" /\ loop.saw = "new" /\ link' = TRUE
      <4>1. CASE loop' = [pc |-> "cycle", saw |-> "none", why |-> "failed"]
        BY <4>1
      <4> QED
        BY <2>7, <4>1 DEF Link, GivesUp, Turns
    <3> QED
      BY <1>1, <2>4, <3>1
        DEF Installed, LinkedIsNew, Active, Where, InVenv, Broken
  <2> QED
    BY <2>3, <2>5, <2>6, <2>7
<1>2. TypeOK /\ Installed /\ [Next]_vars =>
        [EnsureDone /\ loop'.why # "failed" =>
           (Active)' = "new" \/ Broken \/ (loop'.why = "found" /\ ~link)]_vars
  BY <1>1
<1>3. Spec => []Installed
  BY InstalledInit, InstalledNext, TypeCorrect, PTL DEF Spec
<1> QED
  BY <1>2, <1>3, TypeCorrect, PTL DEF Spec, EnsuredIfBuilt
=============================================================================
