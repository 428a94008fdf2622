---------------------------- MODULE AgentDeploy ----------------------------
(***************************************************************************)
(* Certificates installed on one Agent host by the spoke: on a command     *)
(* (LE_DEPLOY_TO_AGENT) and when the Agent connects                        *)
(* (deploy_cached_cert_to_agent), src/src/le_spoke.py, with the helper     *)
(* that runs on the host, src/scripts/lm-le-install-cert.                  *)
(*                                                                         *)
(* A deploy writes two temporary files on the host, runs the helper, which *)
(* installs them one after the other, removes the temporary files, and     *)
(* stamps one of the ledger's "agent" targets that match this host: the    *)
(* one with its name, or the one with a blank identifier.  Each request to *)
(* the Agent is an await: other deploys, renewals and ledger commands go   *)
(* on, and the request may raise in the spoke although the Agent carries   *)
(* it out, then or later.  The Agent (external) runs commands              *)
(* independently of each other.                                            *)
(***************************************************************************)
EXTENDS Naturals, FiniteSets

CONSTANTS
  Domains,      \* certificate names
  Commands,     \* handlers of LE_DEPLOY_TO_AGENT for this host
  Connects,     \* tasks of the spoke that run when this host's Agent connects
  Targets,      \* targets that match this host
  Registered,   \* the sets of them that an entry may start with
  Own,          \* the one of them with the host's name
  None,         \* no target, no file, no material
  NoEntry,      \* the ledger has no entry
  MaxVersions,  \* bound: versions of material per domain
  MaxAtOnce,    \* bound: deploys whose files or helper are on the host
  MaxFailures,  \* bound: requests, installs and reads that fail
  MaxUnsaved,   \* bound: saves of the ledger that raise
  MaxSameMs,    \* bound: deploys that start in the millisecond of another
  MaxEdits,     \* bound: ledger commands on the host's targets
  MaxRestarts,  \* bound: restarts of the spoke
  MaxRenewals,  \* bound: renewals by certbot
  MaxTasks,     \* bound: commands and connections
  MaxTotal      \* bound: failures, saves, deploys, commands and restarts above together

Bound == [failures |-> MaxFailures, unsaved |-> MaxUnsaved, sameMs |-> MaxSameMs,
          edits |-> MaxEdits, restarts |-> MaxRestarts, renewals |-> MaxRenewals,
          tasks |-> MaxTasks]

Kinds == DOMAIN Bound

ASSUME BoundsAssumption ==
  /\ {MaxVersions, MaxAtOnce} \subseteq Nat \ {0} /\ MaxTotal \in Nat
  /\ \A kind \in Kinds : Bound[kind] \in Nat

Version == 0..MaxVersions

\* What read_material returns: the versions of certificate and key; key 0 is
\* the empty string it makes of an unreadable privkey.pem.
Material == [dom : Domains, crt : Version, key : Version]

\* Deploys under way are numbered; a number also stands for the millisecond at
\* which a deploy starts, and is used again when nothing is left of that one.
Run == 1..MaxAtOnce

Part == {"crt", "key"}

Content == [dom : Domains, ver : Version]

Deploys == Commands \cup Connects

ASSUME TasksAssumption == Commands \cap Connects = {}

ASSUME TargetsAssumption == Own \in Targets /\ Registered \subseteq SUBSET Targets

\* A target in a domain's entry: what was pushed and how it went.
Marker == [pushed : Version, status : {"none", "SUCCESS", "ERROR"}]

\* A domain's entry: its targets, those it has not being None.
Entry == [Targets -> Marker \cup {None}]

ASSUME NamesAssumption ==
  /\ None # NoEntry /\ {None, NoEntry} \cap (Marker \cup Material \cup Content) = {}
  /\ NoEntry \notin Entry

VARIABLES
  live,     \* versions of certificate and key under live/<d>
  marker,   \* d's entry, in memory
  file,     \* ... and in the ledger file
  dep,      \* the deploying tasks
  held,     \* per task, entries (and the current target) it holds that are the ledger's
  tmp,      \* temporary files on the host, by the millisecond in their name
  late,     \* writes that the Agent has yet to carry out, though nobody waits for them
  helper,   \* runs of the helper on the host, by deploy
  host,     \* installed certificate and key of each domain
  done,     \* pairs that some run of the helper installed completely
  newest,   \* the target that the last deploy of d has stamped
  excused,  \* domains whose record may be behind the host
  lost,     \* milliseconds whose files no rm is to be carried out for
  used      \* how much of each bound is used up

ledger == <<marker, file, held>>
agent == <<tmp, late, helper, host, done>>
record == <<newest, excused>>
vars == <<live, ledger, dep, agent, record, lost, used>>

Free == [kind \in Kinds |-> 0]

Failing(failed) == [Free EXCEPT !.failures = IF failed THEN 1 ELSE 0]

Total(u) ==
  u.failures + u.unsaved + u.sameMs + u.edits + u.restarts

Use(cost) ==
  /\ \A kind \in Kinds : used[kind] + cost[kind] <= Bound[kind]
  /\ Total(used) + Total(cost) <= MaxTotal
  /\ used' = [kind \in Kinds |-> used[kind] + cost[kind]]

Idle == [pc |-> "idle", todo |-> {}, installed |-> FALSE,
         slot |-> Own, mat |-> None, run |-> 0, stamp |-> 0, result |-> "none"]

NoRun == [pc |-> "none", dom |-> None, stamp |-> 0, took |-> 0]

NoFiles == [p \in Part |-> None]

NewTarget == [pushed |-> 0, status |-> "none"]

Init ==
  /\ live = [d \in Domains |-> [crt |-> 1, key |-> 1]]
  /\ marker \in [Domains ->
       {[t \in Targets |-> IF t \in ts THEN NewTarget ELSE None] : ts \in Registered}]
  /\ file = marker
  /\ dep = [k \in Deploys |-> Idle]
  /\ held = [k \in Deploys |-> {}]
  /\ tmp = [s \in Run |-> NoFiles]
  /\ late = {}
  /\ helper = [n \in Run |-> NoRun]
  /\ host = [d \in Domains |-> NoFiles]
  /\ done = {}
  /\ newest = [d \in Domains |-> Own]
  /\ excused = {}
  /\ lost = {}
  /\ used = Free

Active(k) == dep[k].pc \in {"crt", "key", "run", "wait", "clean"}

Working(n) == helper[n].pc \in {"crt", "key"}

\* The runs when nobody waits for the results of those that are over.
StillWorking == [n \in Run |-> IF Working(n) THEN helper[n] ELSE NoRun]

\* Nothing that concerns d is under way.
Quiet(d) ==
  /\ \A k \in Deploys : Active(k) => dep[k].mat.dom # d
  /\ \A n \in Run : Working(n) => helper[n].dom # d

\* The walk of a connect task does not yield between two deploys.
Turn == \A k \in Deploys : dep[k].pc # "next"

-----------------------------------------------------------------------------
(* The world around the deploys.                                           *)

\* certbot (external) switches privkey before fullchain.
CertbotSwitches(d) ==
  /\ \/ /\ live[d].key = live[d].crt /\ live[d].key < MaxVersions
        /\ live' = [live EXCEPT ![d].key = @ + 1]
        /\ Use([Free EXCEPT !.renewals = 1])
     \/ /\ live[d].key # live[d].crt
        /\ live' = [live EXCEPT ![d].crt = live[d].key]
        /\ UNCHANGED used
  /\ UNCHANGED <<ledger, dep, agent, record, lost>>

\* A ledger command that leaves e as d's entry and saves.
Edit(d, e) ==
  /\ Turn /\ Use([Free EXCEPT !.edits = 1])
  /\ marker' = [marker EXCEPT ![d] = e]
  /\ file' = marker'
  /\ UNCHANGED <<live, agent, record, lost>>

\* LE_ADD_TARGET: an existing target is kept as it is.  Then it stands for any
\* command that saves the ledger.
AddTarget(d, t) ==
  /\ marker[d] # NoEntry
  /\ Edit(d, IF marker[d][t] = None THEN [marker[d] EXCEPT ![t] = NewTarget] ELSE marker[d])
  /\ UNCHANGED <<dep, held>>

\* LE_REMOVE_TARGET: a deploy in progress keeps the target it holds.
RemoveTarget(d, t) ==
  /\ marker[d] # NoEntry /\ marker[d][t] # None
  /\ Edit(d, [marker[d] EXCEPT ![t] = None])
  /\ held' = [k \in Deploys |->
       IF Active(k) /\ dep[k].mat.dom = d /\ dep[k].slot = t THEN held[k] \ {d} ELSE held[k]]
  /\ UNCHANGED dep

HasTarget(d) == \E t \in Targets : marker[d][t] # None

\* The entry is taken out of the ledger: no task holds the ledger's any more,
\* and one that has yet to come to it finds in it the targets it had then.
Detach(d) ==
  /\ held' = [k \in Deploys |-> held[k] \ {d}]
  /\ dep' = [k \in Deploys |->
       IF d \in held[k] /\ ~HasTarget(d) THEN [dep[k] EXCEPT !.todo = @ \ {d}]
       ELSE dep[k]]

\* A re-issue replaces the entry; its targets are copied without their markers.
Reissue(d) ==
  /\ \E e \in [Targets -> {None, NewTarget}] :
       /\ marker[d] # NoEntry => \A t \in Targets : marker[d][t] # None => e[t] = NewTarget
       /\ Edit(d, e)
  /\ Detach(d)

Revoke(d) ==
  /\ marker[d] # NoEntry
  /\ Edit(d, NoEntry)
  /\ Detach(d)

\* Milliseconds whose files a helper or one of tasks ks is concerned with.
InUse(ks) == {helper[n].stamp : n \in {i \in Run : Working(i)}}
               \cup {dep[k].stamp : k \in {j \in ks : Active(j)}}

\* No rm is carried out for the files of tasks ks.  They are followed only as
\* long as something reads or writes them.
LeaveFiles(ks) ==
  LET left == {dep[k].stamp : k \in ks}
      inUse == InUse(Deploys \ ks)
  IN
  /\ lost' = lost \cup (left \cap inUse)
  /\ tmp' = [s \in Run |-> IF s \in left \ inUse THEN NoFiles ELSE tmp[s]]

\* Deploys in progress are cut off; runs of the helper go on.
Restart ==
  /\ Use([Free EXCEPT !.restarts = 1])
  /\ marker' = file
  /\ dep' = [k \in Deploys |-> Idle]
  /\ held' = [k \in Deploys |-> {}]
  /\ LeaveFiles({k \in Deploys : Active(k)})
  /\ excused' = excused \cup {dep[k].mat.dom : k \in {j \in Deploys : Active(j)}}
                        \cup {d \in Domains : marker[d] # file[d]}
  /\ helper' = StillWorking
  /\ UNCHANGED <<live, file, late, host, done, newest>>

-----------------------------------------------------------------------------
(* The spoke.                                                              *)

\* read_material: a key that is not the certificate's is one that certbot has
\* switched already, or one that could not be read.
Reads(m) ==
  /\ m.crt = live[m.dom].crt
  /\ m.key \in {live[m.dom].key, m.crt, 0}

Valid(m) == m.key = m.crt

SameMs(s) == \E k \in Deploys : dep[k].pc = "crt" /\ dep[k].stamp = s

\* int(time.time() * 1000): another deploy's only while that one is about to
\* send its first file.
Stamps(n) == {n} \cup {s \in Run : SameMs(s)}

Unused(n) ==
  /\ \A k \in Deploys : Active(k) => n \notin {dep[k].run, dep[k].stamp}
  /\ helper[n] = NoRun /\ \A i \in Run : helper[i].stamp # n
  /\ tmp[n] = NoFiles /\ n \notin lost /\ \A w \in late : w.stamp # n

\* The deploy of material m: the paths are chosen, the first file is sent.
Begin(k, m, task) ==
  \E n \in Run :
  /\ Unused(n) /\ \A i \in 1..n - 1 : ~Unused(i)
  /\ \E s \in Stamps(n) :
       /\ Use([Failing(m.key = 0) EXCEPT !.sameMs = IF SameMs(s) THEN 1 ELSE 0,
                                         !.tasks = IF k \in Commands THEN 1 ELSE 0])
       /\ dep' = [dep EXCEPT ![k] =
            [task EXCEPT !.pc = "crt", !.mat = m, !.run = n, !.stamp = s]]
  /\ excused' = IF Quiet(m.dom) THEN excused \ {m.dom} ELSE excused \cup {m.dom}
  /\ UNCHANGED <<live, marker, file, agent, newest, lost>>

\* LE_DEPLOY_TO_AGENT: an invalid pair is refused.
Command(k, m) ==
  /\ Turn /\ dep[k] = Idle
  /\ Reads(m) /\ Valid(m)
  /\ Begin(k, m, Idle)
  /\ UNCHANGED held

\* The Agent has connected: a snapshot of the entries.
Connect(k) ==
  /\ Turn /\ dep[k] = Idle
  /\ Use([Free EXCEPT !.tasks = 1])
  /\ LET ds == {d \in Domains : marker[d] # NoEntry} IN
       /\ dep' = [dep EXCEPT ![k] = [Idle EXCEPT !.pc = "next", !.todo = ds]]
       /\ held' = [held EXCEPT ![k] = ds]
  /\ UNCHANGED <<live, marker, file, agent, record, lost>>

\* The first target of d's entry that matches; which of them comes first is
\* left open, and no matter in an entry that the ledger does not have any more.
Matches(k, d, t) == IF d \in held[k] THEN marker[d][t] # None ELSE t = Own

\* The walk comes to d.  Unreadable material is skipped.
Visit(k, d) ==
  /\ dep[k].pc = "next" /\ d \in dep[k].todo
  /\ LET task == [dep[k] EXCEPT !.todo = @ \ {d}] IN
     \/ /\ \E skipped \in BOOLEAN :
             ((\E t \in Targets : Matches(k, d, t)) => skipped) /\ Use(Failing(skipped))
        /\ dep' = [dep EXCEPT ![k] = task]
        /\ UNCHANGED <<live, ledger, agent, record, lost>>
     \/ /\ \E t \in Targets, m \in Material :
             /\ Matches(k, d, t) /\ m.dom = d /\ Reads(m)
             /\ Begin(k, m, [task EXCEPT !.slot = t])
        /\ UNCHANGED held

\* WRITE_FILE.  An ERROR reply is not looked at; an exception ends the deploy,
\* and the Agent may still carry the request out.
WriteFile(k, p) ==
  /\ Turn /\ dep[k].pc = p
  /\ LET what == [dom |-> dep[k].mat.dom, ver |-> dep[k].mat[p]] IN
     \E how \in {"written", "not", "late"}, raised \in BOOLEAN :
       /\ how = "late" => raised
       /\ Use(Failing(raised \/ how # "written"))
       /\ tmp' = IF how = "written" THEN [tmp EXCEPT ![dep[k].stamp][p] = what] ELSE tmp
       /\ late' = IF how = "late"
                  THEN late \cup {[stamp |-> dep[k].stamp, part |-> p, what |-> what]}
                  ELSE late
       /\ dep' = [dep EXCEPT ![k].pc = IF raised THEN "clean"
                                       ELSE IF p = "crt" THEN "key" ELSE "run",
                             ![k].result = IF raised THEN "ERROR" ELSE @]
  /\ UNCHANGED <<live, ledger, helper, host, done, record, lost>>

\* RUN_COMMAND: the Agent starts the helper, at once or late: the helper's first
\* step may be long in coming.
StartHelper(k) ==
  /\ Turn /\ dep[k].pc = "run"
  /\ helper' = [helper EXCEPT ![dep[k].run] =
       [pc |-> "crt", dom |-> dep[k].mat.dom, stamp |-> dep[k].stamp, took |-> 0]]
  /\ dep' = [dep EXCEPT ![k].pc = "wait"]
  /\ UNCHANGED <<live, ledger, tmp, late, host, done, record, lost, used>>

\* Its reply: success is exit code 0 with output "OK ...".
Answer(k) ==
  /\ Turn /\ dep[k].pc = "wait" /\ ~Working(dep[k].run)
  /\ dep' = [dep EXCEPT ![k].pc = "clean",
       ![k].result = IF helper[dep[k].run].pc = "done" THEN "SUCCESS" ELSE "ERROR"]
  /\ helper' = [helper EXCEPT ![dep[k].run] = NoRun]
  /\ UNCHANGED <<live, ledger, tmp, late, host, done, record, lost, used>>

\* RUN_COMMAND raises, before the helper is started or in its course.
GiveUp(k) ==
  /\ Turn /\ dep[k].pc \in {"run", "wait"}
  /\ Use(Failing(TRUE))
  /\ dep' = [dep EXCEPT ![k].pc = "clean", ![k].result = "ERROR"]
  /\ helper' = IF Working(dep[k].run) THEN helper
               ELSE [helper EXCEPT ![dep[k].run] = NoRun]
  /\ UNCHANGED <<live, ledger, tmp, late, host, done, record, lost>>

\* Mutants of Outcome: the status is not stored, the status is not looked at,
\* and a failure is not recorded.
OutcomeBare(k, old) == [pushed |-> dep[k].mat.crt]

OutcomeOfSending(k, old) == [pushed |-> dep[k].mat.crt, status |-> "SUCCESS"]

OutcomeOfSuccess(k, old) ==
  IF dep[k].result = "SUCCESS"
  THEN [pushed |-> dep[k].mat.crt, status |-> "SUCCESS"] ELSE old

\* What is stamped on a target, old before: the hash that was read, whatever the
\* result.
Outcome(k, old) == [pushed |-> dep[k].mat.crt, status |-> dep[k].result]

\* The entry of d in memory with the outcome of k on target t.
Stamp(k, d, t) ==
  LET old == IF marker[d][t] = None THEN NewTarget ELSE marker[d][t] IN
  /\ marker' = [marker EXCEPT ![d] = [marker[d] EXCEPT ![t] = Outcome(k, old)]]
  /\ newest' = [newest EXCEPT ![d] = t]

\* Mutant of RemovesTemps: nothing is removed after a failure.
RemovesTempsOnSuccess(k, failed) ==
  IF dep[k].result # "SUCCESS" THEN UNCHANGED <<tmp, lost>>
  ELSE tmp' = [tmp EXCEPT ![dep[k].stamp] = NoFiles] /\ UNCHANGED lost

\* rm -f of both files; its failure is ignored.
RemovesTemps(k, failed) ==
  IF failed THEN LeaveFiles({k})
  ELSE tmp' = [tmp EXCEPT ![dep[k].stamp] = NoFiles] /\ UNCHANGED lost

\* _persist: memory keeps its edit when the save raises.
Persist(saved) == file' = IF saved THEN marker' ELSE file

Cost(failed, saved) ==
  [Failing(failed) EXCEPT !.unsaved = IF saved THEN 0 ELSE 1]

\* The command's end: the target with the host's name is found or made, stamped
\* and saved, whichever other target matches.
FinishCommand(k) ==
  /\ Turn /\ dep[k].pc = "clean"
  /\ LET d == dep[k].mat.dom IN
     \E failed, saved \in BOOLEAN :
       /\ RemovesTemps(k, failed)
       /\ IF marker[d] = NoEntry THEN saved /\ UNCHANGED <<marker, file, newest>>
          ELSE Stamp(k, d, Own) /\ Persist(saved)
       /\ Use(Cost(failed, saved))
  /\ dep' = [dep EXCEPT ![k] = Idle]
  /\ UNCHANGED <<live, held, late, helper, host, done, excused>>

\* Mutant of Installed: the last deploy of the walk decides.
InstalledLast(k) == dep[k].result = "SUCCESS"

\* Something was installed in the walk.
Installed(k) == dep[k].installed \/ dep[k].result = "SUCCESS"

\* The end of one deploy of a connect task: the target it holds is stamped,
\* the ledger's or one that is no longer in it; the walk goes on.
FinishOne(k) ==
  /\ Turn /\ dep[k].pc = "clean"
  /\ LET d == dep[k].mat.dom IN
     \/ d \in held[k] /\ Stamp(k, d, dep[k].slot) /\ UNCHANGED excused
     \/ /\ d \notin held[k] /\ excused' = excused \cup {d}
        /\ UNCHANGED <<marker, newest>>
  /\ \E failed \in BOOLEAN : RemovesTemps(k, failed) /\ Use(Failing(failed))
  /\ dep' = [dep EXCEPT ![k] =
       [Idle EXCEPT !.pc = "next", !.todo = dep[k].todo,
          !.installed = Installed(k)]]
  /\ UNCHANGED <<live, file, held, late, helper, host, done>>

\* The end of the walk: one save, if something was installed.
EndConnect(k) ==
  /\ dep[k].pc = "next" /\ dep[k].todo = {}
  /\ \E saved \in BOOLEAN :
       /\ dep[k].installed \/ saved
       /\ file' = IF dep[k].installed /\ saved THEN marker ELSE file
       /\ Use(Cost(FALSE, saved))
  /\ dep' = [dep EXCEPT ![k] = Idle]
  /\ held' = [held EXCEPT ![k] = {}]
  /\ UNCHANGED <<live, marker, agent, record, lost>>

-----------------------------------------------------------------------------
(* The host.                                                               *)

\* A write that nobody waits for is carried out.  If no deploy is left to remove
\* the file it stays, and is followed only as long as a helper may read it.
LateWrite(w) ==
  /\ late' = late \ {w}
  /\ tmp' = IF w.stamp \in InUse(Deploys)
            THEN [tmp EXCEPT ![w.stamp][w.part] = w.what] ELSE tmp
  /\ lost' = IF \E k \in Deploys : Active(k) /\ dep[k].stamp = w.stamp
             THEN lost ELSE lost \cup ({w.stamp} \cap InUse(Deploys))
  /\ UNCHANGED <<live, ledger, dep, helper, host, done, record, used>>

\* Files that were left are removed after all, by an rm carried out late or by the
\* host itself.
LateRemoval(s) ==
  /\ lost' = lost \ {s}
  /\ tmp' = [tmp EXCEPT ![s] = NoFiles]
  /\ UNCHANGED <<live, ledger, dep, late, helper, host, done, record, used>>

HelperGoes(n, to) == helper' = [helper EXCEPT ![n] = to]

\* Its result is for the task that waits for it, if one does.
HelperEnds(n, how) == HelperGoes(n,
  IF \E k \in Deploys : dep[k].pc = "wait" /\ dep[k].run = n
  THEN [helper[n] EXCEPT !.pc = how] ELSE NoRun)

\* Both temporary files must be readable; install copies what the certificate's
\* holds now.
HelperInstallsCrt(n) ==
  /\ helper[n].pc = "crt"
  /\ LET run == helper[n]
         content == tmp[run.stamp]["crt"]
     IN
     IF \E p \in Part : tmp[run.stamp][p] = None
     THEN HelperEnds(n, "failed") /\ UNCHANGED host
     ELSE /\ host' = [host EXCEPT ![run.dom]["crt"] = content]
          /\ HelperGoes(n, [run EXCEPT !.pc = "key", !.took = content.ver])
  /\ UNCHANGED <<live, ledger, dep, tmp, late, done, record, lost, used>>

\* The key's may have been removed or replaced since.
HelperInstallsKey(n) ==
  /\ helper[n].pc = "key"
  /\ LET run == helper[n]
         content == tmp[run.stamp]["key"]
     IN
     IF content = None THEN HelperEnds(n, "failed") /\ UNCHANGED <<host, done>>
     ELSE /\ host' = [host EXCEPT ![run.dom]["key"] = content]
          /\ HelperEnds(n, "done")
          /\ done' = done \cup {[dom |-> run.dom, crt |-> run.took, key |-> content.ver]}
  /\ UNCHANGED <<live, ledger, dep, tmp, late, record, lost, used>>

\* set -e, or the Agent's limit of 30 s.
HelperFails(n) ==
  /\ Working(n) /\ Use(Failing(TRUE))
  /\ HelperEnds(n, "failed")
  /\ UNCHANGED <<live, ledger, dep, tmp, late, host, done, record, lost>>

World == \E d \in Domains :
  \/ CertbotSwitches(d) \/ Reissue(d) \/ Revoke(d)
  \/ \E t \in Targets : AddTarget(d, t) \/ RemoveTarget(d, t)

Deploying(k) ==
  \/ \E p \in Part : WriteFile(k, p)
  \/ StartHelper(k) \/ Answer(k) \/ GiveUp(k)

OnCommand(k) == (\E m \in Material : Command(k, m)) \/ FinishCommand(k)

OnConnect(k) ==
  \/ \E d \in Domains : Visit(k, d)
  \/ Connect(k) \/ FinishOne(k) \/ EndConnect(k)

Spoke ==
  \/ \E k \in Deploys : Deploying(k)
  \/ \E k \in Commands : OnCommand(k)
  \/ \E k \in Connects : OnConnect(k)

Host ==
  \/ \E n \in Run : HelperInstallsCrt(n) \/ HelperInstallsKey(n) \/ HelperFails(n)
  \/ \E w \in late : LateWrite(w)
  \/ \E s \in lost : LateRemoval(s)

Next == World \/ Restart \/ Spoke \/ Host

Spec == Init /\ [][Next]_vars

-----------------------------------------------------------------------------

Write == [stamp : Run, part : Part, what : Content]

\* Every variable has its type.
TypeOK ==
  /\ live \in [Domains -> [crt : Version, key : Version]]
  /\ marker \in [Domains -> Entry \cup {NoEntry}]
  /\ file \in [Domains -> Entry \cup {NoEntry}]
  /\ dep \in [Deploys ->
       [pc : {"idle", "next", "crt", "key", "run", "wait", "clean"},
        todo : SUBSET Domains, installed : BOOLEAN, slot : Targets,
        mat : Material \cup {None}, run : 0..MaxAtOnce, stamp : 0..MaxAtOnce,
        result : {"none", "SUCCESS", "ERROR"}]]
  /\ held \in [Deploys -> SUBSET Domains]
  /\ tmp \in [Run -> [Part -> Content \cup {None}]]
  /\ late \subseteq Write
  /\ helper \in [Run -> [pc : {"none", "crt", "key", "done", "failed"},
                         dom : Domains \cup {None}, stamp : 0..MaxAtOnce,
                         took : Version]]
  /\ host \in [Domains -> [Part -> Content \cup {None}]]
  /\ done \subseteq Material
  /\ newest \in [Domains -> Targets]
  /\ excused \subseteq Domains
  /\ lost \subseteq Run
  /\ \A kind \in Kinds : used[kind] \in 0..Bound[kind]

\* Entry e has a target t that tells a success.
Tells(e, t) == e # NoEntry /\ e[t] # None /\ e[t].status = "SUCCESS"

\* A target marked SUCCESS with a version: a helper has installed that version
\* completely, whatever was re-issued, renewed or lost since the material was
\* read (le_spoke.py:1042-1047, 1091-1096), as long as the time in milliseconds
\* makes "unique temp paths" (le_spoke.py:942-945).
MarkerTold == \A d \in Domains, t \in Targets :
  Tells(marker[d], t) /\ used.sameMs = 0
    => \E m \in done : m.dom = d /\ m.crt = marker[d][t].pushed

\* Once the deploys of a domain are over, the target stamped last, if it is marked
\* SUCCESS, tells what the host has now, certificate and key of one read: a later
\* deploy that ends half way, for that target or another, does not leave it
\* standing.  Excused, until a later deploy has had the domain for itself, is a
\* domain (a) of which two deploys overlapped, or one began while an earlier one's
\* helper was still at work, (b) whose last deploy stamped a target that the
\* ledger had given up, (c) whose deploy or whose unsaved stamp a restart of the
\* spoke cut off.  Two deploys that share their temporary files excuse all.  A
\* second target that matches may go on telling an older success.
SuccessMeansInstalled == \A d \in Domains \ excused :
  used.sameMs = 0 /\ Quiet(d) /\ Tells(marker[d], newest[d])
    => \E m \in done :
         /\ m.dom = d /\ m.crt = marker[d][newest[d]].pushed
         /\ \A p \in Part : host[d][p] = [dom |-> d, ver |-> m[p]]

\* Certificates and keys stay in the host's /tmp only while their deploy is in
\* progress, whatever step of it failed ("cleans the temps in finally",
\* docs/agent-hosting-topology.md:89-90), unless the spoke was stopped before the
\* clean-up, the clean-up failed, or the Agent carried out a write after it that
\* the spoke had given up.  It holds for shared files too.
NoSecretLeft == \A s \in Run \ lost :
  tmp[s] # NoFiles => \E k \in Deploys : Active(k) /\ dep[k].stamp = s

\* What a helper has installed is a certificate with its own key: "The spoke
\* validates the cert+key pair in-process ... before any material reaches a
\* live host" (docs/agent-hosting-topology.md:86-88).
PairsValidated == \A m \in done : Valid(m)

\* Once the deploys are over every success that memory knows of is in the ledger
\* file, unless a save has raised: the spoke "records the push in the ledger"
\* (docs/agent-hosting-topology.md:90-92), with one save for all the deploys of a
\* connect task, whatever failed among them and whatever else was saved meanwhile.
\* It does not hold for failures, which a connect task leaves in memory.
SuccessOnRecord == \A d \in Domains, t \in Targets :
  Tells(marker[d], t) /\ used.unsaved = 0
    => \/ Tells(file[d], t) /\ file[d][t] = marker[d][t]
       \/ \E k \in Deploys : dep[k] # Idle
=============================================================================
