------------------------- MODULE AgentDeployProofs -------------------------
(***************************************************************************)
(* Theorems about AgentDeploy, for any domains, deploying tasks, matching  *)
(* targets and bounds.                                                     *)
(***************************************************************************)
EXTENDS AgentDeploy, TLAPS

-----------------------------------------------------------------------------
(* Bounds.                                                                 *)

Costs == [Kinds -> Nat]

LEMMA KindsAre ==
  Kinds = {"failures", "unsaved", "sameMs", "edits", "restarts", "renewals", "tasks"}
BY DEF Kinds, Bound

UsedOK == \A kind \in Kinds : used[kind] \in 0..Bound[kind]

LEMMA UseType ==
  ASSUME UsedOK, NEW cost \in Costs, Use(cost)
  PROVE  /\ UsedOK'
         /\ \A kind \in Kinds : used'[kind] = used[kind] + cost[kind]
BY BoundsAssumption DEF UsedOK, Use, Costs

\* Nothing that was used up is given back.
LEMMA UseGrows ==
  ASSUME UsedOK, NEW cost \in Costs, Use(cost)
  PROVE  /\ UsedOK'
         /\ used'.sameMs = 0 => used.sameMs = 0 /\ cost.sameMs = 0
         /\ used'.unsaved = 0 => used.unsaved = 0 /\ cost.unsaved = 0
<1>1. /\ UsedOK'
      /\ used'["sameMs"] = used["sameMs"] + cost["sameMs"]
      /\ used'["unsaved"] = used["unsaved"] + cost["unsaved"]
  BY UseType, KindsAre
<1>2. /\ cost["sameMs"] \in Nat /\ used["sameMs"] \in Nat
      /\ cost["unsaved"] \in Nat /\ used["unsaved"] \in Nat
  BY KindsAre, BoundsAssumption DEF Costs, UsedOK
<1> QED
  BY <1>1, <1>2

LEMMA CostTypes ==
  /\ Free \in Costs /\ Free.sameMs = 0 /\ Free.unsaved = 0
  /\ \A failed \in BOOLEAN :
       /\ Failing(failed) \in Costs
       /\ Failing(failed).sameMs = 0 /\ Failing(failed).unsaved = 0
<1>1. Free \in Costs /\ Free["sameMs"] = 0 /\ Free["unsaved"] = 0
  BY KindsAre DEF Free, Costs
<1> QED
  BY <1>1, KindsAre DEF Failing, Costs

-----------------------------------------------------------------------------
(* Types, and what is known of a deploy in progress and of a helper at     *)
(* work.                                                                   *)

Task ==
  [pc : {"idle", "next", "crt", "key", "run", "wait", "clean"},
   todo : SUBSET Domains, installed : BOOLEAN, slot : Targets,
   mat : Material \cup {None}, run : 0..MaxAtOnce, stamp : 0..MaxAtOnce,
   result : {"none", "SUCCESS", "ERROR"}]

HelperRun ==
  [pc : {"none", "crt", "key", "done", "failed"}, dom : Domains \cup {None},
   stamp : 0..MaxAtOnce, took : Version]

\* A deploy in progress has its material, its number and its milliseconds; a
\* helper at work has its domain and the milliseconds of its files; the entries
\* that a task holds are the ledger's.
WellFormed ==
  /\ \A k \in Deploys : Active(k) =>
       dep[k].mat \in Material /\ dep[k].run \in Run /\ dep[k].stamp \in Run
  /\ \A n \in Run : Working(n) => helper[n].dom \in Domains /\ helper[n].stamp \in Run
  /\ \A k \in Deploys : \A d \in held[k] : marker[d] \in Entry

TInv == TypeOK /\ WellFormed

LEMMA Types ==
  ASSUME TInv
  PROVE  /\ live \in [Domains -> [crt : Version, key : Version]]
         /\ marker \in [Domains -> Entry \cup {NoEntry}]
         /\ file \in [Domains -> Entry \cup {NoEntry}]
         /\ dep \in [Deploys -> Task]
         /\ held \in [Deploys -> SUBSET Domains]
         /\ tmp \in [Run -> [Part -> Content \cup {None}]]
         /\ helper \in [Run -> HelperRun]
         /\ host \in [Domains -> [Part -> Content \cup {None}]]
         /\ done \subseteq Material /\ excused \subseteq Domains /\ lost \subseteq Run
         /\ late \subseteq Write /\ newest \in [Domains -> Targets]
         /\ UsedOK
BY DEF TInv, TypeOK, Task, HelperRun, UsedOK

LEMMA Typed ==
  ASSUME live \in [Domains -> [crt : Version, key : Version]],
         marker \in [Domains -> Entry \cup {NoEntry}],
         file \in [Domains -> Entry \cup {NoEntry}],
         dep \in [Deploys -> Task],
         held \in [Deploys -> SUBSET Domains],
         tmp \in [Run -> [Part -> Content \cup {None}]],
         helper \in [Run -> HelperRun],
         host \in [Domains -> [Part -> Content \cup {None}]],
         done \subseteq Material, excused \subseteq Domains, lost \subseteq Run,
         late \subseteq Write, newest \in [Domains -> Targets],
         UsedOK
  PROVE  TypeOK
BY DEF TypeOK, Task, HelperRun, UsedOK

LEMMA Basics ==
  /\ 0 \in Version /\ MaxAtOnce \in Nat /\ MaxAtOnce > 0
  /\ Run \subseteq 0..MaxAtOnce /\ 0 \in 0..MaxAtOnce
  /\ Idle \in Task /\ NoRun \in HelperRun
  /\ NoFiles \in [Part -> Content \cup {None}]
  /\ NewTarget \in Marker /\ Own \in Targets
<1>1. 0 \in Version /\ MaxAtOnce \in Nat /\ MaxAtOnce > 0 /\ 0 \in 0..MaxAtOnce
  BY BoundsAssumption DEF Version
<1>2. Run \subseteq 0..MaxAtOnce
  BY <1>1 DEF Run
<1> QED
  BY <1>1, <1>2, TargetsAssumption DEF Idle, Task, NoRun, HelperRun, NoFiles, NewTarget, Marker

\* Nothing that a deploy in progress or a helper depends on changes.
SameTask(k) ==
  /\ dep'[k].pc = dep[k].pc
     \/ (dep[k].pc \in {"idle", "next"} /\ dep'[k].pc \in {"idle", "next"})
  /\ Active(k) => /\ dep'[k].mat = dep[k].mat /\ dep'[k].run = dep[k].run
                 /\ dep'[k].stamp = dep[k].stamp /\ dep'[k].result = dep[k].result

\* Used bounds stay used.
Later == /\ used'.sameMs = 0 => used.sameMs = 0
         /\ used'.unsaved = 0 => used.unsaved = 0

\* Target t of d told a success before as it does now.
Told(d, t) == marker'[d][t] = marker[d][t] /\ Tells(marker[d], t)

\* A step aside from all deploys and helpers.
Aside ==
  /\ \A k \in Deploys : SameTask(k)
  /\ UNCHANGED <<agent, newest, excused, lost>>
  /\ \A d \in Domains, t \in Targets : Tells(marker'[d], t) => Told(d, t)
  /\ Later

LEMMA AsideType ==
  ASSUME TInv, Aside,
         live' \in [Domains -> [crt : Version, key : Version]],
         marker' \in [Domains -> Entry \cup {NoEntry}],
         file' \in [Domains -> Entry \cup {NoEntry}],
         dep' \in [Deploys -> Task],
         held' \in [Deploys -> SUBSET Domains],
         \A k \in Deploys : \A d \in held'[k] : marker'[d] \in Entry,
         UsedOK'
  PROVE  TInv'
<1>1. TypeOK'
  BY Types, Typed DEF Aside, agent, TypeOK, Task, HelperRun, UsedOK
<1>2. WellFormed'
  BY DEF TInv, WellFormed, Aside, agent, SameTask, Active, Working
<1> QED
  BY <1>1, <1>2 DEF TInv

\* A save loses no success: one that is not in the file belongs to a connect task
\* that has yet to save it.
Saved(d, t) == Tells(file[d], t) /\ file[d][t] = marker[d][t]

UnsavedHeld ==
  /\ \A k \in Deploys : dep[k].installed => k \in Connects
  /\ used.unsaved = 0 => \A d \in Domains, t \in Targets :
       Tells(marker[d], t) => Saved(d, t) \/ \E k \in Deploys : dep[k].installed

SameWalks == \A k \in Deploys : dep'[k].installed = dep[k].installed

LEMMA SwitchAside ==
  ASSUME TInv, NEW d \in Domains, CertbotSwitches(d)
  PROVE  TInv' /\ Aside /\ (UnsavedHeld => UnsavedHeld')
<1>1. UNCHANGED <<ledger, dep, agent, newest, excused, lost>>
  BY DEF CertbotSwitches, record
<1>2. UsedOK' /\ Later
  <2>1. [Free EXCEPT !.renewals = 1] \in Costs
    BY CostTypes, KindsAre DEF Costs
  <2> QED
    BY <2>1, Types, UseGrows DEF CertbotSwitches, UsedOK, Later
<1>3. live' \in [Domains -> [crt : Version, key : Version]]
  <2>1. live[d] \in [crt : Version, key : Version] /\ MaxVersions \in Nat
    BY Types, BoundsAssumption
  <2>2. CASE live[d].key < MaxVersions /\ live' = [live EXCEPT ![d].key = @ + 1]
    <3>1. live[d].key + 1 \in Version
      BY <2>1, <2>2 DEF Version
    <3>2. [live[d] EXCEPT !.key = @ + 1] \in [crt : Version, key : Version]
      BY <2>1, <3>1
    <3> QED
      BY <2>2, <3>2, Types
  <2>3. CASE live' = [live EXCEPT ![d].crt = live[d].key]
    <3>1. [live[d] EXCEPT !.crt = live[d].key] \in [crt : Version, key : Version]
      BY <2>1
    <3> QED
      BY <2>3, <3>1, Types
  <2> QED
    BY <2>2, <2>3 DEF CertbotSwitches
<1>4. Aside
  BY <1>1, <1>2 DEF Aside, ledger, record, SameTask, Told
<1>5. TInv'
  BY <1>1, <1>2, <1>3, <1>4, Types, AsideType DEF ledger, record, TInv, WellFormed
<1> QED
  BY <1>1, <1>2, <1>4, <1>5 DEF UnsavedHeld, ledger, record, Later, Saved

\* A ledger command that makes no success of its own.
LEMMA EditAside ==
  ASSUME TInv, NEW d \in Domains, NEW e \in Entry \cup {NoEntry}, Edit(d, e),
         \A t \in Targets : Tells(e, t) => e[t] = marker[d][t] /\ marker[d] # NoEntry,
         dep' \in [Deploys -> Task], \A k \in Deploys : SameTask(k),
         held' \in [Deploys -> SUBSET Domains], SameWalks,
         \A k \in Deploys : held'[k] \subseteq held[k],
         e = NoEntry => \A k \in Deploys : d \notin held'[k]
  PROVE  TInv' /\ Aside /\ (UnsavedHeld => UnsavedHeld')
<1>1. /\ marker' = [marker EXCEPT ![d] = e] /\ file' = marker'
      /\ UNCHANGED <<live, agent, newest, excused, lost>>
      /\ Use([Free EXCEPT !.edits = 1])
  BY DEF Edit, record
<1>2. UsedOK' /\ Later
  <2>1. [Free EXCEPT !.edits = 1] \in Costs
    BY CostTypes, KindsAre DEF Costs
  <2> QED
    BY <1>1, <2>1, Types, UseGrows DEF Later
<1>3. /\ marker' \in [Domains -> Entry \cup {NoEntry}]
      /\ marker'[d] = e /\ \A c \in Domains \ {d} : marker'[c] = marker[c]
  BY <1>1, Types
<1>4. ASSUME NEW c \in Domains, NEW t \in Targets, Tells(marker'[c], t) PROVE Told(c, t)
  <2>1. CASE c = d
    BY <1>3, <1>4, <2>1 DEF Told, Tells
  <2>2. CASE c # d
    BY <1>3, <1>4, <2>2 DEF Told
  <2> QED
    BY <2>1, <2>2
<1>5. Aside
  BY <1>1, <1>2, <1>4 DEF Aside
<1>6. \A k \in Deploys : \A c \in held'[k] : marker'[c] \in Entry
  <2>1. ASSUME NEW k \in Deploys, NEW c \in held'[k] PROVE marker'[c] \in Entry
    <3>1. c \in held[k] /\ c \in Domains /\ marker[c] \in Entry
      BY <2>1, Types DEF TInv, WellFormed
    <3> QED
      BY <1>3, <2>1, <3>1
  <2> QED
    BY <2>1
<1>7. TInv'
  BY <1>1, <1>2, <1>3, <1>5, <1>6, Types, AsideType
<1> QED
  BY <1>1, <1>5, <1>7 DEF UnsavedHeld, SameWalks, Saved

LEMMA DetachEffect ==
  ASSUME TInv, NEW d \in Domains, Detach(d)
  PROVE  /\ dep' \in [Deploys -> Task] /\ \A k \in Deploys : SameTask(k)
         /\ held' \in [Deploys -> SUBSET Domains] /\ SameWalks
         /\ \A k \in Deploys : held'[k] \subseteq held[k] /\ d \notin held'[k]
<1>1. /\ held' \in [Deploys -> SUBSET Domains]
      /\ \A k \in Deploys : held'[k] \subseteq held[k] /\ d \notin held'[k]
  BY Types DEF Detach
<1>2. ASSUME NEW k \in Deploys
      PROVE  /\ dep'[k] \in Task
             /\ dep'[k].pc = dep[k].pc
             /\ dep'[k].installed = dep[k].installed /\ dep'[k].mat = dep[k].mat
             /\ dep'[k].run = dep[k].run /\ dep'[k].stamp = dep[k].stamp
             /\ dep'[k].result = dep[k].result
  <2>1. dep[k] \in Task
    BY Types
  <2>2. dep'[k] \in {dep[k], [dep[k] EXCEPT !.todo = @ \ {d}]}
    BY DEF Detach
  <2> QED
    BY <2>1, <2>2 DEF Task
<1>3. dep' = [k \in Deploys |-> dep'[k]]
  BY DEF Detach
<1> QED
  BY <1>1, <1>2, <1>3 DEF SameTask, SameWalks

LEMMA LedgerAside ==
  ASSUME TInv, NEW d \in Domains,
         \/ \E t \in Targets : AddTarget(d, t) \/ RemoveTarget(d, t)
         \/ Reissue(d) \/ Revoke(d)
  PROVE  TInv' /\ Aside /\ (UnsavedHeld => UnsavedHeld')
<1>1. /\ marker[d] \in Entry \cup {NoEntry} /\ NewTarget \in Marker
      /\ NewTarget.status # "SUCCESS"
      /\ dep \in [Deploys -> Task] /\ held \in [Deploys -> SUBSET Domains]
  BY Types, Basics DEF NewTarget
<1>2. dep' = dep => SameWalks /\ \A k \in Deploys : SameTask(k)
  BY DEF SameTask, SameWalks
<1>3. ASSUME NEW t \in Targets, AddTarget(d, t)
      PROVE  TInv' /\ Aside /\ (UnsavedHeld => UnsavedHeld')
  <2> DEFINE e == IF marker[d][t] = None THEN [marker[d] EXCEPT ![t] = NewTarget]
                  ELSE marker[d]
  <2>1. /\ Edit(d, e) /\ UNCHANGED <<dep, held>> /\ marker[d] \in Entry
    BY <1>1, <1>3 DEF AddTarget
  <2>2. e \in Entry /\ \A u \in Targets : e[u] = marker[d][u] \/ e[u] = NewTarget
    BY <1>1, <2>1 DEF Entry
  <2>3. e # NoEntry
    BY <2>2, NamesAssumption
  <2> HIDE DEF e
  <2>4. \A u \in Targets : Tells(e, u) => e[u] = marker[d][u] /\ marker[d] # NoEntry
    BY <1>1, <2>1, <2>2, NamesAssumption DEF Tells
  <2> QED
    BY <1>1, <1>2, <2>1, <2>2, <2>3, <2>4, EditAside
<1>4. ASSUME NEW t \in Targets, RemoveTarget(d, t)
      PROVE  TInv' /\ Aside /\ (UnsavedHeld => UnsavedHeld')
  <2> DEFINE e == [marker[d] EXCEPT ![t] = None]
  <2>1. /\ Edit(d, e) /\ UNCHANGED dep /\ marker[d] \in Entry
    BY <1>1, <1>4 DEF RemoveTarget
  <2>2. e \in Entry /\ \A u \in Targets : e[u] = marker[d][u] \/ e[u] = None
    BY <2>1 DEF Entry
  <2>3. e # NoEntry
    BY <2>2, NamesAssumption
  <2>4. /\ held' \in [Deploys -> SUBSET Domains]
        /\ \A k \in Deploys : held'[k] \subseteq held[k]
    BY <1>1, <1>4 DEF RemoveTarget
  <2> HIDE DEF e
  <2>5. \A u \in Targets : Tells(e, u) => e[u] = marker[d][u] /\ marker[d] # NoEntry
    BY <2>1, <2>2, NamesAssumption DEF Tells
  <2> QED
    BY <1>1, <1>2, <2>1, <2>2, <2>3, <2>4, <2>5, EditAside
<1>5. CASE Reissue(d)
  <2>1. PICK e \in [Targets -> {None, NewTarget}] : Edit(d, e)
    BY <1>5 DEF Reissue
  <2>2. e \in Entry /\ \A t \in Targets : ~Tells(e, t)
    BY <1>1, <2>1 DEF Entry, Tells
  <2>3. Detach(d)
    BY <1>5 DEF Reissue
  <2> QED
    BY <1>1, <2>1, <2>2, <2>3, DetachEffect, EditAside
<1>6. CASE Revoke(d)
  <2>1. Edit(d, NoEntry) /\ Detach(d) /\ \A t \in Targets : ~Tells(NoEntry, t)
    BY <1>6 DEF Revoke, Tells
  <2> QED
    BY <2>1, DetachEffect, EditAside
<1> QED
  BY <1>3, <1>4, <1>5, <1>6

LEMMA ConnectAside ==
  ASSUME TInv, NEW k \in Deploys, Connect(k)
  PROVE  TInv' /\ Aside /\ (UnsavedHeld => UnsavedHeld')
<1> DEFINE ds == {d \in Domains : marker[d] # NoEntry}
           new == [Idle EXCEPT !.pc = "next", !.todo = ds]
<1>1. /\ dep[k] = Idle /\ dep' = [dep EXCEPT ![k] = new]
      /\ held' = [held EXCEPT ![k] = ds] /\ Use([Free EXCEPT !.tasks = 1])
      /\ UNCHANGED <<live, marker, file, agent, newest, excused, lost>>
  BY DEF Connect, record
<1>2. Idle \in Task /\ Idle.pc = "idle" /\ ~Idle.installed
  BY Basics DEF Idle
<1>3. new \in Task /\ new.pc = "next" /\ ~new.installed
  BY <1>2 DEF Task
<1>4. dep' \in [Deploys -> Task] /\ held' \in [Deploys -> SUBSET Domains]
  BY <1>1, <1>3, Types
<1>5. /\ dep[k].pc = "idle" /\ ~dep[k].installed /\ dep'[k].pc = "next"
      /\ ~dep'[k].installed
      /\ \A j \in Deploys \ {k} : dep'[j] = dep[j]
  BY <1>1, <1>2, <1>3, Types
<1>6. \A j \in Deploys : SameTask(j)
  BY <1>5 DEF SameTask, Active
<1>7. UsedOK' /\ Later
  <2>1. [Free EXCEPT !.tasks = 1] \in Costs
    BY CostTypes, KindsAre DEF Costs
  <2> QED
    BY <1>1, <2>1, Types, UseGrows DEF Later
<1>8. Aside
  BY <1>1, <1>6, <1>7 DEF Aside, Told
<1>9. \A j \in Deploys : \A d \in held'[j] : marker'[d] \in Entry
  BY <1>1, Types DEF TInv, WellFormed
<1>10. TInv'
  BY <1>1, <1>4, <1>7, <1>8, <1>9, Types, AsideType
<1> QED
  BY <1>1, <1>5, <1>7, <1>8, <1>10 DEF UnsavedHeld, Saved, Later

LEMMA SkipAside ==
  ASSUME TInv, NEW k \in Deploys, NEW d \in Domains, NEW skipped \in BOOLEAN,
         dep[k].pc = "next", Use(Failing(skipped)),
         dep' = [dep EXCEPT ![k] = [dep[k] EXCEPT !.todo = @ \ {d}]],
         UNCHANGED <<live, ledger, agent, newest, excused, lost>>
  PROVE  TInv' /\ Aside /\ (UnsavedHeld => UnsavedHeld')
<1>1. dep[k] \in Task
  BY Types
<1>2. [dep[k] EXCEPT !.todo = @ \ {d}] \in Task
  BY <1>1 DEF Task
<1>3. /\ dep' \in [Deploys -> Task] /\ dep'[k].pc = "next"
      /\ dep'[k].installed = dep[k].installed
      /\ \A j \in Deploys \ {k} : dep'[j] = dep[j]
  BY <1>1, <1>2, Types DEF Task
<1>4. UsedOK' /\ Later
  BY CostTypes, Types, UseGrows DEF Later
<1>5. \A j \in Deploys : SameTask(j)
  BY <1>3 DEF SameTask, Active
<1>6. Aside
  BY <1>4, <1>5 DEF Aside, Told, ledger
<1>7. TInv'
  BY <1>3, <1>4, <1>6, Types, AsideType DEF ledger, TInv, WellFormed
<1> QED
  BY <1>3, <1>4, <1>6, <1>7 DEF UnsavedHeld, Saved, ledger, Later

LEMMA CostType ==
  ASSUME NEW failed \in BOOLEAN, NEW saved \in BOOLEAN
  PROVE  /\ Cost(failed, saved) \in Costs
         /\ Cost(failed, saved).sameMs = 0
         /\ Cost(failed, saved).unsaved = 0 => saved
BY CostTypes, KindsAre DEF Cost, Costs

\* The only save of a connect task.
LEMMA EndConnectAside ==
  ASSUME TInv, NEW k \in Deploys, EndConnect(k)
  PROVE  TInv' /\ Aside /\ (UnsavedHeld => UnsavedHeld')
<1>1. PICK saved \in BOOLEAN :
        /\ dep[k].pc = "next" /\ dep' = [dep EXCEPT ![k] = Idle]
        /\ held' = [held EXCEPT ![k] = {}]
        /\ file' = IF dep[k].installed /\ saved THEN marker ELSE file
        /\ Use(Cost(FALSE, saved))
        /\ UNCHANGED <<live, marker, agent, newest, excused, lost>>
  BY DEF EndConnect, record
<1>2. dep' \in [Deploys -> Task] /\ held' \in [Deploys -> SUBSET Domains]
  BY <1>1, Types, Basics
<1>3. /\ dep'[k].pc = "idle" /\ ~dep'[k].installed
      /\ \A j \in Deploys \ {k} : dep'[j] = dep[j]
  BY <1>1, Types DEF Idle
<1>4. UsedOK' /\ Later /\ (used'.unsaved = 0 => saved)
  BY <1>1, CostType, Types, UseGrows DEF Later
<1>5. \A j \in Deploys : SameTask(j)
  BY <1>1, <1>3 DEF SameTask, Active
<1>6. Aside
  BY <1>1, <1>4, <1>5 DEF Aside, Told
<1>7. /\ file' \in [Domains -> Entry \cup {NoEntry}]
      /\ \A j \in Deploys : \A d \in held'[j] : marker'[d] \in Entry
  BY <1>1, Types DEF TInv, WellFormed
<1>8. TInv'
  BY <1>1, <1>2, <1>4, <1>6, <1>7, Types, AsideType
<1>9. ASSUME UnsavedHeld PROVE UnsavedHeld'
  <2>1. CASE dep[k].installed /\ used'.unsaved = 0
    BY <1>1, <1>3, <1>4, <1>9, <2>1 DEF UnsavedHeld, Saved
  <2>2. CASE ~(dep[k].installed /\ used'.unsaved = 0)
    BY <1>1, <1>3, <1>4, <1>9, <2>2 DEF UnsavedHeld, Saved, Later
  <2> QED
    BY <2>1, <2>2
<1> QED
  BY <1>6, <1>8, <1>9

-----------------------------------------------------------------------------
(* The inductive invariant.                                                *)

\* Deploys in progress share neither number nor milliseconds.
Apart ==
  used.sameMs = 0 => \A j, k \in Deploys :
    /\ Active(j) /\ Active(k)
    /\ dep[j].run = dep[k].run \/ dep[j].stamp = dep[k].stamp
    => j = k

Copy(m, p) == [dom |-> m.dom, ver |-> m[p]]

\* A deploy in progress finds its own material in its temporary files, and no
\* other is still to be written to them.
OwnFiles ==
  used.sameMs = 0 => \A k \in Deploys, p \in Part : Active(k) =>
    /\ tmp[dep[k].stamp][p] \in {None, Copy(dep[k].mat, p)}
    /\ \A w \in late :
         w.stamp = dep[k].stamp /\ w.part = p => w.what = Copy(dep[k].mat, p)

\* The run of the helper that a deploy waits for works for that deploy, and what
\* it reports as done was installed by it.
OwnRunAt(k) ==
  /\ dep[k].pc = "wait" => LET h == helper[dep[k].run] IN
       /\ h.pc \in {"crt", "key"} =>
            h.dom = dep[k].mat.dom /\ h.stamp = dep[k].stamp
       /\ h.pc = "key" => h.took = dep[k].mat.crt
       /\ h.pc = "done" => dep[k].mat \in done
  /\ dep[k].pc = "clean" /\ dep[k].result = "SUCCESS" => dep[k].mat \in done

OwnRun == used.sameMs = 0 => \A k \in Deploys : OwnRunAt(k)

\* Unless the domain is excused, its deploys come one after the other, and a helper
\* at work for it is the one whose deploy has not seen it end.
AloneAt(k) ==
  /\ \A j \in Deploys : Active(j) /\ dep[j].mat.dom = dep[k].mat.dom => j = k
  /\ \A n \in Run : Working(n) /\ helper[n].dom = dep[k].mat.dom =>
       /\ n = dep[k].run
       /\ \/ dep[k].pc = "wait"
          \/ dep[k].pc = "clean" /\ dep[k].result # "SUCCESS"

Alone == \A k \in Deploys : Active(k) /\ dep[k].mat.dom \notin excused => AloneAt(k)

\* The host has certificate and key of material m.
Has(m) == \A p \in Part : host[m.dom][p] = Copy(m, p)

\* What is in place while a deploy of a domain that is not excused is in progress.
InPlaceAt(k) ==
  LET m == dep[k].mat
      h == helper[dep[k].run]
  IN  /\ dep[k].pc = "wait" /\ h.pc = "key" => host[m.dom]["crt"] = Copy(m, "crt")
      /\ dep[k].pc = "wait" /\ h.pc = "done" => Has(m)
      /\ dep[k].pc = "clean" /\ dep[k].result = "SUCCESS" => Has(m)

InPlace ==
  used.sameMs = 0 => \A k \in Deploys :
    Active(k) /\ dep[k].mat.dom \notin excused => InPlaceAt(k)

\* Between the deploys of such a domain, a success on the target stamped last stands
\* for what the host has, and no helper is left to change that.
AtRestAt(d) ==
  /\ \A n \in Run : Working(n) => helper[n].dom # d
  /\ \E m \in done : m.dom = d /\ m.crt = marker[d][newest[d]].pushed /\ Has(m)

AtRest ==
  used.sameMs = 0 => \A d \in Domains \ excused :
    (\A k \in Deploys : Active(k) => dep[k].mat.dom # d) /\ Tells(marker[d], newest[d])
      => AtRestAt(d)

Deployed == Apart /\ OwnFiles /\ OwnRun /\ MarkerTold
OnHost == Alone /\ InPlace /\ AtRest

IInv == TInv /\ NoSecretLeft /\ UnsavedHeld /\ Deployed /\ OnHost

-----------------------------------------------------------------------------
(* Steps aside.                                                            *)

LEMMA AsideKeeps ==
  ASSUME IInv, TInv', Aside, UnsavedHeld'
  PROVE  IInv'
<1>1. /\ UNCHANGED <<tmp, late, helper, host, done, newest, excused, lost>>
      /\ \A k \in Deploys : SameTask(k)
      /\ \A d \in Domains, t \in Targets : Tells(marker'[d], t) => Told(d, t)
      /\ used'.sameMs = 0 => used.sameMs = 0
  BY DEF Aside, agent, Later
<1>2. ASSUME NEW k \in Deploys
      PROVE  /\ (Active(k))' <=> Active(k)
             /\ Active(k) => /\ dep'[k].pc = dep[k].pc /\ dep'[k].mat = dep[k].mat
                            /\ dep'[k].run = dep[k].run /\ dep'[k].stamp = dep[k].stamp
                            /\ dep'[k].result = dep[k].result
  BY <1>1 DEF SameTask, Active
<1>3. \A k \in Deploys : /\ dep[k].pc \in {"wait", "clean"} => Active(k)
                         /\ dep'[k].pc \in {"wait", "clean"} => (Active(k))'
  BY DEF Active
<1>4. \A n \in Run : (Working(n))' <=> Working(n)
  BY <1>1 DEF Working
<1>5. \A d \in Domains : Tells(marker'[d], newest'[d]) => Told(d, newest[d])
  BY <1>1, Types DEF IInv
<1>6. NoSecretLeft'
  BY <1>1, <1>2 DEF IInv, NoSecretLeft
<1>7. Apart'
  BY <1>1, <1>2 DEF IInv, Deployed, Apart
<1>8. OwnFiles'
  BY <1>1, <1>2 DEF IInv, Deployed, OwnFiles
<1>9. OwnRun'
  BY <1>1, <1>2, <1>3 DEF IInv, Deployed, OwnRun, OwnRunAt, Working
<1>10. MarkerTold'
  BY <1>1 DEF IInv, Deployed, MarkerTold, Told
<1>11. Alone'
  BY <1>1, <1>2, <1>4 DEF IInv, OnHost, Alone, AloneAt
<1>12. InPlace'
  BY <1>1, <1>2 DEF IInv, OnHost, InPlace, InPlaceAt, Has
<1>13. AtRest'
  BY <1>1, <1>2, <1>4, <1>5 DEF IInv, OnHost, AtRest, AtRestAt, Has, Told
<1> QED
  BY <1>6, <1>7, <1>8, <1>9, <1>10, <1>11, <1>12, <1>13 DEF IInv, Deployed, OnHost

-----------------------------------------------------------------------------
(* A deploy begins.                                                        *)

LEMMA BeginEffect ==
  ASSUME TInv, NEW k \in Deploys, NEW m \in Material, NEW task \in Task,
         Begin(k, m, task)
  PROVE  \E n, s \in Run :
           /\ Unused(n) /\ (used'.sameMs = 0 => s = n)
           /\ dep' \in [Deploys -> Task] /\ \A j \in Deploys \ {k} : dep'[j] = dep[j]
           /\ dep'[k].pc = "crt" /\ dep'[k].mat = m
           /\ dep'[k].run = n /\ dep'[k].stamp = s
           /\ dep'[k].installed = task.installed
           /\ UsedOK' /\ Later
<1> DEFINE new(n, s) == [task EXCEPT !.pc = "crt", !.mat = m, !.run = n, !.stamp = s]
           cost(s) == [Failing(m.key = 0) EXCEPT !.sameMs = IF SameMs(s) THEN 1 ELSE 0,
                                                 !.tasks = IF k \in Commands THEN 1 ELSE 0]
<1>1. \E n \in Run : \E s \in Stamps(n) :
        Unused(n) /\ Use(cost(s)) /\ dep' = [dep EXCEPT ![k] = new(n, s)]
  BY DEF Begin
<1>2. PICK n \in Run, s \in Run :
        /\ s \in Stamps(n)
        /\ Unused(n) /\ Use(cost(s)) /\ dep' = [dep EXCEPT ![k] = new(n, s)]
  BY <1>1 DEF Stamps
<1>3. s = n \/ SameMs(s)
  BY <1>2 DEF Stamps
<1>4. cost(s) \in Costs /\ (SameMs(s) => cost(s).sameMs = 1)
  BY CostTypes, KindsAre DEF Costs
<1>5. UsedOK' /\ Later /\ (used'.sameMs = 0 => ~SameMs(s))
  <2> HIDE DEF cost
  <2>1. UsedOK' /\ Later /\ (used'.sameMs = 0 => cost(s).sameMs = 0)
    BY <1>2, <1>4, Types, UseGrows DEF Later
  <2> QED
    BY <1>4, <2>1
<1>6. n \in 0..MaxAtOnce /\ s \in 0..MaxAtOnce
  BY Basics
<1>7. /\ new(n, s) \in Task
      /\ new(n, s).pc = "crt" /\ new(n, s).mat = m
      /\ new(n, s).run = n /\ new(n, s).stamp = s
      /\ new(n, s).installed = task.installed
  BY <1>6 DEF Task
<1> HIDE DEF new, cost
<1>8. dep' \in [Deploys -> Task] /\ dep'[k] = new(n, s)
      /\ \A j \in Deploys \ {k} : dep'[j] = dep[j]
  BY <1>2, <1>7, Types
<1> QED
  BY <1>2, <1>3, <1>5, <1>7, <1>8

LEMMA BeginKeeps ==
  ASSUME IInv, NEW k \in Deploys, NEW m \in Material, NEW task \in Task,
         ~Active(k), Begin(k, m, task), UNCHANGED held,
         task.installed = dep[k].installed
  PROVE  IInv'
<1>1. PICK n, s \in Run :
        /\ Unused(n) /\ (used'.sameMs = 0 => s = n)
        /\ dep' \in [Deploys -> Task] /\ \A j \in Deploys \ {k} : dep'[j] = dep[j]
        /\ dep'[k].pc = "crt" /\ dep'[k].mat = m
        /\ dep'[k].run = n /\ dep'[k].stamp = s
        /\ dep'[k].installed = task.installed
        /\ UsedOK' /\ Later
  BY BeginEffect DEF IInv
<1>2. /\ UNCHANGED <<live, marker, file, tmp, late, helper, host, done, newest, lost>>
      /\ excused' = IF Quiet(m.dom) THEN excused \ {m.dom} ELSE excused \cup {m.dom}
      /\ used'.sameMs = 0 => used.sameMs = 0
  BY <1>1 DEF Begin, agent, Later
<1>3. m.dom \in Domains
  BY DEF Material
<1>4. TypeOK'
  <2>1. excused' \subseteq Domains
    BY <1>2, <1>3, Types DEF IInv
  <2> QED
    BY <1>1, <1>2, <2>1, Types DEF IInv, TypeOK, UsedOK, Task, HelperRun
<1>5. \A j \in Deploys : /\ j # k => ((Active(j))' <=> Active(j)) /\ dep'[j] = dep[j]
                         /\ dep[j].pc \in {"wait", "clean"} => Active(j)
                         /\ dep'[j].pc \in {"wait", "clean"} => j # k
  BY <1>1 DEF Active
<1>6. \A i \in Run : (Working(i))' <=> Working(i)
  BY <1>2 DEF Working
<1>7. WellFormed'
  BY <1>1, <1>2, <1>5, <1>6 DEF IInv, TInv, WellFormed
<1>8. NoSecretLeft'
  BY <1>2, <1>5 DEF IInv, NoSecretLeft
<1>9. UnsavedHeld'
  BY <1>1, <1>2, <1>5 DEF IInv, UnsavedHeld, Saved, Later
<1>10. \A j \in Deploys : Active(j) => dep[j].run # n /\ dep[j].stamp # n
  BY <1>1 DEF Unused
<1>11. Apart'
  BY <1>1, <1>2, <1>5, <1>10 DEF IInv, Deployed, Apart
<1>12. OwnFiles'
  <2>1. /\ \A p \in Part : tmp[n][p] = None
        /\ \A w \in late : w.stamp # n
    BY <1>1 DEF Unused, NoFiles
  <2> QED
    BY <1>1, <1>2, <1>5, <2>1 DEF IInv, Deployed, OwnFiles
<1>13. OwnRun' /\ MarkerTold'
  <2>1. OwnRun'
    BY <1>2, <1>5 DEF IInv, Deployed, OwnRun, OwnRunAt, Working
  <2>2. MarkerTold'
    BY <1>2 DEF IInv, Deployed, MarkerTold
  <2> QED
    BY <2>1, <2>2
<1>14. /\ m.dom \notin excused' => Quiet(m.dom)
       /\ \A d \in Domains \ {m.dom} : d \in excused' <=> d \in excused
  BY <1>2
<1>15. Alone'
  <2>1. ASSUME NEW j \in Deploys, (Active(j))', dep'[j].mat.dom \notin excused'
        PROVE  (AloneAt(j))'
    <3>1. CASE j = k
      BY <1>1, <1>2, <1>5, <1>6, <1>14, <2>1, <3>1 DEF Quiet, AloneAt
    <3>2. CASE j # k /\ dep[j].mat.dom = m.dom
      BY <1>1, <1>5, <1>14, <2>1, <3>2 DEF Quiet
    <3>3. CASE j # k /\ dep[j].mat.dom # m.dom
      <4>1. Active(j) /\ dep'[j] = dep[j] /\ dep[j].mat.dom \in Domains
        BY <1>5, <2>1, <3>3 DEF IInv, TInv, WellFormed, Material
      <4>2. AloneAt(j)
        BY <1>14, <2>1, <3>3, <4>1 DEF IInv, OnHost, Alone
      <4> QED
        BY <1>1, <1>2, <1>5, <1>6, <3>3, <4>1, <4>2 DEF AloneAt
    <3> QED
      BY <3>1, <3>2, <3>3
  <2> QED
    BY <2>1 DEF Alone
<1>16. InPlace'
  <2>1. ASSUME used'.sameMs = 0, NEW j \in Deploys, (Active(j))', dep'[j].mat.dom \notin excused'
        PROVE  (InPlaceAt(j))'
    <3>1. CASE j = k
      BY <1>1, <3>1 DEF InPlaceAt
    <3>2. CASE j # k
      <4>1. Active(j) /\ dep'[j] = dep[j] /\ dep[j].mat.dom \in Domains
        BY <1>5, <2>1, <3>2 DEF IInv, TInv, WellFormed, Material
      <4>2. dep[j].mat.dom # m.dom
        BY <1>14, <2>1, <4>1 DEF Quiet
      <4>3. InPlaceAt(j)
        BY <1>2, <1>14, <2>1, <4>1, <4>2 DEF IInv, OnHost, InPlace
      <4> QED
        BY <1>2, <4>1, <4>3 DEF InPlaceAt, Has
    <3> QED
      BY <3>1, <3>2
  <2> QED
    BY <2>1 DEF InPlace
<1>17. AtRest'
  <2>1. ASSUME used'.sameMs = 0, NEW d \in Domains \ excused', Tells(marker'[d], newest'[d]),
               \A j \in Deploys : (Active(j))' => dep'[j].mat.dom # d
        PROVE  (AtRestAt(d))'
    <3>1. d # m.dom
      BY <1>1, <2>1 DEF Active
    <3>2. \A j \in Deploys : Active(j) => dep[j].mat.dom # d
      BY <1>5, <2>1
    <3>3. AtRestAt(d)
      BY <1>2, <1>14, <2>1, <3>1, <3>2 DEF IInv, OnHost, AtRest
    <3> QED
      BY <1>2, <1>6, <3>3 DEF AtRestAt, Has
  <2> QED
    BY <2>1 DEF AtRest
<1> QED
  BY <1>4, <1>7, <1>8, <1>9, <1>11, <1>12, <1>13, <1>15, <1>16, <1>17
     DEF IInv, TInv, Deployed, OnHost

-----------------------------------------------------------------------------
(* A deploy goes on: its files, the helper, the answer.                    *)

Result == {"none", "SUCCESS", "ERROR"}

Goes(k, pc, result) ==
  /\ dep' \in [Deploys -> Task] /\ \A j \in Deploys \ {k} : dep'[j] = dep[j]
  /\ dep'[k].pc = pc /\ dep'[k].result = result
  /\ dep'[k].mat = dep[k].mat /\ dep'[k].run = dep[k].run /\ dep'[k].stamp = dep[k].stamp
  /\ dep'[k].installed = dep[k].installed

LEMMA GoesTo ==
  ASSUME TInv, NEW k \in Deploys, NEW pc \in {"key", "run", "wait", "clean"},
         NEW result \in Result,
         \/ dep' = [dep EXCEPT ![k].pc = pc, ![k].result = result]
         \/ dep' = [dep EXCEPT ![k].pc = pc] /\ result = dep[k].result
  PROVE  Goes(k, pc, result)
<1> DEFINE new == [dep[k] EXCEPT !.pc = pc, !.result = result]
<1>1. dep[k] \in Task /\ dep \in [Deploys -> Task]
  BY Types
<1>2. /\ new \in Task /\ new.pc = pc /\ new.result = result
      /\ new.mat = dep[k].mat /\ new.run = dep[k].run /\ new.stamp = dep[k].stamp
      /\ new.installed = dep[k].installed
  BY <1>1 DEF Task, Result
<1>3. dep' = [dep EXCEPT ![k] = new]
  <2>1. CASE dep' = [dep EXCEPT ![k].pc = pc, ![k].result = result]
    BY <1>1, <2>1
  <2>2. CASE dep' = [dep EXCEPT ![k].pc = pc] /\ result = dep[k].result
    <3>1. [dep[k] EXCEPT !.pc = pc] = new
      BY <1>1, <2>2 DEF Task
    <3> QED
      BY <2>2, <3>1
  <2> QED
    BY <2>1, <2>2
<1> HIDE DEF new
<1>4. dep'[k] = new /\ dep' \in [Deploys -> Task] /\ \A j \in Deploys \ {k} : dep'[j] = dep[j]
  BY <1>1, <1>2, <1>3
<1> QED
  BY <1>2, <1>4 DEF Goes

\* What every such step keeps.
LEMMA GoesKeeps ==
  ASSUME IInv, NEW k \in Deploys, Active(k), NEW pc \in {"key", "run", "wait", "clean"},
         NEW result, Goes(k, pc, result),
         UNCHANGED <<live, marker, file, held, host, done, newest, excused, lost>>,
         UsedOK', Later,
         tmp' \in [Run -> [Part -> Content \cup {None}]], late' \subseteq Write,
         helper' \in [Run -> HelperRun],
         \A n \in Run : (Working(n))' =>
           \/ Working(n) /\ helper'[n] = helper[n]
           \/ helper'[n].dom = dep[k].mat.dom /\ helper'[n].stamp = dep[k].stamp
  PROVE  /\ TInv' /\ UnsavedHeld' /\ Apart' /\ MarkerTold' /\ AtRest'
         /\ \A j \in Deploys : (Active(j))' <=> Active(j)
<1>1. \A j \in Deploys : /\ (Active(j))' <=> Active(j)
                         /\ dep'[j].mat = dep[j].mat /\ dep'[j].run = dep[j].run
                         /\ dep'[j].stamp = dep[j].stamp
                         /\ dep'[j].installed = dep[j].installed
  BY DEF Goes, Active
<1>2. TypeOK'
  BY Types DEF IInv, TypeOK, UsedOK, Task, HelperRun, Goes
<1>3. /\ dep[k].mat \in Material /\ dep[k].stamp \in Run /\ dep[k].mat.dom \in Domains
  BY DEF IInv, TInv, WellFormed, Material
<1>4. WellFormed'
  BY <1>1, <1>3 DEF IInv, TInv, WellFormed
<1>5. UnsavedHeld'
  BY <1>1 DEF IInv, UnsavedHeld, Saved, Later
<1>6. Apart'
  BY <1>1 DEF IInv, Deployed, Apart, Later
<1>7. MarkerTold'
  BY DEF IInv, Deployed, MarkerTold, Later
<1>8. AtRest'
  <2> SUFFICES ASSUME used'.sameMs = 0, NEW d \in Domains \ excused,
                      \A j \in Deploys : Active(j) => dep[j].mat.dom # d,
                      Tells(marker[d], newest[d])
               PROVE  /\ \A n \in Run : (Working(n))' => helper'[n].dom # d
                      /\ \E m \in done : m.dom = d /\ m.crt = marker[d][newest[d]].pushed
                                        /\ Has(m)
    BY <1>1 DEF AtRest, AtRestAt, Has
  <2>1. /\ \A n \in Run : Working(n) => helper[n].dom # d
        /\ \E m \in done : m.dom = d /\ m.crt = marker[d][newest[d]].pushed /\ Has(m)
    BY DEF IInv, OnHost, AtRest, AtRestAt, Later
  <2>2. dep[k].mat.dom # d
    OBVIOUS
  <2> QED
    BY <2>1, <2>2
<1> QED
  BY <1>1, <1>2, <1>4, <1>5, <1>6, <1>7, <1>8 DEF TInv

LEMMA WriteFileKeeps ==
  ASSUME IInv, NEW k \in Deploys, NEW p \in Part, WriteFile(k, p)
  PROVE  IInv'
<1>1. PICK how \in {"written", "not", "late"}, raised \in BOOLEAN :
        /\ dep[k].pc = p /\ Use(Failing(raised \/ how # "written"))
        /\ tmp' = IF how = "written"
                  THEN [tmp EXCEPT ![dep[k].stamp][p] = Copy(dep[k].mat, p)] ELSE tmp
        /\ late' = IF how = "late"
                   THEN late \cup {[stamp |-> dep[k].stamp, part |-> p,
                                    what |-> Copy(dep[k].mat, p)]}
                   ELSE late
        /\ dep' = [dep EXCEPT ![k].pc = IF raised THEN "clean"
                                       ELSE IF p = "crt" THEN "key" ELSE "run",
                             ![k].result = IF raised THEN "ERROR" ELSE dep[k].result]
        /\ UNCHANGED <<live, marker, file, held, helper, host, done, newest, excused, lost>>
  <2>1. dep \in [Deploys -> Task]
    BY Types DEF IInv
  <2> QED
    BY <2>1 DEF WriteFile, ledger, record, Copy, Task
<1>2. Active(k) /\ dep[k].mat \in Material /\ dep[k].stamp \in Run
  BY <1>1 DEF Active, Part, IInv, TInv, WellFormed
<1>3. UsedOK' /\ Later
  BY <1>1, CostTypes, Types, UseGrows DEF IInv, Later
<1>4. PICK pc \in {"key", "run", "clean"}, result \in Result :
        /\ dep' = [dep EXCEPT ![k].pc = pc, ![k].result = result]
        /\ pc = "clean" => result = "ERROR"
  <2>1. dep[k].result \in Result
    BY Types DEF IInv, Task, Result
  <2> QED
    BY <1>1, <2>1 DEF Result
<1>5. Goes(k, pc, result)
  BY <1>4, GoesTo DEF IInv
<1>6. Copy(dep[k].mat, p) \in Content
  BY <1>2 DEF Copy, Content, Material, Part
<1>7. tmp' \in [Run -> [Part -> Content \cup {None}]]
  <2>1. [tmp[dep[k].stamp] EXCEPT ![p] = Copy(dep[k].mat, p)] \in [Part -> Content \cup {None}]
    BY <1>2, <1>6, Types DEF IInv
  <2> QED
    BY <1>1, <1>2, <2>1, Types DEF IInv
<1>8. /\ \A n \in Run : (Working(n))' => Working(n) /\ helper'[n] = helper[n]
      /\ late' \subseteq Write
  BY <1>1, <1>2, <1>6, Types DEF IInv, Working, Write
<1>9. /\ TInv' /\ UnsavedHeld' /\ Apart' /\ MarkerTold' /\ AtRest'
      /\ \A j \in Deploys : (Active(j))' <=> Active(j)
  BY <1>1, <1>2, <1>3, <1>5, <1>7, <1>8, GoesKeeps, Types DEF IInv
<1>10. /\ \A s \in Run \ {dep[k].stamp} : tmp'[s] = tmp[s]
       /\ \A q \in Part : \/ tmp'[dep[k].stamp][q] = tmp[dep[k].stamp][q]
                          \/ tmp'[dep[k].stamp][q] = Copy(dep[k].mat, q)
  <2>1. tmp \in [Run -> [Part -> Content \cup {None}]]
    BY Types DEF IInv
  <2> QED
    BY <1>1, <1>2, <2>1
<1>11. NoSecretLeft'
  BY <1>1, <1>2, <1>5, <1>9, <1>10 DEF IInv, NoSecretLeft, Goes
<1>12. OwnFiles'
  <2> SUFFICES ASSUME used'.sameMs = 0, NEW j \in Deploys, NEW q \in Part, Active(j)
               PROVE  /\ tmp'[dep[j].stamp][q] \in {None, Copy(dep[j].mat, q)}
                      /\ \A w \in late' : w.stamp = dep[j].stamp /\ w.part = q
                                         => w.what = Copy(dep[j].mat, q)
    BY <1>5, <1>9 DEF OwnFiles, Goes
  <2>1. /\ tmp[dep[j].stamp][q] \in {None, Copy(dep[j].mat, q)} /\ dep[j].stamp \in Run
        /\ \A w \in late : w.stamp = dep[j].stamp /\ w.part = q
                           => w.what = Copy(dep[j].mat, q)
    BY <1>3 DEF IInv, Deployed, OwnFiles, Later, TInv, WellFormed
  <2>2. j # k => dep[j].stamp # dep[k].stamp
    BY <1>2, <1>3 DEF IInv, Deployed, Apart, Later
  <2>3. ASSUME NEW w \in late', w.stamp = dep[j].stamp, w.part = q
        PROVE  w.what = Copy(dep[j].mat, q)
    <3>1. \/ w \in late
          \/ w = [stamp |-> dep[k].stamp, part |-> p, what |-> Copy(dep[k].mat, p)]
      BY <1>1, <2>3
    <3> QED
      BY <2>1, <2>2, <2>3, <3>1
  <2> QED
    BY <1>10, <2>1, <2>2, <2>3
<1>13. \A j \in Deploys : /\ dep'[j].pc = "wait" => dep'[j] = dep[j]
                          /\ dep'[j].pc = "clean" /\ dep'[j].result = "SUCCESS" =>
                               dep'[j] = dep[j]
  BY <1>4, <1>5 DEF Goes
<1>14. OwnRun'
  <2>1. ASSUME NEW j \in Deploys, OwnRunAt(j) PROVE (OwnRunAt(j))'
    <3>1. UNCHANGED <<helper, done>>
      BY <1>1
    <3>2. CASE dep'[j] = dep[j]
      BY <2>1, <3>1, <3>2 DEF OwnRunAt
    <3>3. CASE dep'[j] # dep[j]
      BY <1>13, <3>3 DEF OwnRunAt
    <3> QED
      BY <3>2, <3>3
  <2> QED
    BY <1>3, <2>1 DEF IInv, Deployed, OwnRun, Later
<1>15. Alone'
  <2>1. \A j \in Deploys :
          /\ dep'[j].mat = dep[j].mat /\ dep'[j].run = dep[j].run
          /\ j # k => dep'[j] = dep[j]
    BY <1>5 DEF Goes
  <2>2. dep[k].pc # "wait" /\ dep[k].pc # "clean"
    BY <1>1 DEF Part
  <2>3. \A n \in Run : (Working(n))' <=> Working(n)
    BY <1>1 DEF Working
  <2>4. ASSUME NEW j \in Deploys, AloneAt(j) PROVE (AloneAt(j))'
    BY <1>1, <1>9, <2>1, <2>2, <2>3, <2>4 DEF AloneAt
  <2> QED
    BY <1>1, <1>9, <2>1, <2>4 DEF IInv, OnHost, Alone
<1>16. InPlace'
  <2>1. ASSUME NEW j \in Deploys, InPlaceAt(j) PROVE (InPlaceAt(j))'
    BY <1>1, <1>13, <2>1 DEF InPlaceAt, Has
  <2> QED
    BY <1>1, <1>3, <1>5, <1>9, <2>1 DEF IInv, OnHost, InPlace, Later, Goes
<1> QED
  BY <1>9, <1>11, <1>12, <1>14, <1>15, <1>16 DEF IInv, Deployed, OnHost

LEMMA FilesKept ==
  ASSUME IInv, NEW k \in Deploys, Active(k), NEW pc \in {"key", "run", "wait", "clean"},
         NEW result, Goes(k, pc, result), UNCHANGED <<tmp, late, lost>>, Later
  PROVE  NoSecretLeft' /\ OwnFiles'
<1>1. \A j \in Deploys : /\ (Active(j))' <=> Active(j)
                         /\ dep'[j].mat = dep[j].mat /\ dep'[j].stamp = dep[j].stamp
  BY DEF Goes, Active
<1> QED
  BY <1>1 DEF IInv, NoSecretLeft, Deployed, OwnFiles, Later

LEMMA StartHelperKeeps ==
  ASSUME IInv, NEW k \in Deploys, StartHelper(k)
  PROVE  IInv'
<1> DEFINE n == dep[k].run
           new == [pc |-> "crt", dom |-> dep[k].mat.dom, stamp |-> dep[k].stamp, took |-> 0]
<1>1. /\ dep[k].pc = "run" /\ helper' = [helper EXCEPT ![n] = new]
      /\ dep' = [dep EXCEPT ![k].pc = "wait"]
      /\ UNCHANGED <<live, marker, file, held, tmp, late, host, done, newest, excused, lost, used>>
  BY DEF StartHelper, ledger, record
<1>2. /\ Active(k) /\ dep[k].mat \in Material /\ dep[k].mat.dom \in Domains
      /\ n \in Run /\ dep[k].stamp \in Run
  BY <1>1 DEF Active, IInv, TInv, WellFormed, Material
<1>3. Goes(k, "wait", dep[k].result)
  <2>1. dep[k].result \in Result
    BY Types DEF IInv, Task, Result
  <2> QED
    BY <1>1, <2>1, GoesTo DEF IInv
<1>4. UsedOK' /\ Later
  BY <1>1, Types DEF IInv, UsedOK, Later
<1>5. /\ helper' \in [Run -> HelperRun] /\ helper'[n] = new
      /\ \A i \in Run \ {n} : helper'[i] = helper[i]
  <2>1. new \in HelperRun
    BY <1>2, Basics DEF HelperRun
  <2> QED
    BY <1>1, <1>2, <2>1, Types DEF IInv
<1>6. /\ \A i \in Run \ {n} : (Working(i))' <=> Working(i)
      /\ new.pc = "crt" /\ new.dom = dep[k].mat.dom /\ new.stamp = dep[k].stamp
  BY <1>5 DEF Working
<1> HIDE DEF new
<1>7. /\ TInv' /\ UnsavedHeld' /\ Apart' /\ MarkerTold' /\ AtRest'
      /\ \A j \in Deploys : (Active(j))' <=> Active(j)
  BY <1>1, <1>2, <1>3, <1>4, <1>5, <1>6, GoesKeeps, Types DEF IInv
<1>8. NoSecretLeft' /\ OwnFiles'
  BY <1>1, <1>2, <1>3, <1>4, FilesKept
<1>9. \A j \in Deploys \ {k} : dep'[j] = dep[j]
  BY <1>3 DEF Goes
<1>10. used.sameMs = 0 =>
         \A j \in Deploys \ {k} : Active(j) => helper'[dep[j].run] = helper[dep[j].run]
  <2>1. \A j \in Deploys : Active(j) => dep[j].run \in Run
    BY DEF IInv, TInv, WellFormed
  <2> QED
    BY <1>2, <1>5, <2>1 DEF IInv, Deployed, Apart
<1>11. OwnRun'
  <2>1. (OwnRunAt(k))'
    BY <1>3, <1>5, <1>6 DEF OwnRunAt, Goes
  <2>2. ASSUME used.sameMs = 0, NEW j \in Deploys \ {k}, OwnRunAt(j) PROVE (OwnRunAt(j))'
    <3>1. dep'[j].pc = "wait" => helper'[dep[j].run] = helper[dep[j].run]
      BY <1>9, <1>10, <2>2 DEF Active
    <3>2. UNCHANGED done /\ dep'[j] = dep[j]
      BY <1>1, <1>9
    <3> QED
      BY <2>2, <3>1, <3>2 DEF OwnRunAt
  <2> QED
    BY <1>1, <2>1, <2>2 DEF IInv, Deployed, OwnRun
<1>12. Alone'
  <2>1. ASSUME NEW j \in Deploys, Active(j), AloneAt(j) PROVE (AloneAt(j))'
    <3>1. /\ dep'[j].mat = dep[j].mat /\ dep'[j].run = dep[j].run
          /\ \A i \in Deploys : dep'[i].mat = dep[i].mat
      BY <1>3, <1>9 DEF Goes
    <3>2. ASSUME NEW i \in Run, (Working(i))', helper'[i].dom = dep[j].mat.dom
          PROVE  i = dep[j].run /\ (dep'[j].pc = "wait"
                   \/ (dep'[j].pc = "clean" /\ dep'[j].result # "SUCCESS"))
      <4>1. CASE i = n
        BY <1>2, <1>3, <1>5, <1>6, <2>1, <3>2, <4>1 DEF AloneAt, Goes
      <4>2. CASE i # n
        <5>1. /\ i = dep[j].run
              /\ dep[j].pc = "wait" \/ (dep[j].pc = "clean" /\ dep[j].result # "SUCCESS")
          BY <1>5, <1>6, <2>1, <3>2, <4>2 DEF AloneAt
        <5> QED
          BY <1>1, <1>9, <5>1
      <4> QED
        BY <4>1, <4>2
    <3> QED
      BY <1>7, <2>1, <3>1, <3>2 DEF AloneAt
  <2> QED
    BY <1>1, <1>3, <1>7, <1>9, <2>1 DEF IInv, OnHost, Alone, Goes
<1>13. InPlace'
  <2>1. (InPlaceAt(k))'
    BY <1>3, <1>5, <1>6 DEF InPlaceAt, Goes
  <2>2. ASSUME used.sameMs = 0, NEW j \in Deploys \ {k}, InPlaceAt(j), Active(j)
        PROVE  (InPlaceAt(j))'
    BY <1>1, <1>9, <1>10, <2>2 DEF InPlaceAt, Has
  <2> QED
    BY <1>1, <1>7, <1>9, <2>1, <2>2 DEF IInv, OnHost, InPlace
<1> QED
  BY <1>7, <1>8, <1>11, <1>12, <1>13 DEF IInv, Deployed, OnHost

\* A deploy that no longer waits: it has had an answer, or has given up.
LEMMA EndsWaiting ==
  ASSUME IInv, NEW k \in Deploys, NEW result \in Result,
         dep[k].pc \in {"run", "wait"}, Goes(k, "clean", result),
         result = "SUCCESS" => dep[k].pc = "wait" /\ helper[dep[k].run].pc = "done",
         \/ helper' = helper
         \/ ~Working(dep[k].run) /\ helper' = [helper EXCEPT ![dep[k].run] = NoRun],
         UNCHANGED <<live, marker, file, held, tmp, late, host, done, newest, excused, lost>>,
         UsedOK', Later
  PROVE  IInv'
<1> DEFINE n == dep[k].run
<1>1. Active(k) /\ n \in Run /\ dep[k].stamp \in Run
  BY DEF Active, IInv, TInv, WellFormed
<1>2. /\ helper' \in [Run -> HelperRun]
      /\ \A i \in Run \ {n} : helper'[i] = helper[i]
  BY <1>1, Types, Basics DEF IInv
<1>3. \A i \in Run : (Working(i))' => Working(i) /\ helper'[i] = helper[i]
  BY <1>1, <1>2, Types DEF Working, IInv, NoRun
<1>4. /\ TInv' /\ UnsavedHeld' /\ Apart' /\ MarkerTold' /\ AtRest'
      /\ \A j \in Deploys : (Active(j))' <=> Active(j)
  BY <1>1, <1>2, <1>3, GoesKeeps, Types DEF IInv
<1>5. NoSecretLeft' /\ OwnFiles'
  BY <1>1, FilesKept
<1>6. /\ \A j \in Deploys \ {k} : dep'[j] = dep[j]
      /\ dep'[k].pc = "clean" /\ dep'[k].result = result
      /\ dep'[k].mat = dep[k].mat /\ dep'[k].run = n
  BY DEF Goes
<1>7. used.sameMs = 0 =>
         \A j \in Deploys \ {k} : Active(j) => helper'[dep[j].run] = helper[dep[j].run]
  <2>1. \A j \in Deploys : Active(j) => dep[j].run \in Run
    BY DEF IInv, TInv, WellFormed
  <2> QED
    BY <1>1, <1>2, <2>1 DEF IInv, Deployed, Apart
<1>8. OwnRun'
  <2>1. OwnRunAt(k) => (OwnRunAt(k))'
    BY <1>6 DEF OwnRunAt
  <2>2. ASSUME used.sameMs = 0, NEW j \in Deploys \ {k}, OwnRunAt(j) PROVE (OwnRunAt(j))'
    <3>1. dep'[j].pc = "wait" => helper'[dep[j].run] = helper[dep[j].run]
      BY <1>6, <1>7, <2>2 DEF Active
    <3>2. UNCHANGED done /\ dep'[j] = dep[j]
      BY <1>6
    <3> QED
      BY <2>2, <3>1, <3>2 DEF OwnRunAt
  <2> QED
    BY <2>1, <2>2 DEF IInv, Deployed, OwnRun, Later
<1>9. Alone'
  <2>1. ASSUME NEW j \in Deploys, Active(j), AloneAt(j) PROVE (AloneAt(j))'
    <3>1. /\ dep'[j].mat = dep[j].mat /\ dep'[j].run = dep[j].run
          /\ \A i \in Deploys : dep'[i].mat = dep[i].mat
      BY <1>6
    <3>2. ASSUME NEW i \in Run, (Working(i))', helper'[i].dom = dep[j].mat.dom
          PROVE  i = dep[j].run /\ (dep'[j].pc = "wait"
                   \/ (dep'[j].pc = "clean" /\ dep'[j].result # "SUCCESS"))
      <4>1. Working(i) /\ helper[i].dom = dep[j].mat.dom
        BY <1>3, <3>2
      <4>2. /\ i = dep[j].run
            /\ dep[j].pc = "wait" \/ (dep[j].pc = "clean" /\ dep[j].result # "SUCCESS")
        BY <2>1, <4>1 DEF AloneAt
      <4>3. j = k => result # "SUCCESS"
        BY <4>1, <4>2 DEF Working
      <4> QED
        BY <1>6, <4>2, <4>3
    <3> QED
      BY <1>4, <2>1, <3>1, <3>2 DEF AloneAt
  <2> QED
    BY <1>4, <1>6, <2>1 DEF IInv, OnHost, Alone
<1>10. InPlace'
  <2>1. InPlaceAt(k) => (InPlaceAt(k))'
    BY <1>6 DEF InPlaceAt, Has
  <2>2. ASSUME used.sameMs = 0, NEW j \in Deploys \ {k}, InPlaceAt(j), Active(j)
        PROVE  (InPlaceAt(j))'
    BY <1>6, <1>7, <2>2 DEF InPlaceAt, Has
  <2> QED
    BY <1>1, <1>4, <1>6, <2>1, <2>2 DEF IInv, OnHost, InPlace, Later
<1> QED
  BY <1>4, <1>5, <1>8, <1>9, <1>10 DEF IInv, Deployed, OnHost

LEMMA AnswerKeeps ==
  ASSUME IInv, NEW k \in Deploys, Answer(k)
  PROVE  IInv'
<1> DEFINE result == IF helper[dep[k].run].pc = "done" THEN "SUCCESS" ELSE "ERROR"
<1>1. /\ dep[k].pc = "wait" /\ ~Working(dep[k].run)
      /\ dep' = [dep EXCEPT ![k].pc = "clean", ![k].result = result]
      /\ helper' = [helper EXCEPT ![dep[k].run] = NoRun]
      /\ UNCHANGED <<live, marker, file, held, tmp, late, host, done, newest, excused, lost, used>>
  BY DEF Answer, ledger, record
<1>2. result \in Result /\ (result = "SUCCESS" => helper[dep[k].run].pc = "done")
  BY DEF Result
<1> HIDE DEF result
<1>3. Goes(k, "clean", result)
  BY <1>1, <1>2, GoesTo DEF IInv
<1>4. UsedOK' /\ Later
  BY <1>1, Types DEF IInv, UsedOK, Later
<1> QED
  BY <1>1, <1>2, <1>3, <1>4, EndsWaiting

LEMMA GiveUpKeeps ==
  ASSUME IInv, NEW k \in Deploys, GiveUp(k)
  PROVE  IInv'
<1>1. /\ dep[k].pc \in {"run", "wait"}
      /\ dep' = [dep EXCEPT ![k].pc = "clean", ![k].result = "ERROR"]
      /\ \/ helper' = helper
         \/ ~Working(dep[k].run) /\ helper' = [helper EXCEPT ![dep[k].run] = NoRun]
      /\ Use(Failing(TRUE))
      /\ UNCHANGED <<live, marker, file, held, tmp, late, host, done, newest, excused, lost>>
  BY DEF GiveUp, ledger, record
<1>2. Goes(k, "clean", "ERROR")
  BY <1>1, GoesTo DEF IInv, Result
<1>3. UsedOK' /\ Later
  BY <1>1, CostTypes, Types, UseGrows DEF IInv, Later
<1> QED
  BY <1>1, <1>2, <1>3, EndsWaiting DEF Result

-----------------------------------------------------------------------------
(* A deploy ends: its files are removed and the outcome is stamped.        *)

LEMMA FilesRemoved ==
  ASSUME IInv, NEW k \in Deploys, dep[k].pc = "clean", NEW failed \in BOOLEAN,
         RemovesTemps(k, failed), \A j \in Deploys \ {k} : dep'[j] = dep[j]
  PROVE  /\ tmp' \in [Run -> [Part -> Content \cup {None}]] /\ lost' \subseteq Run
         /\ \A s \in Run : tmp'[s] \in {tmp[s], NoFiles}
         /\ NoSecretLeft'
<1>1. dep[k].stamp \in Run /\ Active(k)
  BY DEF IInv, TInv, WellFormed, Active
<1>2. /\ tmp \in [Run -> [Part -> Content \cup {None}]] /\ lost \subseteq Run
      /\ NoFiles \in [Part -> Content \cup {None}]
  BY Types, Basics DEF IInv
<1>3. /\ tmp' \in [Run -> [Part -> Content \cup {None}]] /\ lost' \subseteq Run
      /\ \A s \in Run : tmp'[s] \in {tmp[s], NoFiles}
      /\ lost \subseteq lost'
      /\ dep[k].stamp \in lost' \/ tmp'[dep[k].stamp] = NoFiles
  <2>1. CASE failed
    <3> DEFINE left == {dep[j].stamp : j \in {k}}
               inUse == InUse(Deploys \ {k})
    <3>1. /\ lost' = lost \cup (left \cap inUse)
          /\ tmp' = [s \in Run |-> IF s \in left \ inUse THEN NoFiles ELSE tmp[s]]
      BY <2>1 DEF RemovesTemps, LeaveFiles
    <3>2. left = {dep[k].stamp}
      OBVIOUS
    <3> HIDE DEF left, inUse
    <3> QED
      BY <1>1, <1>2, <3>1, <3>2
  <2>2. CASE ~failed
    BY <1>1, <1>2, <2>2 DEF RemovesTemps
  <2> QED
    BY <2>1, <2>2
<1>4. ASSUME NEW s \in Run \ lost', tmp'[s] # NoFiles
      PROVE  \E j \in Deploys : (Active(j))' /\ dep'[j].stamp = s
  <2>1. PICK j \in Deploys : Active(j) /\ dep[j].stamp = s
    BY <1>3, <1>4 DEF IInv, NoSecretLeft
  <2>2. j # k
    BY <1>3, <1>4, <2>1
  <2> QED
    BY <2>1, <2>2 DEF Active
<1> QED
  BY <1>3, <1>4 DEF NoSecretLeft, NoFiles

LEMMA FinishKeeps ==
  ASSUME IInv, NEW k \in Deploys, NEW failed \in BOOLEAN,
         dep[k].pc = "clean", RemovesTemps(k, failed),
         dep' \in [Deploys -> Task], \A j \in Deploys \ {k} : dep'[j] = dep[j],
         dep'[k].pc \in {"idle", "next"},
         UNCHANGED <<live, held, late, helper, host, done>>,
         excused \subseteq excused', excused' \subseteq Domains,
         newest' \in [Domains -> Targets],
         marker' \in [Domains -> Entry \cup {NoEntry}],
         \A c \in Domains : marker[c] \in Entry => marker'[c] \in Entry,
         file' \in [Domains -> Entry \cup {NoEntry}],
         UsedOK', Later, UnsavedHeld',
         \A c \in Domains, t \in Targets : Tells(marker'[c], t) =>
           \/ Told(c, t)
           \/ /\ c = dep[k].mat.dom /\ dep[k].result = "SUCCESS"
              /\ marker'[c][t].pushed = dep[k].mat.crt,
         \A c \in Domains \ excused' : Tells(marker'[c], newest'[c]) =>
           \/ c # dep[k].mat.dom /\ newest'[c] = newest[c] /\ Told(c, newest[c])
           \/ /\ c = dep[k].mat.dom /\ dep[k].result = "SUCCESS"
              /\ marker'[c][newest'[c]].pushed = dep[k].mat.crt
  PROVE  IInv'
<1> DEFINE d == dep[k].mat.dom
<1>1. Active(k) /\ dep[k].mat \in Material /\ d \in Domains
  BY DEF Active, IInv, TInv, WellFormed, Material
<1>2. /\ tmp' \in [Run -> [Part -> Content \cup {None}]] /\ lost' \subseteq Run
      /\ \A s \in Run : tmp'[s] \in {tmp[s], NoFiles}
      /\ NoSecretLeft'
  BY FilesRemoved
<1>3. TypeOK'
  BY <1>2, Types DEF IInv, TypeOK, UsedOK, Task, HelperRun
<1>4. \A j \in Deploys : /\ (Active(j))' => Active(j) /\ j # k /\ dep'[j] = dep[j]
                         /\ j # k => ((Active(j))' <=> Active(j))
  BY DEF Active
<1>5. \A i \in Run : (Working(i))' <=> Working(i)
  BY DEF Working
<1>6. WellFormed'
  <2>1. \A j \in Deploys : \A c \in held[j] : c \in Domains /\ marker[c] \in Entry
    BY Types DEF IInv, TInv, WellFormed
  <2>2. \A j \in Deploys : \A c \in held'[j] : marker'[c] \in Entry
    BY <2>1
  <2> QED
    BY <1>4, <1>5, <2>2 DEF IInv, TInv, WellFormed
<1>7. Apart'
  BY <1>4 DEF IInv, Deployed, Apart, Later
<1>8. OwnFiles'
  <2>1. ASSUME used.sameMs = 0, NEW j \in Deploys, NEW p \in Part, Active(j)
        PROVE  /\ tmp'[dep[j].stamp][p] \in {None, Copy(dep[j].mat, p)}
               /\ \A w \in late : w.stamp = dep[j].stamp /\ w.part = p
                                  => w.what = Copy(dep[j].mat, p)
    <3>1. /\ tmp[dep[j].stamp][p] \in {None, Copy(dep[j].mat, p)}
          /\ \A w \in late : w.stamp = dep[j].stamp /\ w.part = p
                             => w.what = Copy(dep[j].mat, p)
          /\ dep[j].stamp \in Run
      BY <2>1 DEF IInv, Deployed, OwnFiles, TInv, WellFormed
    <3>2. NoFiles[p] = None
      BY DEF NoFiles
    <3> QED
      BY <1>2, <3>1, <3>2
  <2> QED
    BY <1>4, <2>1 DEF OwnFiles, Later
<1>9. OwnRun'
  <2>1. ASSUME NEW j \in Deploys \ {k}, OwnRunAt(j) PROVE (OwnRunAt(j))'
    <3>1. dep'[j] = dep[j] /\ UNCHANGED <<helper, done>>
      OBVIOUS
    <3> QED
      BY <2>1, <3>1 DEF OwnRunAt
  <2>2. (OwnRunAt(k))'
    BY DEF OwnRunAt
  <2> QED
    BY <2>1, <2>2 DEF IInv, Deployed, OwnRun, Later
<1>10. used.sameMs = 0 /\ dep[k].result = "SUCCESS" => dep[k].mat \in done
  BY DEF IInv, Deployed, OwnRun, OwnRunAt
<1>11. MarkerTold'
  <2>1. ASSUME NEW c \in Domains, NEW t \in Targets, Tells(marker'[c], t), used'.sameMs = 0
        PROVE  \E m \in done : m.dom = c /\ m.crt = marker'[c][t].pushed
    <3>1. used.sameMs = 0
      BY <2>1 DEF Later
    <3>2. CASE Told(c, t)
      BY <3>1, <3>2 DEF IInv, Deployed, MarkerTold, Told
    <3>3. CASE c = d /\ dep[k].result = "SUCCESS" /\ marker'[c][t].pushed = dep[k].mat.crt
      BY <1>10, <3>1, <3>3
    <3> QED
      BY <2>1, <3>2, <3>3
  <2> QED
    BY <2>1 DEF MarkerTold
<1>12. Alone'
  <2>1. ASSUME NEW j \in Deploys, (Active(j))', AloneAt(j) PROVE (AloneAt(j))'
    BY <1>4, <1>5, <2>1 DEF AloneAt
  <2> QED
    BY <1>4, <2>1 DEF IInv, OnHost, Alone
<1>13. InPlace'
  <2>1. ASSUME NEW j \in Deploys \ {k}, InPlaceAt(j) PROVE (InPlaceAt(j))'
    <3>1. dep'[j] = dep[j] /\ UNCHANGED <<helper, host>>
      OBVIOUS
    <3> QED
      BY <2>1, <3>1 DEF InPlaceAt, Has
  <2> QED
    BY <1>4, <2>1 DEF IInv, OnHost, InPlace, Later
<1>14. AtRest'
  <2>1. ASSUME used'.sameMs = 0, NEW c \in Domains \ excused', Tells(marker'[c], newest'[c]),
               \A j \in Deploys : (Active(j))' => dep'[j].mat.dom # c
        PROVE  (AtRestAt(c))'
    <3>1. used.sameMs = 0 /\ c \notin excused
      BY <2>1 DEF Later
    <3>2. CASE c = d
      <4>1. dep[k].result = "SUCCESS" /\ marker'[c][newest'[c]].pushed = dep[k].mat.crt
        BY <2>1, <3>2
      <4>2. \A i \in Run : Working(i) => helper[i].dom # c
        BY <1>1, <3>1, <3>2, <4>1 DEF IInv, OnHost, Alone, AloneAt
      <4>3. Has(dep[k].mat)
        BY <1>1, <3>1, <3>2, <4>1 DEF IInv, OnHost, InPlace, InPlaceAt
      <4> QED
        BY <1>5, <1>10, <3>1, <3>2, <4>1, <4>2, <4>3 DEF AtRestAt, Has
    <3>3. CASE c # d
      <4>1. newest'[c] = newest[c] /\ Told(c, newest[c])
        BY <2>1, <3>3
      <4>2. \A j \in Deploys : Active(j) => dep[j].mat.dom # c
        BY <1>4, <2>1, <3>3
      <4>3. AtRestAt(c)
        BY <3>1, <4>1, <4>2 DEF IInv, OnHost, AtRest, Told
      <4> QED
        BY <1>5, <4>1, <4>3 DEF AtRestAt, Has, Told
    <3> QED
      BY <3>2, <3>3
  <2> QED
    BY <2>1 DEF AtRest
<1> QED
  BY <1>2, <1>3, <1>6, <1>7, <1>8, <1>9, <1>11, <1>12, <1>13, <1>14
     DEF IInv, TInv, Deployed, OnHost

\* The outcome is on the target that is stamped, and all others are as before.
LEMMA StampEffect ==
  ASSUME TInv, NEW k \in Deploys, Active(k), NEW t \in Targets,
         marker[dep[k].mat.dom] \in Entry, Stamp(k, dep[k].mat.dom, t)
  PROVE  LET d == dep[k].mat.dom IN
         /\ marker' \in [Domains -> Entry \cup {NoEntry}]
         /\ newest' \in [Domains -> Targets]
         /\ marker'[d] \in Entry /\ newest'[d] = t
         /\ marker'[d][t].pushed = dep[k].mat.crt /\ marker'[d][t].status = dep[k].result
         /\ \A u \in Targets \ {t} : marker'[d][u] = marker[d][u]
         /\ \A c \in Domains \ {d} : marker'[c] = marker[c] /\ newest'[c] = newest[c]
<1> DEFINE d == dep[k].mat.dom
           new == [pushed |-> dep[k].mat.crt, status |-> dep[k].result]
           entry == [marker[d] EXCEPT ![t] = new]
<1>1. dep[k].mat \in Material /\ dep[k] \in Task
  BY Types DEF TInv, WellFormed
<1>2. d \in Domains /\ new \in Marker
  BY <1>1 DEF Marker, Material, Task
<1>3. marker' = [marker EXCEPT ![d] = entry] /\ newest' = [newest EXCEPT ![d] = t]
  BY DEF Stamp, Outcome
<1>4. /\ new.pushed = dep[k].mat.crt /\ new.status = dep[k].result
  OBVIOUS
<1> HIDE DEF new
<1>5. /\ entry \in Entry /\ entry[t] = new
      /\ \A u \in Targets \ {t} : entry[u] = marker[d][u]
  BY <1>2 DEF Entry
<1> HIDE DEF entry
<1> QED
  BY <1>2, <1>3, <1>4, <1>5, Types

\* The deploy's end when it stamps target t.
LEMMA StampKeeps ==
  ASSUME IInv, NEW k \in Deploys, NEW failed \in BOOLEAN, NEW t \in Targets,
         dep[k].pc = "clean", RemovesTemps(k, failed),
         marker[dep[k].mat.dom] \in Entry, Stamp(k, dep[k].mat.dom, t),
         dep' \in [Deploys -> Task], \A j \in Deploys \ {k} : dep'[j] = dep[j],
         dep'[k].pc \in {"idle", "next"},
         UNCHANGED <<live, held, late, helper, host, done, excused>>,
         file' \in [Domains -> Entry \cup {NoEntry}],
         UsedOK', Later, UnsavedHeld'
  PROVE  IInv'
<1> DEFINE d == dep[k].mat.dom
<1>1. Active(k) /\ d \in Domains
  BY DEF Active, IInv, TInv, WellFormed, Material
<1>2. /\ marker' \in [Domains -> Entry \cup {NoEntry}]
      /\ newest' \in [Domains -> Targets]
      /\ marker'[d] \in Entry /\ newest'[d] = t
      /\ marker'[d][t].pushed = dep[k].mat.crt /\ marker'[d][t].status = dep[k].result
      /\ \A u \in Targets \ {t} : marker'[d][u] = marker[d][u]
      /\ \A c \in Domains \ {d} : marker'[c] = marker[c] /\ newest'[c] = newest[c]
  BY <1>1, StampEffect DEF IInv
<1>3. ASSUME NEW c \in Domains, NEW u \in Targets, Tells(marker'[c], u)
      PROVE  \/ Told(c, u)
             \/ /\ c = d /\ dep[k].result = "SUCCESS"
                /\ marker'[c][u].pushed = dep[k].mat.crt
  <2>1. CASE c # d
    BY <1>2, <1>3, <2>1 DEF Told
  <2>2. CASE c = d /\ u # t
    BY <1>2, <1>3, <2>2, NamesAssumption DEF Told, Tells
  <2>3. CASE c = d /\ u = t
    BY <1>2, <1>3, <2>3 DEF Tells
  <2> QED
    BY <2>1, <2>2, <2>3
<1>4. ASSUME NEW c \in Domains \ excused', Tells(marker'[c], newest'[c])
      PROVE  \/ c # d /\ newest'[c] = newest[c] /\ Told(c, newest[c])
             \/ /\ c = d /\ dep[k].result = "SUCCESS"
                /\ marker'[c][newest'[c]].pushed = dep[k].mat.crt
  <2>1. CASE c # d
    BY <1>2, <1>4, <2>1 DEF Told
  <2>2. CASE c = d
    BY <1>2, <1>4, <2>2 DEF Tells
  <2> QED
    BY <2>1, <2>2
<1>5. \A c \in Domains : marker[c] \in Entry => marker'[c] \in Entry
  BY <1>2
<1>6. excused \subseteq excused' /\ excused' \subseteq Domains
  BY Types DEF IInv
<1> HIDE DEF d
<1> QED
  BY <1>2, <1>3, <1>4, <1>5, <1>6, FinishKeeps DEF d

LEMMA FinishCommandKeeps ==
  ASSUME IInv, NEW k \in Commands, FinishCommand(k)
  PROVE  IInv'
<1> DEFINE d == dep[k].mat.dom
<1>1. PICK failed \in BOOLEAN, saved \in BOOLEAN :
        /\ RemovesTemps(k, failed) /\ Use(Cost(failed, saved))
        /\ IF marker[d] = NoEntry THEN saved /\ UNCHANGED <<marker, file, newest>>
             ELSE /\ Stamp(k, d, Own)
                  /\ file' = IF saved THEN marker' ELSE file
  BY DEF FinishCommand, Persist
<1>2. /\ dep[k].pc = "clean" /\ dep' = [dep EXCEPT ![k] = Idle]
      /\ UNCHANGED <<live, held, late, helper, host, done, excused>>
  BY DEF FinishCommand
<1>3. k \in Deploys /\ Active(k) /\ d \in Domains
  BY <1>2 DEF Deploys, Active, IInv, TInv, WellFormed, Material
<1>4. /\ dep' \in [Deploys -> Task] /\ \A j \in Deploys \ {k} : dep'[j] = dep[j]
      /\ dep'[k].pc = "idle" /\ ~dep'[k].installed
  BY <1>2, <1>3, Types, Basics DEF IInv, Idle
<1>5. UsedOK' /\ Later /\ (used'.unsaved = 0 => saved)
  BY <1>1, CostType, Types, UseGrows DEF IInv, Later
<1>6. ~dep[k].installed
  BY <1>3, TasksAssumption DEF IInv, UnsavedHeld
<1>7. CASE marker[d] = NoEntry
  <2>1. UNCHANGED <<marker, file, newest>>
    BY <1>1, <1>7
  <2>2. UnsavedHeld'
    BY <1>4, <1>5, <1>6, <2>1 DEF IInv, UnsavedHeld, Saved, Later
  <2>3. \A c \in Domains, t \in Targets : Tells(marker'[c], t) => Told(c, t) /\ c # d
    BY <1>7, <2>1 DEF Tells, Told
  <2>4. \A c \in Domains : newest'[c] \in Targets /\ newest'[c] = newest[c]
    BY <2>1, Types DEF IInv
  <2>5. /\ marker' \in [Domains -> Entry \cup {NoEntry}]
        /\ file' \in [Domains -> Entry \cup {NoEntry}]
        /\ newest' \in [Domains -> Targets] /\ excused' \subseteq Domains
        /\ excused \subseteq excused'
        /\ \A c \in Domains : marker[c] \in Entry => marker'[c] \in Entry
    BY <1>2, <2>1, Types DEF IInv
  <2> QED
    BY <1>1, <1>2, <1>3, <1>4, <1>5, <2>2, <2>3, <2>4, <2>5, FinishKeeps
<1>8. CASE marker[d] # NoEntry
  <2>1. marker[d] \in Entry /\ Own \in Targets
    BY <1>3, <1>8, Types, Basics DEF IInv
  <2>2. Stamp(k, d, Own) /\ file' = IF saved THEN marker' ELSE file
    BY <1>1, <1>8
  <2>3. /\ marker' \in [Domains -> Entry \cup {NoEntry}]
        /\ file' \in [Domains -> Entry \cup {NoEntry}]
    BY <1>3, <2>1, <2>2, StampEffect, Types DEF IInv
  <2>4. UnsavedHeld'
    BY <1>4, <1>5, <2>2 DEF IInv, UnsavedHeld, Saved
  <2> QED
    BY <1>1, <1>2, <1>3, <1>4, <1>5, <2>1, <2>2, <2>3, <2>4, StampKeeps
<1> QED
  BY <1>7, <1>8

LEMMA FinishOneKeeps ==
  ASSUME IInv, NEW k \in Connects, FinishOne(k)
  PROVE  IInv'
<1> DEFINE d == dep[k].mat.dom
           new == [Idle EXCEPT !.pc = "next", !.todo = dep[k].todo,
                     !.installed = Installed(k)]
<1>1. PICK failed \in BOOLEAN : RemovesTemps(k, failed) /\ Use(Failing(failed))
  BY DEF FinishOne
<1>2. /\ dep[k].pc = "clean" /\ dep' = [dep EXCEPT ![k] = new]
      /\ \/ d \in held[k] /\ Stamp(k, d, dep[k].slot) /\ UNCHANGED excused
         \/ d \notin held[k] /\ excused' = excused \cup {d} /\ UNCHANGED <<marker, newest>>
      /\ UNCHANGED <<live, file, held, late, helper, host, done>>
  BY DEF FinishOne
<1>3. /\ k \in Deploys /\ Active(k) /\ d \in Domains /\ dep[k] \in Task
      /\ dep[k].slot \in Targets
  <2>1. k \in Deploys /\ Active(k) /\ d \in Domains /\ dep[k] \in Task
    BY <1>2, Types DEF Deploys, Active, IInv, TInv, WellFormed, Material
  <2> QED
    BY <2>1 DEF Task
<1>4. /\ new \in Task /\ new.pc = "next"
      /\ new.installed <=> (dep[k].installed \/ dep[k].result = "SUCCESS")
  <2>1. Idle \in Task
    BY Basics
  <2> DEFINE i == Installed(k)
  <2>2. /\ dep[k].todo \in SUBSET Domains /\ i \in BOOLEAN
        /\ i <=> (dep[k].installed \/ dep[k].result = "SUCCESS")
    BY <1>3 DEF Task, Installed
  <2> HIDE DEF i
  <2> DEFINE base == [Idle EXCEPT !.pc = "next", !.todo = dep[k].todo]
  <2>3. base \in Task /\ base.pc = "next"
    BY <2>1, <2>2 DEF Task
  <2>4. new = [base EXCEPT !.installed = i]
    BY DEF i
  <2> HIDE DEF base, new
  <2>5. new \in Task /\ new.pc = "next" /\ new.installed = i
    BY <2>2, <2>3, <2>4 DEF Task
  <2> QED
    BY <2>2, <2>5
<1> HIDE DEF new
<1>5. /\ dep' \in [Deploys -> Task] /\ dep'[k] = new
      /\ \A j \in Deploys \ {k} : dep'[j] = dep[j]
  BY <1>2, <1>3, <1>4, Types DEF IInv
<1>6. UsedOK' /\ Later
  BY <1>1, CostTypes, Types, UseGrows DEF IInv, Later
<1>7. file' \in [Domains -> Entry \cup {NoEntry}]
  BY <1>2, Types DEF IInv
<1>8. /\ \A j \in Deploys : dep'[j].installed => j \in Connects
      /\ \A j \in Deploys : dep[j].installed => dep'[j].installed
      /\ dep[k].result = "SUCCESS" => dep'[k].installed
  BY <1>4, <1>5 DEF IInv, UnsavedHeld
<1>9. CASE d \in held[k]
  <2>1. marker[d] \in Entry /\ Stamp(k, d, dep[k].slot) /\ UNCHANGED excused
    BY <1>2, <1>3, <1>9 DEF IInv, TInv, WellFormed
  <2>2. /\ marker'[d][dep[k].slot].status = dep[k].result
        /\ \A u \in Targets \ {dep[k].slot} : marker'[d][u] = marker[d][u]
        /\ \A c \in Domains \ {d} : marker'[c] = marker[c]
    BY <1>3, <2>1, StampEffect DEF IInv
  <2>3. UnsavedHeld'
    <3>1. ASSUME used'.unsaved = 0, NEW c \in Domains, NEW t \in Targets, Tells(marker'[c], t)
          PROVE  (Tells(file'[c], t) /\ file'[c][t] = marker'[c][t])
                   \/ \E j \in Deploys : dep'[j].installed
      <4>1. CASE c = d /\ t = dep[k].slot
        BY <1>3, <1>8, <2>2, <3>1, <4>1 DEF Tells
      <4>2. CASE c # d \/ t # dep[k].slot
        <5>1. Told(c, t)
          BY <2>1, <2>2, <3>1, <4>2, NamesAssumption DEF Told, Tells
        <5> QED
          BY <1>2, <1>6, <1>8, <3>1, <5>1 DEF IInv, UnsavedHeld, Saved, Told, Later
      <4> QED
        BY <4>1, <4>2
    <3> QED
      BY <1>8, <3>1 DEF UnsavedHeld, Saved
  <2> QED
    BY <1>1, <1>2, <1>3, <1>4, <1>5, <1>6, <1>7, <2>1, <2>3, StampKeeps
<1>10. CASE d \notin held[k]
  <2>1. excused' = excused \cup {d} /\ UNCHANGED <<marker, newest>>
    BY <1>2, <1>10
  <2>2. UnsavedHeld'
    BY <1>2, <1>6, <1>8, <2>1 DEF IInv, UnsavedHeld, Saved, Later
  <2>3. \A c \in Domains, t \in Targets : Tells(marker'[c], t) => Told(c, t)
    BY <2>1 DEF Told
  <2>4. /\ marker' \in [Domains -> Entry \cup {NoEntry}]
        /\ newest' \in [Domains -> Targets]
        /\ excused' \subseteq Domains /\ excused \subseteq excused'
        /\ \A c \in Domains : marker[c] \in Entry => marker'[c] \in Entry
    BY <1>3, <2>1, Types DEF IInv
  <2>5. \A c \in Domains \ excused' : Tells(marker'[c], newest'[c]) =>
          c # d /\ newest'[c] = newest[c] /\ Told(c, newest[c])
    BY <2>1, <2>3, <2>4
  <2> QED
    BY <1>1, <1>2, <1>3, <1>4, <1>5, <1>6, <1>7, <2>2, <2>3, <2>4, <2>5, FinishKeeps
<1> QED
  BY <1>9, <1>10

-----------------------------------------------------------------------------
(* The helper.                                                             *)

\* A step of a run of the helper, given what the deploy that waits for it, if one
\* does, can rely on.
LEMMA HelperKeeps ==
  ASSUME IInv, NEW n \in Run, Working(n), NEW new \in HelperRun,
         helper' = [helper EXCEPT ![n] = new],
         new.pc \in {"none", "key", "done", "failed"},
         new.pc = "key" => new.dom = helper[n].dom /\ new.stamp = helper[n].stamp,
         UNCHANGED <<live, marker, file, held, dep, tmp, late, newest, excused, lost>>,
         UsedOK', Later,
         host' \in [Domains -> [Part -> Content \cup {None}]],
         done' \subseteq Material, done \subseteq done',
         \A c \in Domains \ {helper[n].dom} : host'[c] = host[c],
         \A j \in Deploys : used.sameMs = 0 /\ dep[j].pc = "wait" /\ dep[j].run = n =>
           /\ new.pc = "key" => new.took = dep[j].mat.crt
           /\ new.pc = "done" => dep[j].mat \in done',
         \A j \in Deploys : used.sameMs = 0 /\ dep[j].pc = "wait" /\ dep[j].run = n
                            /\ dep[j].mat.dom \notin excused =>
           /\ new.pc = "key" => host'[dep[j].mat.dom]["crt"] = Copy(dep[j].mat, "crt")
           /\ new.pc = "done" => (Has(dep[j].mat))'
  PROVE  IInv'
<1>1. /\ helper' \in [Run -> HelperRun] /\ helper'[n] = new
      /\ \A i \in Run \ {n} : helper'[i] = helper[i]
  BY Types DEF IInv
<1>2. \A i \in Run : (Working(i))' => /\ Working(i)
                                      /\ helper'[i].dom = helper[i].dom
                                      /\ helper'[i].stamp = helper[i].stamp
  BY <1>1 DEF Working
<1>3. \A j \in Deploys : (Active(j))' <=> Active(j)
  BY DEF Active
<1>4. TypeOK'
  BY <1>1, Types DEF IInv, TypeOK, UsedOK, Task, HelperRun
<1>5. WellFormed'
  BY <1>2, <1>3 DEF IInv, TInv, WellFormed
<1>6. NoSecretLeft' /\ UnsavedHeld'
  BY <1>3 DEF IInv, NoSecretLeft, UnsavedHeld, Saved, Later
<1>7. Apart' /\ OwnFiles'
  BY <1>3 DEF IInv, Deployed, Apart, OwnFiles, Later
<1>8. MarkerTold'
  BY DEF IInv, Deployed, MarkerTold, Later
<1>9. Alone'
  <2>1. ASSUME NEW j \in Deploys, AloneAt(j) PROVE (AloneAt(j))'
    BY <1>2, <1>3, <2>1 DEF AloneAt
  <2> QED
    BY <1>3, <2>1 DEF IInv, OnHost, Alone
<1>10. AtRest'
  <2>1. ASSUME NEW c \in Domains, AtRestAt(c) PROVE (AtRestAt(c))'
    <3>1. host'[c] = host[c]
      BY <2>1 DEF AtRestAt
    <3> QED
      BY <1>2, <2>1, <3>1 DEF AtRestAt, Has
  <2> QED
    BY <1>3, <2>1 DEF IInv, OnHost, AtRest, Later
<1>11. OwnRun'
  <2>1. ASSUME used.sameMs = 0, NEW j \in Deploys, OwnRunAt(j) PROVE (OwnRunAt(j))'
    <3>1. CASE dep[j].pc = "wait" /\ dep[j].run = n
      <4>1. new.pc = "key" => new.dom = dep[j].mat.dom /\ new.stamp = dep[j].stamp
        BY <2>1, <3>1 DEF OwnRunAt, Working
      <4> QED
        BY <1>1, <2>1, <3>1, <4>1 DEF OwnRunAt
    <3>2. CASE dep[j].pc = "wait" /\ dep[j].run # n
      <4>1. dep[j].run \in Run
        BY <3>2 DEF IInv, TInv, WellFormed, Active
      <4>2. helper'[dep[j].run] = helper[dep[j].run]
        BY <1>1, <3>2, <4>1
      <4> QED
        BY <2>1, <3>2, <4>2 DEF OwnRunAt
    <3>3. CASE dep[j].pc # "wait"
      BY <2>1, <3>3 DEF OwnRunAt
    <3> QED
      BY <3>1, <3>2, <3>3
  <2> QED
    BY <2>1 DEF IInv, Deployed, OwnRun, Later
<1>12. InPlace'
  <2>1. ASSUME used.sameMs = 0, NEW j \in Deploys, Active(j), dep[j].mat.dom \notin excused
        PROVE  (InPlaceAt(j))'
    <3>1. InPlaceAt(j) /\ AloneAt(j) /\ dep[j].run \in Run /\ dep[j].mat.dom \in Domains
      BY <2>1 DEF IInv, OnHost, InPlace, Alone, TInv, WellFormed, Material
    <3>2. CASE dep[j].pc = "wait" /\ dep[j].run = n
      BY <1>1, <2>1, <3>2 DEF InPlaceAt, Has
    <3>3. CASE dep[j].pc = "wait" /\ dep[j].run # n
      <4>1. helper'[dep[j].run] = helper[dep[j].run]
        BY <1>1, <3>1, <3>3
      <4>2. host'[dep[j].mat.dom] = host[dep[j].mat.dom]
        BY <3>1, <3>3 DEF AloneAt
      <4> QED
        BY <3>1, <3>3, <4>1, <4>2 DEF InPlaceAt, Has
    <3>4. CASE dep[j].pc = "clean" /\ dep[j].result = "SUCCESS"
      <4>1. host'[dep[j].mat.dom] = host[dep[j].mat.dom]
        BY <3>1, <3>4 DEF AloneAt
      <4> QED
        BY <3>1, <3>4, <4>1 DEF InPlaceAt, Has
    <3>5. CASE dep[j].pc # "wait" /\ ~(dep[j].pc = "clean" /\ dep[j].result = "SUCCESS")
      BY <3>5 DEF InPlaceAt
    <3> QED
      BY <3>2, <3>3, <3>4, <3>5
  <2> QED
    BY <1>3, <2>1 DEF InPlace, Later
<1> QED
  BY <1>4, <1>5, <1>6, <1>7, <1>8, <1>9, <1>10, <1>11, <1>12
     DEF IInv, TInv, Deployed, OnHost

\* What a run of the helper leaves of itself when it ends.
LEMMA HelperEndsEffect ==
  ASSUME TInv, NEW n \in Run, Working(n), NEW how \in {"done", "failed"},
         HelperEnds(n, how)
  PROVE  \E new \in HelperRun :
           /\ helper' = [helper EXCEPT ![n] = new]
           /\ new.pc \in {how, "none"}
<1>1. helper[n] \in HelperRun
  BY Types
<1>2. [helper[n] EXCEPT !.pc = how] \in HelperRun /\ NoRun \in HelperRun
  BY <1>1, Basics DEF HelperRun
<1>3. [helper[n] EXCEPT !.pc = how].pc = how /\ NoRun.pc = "none"
  BY <1>1 DEF HelperRun, NoRun
<1>4. \/ helper' = [helper EXCEPT ![n] = [helper[n] EXCEPT !.pc = how]]
      \/ helper' = [helper EXCEPT ![n] = NoRun]
  BY DEF HelperEnds, HelperGoes
<1> QED
  BY <1>2, <1>3, <1>4

LEMMA HelperFailsKeeps ==
  ASSUME IInv, NEW n \in Run, Working(n), HelperEnds(n, "failed"),
         UNCHANGED <<live, marker, file, held, dep, tmp, late, host, done, newest, excused, lost>>,
         UsedOK', Later
  PROVE  IInv'
<1>1. PICK new \in HelperRun : /\ helper' = [helper EXCEPT ![n] = new]
                              /\ new.pc \in {"failed", "none"}
  BY HelperEndsEffect DEF IInv
<1>2. /\ host' \in [Domains -> [Part -> Content \cup {None}]]
      /\ done' \subseteq Material
  BY Types DEF IInv
<1> QED
  BY <1>1, <1>2, HelperKeeps

\* What a waiting deploy knows of the run it waits for, and of its files.
LEMMA WaitsFor ==
  ASSUME IInv, used.sameMs = 0, NEW j \in Deploys, dep[j].pc = "wait",
         Working(dep[j].run)
  PROVE  LET h == helper[dep[j].run]
             m == dep[j].mat
         IN  /\ m \in Material /\ h.dom = m.dom
             /\ \A p \in Part : tmp[h.stamp][p] \in {None, Copy(m, p)}
             /\ h.pc = "key" => h.took = m.crt
             /\ h.pc = "key" /\ m.dom \notin excused =>
                  host[m.dom]["crt"] = Copy(m, "crt")
<1>1. Active(j) /\ OwnRunAt(j)
  BY DEF Active, IInv, Deployed, OwnRun
<1>2. dep[j].mat \in Material
  BY <1>1 DEF IInv, TInv, WellFormed
<1>3. /\ helper[dep[j].run].dom = dep[j].mat.dom
      /\ helper[dep[j].run].stamp = dep[j].stamp
      /\ helper[dep[j].run].pc = "key" => helper[dep[j].run].took = dep[j].mat.crt
  BY <1>1 DEF OwnRunAt, Working
<1>4. \A p \in Part : tmp[dep[j].stamp][p] \in {None, Copy(dep[j].mat, p)}
  BY <1>1 DEF IInv, Deployed, OwnFiles
<1>5. dep[j].mat.dom \notin excused => InPlaceAt(j)
  BY <1>1 DEF IInv, OnHost, InPlace
<1> QED
  BY <1>2, <1>3, <1>4, <1>5 DEF InPlaceAt

LEMMA HelperInstallsCrtKeeps ==
  ASSUME IInv, NEW n \in Run, HelperInstallsCrt(n)
  PROVE  IInv'
<1> DEFINE run == helper[n]
           content == tmp[run.stamp]["crt"]
<1>1. /\ run.pc = "crt" /\ Working(n)
      /\ UNCHANGED <<live, marker, file, held, dep, tmp, late, done, newest, excused, lost, used>>
  BY DEF HelperInstallsCrt, ledger, record, Working
<1>2. UsedOK' /\ Later
  BY <1>1, Types DEF IInv, UsedOK, Later
<1>3. CASE \E p \in Part : tmp[run.stamp][p] = None
  <2>1. HelperEnds(n, "failed") /\ UNCHANGED host
    BY <1>3 DEF HelperInstallsCrt
  <2> QED
    BY <1>1, <1>2, <2>1, HelperFailsKeeps
<1>4. CASE ~ \E p \in Part : tmp[run.stamp][p] = None
  <2> DEFINE new == [run EXCEPT !.pc = "key", !.took = content.ver]
  <2>1. /\ host' = [host EXCEPT ![run.dom]["crt"] = content]
        /\ helper' = [helper EXCEPT ![n] = new]
    BY <1>4 DEF HelperInstallsCrt, HelperGoes
  <2>2. run \in HelperRun /\ run.stamp \in Run /\ run.dom \in Domains
    BY <1>1, Types DEF IInv, TInv, WellFormed
  <2>3. "crt" \in Part /\ "key" \in Part
    BY DEF Part
  <2>4. content \in Content /\ content.ver \in Version
    <3>1. content \in Content \cup {None} /\ content # None
      BY <1>4, <2>2, <2>3, Types DEF IInv
    <3> QED
      BY <3>1 DEF Content
  <2>5. /\ new \in HelperRun /\ new.pc = "key" /\ new.dom = run.dom
        /\ new.stamp = run.stamp /\ new.took = content.ver
    BY <2>2, <2>4 DEF HelperRun
  <2> HIDE DEF new
  <2>6. host[run.dom] \in [Part -> Content \cup {None}]
    BY <2>2, Types DEF IInv
  <2>7. [host[run.dom] EXCEPT !["crt"] = content] \in [Part -> Content \cup {None}]
    BY <2>4, <2>6
  <2>8. /\ host' \in [Domains -> [Part -> Content \cup {None}]]
        /\ host'[run.dom]["crt"] = content
        /\ \A c \in Domains \ {run.dom} : host'[c] = host[c]
    BY <2>1, <2>2, <2>3, <2>6, <2>7, Types DEF IInv
  <2>9. ASSUME NEW j \in Deploys, used.sameMs = 0, dep[j].pc = "wait", dep[j].run = n
        PROVE  /\ new.took = dep[j].mat.crt
               /\ host'[dep[j].mat.dom]["crt"] = Copy(dep[j].mat, "crt")
    <3>1. run.dom = dep[j].mat.dom /\ content \in {None, Copy(dep[j].mat, "crt")}
      BY <1>1, <2>3, <2>9, WaitsFor
    <3>2. content = Copy(dep[j].mat, "crt")
      BY <1>4, <2>3, <3>1
    <3> QED
      BY <2>5, <2>8, <3>1, <3>2 DEF Copy
  <2>10. done' \subseteq Material /\ done \subseteq done'
    BY <1>1, Types DEF IInv
  <2>11. /\ new.pc \in {"none", "key", "done", "failed"}
         /\ new.pc = "key" => new.dom = helper[n].dom /\ new.stamp = helper[n].stamp
    BY <2>5
  <2>12. \A j \in Deploys : used.sameMs = 0 /\ dep[j].pc = "wait" /\ dep[j].run = n =>
           /\ new.pc = "key" => new.took = dep[j].mat.crt
           /\ new.pc = "done" => dep[j].mat \in done'
    BY <2>5, <2>9
  <2>13. \A j \in Deploys : used.sameMs = 0 /\ dep[j].pc = "wait" /\ dep[j].run = n
                            /\ dep[j].mat.dom \notin excused =>
           /\ new.pc = "key" => host'[dep[j].mat.dom]["crt"] = Copy(dep[j].mat, "crt")
           /\ new.pc = "done" => (Has(dep[j].mat))'
    BY <2>5, <2>9
  <2>14. \A c \in Domains \ {helper[n].dom} : host'[c] = host[c]
    BY <2>8
  <2>15. new \in HelperRun /\ helper' = [helper EXCEPT ![n] = new]
    BY <2>1, <2>5
  <2> HIDE DEF run, content
  <2> QED
    BY <1>1, <1>2, <2>8, <2>10, <2>11, <2>12, <2>13, <2>14, <2>15, HelperKeeps
<1> QED
  BY <1>3, <1>4

LEMMA HelperInstallsKeyKeeps ==
  ASSUME IInv, NEW n \in Run, HelperInstallsKey(n)
  PROVE  IInv'
<1> DEFINE run == helper[n]
           content == tmp[run.stamp]["key"]
           made == [dom |-> run.dom, crt |-> run.took, key |-> content.ver]
<1>1. /\ run.pc = "key" /\ Working(n)
      /\ UNCHANGED <<live, marker, file, held, dep, tmp, late, newest, excused, lost, used>>
  BY DEF HelperInstallsKey, ledger, record, Working
<1>2. UsedOK' /\ Later
  BY <1>1, Types DEF IInv, UsedOK, Later
<1>3. CASE content = None
  <2>1. HelperEnds(n, "failed") /\ UNCHANGED <<host, done>>
    BY <1>3 DEF HelperInstallsKey
  <2> QED
    BY <1>1, <1>2, <2>1, HelperFailsKeeps
<1>4. CASE content # None
  <2>1. /\ host' = [host EXCEPT ![run.dom]["key"] = content]
        /\ HelperEnds(n, "done") /\ done' = done \cup {made}
    BY <1>4 DEF HelperInstallsKey
  <2>2. run \in HelperRun /\ run.stamp \in Run /\ run.dom \in Domains /\ run.took \in Version
    BY <1>1, Types DEF IInv, TInv, WellFormed, HelperRun
  <2>3. "crt" \in Part /\ "key" \in Part
    BY DEF Part
  <2>4. content \in Content /\ content.ver \in Version
    <3>1. content \in Content \cup {None}
      BY <2>2, <2>3, Types DEF IInv
    <3> QED
      BY <1>4, <3>1 DEF Content
  <2>5. PICK new \in HelperRun : /\ helper' = [helper EXCEPT ![n] = new]
                                /\ new.pc \in {"done", "none"}
    BY <1>1, <2>1, HelperEndsEffect DEF IInv
  <2>6. host[run.dom] \in [Part -> Content \cup {None}]
    BY <2>2, Types DEF IInv
  <2>7. [host[run.dom] EXCEPT !["key"] = content] \in [Part -> Content \cup {None}]
    BY <2>4, <2>6
  <2>8. /\ host' \in [Domains -> [Part -> Content \cup {None}]]
        /\ host'[run.dom]["key"] = content
        /\ host'[run.dom]["crt"] = host[run.dom]["crt"]
        /\ \A c \in Domains \ {run.dom} : host'[c] = host[c]
    BY <2>1, <2>2, <2>3, <2>6, <2>7, Types DEF IInv
  <2>9. made \in Material
    BY <2>2, <2>4 DEF Material
  <2>10. ASSUME NEW j \in Deploys, used.sameMs = 0, dep[j].pc = "wait", dep[j].run = n
         PROVE  /\ dep[j].mat \in done'
                /\ dep[j].mat.dom \notin excused => (Has(dep[j].mat))'
    <3>1. /\ dep[j].mat \in Material /\ run.dom = dep[j].mat.dom
          /\ content \in {None, Copy(dep[j].mat, "key")} /\ run.took = dep[j].mat.crt
          /\ dep[j].mat.dom \notin excused => host[run.dom]["crt"] = Copy(dep[j].mat, "crt")
      BY <1>1, <2>3, <2>10, WaitsFor
    <3>2. content = Copy(dep[j].mat, "key")
      BY <1>4, <3>1
    <3>3. made = dep[j].mat
      BY <3>1, <3>2 DEF Copy, Material
    <3>4. dep[j].mat.dom \notin excused => (Has(dep[j].mat))'
      BY <1>1, <2>8, <3>1, <3>2 DEF Has, Part
    <3> QED
      BY <2>1, <3>3, <3>4
  <2>11. done' \subseteq Material /\ done \subseteq done'
    BY <2>1, <2>9, Types DEF IInv
  <2> HIDE DEF run, content, made
  <2> QED
    BY <1>1, <1>2, <2>5, <2>8, <2>10, <2>11, HelperKeeps DEF run
<1> QED
  BY <1>3, <1>4

\* A write that nobody waits for, and a removal, touch no file of which a deploy
\* in progress expects anything else.
LEMMA FilesChange ==
  ASSUME IInv, UNCHANGED <<live, marker, file, held, dep, helper, host, done, newest, excused, used>>,
         tmp' \in [Run -> [Part -> Content \cup {None}]], late' \subseteq late,
         lost' \subseteq Run, NoSecretLeft',
         \A s \in Run, p \in Part :
           \/ tmp'[s][p] \in {None, tmp[s][p]}
           \/ \E w \in late : w.stamp = s /\ w.part = p /\ tmp'[s][p] = w.what
  PROVE  IInv'
<1>1. /\ \A k \in Deploys : (Active(k))' <=> Active(k)
      /\ \A n \in Run : (Working(n))' <=> Working(n)
  BY DEF Active, Working
<1>2. TypeOK'
  BY Types DEF IInv, TypeOK, UsedOK, Task, HelperRun
<1>3. WellFormed' /\ UnsavedHeld'
  BY <1>1 DEF IInv, TInv, WellFormed, UnsavedHeld, Saved
<1>4. Apart' /\ OwnRun' /\ MarkerTold'
  BY <1>1 DEF IInv, Deployed, Apart, OwnRun, OwnRunAt, MarkerTold
<1>5. OwnFiles'
  <2>1. ASSUME used.sameMs = 0, NEW k \in Deploys, NEW p \in Part, Active(k)
        PROVE  /\ tmp'[dep[k].stamp][p] \in {None, Copy(dep[k].mat, p)}
               /\ \A w \in late' : w.stamp = dep[k].stamp /\ w.part = p
                                   => w.what = Copy(dep[k].mat, p)
    <3>1. /\ tmp[dep[k].stamp][p] \in {None, Copy(dep[k].mat, p)}
          /\ \A w \in late : w.stamp = dep[k].stamp /\ w.part = p
                             => w.what = Copy(dep[k].mat, p)
          /\ dep[k].stamp \in Run
      BY <2>1 DEF IInv, Deployed, OwnFiles, TInv, WellFormed
    <3> QED
      BY <3>1
  <2> QED
    BY <1>1, <2>1 DEF OwnFiles
<1>6. Alone' /\ InPlace' /\ AtRest'
  BY <1>1 DEF IInv, OnHost, Alone, AloneAt, InPlace, InPlaceAt, AtRest, AtRestAt, Has
<1> QED
  BY <1>2, <1>3, <1>4, <1>5, <1>6 DEF IInv, TInv, Deployed, OnHost

LEMMA LateWriteKeeps ==
  ASSUME IInv, NEW w \in late, LateWrite(w)
  PROVE  IInv'
<1>1. /\ late' = late \ {w}
      /\ tmp' = IF w.stamp \in InUse(Deploys)
                THEN [tmp EXCEPT ![w.stamp][w.part] = w.what] ELSE tmp
      /\ lost' = IF \E k \in Deploys : Active(k) /\ dep[k].stamp = w.stamp
                 THEN lost ELSE lost \cup ({w.stamp} \cap InUse(Deploys))
      /\ UNCHANGED <<live, marker, file, held, dep, helper, host, done, newest, excused, used>>
  BY DEF LateWrite, ledger, record
<1>2. w.stamp \in Run /\ w.part \in Part /\ w.what \in Content
  BY Types DEF IInv, Write
<1>3. /\ tmp \in [Run -> [Part -> Content \cup {None}]] /\ lost \subseteq Run
  BY Types DEF IInv
<1>4. [tmp[w.stamp] EXCEPT ![w.part] = w.what] \in [Part -> Content \cup {None}]
  BY <1>2, <1>3
<1>5. tmp' \in [Run -> [Part -> Content \cup {None}]] /\ lost' \subseteq Run
  BY <1>1, <1>2, <1>3, <1>4
<1>6. \A s \in Run, p \in Part :
        \/ tmp'[s][p] \in {None, tmp[s][p]}
        \/ w.stamp = s /\ w.part = p /\ tmp'[s][p] = w.what
  BY <1>1, <1>2, <1>3
<1>7. NoSecretLeft'
  <2>1. ASSUME NEW s \in Run \ lost', tmp'[s] # NoFiles
        PROVE  \E k \in Deploys : Active(k) /\ dep[k].stamp = s
    <3>1. CASE tmp'[s] = tmp[s]
      <4>1. s \notin lost
        BY <1>1, <2>1
      <4> QED
        BY <2>1, <3>1, <4>1 DEF IInv, NoSecretLeft
    <3>2. CASE tmp'[s] # tmp[s]
      <4>1. s = w.stamp /\ w.stamp \in InUse(Deploys)
        BY <1>1, <1>2, <1>3, <3>2
      <4> QED
        BY <1>1, <2>1, <4>1
    <3> QED
      BY <3>1, <3>2
  <2> QED
    BY <1>1, <2>1 DEF NoSecretLeft, Active, NoFiles
<1> QED
  BY <1>1, <1>5, <1>6, <1>7, FilesChange

LEMMA LateRemovalKeeps ==
  ASSUME IInv, NEW s \in lost, LateRemoval(s)
  PROVE  IInv'
<1>1. /\ lost' = lost \ {s} /\ tmp' = [tmp EXCEPT ![s] = NoFiles] /\ late' = late
      /\ UNCHANGED <<live, marker, file, held, dep, helper, host, done, newest, excused, used>>
  BY DEF LateRemoval, ledger, record
<1>2. /\ tmp \in [Run -> [Part -> Content \cup {None}]] /\ lost \subseteq Run
      /\ NoFiles \in [Part -> Content \cup {None}] /\ \A p \in Part : NoFiles[p] = None
  BY Types, Basics DEF IInv, NoFiles
<1>3. /\ tmp' \in [Run -> [Part -> Content \cup {None}]] /\ lost' \subseteq Run
      /\ tmp'[s] = NoFiles /\ \A i \in Run \ {s} : tmp'[i] = tmp[i]
  BY <1>1, <1>2
<1>4. \A i \in Run, p \in Part : tmp'[i][p] \in {None, tmp[i][p]}
  BY <1>2, <1>3
<1>5. NoSecretLeft'
  <2>1. ASSUME NEW i \in Run \ lost', tmp'[i] # NoFiles
        PROVE  \E k \in Deploys : Active(k) /\ dep[k].stamp = i
    <3>1. i \in Run \ lost /\ tmp[i] # NoFiles
      BY <1>1, <1>3, <2>1
    <3> QED
      BY <3>1 DEF IInv, NoSecretLeft
  <2> QED
    BY <1>1, <2>1 DEF NoSecretLeft, Active, NoFiles
<1> QED
  BY <1>1, <1>3, <1>4, <1>5, FilesChange

LEMMA HostKeeps == ASSUME IInv, Host PROVE IInv'
<1>1. ASSUME NEW n \in Run, HelperFails(n) PROVE IInv'
  <2>1. /\ Working(n) /\ HelperEnds(n, "failed")
        /\ UNCHANGED <<live, marker, file, held, dep, tmp, late, host, done, newest, excused, lost>>
    BY <1>1 DEF HelperFails, ledger, record
  <2>2. UsedOK' /\ Later
    BY <1>1, CostTypes, Types, UseGrows DEF IInv, HelperFails, Later
  <2> QED
    BY <2>1, <2>2, HelperFailsKeeps
<1> QED
  BY <1>1, HelperInstallsCrtKeeps, HelperInstallsKeyKeeps, LateWriteKeeps, LateRemovalKeeps
     DEF Host

-----------------------------------------------------------------------------
(* All steps.                                                              *)

\* The ledger file is no better informed than memory: its successes were installed.
FileTold ==
  used.sameMs = 0 => \A d \in Domains, t \in Targets :
    Tells(file[d], t) => \E m \in done : m.dom = d /\ m.crt = file[d][t].pushed

LEMMA RestartKeeps ==
  ASSUME IInv, FileTold, Restart
  PROVE  IInv'
<1>1. /\ marker' = file /\ dep' = [k \in Deploys |-> Idle]
      /\ held' = [k \in Deploys |-> {}]
      /\ LeaveFiles({k \in Deploys : Active(k)})
      /\ excused' = excused \cup {dep[k].mat.dom : k \in {j \in Deploys : Active(j)}}
                            \cup {d \in Domains : marker[d] # file[d]}
      /\ helper' = StillWorking
      /\ UNCHANGED <<live, file, late, host, done, newest>>
  BY DEF Restart
<1>2. UsedOK' /\ Later
  <2>1. [Free EXCEPT !.restarts = 1] \in Costs
    BY CostTypes, KindsAre DEF Costs
  <2> QED
    BY <2>1, Types, UseGrows DEF IInv, Restart, Later
<1>3. /\ \A k \in Deploys : ~(Active(k))' /\ dep'[k] = Idle
      /\ Idle.pc = "idle" /\ ~Idle.installed
  BY <1>1 DEF Active, Idle
<1>4. \A n \in Run : /\ (Working(n))' => Working(n) /\ helper'[n] = helper[n]
                     /\ helper'[n] \in HelperRun
  BY <1>1, Types, Basics DEF IInv, StillWorking, Working, NoRun
<1>5. \A k \in Deploys : Active(k) => dep[k].stamp \in Run /\ dep[k].mat.dom \in Domains
  BY DEF IInv, TInv, WellFormed, Material
<1> DEFINE active == {k \in Deploys : Active(k)}
           left == {dep[k].stamp : k \in active}
           inUse == InUse(Deploys \ active)
<1>6. /\ lost' = lost \cup (left \cap inUse)
      /\ tmp' = [s \in Run |-> IF s \in left \ inUse THEN NoFiles ELSE tmp[s]]
  BY <1>1 DEF LeaveFiles
<1>7. left \subseteq Run
  BY <1>5
<1>8. /\ tmp' \in [Run -> [Part -> Content \cup {None}]]
      /\ lost' \subseteq Run /\ lost \subseteq lost'
  <2> HIDE DEF left, inUse
  <2> QED
    BY <1>6, <1>7, Types, Basics DEF IInv
<1>9. excused' \subseteq Domains
  BY <1>1, <1>5, Types DEF IInv
<1>10. helper' \in [Run -> HelperRun]
  BY <1>1, <1>4 DEF StillWorking
<1>11. dep' \in [Deploys -> Task] /\ held' \in [Deploys -> SUBSET Domains]
  BY <1>1, Basics
<1>12. TypeOK'
  BY <1>1, <1>2, <1>8, <1>9, <1>10, <1>11, Types
     DEF IInv, TypeOK, UsedOK, Task, HelperRun
<1>13. WellFormed'
  <2>1. \A k \in Deploys : held'[k] = {}
    BY <1>1
  <2> QED
    BY <1>3, <1>4, <2>1 DEF IInv, TInv, WellFormed
<1>14. NoSecretLeft'
  <2>1. ASSUME NEW s \in Run \ lost', tmp'[s] # NoFiles PROVE FALSE
    <3>1. tmp[s] # NoFiles /\ s \notin lost /\ s \notin left \ inUse
      BY <1>6, <1>8, <2>1
    <3>2. PICK k \in Deploys : Active(k) /\ dep[k].stamp = s
      BY <3>1 DEF IInv, NoSecretLeft
    <3>3. s \in left
      BY <3>2
    <3> HIDE DEF left, inUse
    <3> QED
      BY <1>6, <2>1, <3>1, <3>3
  <2> QED
    BY <2>1 DEF NoSecretLeft, NoFiles
<1>15. UnsavedHeld'
  BY <1>1, <1>3 DEF UnsavedHeld, Saved
<1>16. Apart' /\ OwnFiles' /\ Alone' /\ InPlace'
  BY <1>3 DEF Apart, OwnFiles, Alone, InPlace
<1>17. OwnRun'
  BY <1>3 DEF OwnRun, OwnRunAt
<1>18. MarkerTold'
  BY <1>1, <1>2 DEF FileTold, MarkerTold, Later
<1>19. AtRest'
  <2>1. ASSUME used.sameMs = 0, NEW d \in Domains \ excused', Tells(marker'[d], newest'[d])
        PROVE  (AtRestAt(d))'
    <3>1. /\ marker'[d] = marker[d] /\ d \notin excused
          /\ \A k \in Deploys : Active(k) => dep[k].mat.dom # d
      BY <1>1, <2>1
    <3>2. AtRestAt(d)
      BY <1>1, <2>1, <3>1 DEF IInv, OnHost, AtRest
    <3> QED
      BY <1>1, <1>4, <3>1, <3>2 DEF AtRestAt, Has
  <2> QED
    BY <1>2, <2>1 DEF AtRest, Later
<1> QED
  BY <1>12, <1>13, <1>14, <1>15, <1>16, <1>17, <1>18, <1>19
     DEF IInv, TInv, Deployed, OnHost

LEMMA CommandKeeps ==
  ASSUME IInv, NEW k \in Commands, NEW m \in Material, Command(k, m)
  PROVE  IInv'
<1>1. k \in Deploys /\ dep[k] = Idle /\ Begin(k, m, Idle) /\ UNCHANGED held
  BY DEF Command, Deploys
<1>2. ~Active(k)
  BY <1>1 DEF Active, Idle
<1> QED
  BY <1>1, <1>2, Basics, BeginKeeps

LEMMA VisitKeeps ==
  ASSUME IInv, NEW k \in Connects, NEW d \in Domains, Visit(k, d)
  PROVE  IInv'
<1> DEFINE task == [dep[k] EXCEPT !.todo = @ \ {d}]
<1>1. k \in Deploys /\ dep[k].pc = "next" /\ ~Active(k)
  BY DEF Visit, Active, Deploys
<1>2. CASE \E skipped \in BOOLEAN :
             /\ Use(Failing(skipped)) /\ dep' = [dep EXCEPT ![k] = task]
             /\ UNCHANGED <<live, ledger, agent, record, lost>>
  BY <1>1, <1>2, SkipAside, AsideKeeps DEF IInv, record
<1>3. CASE \E t \in Targets, m \in Material :
             Begin(k, m, [task EXCEPT !.slot = t]) /\ UNCHANGED held
  <2>1. dep[k] \in Task
    BY <1>1, Types DEF IInv
  <2>2. PICK t \in Targets, m \in Material :
          Begin(k, m, [task EXCEPT !.slot = t]) /\ UNCHANGED held
    BY <1>3
  <2> DEFINE new == [task EXCEPT !.slot = t]
  <2>3. new \in Task /\ new.installed = dep[k].installed /\ Begin(k, m, new)
    BY <2>1, <2>2 DEF Task
  <2> HIDE DEF new
  <2> QED
    BY <1>1, <2>2, <2>3, BeginKeeps
<1> QED
  BY <1>2, <1>3 DEF Visit

LEMMA WorldKeeps == ASSUME IInv, World PROVE IInv'
BY SwitchAside, LedgerAside, AsideKeeps DEF World, IInv

LEMMA SpokeKeeps == ASSUME IInv, Spoke PROVE IInv'
<1>1. ASSUME NEW k \in Deploys, Deploying(k) PROVE IInv'
  BY <1>1, WriteFileKeeps, StartHelperKeeps, AnswerKeeps, GiveUpKeeps DEF Deploying
<1>2. ASSUME NEW k \in Commands, OnCommand(k) PROVE IInv'
  BY <1>2, CommandKeeps, FinishCommandKeeps DEF OnCommand
<1>3. ASSUME NEW k \in Connects, OnConnect(k) PROVE IInv'
  <2>1. Connect(k) \/ EndConnect(k) => IInv'
    BY ConnectAside, EndConnectAside, AsideKeeps DEF IInv, Deploys
  <2> QED
    BY <1>3, <2>1, VisitKeeps, FinishOneKeeps DEF OnConnect
<1> QED
  BY <1>1, <1>2, <1>3 DEF Spoke

\* The file is written from memory only, and what was installed stays so.
LEMMA FileWrites ==
  ASSUME IInv, [Next]_vars
  PROVE  /\ \A d \in Domains : file'[d] \in {file[d], marker[d], marker'[d]}
         /\ done \subseteq done'
<1>1. ASSUME World
      PROVE  (file' = file \/ file' = marker') /\ done' = done
  BY <1>1 DEF World, CertbotSwitches, AddTarget, RemoveTarget, Reissue, Revoke, Edit,
     ledger, record, agent
<1>2. ASSUME Spoke
      PROVE  (file' = file \/ file' = marker \/ file' = marker') /\ done' = done
  <2>1. ASSUME NEW k \in Deploys, NEW m \in Material, NEW task, Begin(k, m, task)
        PROVE  file' = file /\ done' = done
    BY <2>1 DEF Begin, agent
  <2>2. ASSUME NEW k \in Deploys, Deploying(k) PROVE file' = file /\ done' = done
    BY <2>2 DEF Deploying, WriteFile, StartHelper, Answer, GiveUp, ledger
  <2>3. ASSUME NEW k \in Commands, OnCommand(k)
        PROVE  (file' = file \/ file' = marker') /\ done' = done
    <3>1. ASSUME NEW m \in Material, Command(k, m) PROVE file' = file /\ done' = done
      BY <2>1, <3>1 DEF Command, Deploys
    <3>2. CASE FinishCommand(k)
      BY <3>2 DEF FinishCommand, Persist
    <3> QED
      BY <2>3, <3>1, <3>2 DEF OnCommand
  <2>4. ASSUME NEW k \in Connects, OnConnect(k)
        PROVE  (file' = file \/ file' = marker) /\ done' = done
    <3>1. ASSUME NEW d \in Domains, Visit(k, d) PROVE file' = file /\ done' = done
      BY <2>1, <3>1 DEF Visit, Deploys, ledger, agent
    <3>2. CASE Connect(k) \/ FinishOne(k) \/ EndConnect(k)
      BY <3>2 DEF Connect, FinishOne, EndConnect, agent
    <3> QED
      BY <2>4, <3>1, <3>2 DEF OnConnect
  <2> QED
    BY <1>2, <2>2, <2>3, <2>4 DEF Spoke
<1>3. ASSUME Host PROVE file' = file /\ done \subseteq done'
  BY <1>3 DEF Host, HelperInstallsCrt, HelperInstallsKey, HelperFails, LateWrite, LateRemoval,
     ledger
<1>4. ASSUME Restart PROVE file' = file /\ done' = done
  BY <1>4 DEF Restart
<1> QED
  BY <1>1, <1>2, <1>3, <1>4 DEF Next, vars, ledger, record, agent

LEMMA StutterKeeps == ASSUME IInv, UNCHANGED vars PROVE IInv'
<1>1. Aside
  BY DEF vars, ledger, record, Aside, SameTask, Later, Told
<1>2. TInv' /\ UnsavedHeld'
  BY <1>1, Types, AsideType
     DEF IInv, vars, ledger, agent, UnsavedHeld, Saved, UsedOK, TInv, WellFormed
<1> QED
  BY <1>1, <1>2, AsideKeeps

LEMMA InvNext == IInv /\ FileTold /\ [Next]_vars => (IInv /\ FileTold)'
<1> SUFFICES ASSUME IInv, FileTold, [Next]_vars PROVE (IInv /\ FileTold)'
  OBVIOUS
<1>1. IInv'
  BY WorldKeeps, RestartKeeps, SpokeKeeps, HostKeeps, StutterKeeps DEF Next
<1>2. used'.sameMs = 0 => used.sameMs = 0
  <2>1. ASSUME NEW cost \in Costs, Use(cost) PROVE Later
    BY <2>1, Types, UseGrows DEF IInv, Later
  <2>2. UNCHANGED used => Later
    BY DEF Later
  <2>3. ASSUME NEW kind \in Kinds PROVE [Free EXCEPT ![kind] = 1] \in Costs
    BY CostTypes DEF Costs
  <2>4. World => Later
    BY <2>1, <2>2, <2>3, KindsAre DEF World, CertbotSwitches, AddTarget, RemoveTarget, Reissue,
       Revoke, Edit
  <2>5. Restart => Later
    BY <2>1, <2>3, KindsAre DEF Restart
  <2>6. Host => Later
    BY <2>1, <2>2, CostTypes DEF Host, HelperInstallsCrt, HelperInstallsKey, HelperFails,
       LateWrite, LateRemoval
  <2>7. Spoke => Later
    <3>1. ASSUME NEW k \in Deploys, NEW m \in Material, NEW task, Begin(k, m, task)
          PROVE  Later
      <4> DEFINE cost(s) == [Failing(m.key = 0) EXCEPT !.sameMs = IF SameMs(s) THEN 1 ELSE 0,
                                    !.tasks = IF k \in Commands THEN 1 ELSE 0]
      <4>1. PICK s : Use(cost(s))
        BY <3>1 DEF Begin
      <4>2. cost(s) \in Costs
        BY CostTypes, KindsAre DEF Costs
      <4> QED
        BY <2>1, <4>1, <4>2
    <3>2. ASSUME NEW k \in Deploys, Deploying(k) PROVE Later
      BY <2>1, <2>2, <3>2, CostTypes DEF Deploying, WriteFile, StartHelper, Answer, GiveUp
    <3>3. ASSUME NEW k \in Commands, OnCommand(k) PROVE Later
      BY <2>1, <3>1, <3>3, CostType DEF OnCommand, Command, FinishCommand, Deploys
    <3>4. ASSUME NEW k \in Connects, OnConnect(k) PROVE Later
      BY <2>1, <2>3, <3>1, <3>4, CostTypes, CostType, KindsAre
         DEF OnConnect, Connect, Visit, FinishOne, EndConnect, Deploys
    <3> QED
      BY <3>2, <3>3, <3>4 DEF Spoke
  <2> QED
    BY <2>2, <2>4, <2>5, <2>6, <2>7 DEF Next, vars, Later
<1>3. FileTold'
  <2>1. ASSUME used'.sameMs = 0, NEW d \in Domains,
               NEW t \in Targets, Tells(file'[d], t)
        PROVE  \E m \in done' : m.dom = d /\ m.crt = file'[d][t].pushed
    <3>1. CASE file'[d] = file[d]
      BY <1>2, <2>1, <3>1, FileWrites DEF FileTold
    <3>2. CASE file'[d] = marker[d]
      BY <1>2, <2>1, <3>2, FileWrites DEF IInv, Deployed, MarkerTold
    <3>3. CASE file'[d] = marker'[d]
      BY <1>1, <2>1, <3>3 DEF IInv, Deployed, MarkerTold
    <3> QED
      BY <3>1, <3>2, <3>3, FileWrites
  <2> QED
    BY <2>1 DEF FileTold
<1> QED
  BY <1>1, <1>3

LEMMA InvInit == Init => IInv /\ FileTold
<1> SUFFICES ASSUME Init PROVE IInv /\ FileTold
  OBVIOUS
<1>1. 0 \in Version /\ 1 \in Version
  BY BoundsAssumption DEF Version
<1>2. /\ live \in [Domains -> [crt : Version, key : Version]]
      /\ marker \in [Domains -> Entry \cup {NoEntry}] /\ file = marker
      /\ dep \in [Deploys -> Task] /\ held \in [Deploys -> SUBSET Domains]
      /\ tmp \in [Run -> [Part -> Content \cup {None}]] /\ helper \in [Run -> HelperRun]
      /\ host \in [Domains -> [Part -> Content \cup {None}]]
      /\ done = {} /\ excused = {} /\ lost = {} /\ late = {}
      /\ newest \in [Domains -> Targets]
  <2>1. \A ts \in Registered :
          [t \in Targets |-> IF t \in ts THEN NewTarget ELSE None] \in Entry
    BY Basics DEF Entry
  <2> QED
    BY <1>1, <2>1, Basics DEF Init
<1>3. UsedOK
  <2>1. \A kind \in Kinds : used[kind] = 0 /\ Bound[kind] \in Nat
    BY BoundsAssumption DEF Init, Free
  <2> QED
    BY <2>1 DEF UsedOK
<1>4. TypeOK
  BY <1>2, <1>3, Typed
<1>5. \A k \in Deploys : /\ ~Active(k) /\ dep[k].pc = "idle" /\ ~dep[k].installed
  BY DEF Init, Idle, Active
<1>6. \A n \in Run : ~Working(n)
  BY DEF Init, NoRun, Working
<1>7. \A d \in Domains, t \in Targets : ~Tells(marker[d], t)
  BY DEF Init, Tells, NewTarget
<1>8. /\ \A s \in Run : tmp[s] = NoFiles
      /\ \A d \in Domains : file[d] = marker[d]
  BY DEF Init
<1>9. TInv /\ NoSecretLeft /\ UnsavedHeld
  <2>1. \A k \in Deploys : held[k] = {}
    BY DEF Init
  <2> QED
    BY <1>4, <1>5, <1>6, <1>7, <1>8, <2>1 DEF TInv, WellFormed, NoSecretLeft, UnsavedHeld
<1>10. Deployed
  BY <1>5, <1>7 DEF Deployed, Apart, OwnFiles, OwnRun, OwnRunAt, MarkerTold
<1>11. OnHost
  BY <1>2, <1>5, <1>7 DEF OnHost, Alone, InPlace, AtRest
<1>12. FileTold
  BY <1>7, <1>8 DEF FileTold
<1> QED
  BY <1>9, <1>10, <1>11, <1>12 DEF IInv

LEMMA SpecInv == Spec => []IInv
BY InvInit, InvNext, PTL DEF Spec

-----------------------------------------------------------------------------
(* Theorems.                                                               *)

\* Every variable keeps its type, whatever is cut off, raised or restarted.
THEOREM TypeCorrect == Spec => []TypeOK
<1>1. IInv => TypeOK
  BY DEF IInv, TInv
<1> QED
  BY <1>1, SpecInv, PTL

\* No key stays in the host's /tmp when its deploy is over
\* (docs/agent-hosting-topology.md:89-90), unless the spoke was stopped before the
\* clean-up, the clean-up failed, or a write was carried out after it.
THEOREM SecretsAreRemoved == Spec => []NoSecretLeft
<1>1. IInv => NoSecretLeft
  BY DEF IInv
<1> QED
  BY <1>1, SpecInv, PTL

\* A success in the ledger was installed completely (le_spoke.py:1042-1047,
\* 1091-1096).
THEOREM SuccessWasInstalled == Spec => []MarkerTold
<1>1. IInv => MarkerTold
  BY DEF IInv, Deployed
<1> QED
  BY <1>1, SpecInv, PTL

\* Between deploys a success on the target that was stamped last, of however many
\* match the host, stands for what the host has (le_spoke.py:942-1010), when the
\* last deploy of the domain overlapped no other and its stamp was not lost:
\* SuccessMeansInstalled names what excuses a domain.
THEOREM SuccessIsOnHost == Spec => []SuccessMeansInstalled
<1>1. IInv => SuccessMeansInstalled
  <2> SUFFICES ASSUME IInv, NEW d \in Domains \ excused, used.sameMs = 0, Quiet(d),
                      Tells(marker[d], newest[d])
               PROVE  \E m \in done :
                        /\ m.dom = d /\ m.crt = marker[d][newest[d]].pushed
                        /\ \A p \in Part : host[d][p] = [dom |-> d, ver |-> m[p]]
    BY DEF SuccessMeansInstalled
  <2>1. AtRestAt(d)
    BY DEF Quiet, IInv, OnHost, AtRest
  <2> QED
    BY <2>1 DEF AtRestAt, Has, Copy
<1> QED
  BY <1>1, SpecInv, PTL

\* The one save of a connect task loses no success (le_spoke.py:1048-1052).
THEOREM SuccessIsSaved == Spec => []SuccessOnRecord
<1>1. IInv => SuccessOnRecord
  BY DEF IInv, UnsavedHeld, Saved, SuccessOnRecord, Idle
<1> QED
  BY <1>1, SpecInv, PTL
=============================================================================
