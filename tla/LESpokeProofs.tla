--------------------------- MODULE LESpokeProofs ---------------------------
(***************************************************************************)
(* Theorems about LESpoke for every set of domains, targets and handlers   *)
(* and every bound: its type invariant, and that it implements             *)
(* CertRegistry, hence keeps the registry's promise.                       *)
(***************************************************************************)
EXTENDS LESpoke, TLAPS

-----------------------------------------------------------------------------
(* The inductive invariant.                                                *)

\* A snapshot item that is the ledger's own object is still in the ledger.
AttachedInLedger == \A d \in Domains : snap[d] = Attached => certs[d] # None

\* A suspended task knows its domain; the renewal task still holds its entry.
TasksKnowDomain ==
  /\ loop.pc = "renew" => loop.cur \in Domains /\ snap[loop.cur] # None
  /\ \A h \in Handlers : task[h].op # "idle" => task[h].dom \in Domains

\* A task waits for certbot only while certbot runs on its behalf.
WaiterOwnsRun == \A k \in Tasks : res[k] = "run" => bot # None /\ bot.who = k

IInv ==
  /\ TypeOK
  /\ AttachedInLedger
  /\ TasksKnowDomain
  /\ WaiterOwnsRun

-----------------------------------------------------------------------------
(* The operators on entries.                                               *)

\* Every edit of an entry yields an entry.
LEMMA EntryEdits ==
  ASSUME NEW e \in Entry, NEW t \in Targets, NEW m \in Nat
  PROVE  /\ AddedTarget(e, t) \in Entry
         /\ RemovedTarget(e, t) \in Entry
         /\ Pushed(e, t, m) \in Entry
         /\ Pushed(AddedTarget(e, t), t, m) \in Entry
BY DEF Entry, AddedTarget, RemovedTarget, Pushed

LEMMA EntryOutcomes ==
  ASSUME NEW e \in Entry, NEW m \in Nat
  PROVE  /\ Refreshed(e, m) \in Entry
         /\ Renewed(e, m) \in Entry
         /\ RenewFailed(e) \in Entry
BY DEF Entry, Refreshed, Renewed, RenewFailed

\* An issue attempt yields an entry whether or not there was one.
LEMMA EntryIssues ==
  ASSUME NEW e \in Entry \cup {None}, NEW m \in Nat, NEW ts \in SUBSET Targets
  PROVE  /\ Refused(e) \in Entry
         /\ Reissued(e, m, ts) \in Entry
BY NamesAssumption DEF Entry, Refused, Reissued, NoTargets

\* The snapshot's object for d is an entry.
LEMMA HeldIsEntry ==
  ASSUME IInv, NEW d \in Domains, snap[d] # None
  PROVE  Held(d) \in Entry
BY NamesAssumption DEF IInv, TypeOK, AttachedInLedger, Held

\* Spending keeps the budget a record of naturals.
LEMMA SpendBudget ==
  ASSUME used \in Budget, NEW c \in Nat, NEW f \in Nat, Spend(c, f)
  PROVE  used' \in Budget
<1>1. /\ used.commands + c \in Nat
      /\ used.faults + f \in Nat
  BY DEF Budget
<1>2. used' = [[used EXCEPT !.commands = used.commands + c]
                    EXCEPT !.faults = used.faults + f]
  BY DEF Spend, Budget
<1> QED
  BY <1>1, <1>2 DEF Budget

LEMMA CostsAreNat ==
  /\ \A d, m : ReadCost(d, m) \in Nat
  /\ \A saved : FaultUnless(saved) \in Nat
BY DEF ReadCost, FaultUnless

-----------------------------------------------------------------------------
(* The parts the actions are built from.                                   *)

Table == [Domains -> Entry \cup {None}]

\* A commit leaves the tables and the operator's expectations well-typed.
LEMMA CommitType ==
  ASSUME IInv, NEW tab \in Table, NEW dels, NEW adds \in SUBSET Fact,
         NEW saved \in BOOLEAN, Commit(tab, dels, adds, saved)
  PROVE  /\ certs' = tab
         /\ file' \in Table
         /\ must' \subseteq Fact
         /\ may' \subseteq Fact
BY DEF IInv, TypeOK, Table, Commit, Save

\* Asking for a certbot run: the lock has one owner.
LEMMA LaunchRun ==
  ASSUME IInv, NEW who \in Tasks, NEW op \in {"issue", "renew", "revoke"},
         NEW d \in Domains, NEW flag \in BOOLEAN, Launch(who, op, d, flag)
  PROVE  /\ bot' \in Run \cup {None}
         /\ res' \in [Tasks -> {"none", "run", "ok", "fail"}]
         /\ WaiterOwnsRun'
<1>1. bot' \in Run \cup {None}
  BY DEF IInv, TypeOK, Launch, Run
<1>2. res' \in [Tasks -> {"none", "run", "ok", "fail"}]
  BY DEF IInv, TypeOK, Launch
<1>3. WaiterOwnsRun'
  <2>1. CASE bot = None
    BY <2>1, NamesAssumption DEF IInv, TypeOK, WaiterOwnsRun, Launch, Run
  <2>2. CASE bot # None
    BY <2>2 DEF IInv, TypeOK, WaiterOwnsRun, Launch
  <2> QED
    BY <2>1, <2>2
<1> QED
  BY <1>1, <1>2, <1>3

\* A task that no longer waits, while certbot's state is untouched.
LEMMA StopWaiting ==
  ASSUME IInv, NEW k \in Tasks, res' = [res EXCEPT ![k] = "none"], bot' = bot
  PROVE  /\ bot' \in Run \cup {None}
         /\ res' \in [Tasks -> {"none", "run", "ok", "fail"}]
         /\ WaiterOwnsRun'
BY DEF IInv, TypeOK, WaiterOwnsRun

\* A snapshot whose item for d is detached by an edit of d's entry.
LEMMA DetachType ==
  ASSUME IInv, NEW d \in Domains, Detach(d)
  PROVE  /\ snap' \in [Domains -> Entry \cup {None, Attached}]
         /\ \A x \in Domains : snap'[x] = Attached => snap[x] = Attached /\ x # d
         /\ \A x \in Domains : snap[x] # None => snap'[x] # None
BY NamesAssumption DEF IInv, TypeOK, AttachedInLedger, Detach

-----------------------------------------------------------------------------
(* Each step preserves the invariant.                                      *)

LEMMA InitInv == Init => IInv
<1> SUFFICES ASSUME Init PROVE IInv
  OBVIOUS
<1>1. InitialEntry \subseteq Entry
  <2> SUFFICES ASSUME NEW ts \in SUBSET Targets
               PROVE  [mat |-> 1, failed |-> FALSE, refused |-> FALSE, tg |-> ts,
                       pushed |-> NoTargets] \in Entry
    BY DEF InitialEntry
  <2> QED
    BY DEF Entry, NoTargets
<1>2. TypeOK
  BY <1>1, NamesAssumption
     DEF Init, TypeOK, LoopState, TaskState, Budget, Idle, NoSnapshot, Facts, Fact, Tasks
<1> QED
  BY <1>2, NamesAssumption DEF Init, IInv, AttachedInLedger, TasksKnowDomain,
     WaiterOwnsRun, NoSnapshot, Idle

LEMMA StartScanInv == IInv /\ StartScan => IInv'
BY NamesAssumption DEF IInv, TypeOK, AttachedInLedger, TasksKnowDomain, WaiterOwnsRun,
   StartScan, GoTo, LoopState, disk

LEMMA NotDueInv == ASSUME NEW d \in Domains PROVE IInv /\ NotDue(d) => IInv'
<1> SUFFICES ASSUME IInv, NotDue(d) PROVE IInv'
  OBVIOUS
<1>1. PICK m \in {live[d], 0} : Reconcile(d, m) /\ Spend(0, ReadCost(d, m)) /\ loop' = [loop EXCEPT !.changed = @ \/ Differs(d, m)]
  BY DEF NotDue
<1>2. Refreshed(Held(d), m) \in Entry
  BY <1>1, HeldIsEntry, EntryOutcomes DEF IInv, TypeOK, Reconcile
<1>3. certs' \in [Domains -> Entry \cup {None}] /\ \A x \in Domains : certs[x] # None => certs'[x] # None
  BY <1>1, <1>2, NamesAssumption DEF IInv, TypeOK, Reconcile, WriteHeld
<1>4. used' \in Budget
  BY <1>1, SpendBudget, CostsAreNat DEF IInv, TypeOK
<1>5. TypeOK'
  BY <1>1, <1>3, <1>4 DEF IInv, TypeOK, NotDue, LoopState, disk, Differs
<1> QED
  BY <1>1, <1>3, <1>5, NamesAssumption DEF IInv, TypeOK, NotDue, AttachedInLedger, TasksKnowDomain, WaiterOwnsRun, Reconcile, LoopState

LEMMA StartRenewalInv ==
  ASSUME NEW d \in Domains PROVE IInv /\ StartRenewal(d) => IInv'
<1> SUFFICES ASSUME IInv, StartRenewal(d) PROVE IInv'
  OBVIOUS
<1>1. PICK m \in {live[d], 0} :
        /\ Reconcile(d, m)
        /\ Spend(0, ReadCost(d, m))
        /\ loop' = [pc |-> "renew", cur |-> d,
                    changed |-> loop.changed \/ Differs(d, m)]
        /\ snap' = IF snap[d] = Attached THEN snap
                   ELSE [snap EXCEPT ![d] = Refreshed(@, m)]
  BY DEF StartRenewal
<1>2. Refreshed(Held(d), m) \in Entry
  BY <1>1, HeldIsEntry, EntryOutcomes DEF IInv, TypeOK, Reconcile
<1>3. /\ certs' \in [Domains -> Entry \cup {None}]
      /\ \A x \in Domains : certs[x] # None => certs'[x] # None
  BY <1>1, <1>2, NamesAssumption DEF IInv, TypeOK, Reconcile, WriteHeld
<1>4. used' \in Budget
  BY <1>1, SpendBudget, CostsAreNat DEF IInv, TypeOK
<1>5. /\ snap' \in [Domains -> Entry \cup {None, Attached}]
      /\ snap'[d] # None
      /\ \A x \in Domains : snap'[x] = Attached => snap[x] = Attached
  <2>1. CASE snap[d] = Attached
    BY <1>1, <2>1, NamesAssumption DEF IInv, TypeOK
  <2>2. CASE snap[d] # Attached
    BY <1>1, <1>2, <2>2, NamesAssumption DEF IInv, TypeOK, Held
  <2> QED
    BY <2>1, <2>2
<1>6. /\ bot' \in Run \cup {None}
      /\ res' \in [Tasks -> {"none", "run", "ok", "fail"}]
      /\ WaiterOwnsRun'
  BY LaunchRun DEF StartRenewal, Tasks
<1>7. TypeOK'
  BY <1>1, <1>3, <1>4, <1>5, <1>6
     DEF IInv, TypeOK, StartRenewal, LoopState, disk, Differs
<1> QED
  BY <1>1, <1>3, <1>5, <1>6, <1>7
     DEF IInv, StartRenewal, AttachedInLedger, TasksKnowDomain

LEMMA AbortScanInv ==
  ASSUME NEW d \in Domains PROVE IInv /\ AbortScan(d) => IInv'
<1> SUFFICES ASSUME IInv, AbortScan(d) PROVE IInv'
  OBVIOUS
<1>1. Refreshed(Held(d), live[d]) \in Entry
  BY HeldIsEntry, EntryOutcomes DEF IInv, TypeOK, AbortScan, Reconcile
<1>2. certs' \in [Domains -> Entry \cup {None}]
  BY <1>1 DEF IInv, TypeOK, AbortScan, Reconcile, WriteHeld
<1>3. used' \in Budget
  BY SpendBudget DEF IInv, TypeOK, AbortScan
<1> QED
  BY <1>2, <1>3, NamesAssumption
     DEF IInv, TypeOK, AttachedInLedger, TasksKnowDomain, WaiterOwnsRun,
         AbortScan, GoTo, NoSnapshot, LoopState, disk

\* What the renewal task does with an outcome it records.
LEMMA NotifyInv ==
  ASSUME IInv, NEW d \in Domains, NEW e \in Entry, Notify(d, e),
         snap[d] # None
  PROVE  /\ certs' \in [Domains -> Entry \cup {None}]
         /\ loop' \in LoopState
         /\ snap' \in [Domains -> Entry \cup {None, Attached}]
         /\ res' \in [Tasks -> {"none", "run", "ok", "fail"}]
         /\ AttachedInLedger'
         /\ loop'.pc = "notify"
         /\ \A k \in Tasks : res'[k] = "run" => res[k] = "run" /\ k # Loop
BY NamesAssumption
   DEF IInv, TypeOK, AttachedInLedger, Notify, WriteHeld, LoopState, Tasks

LEMMA SkipRemovedInv == IInv /\ SkipRemoved => IInv'
<1> SUFFICES ASSUME IInv, SkipRemoved PROVE IInv'
  OBVIOUS
<1>1. TypeOK'
  BY DEF IInv, TypeOK, SkipRemoved, LoopState, disk
<1>2. AttachedInLedger'
  BY NamesAssumption DEF IInv, TypeOK, AttachedInLedger, SkipRemoved
<1>3. TasksKnowDomain'
  BY DEF IInv, TypeOK, TasksKnowDomain, SkipRemoved, LoopState
<1>4. WaiterOwnsRun'
  BY StopWaiting DEF SkipRemoved, Tasks
<1> QED
  BY <1>1, <1>2, <1>3, <1>4 DEF IInv

LEMMA RecordRenewalInv == IInv /\ RecordRenewal => IInv'
<1> SUFFICES ASSUME IInv, RecordRenewal PROVE IInv'
  OBVIOUS
<1> DEFINE d == loop.cur
<1>1. d \in Domains /\ snap[d] # None
  BY DEF IInv, TasksKnowDomain, RecordRenewal, RenewalOutcome
<1>2. Held(d) \in Entry
  BY <1>1, HeldIsEntry
<1>3. PICK e \in Entry : Notify(d, e)
  BY <1>1, <1>2, EntryOutcomes DEF IInv, TypeOK, RecordRenewal
<1>4. used' \in Budget
  BY SpendBudget, CostsAreNat DEF IInv, TypeOK, RecordRenewal
<1> HIDE DEF d
<1> QED
  BY <1>1, <1>3, <1>4, NotifyInv
     DEF IInv, TypeOK, RecordRenewal, TasksKnowDomain, WaiterOwnsRun, disk

LEMMA RenewalTimeoutInv == IInv /\ RenewalTimeout => IInv'
<1> SUFFICES ASSUME IInv, RenewalTimeout PROVE IInv'
  OBVIOUS
<1> DEFINE d == loop.cur
<1>1. d \in Domains /\ snap[d] # None
  BY DEF IInv, TasksKnowDomain, RenewalTimeout
<1>2. PICK e \in Entry : Notify(d, e)
  BY <1>1, HeldIsEntry, EntryOutcomes DEF RenewalTimeout
<1>3. bot' \in Run /\ \A k \in Tasks : res[k] = "run" => k = Loop
  BY NamesAssumption DEF IInv, TypeOK, WaiterOwnsRun, RenewalTimeout, Run, Tasks
<1> HIDE DEF d
<1> QED
  BY <1>1, <1>2, <1>3, NotifyInv
     DEF IInv, TypeOK, RenewalTimeout, TasksKnowDomain, WaiterOwnsRun, disk

LEMMA NotifiedInv == IInv /\ Notified => IInv'
BY DEF IInv, TypeOK, AttachedInLedger, TasksKnowDomain, WaiterOwnsRun,
       Notified, LoopState, disk

LEMMA EndScanInv == IInv /\ EndScan => IInv'
<1> SUFFICES ASSUME IInv, EndScan PROVE IInv'
  OBVIOUS
<1>1. used' \in Budget
  BY SpendBudget, CostsAreNat DEF IInv, TypeOK, EndScan
<1> QED
  BY <1>1 DEF IInv, TypeOK, AttachedInLedger, TasksKnowDomain, WaiterOwnsRun,
              EndScan, GoTo, LoopState, disk

LEMMA WakeInv == IInv /\ Wake => IInv'
BY DEF IInv, TypeOK, AttachedInLedger, TasksKnowDomain, WaiterOwnsRun,
       Wake, GoTo, LoopState, disk

-----------------------------------------------------------------------------
(* The handlers.                                                           *)

LEMMA UpdateConfigInv == IInv /\ UpdateConfig => IInv'
<1> SUFFICES ASSUME IInv, UpdateConfig PROVE IInv'
  OBVIOUS
<1>1. used' \in Budget
  BY DEF IInv, TypeOK, UpdateConfig, Budget
<1>2. bot' \in Run \cup {None} /\ \A k \in Tasks : k # Loop /\ res[k] = "run"
                                       => bot' # None /\ bot'.who = k
  <2>1. CASE res[Loop] = "run"
    BY <2>1, NamesAssumption
       DEF IInv, TypeOK, WaiterOwnsRun, UpdateConfig, Run, Tasks
  <2>2. CASE res[Loop] # "run"
    BY <2>2 DEF IInv, TypeOK, WaiterOwnsRun, UpdateConfig
  <2> QED
    BY <2>1, <2>2
<1>3. TypeOK'
  BY <1>1, <1>2 DEF IInv, TypeOK, UpdateConfig, GoTo, NoSnapshot, LoopState, disk
<1> QED
  BY <1>2, <1>3, NamesAssumption
     DEF IInv, TypeOK, AttachedInLedger, TasksKnowDomain, WaiterOwnsRun,
         UpdateConfig, GoTo, NoSnapshot

\* A command without an await: it edits one entry of the ledger in place.
LEMMA EditInv ==
  ASSUME IInv, NEW d \in Domains, NEW e \in Entry, NEW dels,
         NEW adds \in SUBSET Fact, NEW saved \in BOOLEAN,
         Commit([certs EXCEPT ![d] = e], dels, adds, saved),
         used' \in Budget,
         held' \in [Handlers -> SUBSET Fact],
         UNCHANGED <<disk, loop, snap, task, res, bot>>
  PROVE  IInv'
<1>1. [certs EXCEPT ![d] = e] \in Table
  BY DEF IInv, TypeOK, Table
<1>2. /\ certs' = [certs EXCEPT ![d] = e]
      /\ file' \in Table /\ must' \subseteq Fact /\ may' \subseteq Fact
  BY <1>1, CommitType
<1>3. TypeOK'
  BY <1>1, <1>2 DEF IInv, TypeOK, Table, disk
<1> QED
  BY <1>2, <1>3, NamesAssumption
     DEF IInv, TypeOK, AttachedInLedger, TasksKnowDomain, WaiterOwnsRun, disk

LEMMA FactsTyped ==
  ASSUME NEW d \in Domains
  PROVE  /\ \A t \in Targets : {<<d, t>>} \in SUBSET Fact
         /\ {<<d, Managed>>} \in SUBSET Fact
         /\ \A ts \in SUBSET Targets :
              {<<d, Managed>>} \cup ({d} \X ts) \in SUBSET Fact
         /\ {} \in SUBSET Fact
BY DEF Fact

LEMMA AddTargetInv ==
  ASSUME NEW d \in Domains, NEW t \in Targets
  PROVE  IInv /\ AddTarget(d, t) => IInv'
<1> SUFFICES ASSUME IInv, AddTarget(d, t) PROVE IInv'
  OBVIOUS
<1>1. PICK saved \in BOOLEAN :
        /\ Spend(1, FaultUnless(saved))
        /\ Commit([certs EXCEPT ![d] = AddedTarget(@, t)], {}, {<<d, t>>}, saved)
  BY DEF AddTarget
<1>2. AddedTarget(certs[d], t) \in Entry
  BY EntryEdits DEF IInv, TypeOK, AddTarget
<1>3. used' \in Budget
  BY <1>1, SpendBudget, CostsAreNat DEF IInv, TypeOK
<1>4. held' \in [Handlers -> SUBSET Fact]
  BY DEF IInv, TypeOK, AddTarget
<1> QED
  BY <1>1, <1>2, <1>3, <1>4, EditInv, FactsTyped DEF AddTarget

LEMMA RemoveTargetInv ==
  ASSUME NEW d \in Domains, NEW t \in Targets
  PROVE  IInv /\ RemoveTarget(d, t) => IInv'
<1> SUFFICES ASSUME IInv, RemoveTarget(d, t) PROVE IInv'
  OBVIOUS
<1>1. PICK saved \in BOOLEAN :
        /\ Spend(1, FaultUnless(saved))
        /\ Commit([certs EXCEPT ![d] = RemovedTarget(@, t)], {<<d, t>>}, {}, saved)
  BY DEF RemoveTarget
<1>2. RemovedTarget(certs[d], t) \in Entry
  BY EntryEdits DEF IInv, TypeOK, RemoveTarget
<1>3. used' \in Budget
  BY <1>1, SpendBudget, CostsAreNat DEF IInv, TypeOK
<1>4. held' \in [Handlers -> SUBSET Fact]
  BY DEF IInv, TypeOK, RemoveTarget
<1> QED
  BY <1>1, <1>2, <1>3, <1>4, EditInv, FactsTyped DEF RemoveTarget

LEMMA MarkDistributedInv ==
  ASSUME NEW d \in Domains, NEW t \in Targets, NEW v \in 1..issued[d]
  PROVE  IInv /\ MarkDistributed(d, t, v) => IInv'
<1> SUFFICES ASSUME IInv, MarkDistributed(d, t, v) PROVE IInv'
  OBVIOUS
<1>1. PICK saved \in BOOLEAN :
        /\ Spend(1, FaultUnless(saved))
        /\ Commit([certs EXCEPT ![d] = Pushed(@, t, v)], {}, {}, saved)
  BY DEF MarkDistributed
<1>2. Pushed(certs[d], t, v) \in Entry
  BY EntryEdits DEF IInv, TypeOK, MarkDistributed
<1>3. used' \in Budget
  BY <1>1, SpendBudget, CostsAreNat DEF IInv, TypeOK
<1>4. held' \in [Handlers -> SUBSET Fact]
  BY DEF IInv, TypeOK, MarkDistributed
<1> QED
  BY <1>1, <1>2, <1>3, <1>4, EditInv, FactsTyped DEF MarkDistributed

LEMMA RefuseIssueInv ==
  ASSUME NEW d \in Domains PROVE IInv /\ RefuseIssue(d) => IInv'
<1> SUFFICES ASSUME IInv, RefuseIssue(d) PROVE IInv'
  OBVIOUS
<1>1. PICK saved \in BOOLEAN :
        /\ Spend(1, FaultUnless(saved))
        /\ Commit([certs EXCEPT ![d] = Refused(@)], {}, {<<d, Managed>>}, saved)
  BY DEF RefuseIssue, RecordIssue
<1>2. Refused(certs[d]) \in Entry
  BY EntryIssues DEF IInv, TypeOK
<1>3. used' \in Budget
  BY <1>1, SpendBudget, CostsAreNat DEF IInv, TypeOK
<1>4. held' \in [Handlers -> SUBSET Fact]
  BY DEF IInv, TypeOK, RefuseIssue
<1> QED
  BY <1>1, <1>2, <1>3, <1>4, EditInv, FactsTyped DEF RefuseIssue

\* A command that suspends at a certbot run.
LEMMA LaunchInv ==
  ASSUME IInv, NEW h \in Handlers, NEW d \in Domains,
         NEW op \in {"issue", "renew", "revoke"}, NEW flag \in BOOLEAN,
         Launch(h, op, d, flag),
         task' \in [Handlers -> TaskState],
         \A g \in Handlers : task'[g].op # "idle" => task'[g].dom \in Domains,
         used' \in Budget,
         UNCHANGED <<certs, file, disk, loop, snap, must, may, held>>
  PROVE  IInv'
<1>1. /\ bot' \in Run \cup {None}
      /\ res' \in [Tasks -> {"none", "run", "ok", "fail"}]
      /\ WaiterOwnsRun'
  BY LaunchRun DEF Tasks
<1>2. TypeOK'
  BY <1>1 DEF IInv, TypeOK, disk
<1> QED
  BY <1>1, <1>2 DEF IInv, AttachedInLedger, TasksKnowDomain

LEMMA SuspendType ==
  ASSUME IInv, NEW h \in Handlers, NEW d \in Domains,
         NEW op \in {"issue", "renew", "revoke", "deploy", "connect"},
         NEW pc \in {"certbot", "agent"}, NEW todo \in SUBSET Domains,
         NEW req \in SUBSET Targets, NEW flag \in BOOLEAN, NEW m \in Nat,
         Suspend(h, op, d, pc, todo, req, flag, m)
  PROVE  /\ task' \in [Handlers -> TaskState]
         /\ \A g \in Handlers : task'[g].op # "idle" => task'[g].dom \in Domains
<1>1. [op |-> op, dom |-> d, pc |-> pc, todo |-> todo, req |-> req,
       flag |-> flag, mat |-> m] \in TaskState
  BY DEF TaskState
<1> QED
  BY <1>1 DEF IInv, TypeOK, TasksKnowDomain, Suspend

LEMMA IssueCertInv ==
  ASSUME NEW h \in Handlers, NEW d \in Domains, NEW ts \in SUBSET Targets,
         NEW force \in BOOLEAN
  PROVE  IInv /\ IssueCert(h, d, ts, force) => IInv'
<1> SUFFICES ASSUME IInv, IssueCert(h, d, ts, force) PROVE IInv'
  OBVIOUS
<1>1. used' \in Budget
  BY SpendBudget DEF IInv, TypeOK, IssueCert
<1>2. /\ task' \in [Handlers -> TaskState]
      /\ \A g \in Handlers : task'[g].op # "idle" => task'[g].dom \in Domains
  BY SuspendType DEF IssueCert
<1> QED
  BY <1>1, <1>2, LaunchInv DEF IssueCert

LEMMA RenewCertInv ==
  ASSUME NEW h \in Handlers, NEW d \in Domains, NEW ds \in SUBSET Domains,
         NEW force \in BOOLEAN
  PROVE  IInv /\ RenewCert(h, d, ds, force) => IInv'
<1> SUFFICES ASSUME IInv, RenewCert(h, d, ds, force) PROVE IInv'
  OBVIOUS
<1>1. used' \in Budget
  BY SpendBudget DEF IInv, TypeOK, RenewCert
<1>2. /\ task' \in [Handlers -> TaskState]
      /\ \A g \in Handlers : task'[g].op # "idle" => task'[g].dom \in Domains
  <2>1. ds \ {d} \in SUBSET Domains
    OBVIOUS
  <2> QED
    BY <2>1, SuspendType DEF RenewCert
<1> QED
  BY <1>1, <1>2, LaunchInv DEF RenewCert

LEMMA RevokeCertInv ==
  ASSUME NEW h \in Handlers, NEW d \in Domains, NEW delete \in BOOLEAN
  PROVE  IInv /\ RevokeCert(h, d, delete) => IInv'
<1> SUFFICES ASSUME IInv, RevokeCert(h, d, delete) PROVE IInv'
  OBVIOUS
<1>1. used' \in Budget
  BY SpendBudget DEF IInv, TypeOK, RevokeCert
<1>2. /\ task' \in [Handlers -> TaskState]
      /\ \A g \in Handlers : task'[g].op # "idle" => task'[g].dom \in Domains
  BY SuspendType DEF RevokeCert
<1> QED
  BY <1>1, <1>2, LaunchInv DEF RevokeCert

LEMMA DeployToAgentInv ==
  ASSUME NEW h \in Handlers, NEW d \in Domains
  PROVE  IInv /\ DeployToAgent(h, d) => IInv'
<1> SUFFICES ASSUME IInv, DeployToAgent(h, d) PROVE IInv'
  OBVIOUS
<1>1. used' \in Budget
  BY SpendBudget DEF IInv, TypeOK, DeployToAgent
<1>2. /\ task' \in [Handlers -> TaskState]
      /\ \A g \in Handlers : task'[g].op # "idle" => task'[g].dom \in Domains
  <2>1. live[d] \in Nat
    BY DEF IInv, TypeOK
  <2> QED
    BY <2>1, SuspendType DEF DeployToAgent
<1> QED
  BY <1>1, <1>2 DEF IInv, TypeOK, AttachedInLedger, TasksKnowDomain,
                    WaiterOwnsRun, DeployToAgent, disk

\* A command that ends: its task is idle and waits for nothing.
LEMMA FinishType ==
  ASSUME IInv, NEW h \in Handlers, Finish(h), bot' = bot
  PROVE  /\ task' \in [Handlers -> TaskState]
         /\ \A g \in Handlers : task'[g].op # "idle" => task'[g].dom \in Domains
         /\ bot' \in Run \cup {None}
         /\ res' \in [Tasks -> {"none", "run", "ok", "fail"}]
         /\ WaiterOwnsRun'
<1>1. Idle \in TaskState /\ Idle.op = "idle"
  BY DEF Idle, TaskState
<1>2. /\ task' \in [Handlers -> TaskState]
      /\ \A g \in Handlers : task'[g].op # "idle" => task'[g].dom \in Domains
  BY <1>1 DEF IInv, TypeOK, TasksKnowDomain, Finish
<1> QED
  BY <1>2, StopWaiting DEF Finish, Tasks

\* A command that ends with an edit of its domain's entry (or without one), the
\* snapshot keeping the object it replaces.
LEMMA CloseInv ==
  ASSUME IInv, NEW h \in Handlers, NEW d \in Domains,
         Finish(h), used' \in Budget, held' \in [Handlers -> SUBSET Fact],
         file' \in Table, must' \subseteq Fact, may' \subseteq Fact,
         certs' \in Table,
         \A x \in Domains : x # d => certs'[x] = certs[x],
         snap' \in [Domains -> Entry \cup {None, Attached}],
         \A x \in Domains : snap'[x] = Attached =>
            snap[x] = Attached /\ (x = d => certs'[x] # None),
         \A x \in Domains : snap[x] # None => snap'[x] # None,
         UNCHANGED <<disk, loop, bot>>
  PROVE  IInv'
<1>1. /\ task' \in [Handlers -> TaskState]
      /\ \A g \in Handlers : task'[g].op # "idle" => task'[g].dom \in Domains
      /\ bot' \in Run \cup {None}
      /\ res' \in [Tasks -> {"none", "run", "ok", "fail"}]
      /\ WaiterOwnsRun'
  BY FinishType
<1>2. TypeOK'
  BY <1>1 DEF IInv, TypeOK, Table, disk
<1>3. AttachedInLedger'
  BY DEF IInv, AttachedInLedger
<1>4. TasksKnowDomain'
  BY <1>1 DEF IInv, TasksKnowDomain
<1> QED
  BY <1>1, <1>2, <1>3, <1>4 DEF IInv

LEMMA IssueDoneInv ==
  ASSUME NEW h \in Handlers PROVE IInv /\ IssueDone(h) => IInv'
<1> SUFFICES ASSUME IInv, IssueDone(h) PROVE IInv'
  OBVIOUS
<1> DEFINE d == task[h].dom
<1>1. d \in Domains /\ task[h].req \in SUBSET Targets
  BY DEF IInv, TypeOK, TasksKnowDomain, IssueDone, Awaits, TaskState
<1>2. CASE res[h] = "ok"
  <2>1. PICK m \in {live[d], 0}, saved \in BOOLEAN :
          /\ Spend(0, ReadCost(d, m) + FaultUnless(saved))
          /\ Commit([certs EXCEPT ![d] = Reissued(@, m, task[h].req)], {},
                    {<<d, Managed>>} \cup ({d} \X task[h].req), saved)
    BY <1>2 DEF IssueDone
  <2>2. Reissued(certs[d], m, task[h].req) \in Entry
    BY <1>1, <2>1, EntryIssues DEF IInv, TypeOK
  <2>3. [certs EXCEPT ![d] = Reissued(@, m, task[h].req)] \in Table
    BY <1>1, <2>2 DEF IInv, TypeOK, Table
  <2>4. used' \in Budget
    <3>1. ReadCost(d, m) + FaultUnless(saved) \in Nat
      BY CostsAreNat
    <3> QED
      BY <2>1, <3>1, SpendBudget DEF IInv, TypeOK
  <2>5. /\ certs' = [certs EXCEPT ![d] = Reissued(@, m, task[h].req)]
        /\ file' \in Table /\ must' \subseteq Fact /\ may' \subseteq Fact
    <3>1. {<<d, Managed>>} \cup ({d} \X task[h].req) \in SUBSET Fact
      BY <1>1, FactsTyped
    <3> QED
      BY <2>1, <2>3, <3>1, CommitType
  <2>6. Detach(d) /\ held' \in [Handlers -> SUBSET Fact] /\ Finish(h)
    BY <1>2 DEF IssueDone, Detach, IInv, TypeOK
  <2>7. /\ snap' \in [Domains -> Entry \cup {None, Attached}]
        /\ \A x \in Domains : snap'[x] = Attached => snap[x] = Attached /\ x # d
        /\ \A x \in Domains : snap[x] # None => snap'[x] # None
    BY <1>1, <2>6, DetachType
  <2> HIDE DEF d
  <2>8. \A x \in Domains : x # d => certs'[x] = certs[x]
    BY <2>5 DEF IInv, TypeOK
  <2>9. UNCHANGED <<disk, loop, bot>>
    BY DEF IssueDone
  <2> QED
    BY <1>1, <2>3, <2>4, <2>5, <2>6, <2>7, <2>8, <2>9, CloseInv
<1>3. CASE res[h] # "ok"
  <2>1. PICK saved \in BOOLEAN :
          /\ Spend(0, FaultUnless(saved))
          /\ Commit([certs EXCEPT ![d] = Refused(@)], {}, {<<d, Managed>>}, saved)
    BY <1>3 DEF IssueDone, RecordIssue
  <2>2. Refused(certs[d]) \in Entry
    BY <1>1, EntryIssues DEF IInv, TypeOK
  <2>3. [certs EXCEPT ![d] = Refused(@)] \in Table
    BY <1>1, <2>2 DEF IInv, TypeOK, Table
  <2>4. used' \in Budget
    BY <2>1, SpendBudget, CostsAreNat DEF IInv, TypeOK
  <2>5. /\ certs' = [certs EXCEPT ![d] = Refused(@)]
        /\ file' \in Table /\ must' \subseteq Fact /\ may' \subseteq Fact
    BY <1>1, <2>1, <2>3, CommitType, FactsTyped
  <2>6. UNCHANGED <<snap, held, disk, loop, bot>> /\ Finish(h)
    BY <1>3 DEF IssueDone
  <2> HIDE DEF d
  <2>7. certs'[d] # None /\ \A x \in Domains : x # d => certs'[x] = certs[x]
    BY <1>1, <2>2, <2>5, NamesAssumption DEF IInv, TypeOK
  <2> QED
    BY <1>1, <2>3, <2>4, <2>5, <2>6, <2>7, CloseInv DEF IInv, TypeOK
<1> QED
  BY <1>2, <1>3

LEMMA RevokeDoneInv ==
  ASSUME NEW h \in Handlers PROVE IInv /\ RevokeDone(h) => IInv'
<1> SUFFICES ASSUME IInv, RevokeDone(h) PROVE IInv'
  OBVIOUS
<1> DEFINE d == task[h].dom
<1>1. d \in Domains
  BY DEF IInv, TypeOK, TasksKnowDomain, RevokeDone, Awaits, TaskState
<1>2. CASE res[h] = "ok"
  <2>1. PICK saved \in BOOLEAN :
          /\ Spend(0, FaultUnless(saved))
          /\ Commit([certs EXCEPT ![d] = None], FactsOf(d), {}, saved)
    BY <1>2 DEF RevokeDone
  <2>2. [certs EXCEPT ![d] = None] \in Table
    BY DEF IInv, TypeOK, Table
  <2>3. used' \in Budget
    BY <2>1, SpendBudget, CostsAreNat DEF IInv, TypeOK
  <2>4. /\ certs' = [certs EXCEPT ![d] = None]
        /\ file' \in Table /\ must' \subseteq Fact /\ may' \subseteq Fact
    <3>1. {} \in SUBSET Fact
      OBVIOUS
    <3> QED
      BY <2>1, <2>2, <3>1, CommitType
  <2>5. Detach(d) /\ held' \in [Handlers -> SUBSET Fact] /\ Finish(h)
    BY <1>2 DEF RevokeDone, Detach, IInv, TypeOK
  <2>6. /\ snap' \in [Domains -> Entry \cup {None, Attached}]
        /\ \A x \in Domains : snap'[x] = Attached => snap[x] = Attached /\ x # d
        /\ \A x \in Domains : snap[x] # None => snap'[x] # None
    BY <1>1, <2>5, DetachType
  <2> HIDE DEF d
  <2>7. \A x \in Domains : x # d => certs'[x] = certs[x]
    BY <2>4 DEF IInv, TypeOK
  <2>8. UNCHANGED <<disk, loop, bot>>
    BY DEF RevokeDone
  <2> QED
    BY <1>1, <2>2, <2>3, <2>4, <2>5, <2>6, <2>7, <2>8, CloseInv
<1>3. CASE res[h] # "ok"
  <2>1. /\ UNCHANGED <<certs, file, snap, must, may, held, used>>
        /\ UNCHANGED <<disk, loop, bot>>
        /\ Finish(h)
    BY <1>3 DEF RevokeDone
  <2> QED
    BY <1>1, <2>1, CloseInv DEF IInv, TypeOK, Table, AttachedInLedger
<1> QED
  BY <1>2, <1>3

LEMMA RenewOutcomeInv ==
  ASSUME NEW h \in Handlers PROVE IInv /\ RenewOutcome(h) => IInv'
<1> SUFFICES ASSUME IInv, RenewOutcome(h) PROVE IInv'
  OBVIOUS
<1> DEFINE d == task[h].dom
<1>1. d \in Domains /\ certs[d] \in Entry
  BY DEF IInv, TypeOK, TasksKnowDomain, RenewOutcome, Awaits, TaskState
<1>2. \E e \in Entry : certs' = [certs EXCEPT ![d] = e]
  BY <1>1, EntryOutcomes DEF IInv, TypeOK, RenewOutcome
<1>3. used' \in Budget
  BY SpendBudget, CostsAreNat DEF IInv, TypeOK, RenewOutcome
<1>5. /\ task' \in [Handlers -> TaskState]
      /\ \A g \in Handlers : task'[g].op = task[g].op /\ task'[g].dom = task[g].dom
  BY DEF IInv, TypeOK, RenewOutcome, TaskState
<1>6. /\ bot' \in Run \cup {None}
      /\ res' \in [Tasks -> {"none", "run", "ok", "fail"}]
      /\ WaiterOwnsRun'
  BY StopWaiting DEF RenewOutcome, Tasks
<1> HIDE DEF d
<1>7. /\ certs' \in [Domains -> Entry \cup {None}]
      /\ \A x \in Domains : certs[x] # None => certs'[x] # None
  BY <1>1, <1>2, NamesAssumption DEF IInv, TypeOK
<1>8. TypeOK'
  BY <1>3, <1>5, <1>6, <1>7 DEF IInv, TypeOK, RenewOutcome, disk
<1> QED
  BY <1>5, <1>6, <1>7, <1>8
     DEF IInv, AttachedInLedger, TasksKnowDomain, RenewOutcome

LEMMA RenewNextInv ==
  ASSUME NEW h \in Handlers, NEW d \in Domains
  PROVE  IInv /\ RenewNext(h, d) => IInv'
<1> SUFFICES ASSUME IInv, RenewNext(h, d) PROVE IInv'
  OBVIOUS
<1>1. /\ task' \in [Handlers -> TaskState]
      /\ \A g \in Handlers : task'[g].op # "idle" => task'[g].dom \in Domains
  BY DEF IInv, TypeOK, TasksKnowDomain, RenewNext, TaskState
<1>2. task[h].flag \in BOOLEAN
  BY DEF IInv, TypeOK, TaskState
<1>3. used' \in Budget
  BY DEF IInv, TypeOK, RenewNext
<1> QED
  BY <1>1, <1>2, <1>3, LaunchInv DEF RenewNext

\* A command that ends and leaves the ledger in memory as it is.
LEMMA LeaveInv ==
  ASSUME IInv, NEW h \in Handlers, Finish(h), used' \in Budget, file' \in Table,
         UNCHANGED <<certs, disk, loop, snap, bot, must, may, held>>
  PROVE  IInv'
<1>1. /\ task' \in [Handlers -> TaskState]
      /\ \A g \in Handlers : task'[g].op # "idle" => task'[g].dom \in Domains
      /\ bot' \in Run \cup {None}
      /\ res' \in [Tasks -> {"none", "run", "ok", "fail"}]
      /\ WaiterOwnsRun'
  BY FinishType
<1>2. TypeOK'
  BY <1>1 DEF IInv, TypeOK, Table, disk
<1> QED
  BY <1>1, <1>2 DEF IInv, AttachedInLedger, TasksKnowDomain

LEMMA RenewDoneInv ==
  ASSUME NEW h \in Handlers PROVE IInv /\ RenewDone(h) => IInv'
<1> SUFFICES ASSUME IInv, RenewDone(h) PROVE IInv'
  OBVIOUS
<1>1. used' \in Budget
  BY SpendBudget, CostsAreNat DEF IInv, TypeOK, RenewDone
<1>2. file' \in Table
  BY DEF IInv, TypeOK, Table, RenewDone, Save
<1> QED
  BY <1>1, <1>2, LeaveInv DEF RenewDone

LEMMA RenewAbortsInv ==
  ASSUME NEW h \in Handlers PROVE IInv /\ RenewAborts(h) => IInv'
<1> SUFFICES ASSUME IInv, RenewAborts(h) PROVE IInv'
  OBVIOUS
<1>1. used' \in Budget
  BY SpendBudget DEF IInv, TypeOK, RenewAborts
<1> QED
  BY <1>1, LeaveInv DEF RenewAborts, IInv, TypeOK, Table

LEMMA DeployDoneInv ==
  ASSUME NEW h \in Handlers, NEW t \in Targets
  PROVE  IInv /\ DeployDone(h, t) => IInv'
<1> SUFFICES ASSUME IInv, DeployDone(h, t) PROVE IInv'
  OBVIOUS
<1> DEFINE d == task[h].dom
<1>1. d \in Domains /\ task[h].mat \in Nat
  BY DEF IInv, TypeOK, TasksKnowDomain, DeployDone, TaskState
<1>2. Finish(h) /\ UNCHANGED <<disk, loop, snap, bot, held>>
  BY DEF DeployDone
<1>3. CASE certs[d] = None
  BY <1>2, <1>3, LeaveInv DEF IInv, TypeOK, Table, DeployDone
<1>4. CASE certs[d] # None
  <2>1. PICK saved \in BOOLEAN :
          /\ Spend(0, FaultUnless(saved))
          /\ Commit([certs EXCEPT ![d] = Pushed(AddedTarget(@, t), t, task[h].mat)],
                    {}, {<<d, t>>}, saved)
    BY <1>4 DEF DeployDone
  <2>2. Pushed(AddedTarget(certs[d], t), t, task[h].mat) \in Entry
    BY <1>1, <1>4, EntryEdits DEF IInv, TypeOK
  <2>3. [certs EXCEPT ![d] = Pushed(AddedTarget(@, t), t, task[h].mat)] \in Table
    BY <1>1, <2>2 DEF IInv, TypeOK, Table
  <2>4. used' \in Budget
    BY <2>1, SpendBudget, CostsAreNat DEF IInv, TypeOK
  <2>5. /\ certs' = [certs EXCEPT ![d] = Pushed(AddedTarget(@, t), t, task[h].mat)]
        /\ file' \in Table /\ must' \subseteq Fact /\ may' \subseteq Fact
    <3>1. {<<d, t>>} \in SUBSET Fact
      BY <1>1, FactsTyped
    <3> QED
      BY <2>1, <2>3, <3>1, CommitType
  <2> HIDE DEF d
  <2>6. certs'[d] # None /\ \A x \in Domains : x # d => certs'[x] = certs[x]
    BY <1>1, <2>2, <2>5, NamesAssumption DEF IInv, TypeOK
  <2> QED
    BY <1>1, <1>2, <2>3, <2>4, <2>5, <2>6, CloseInv DEF IInv, TypeOK
<1> QED
  BY <1>3, <1>4

\* A connect task moves on: it takes up an entry and a target of its own.
LEMMA BeginPushType ==
  ASSUME IInv, NEW h \in Handlers, NEW d \in Domains, NEW rest \in SUBSET Domains,
         NEW match \in SUBSET Targets, NEW installed \in BOOLEAN,
         NEW objects \in SUBSET Fact,
         BeginPush(h, d, rest, match, installed, objects)
  PROVE  /\ task' \in [Handlers -> TaskState]
         /\ \A g \in Handlers : task'[g].op # "idle" => task'[g].dom \in Domains
         /\ held' \in [Handlers -> SUBSET Fact]
<1>1. live[d] \in Nat
  BY DEF IInv, TypeOK
<1>2. /\ task' \in [Handlers -> TaskState]
      /\ \A g \in Handlers : task'[g].op # "idle" => task'[g].dom \in Domains
  <2>1. Suspend(h, "connect", d, "agent", rest, match, installed, live[d])
    BY DEF BeginPush
  <2> QED
    BY <1>1, <2>1, SuspendType
<1>3. PICK mine \in SUBSET Fact : held' = [held EXCEPT ![h] = mine]
  <2>1. \A t \in match : <<d, t>> \in Fact
    BY DEF Fact
  <2>2. CASE <<d, Managed>> \in objects
    <3>1. PICK t \in match :
            held' = [held EXCEPT ![h] = (objects \cap (rest \X {Managed})) \cup {<<d, t>>}]
      BY <2>2 DEF BeginPush
    <3>2. (objects \cap (rest \X {Managed})) \cup {<<d, t>>} \in SUBSET Fact
      BY <2>1
    <3> QED
      BY <3>1, <3>2
  <2>3. CASE <<d, Managed>> \notin objects
    <3>1. held' = [held EXCEPT ![h] = objects \cap (rest \X {Managed})]
      BY <2>3 DEF BeginPush
    <3> QED
      BY <3>1
  <2> QED
    BY <2>2, <2>3
<1> QED
  BY <1>2, <1>3 DEF IInv, TypeOK

\* Stamping targets changes no entry but in its markers.
LEMMA StampedType ==
  ASSUME IInv, NEW h \in Handlers
  PROVE  /\ Stamped(h) \in [Domains -> Entry \cup {None}]
         /\ \A d \in Domains : Stamped(h)[d] = None <=> certs[d] = None
<1>1. task[h].mat \in Nat
  BY DEF IInv, TypeOK, TaskState
<1>2. ASSUME NEW d \in Domains, certs[d] # None
      PROVE  [certs[d] EXCEPT
                !.pushed = [t \in Targets |->
                   IF <<d, t>> \in held[h] THEN task[h].mat
                   ELSE certs[d].pushed[t]]] \in Entry
  <2>1. certs[d] \in Entry
    BY <1>2 DEF IInv, TypeOK
  <2>2. [t \in Targets |-> IF <<d, t>> \in held[h] THEN task[h].mat
                           ELSE certs[d].pushed[t]] \in [Targets -> Nat]
    BY <1>1, <2>1 DEF Entry
  <2> QED
    BY <2>1, <2>2 DEF Entry
<1> QED
  BY <1>2, NamesAssumption DEF Stamped

\* What a connect task does to the ledger and to itself keeps the invariant.
LEMMA PushInv ==
  ASSUME IInv, NEW h \in Handlers,
         task' \in [Handlers -> TaskState],
         \A g \in Handlers : task'[g].op # "idle" => task'[g].dom \in Domains,
         held' \in [Handlers -> SUBSET Fact],
         certs' \in [Domains -> Entry \cup {None}],
         \A d \in Domains : certs[d] # None => certs'[d] # None,
         file' \in [Domains -> Entry \cup {None}], used' \in Budget,
         res' \in [Tasks -> {"none", "run", "ok", "fail"}], WaiterOwnsRun',
         UNCHANGED <<disk, loop, snap, bot, must, may>>
  PROVE  IInv'
<1>1. TypeOK'
  BY DEF IInv, TypeOK, disk
<1> QED
  BY <1>1 DEF IInv, AttachedInLedger, TasksKnowDomain

LEMMA ConnectInv ==
  ASSUME NEW h \in Handlers, NEW d \in Domains
  PROVE  IInv /\ Connect(h, d) => IInv'
<1> SUFFICES ASSUME IInv, Connect(h, d) PROVE IInv'
  OBVIOUS
<1>1. PICK rest \in SUBSET (Registered(certs) \ {d}), match \in SUBSET AgentTargets :
        BeginPush(h, d, rest, match, FALSE, Registered(certs) \X {Managed})
  BY DEF Connect
<1>2. /\ rest \in SUBSET Domains /\ match \in SUBSET Targets
      /\ Registered(certs) \X {Managed} \in SUBSET Fact
  BY <1>1, NamesAssumption DEF Registered, Fact
<1>3. /\ task' \in [Handlers -> TaskState]
      /\ \A g \in Handlers : task'[g].op # "idle" => task'[g].dom \in Domains
      /\ held' \in [Handlers -> SUBSET Fact]
  BY <1>1, <1>2, BeginPushType
<1>4. used' \in Budget
  BY SpendBudget DEF IInv, TypeOK, Connect
<1> QED
  BY <1>3, <1>4, PushInv DEF IInv, TypeOK, WaiterOwnsRun, Connect

LEMMA PushNextInv ==
  ASSUME NEW h \in Handlers PROVE IInv /\ PushNext(h) => IInv'
<1> SUFFICES ASSUME IInv, PushNext(h) PROVE IInv'
  OBVIOUS
<1>1. PICK ok \in BOOLEAN, d \in task[h].todo :
        \E rest \in SUBSET (task[h].todo \ {d}) :
          BeginPush(h, d, rest, task[h].req, task[h].flag \/ ok, held[h])
  BY DEF PushNext
<1>2. PICK rest \in SUBSET (task[h].todo \ {d}) :
        BeginPush(h, d, rest, task[h].req, task[h].flag \/ ok, held[h])
  BY <1>1
<1>3. /\ task[h].todo \in SUBSET Domains /\ task[h].req \in SUBSET Targets
      /\ task[h].flag \in BOOLEAN /\ held[h] \in SUBSET Fact
  BY DEF IInv, TypeOK, TaskState
<1>4. d \in Domains /\ rest \in SUBSET Domains /\ (task[h].flag \/ ok) \in BOOLEAN
  BY <1>3
<1>5. /\ task' \in [Handlers -> TaskState]
      /\ \A g \in Handlers : task'[g].op # "idle" => task'[g].dom \in Domains
      /\ held' \in [Handlers -> SUBSET Fact]
  BY <1>2, <1>3, <1>4, BeginPushType
<1>6. /\ certs' \in [Domains -> Entry \cup {None}]
      /\ \A x \in Domains : certs[x] # None => certs'[x] # None
  BY StampedType DEF PushNext
<1> QED
  BY <1>5, <1>6, PushInv DEF IInv, TypeOK, WaiterOwnsRun, PushNext

LEMMA PushesDoneInv ==
  ASSUME NEW h \in Handlers PROVE IInv /\ PushesDone(h) => IInv'
<1> SUFFICES ASSUME IInv, PushesDone(h) PROVE IInv'
  OBVIOUS
<1>1. /\ task' \in [Handlers -> TaskState]
      /\ \A g \in Handlers : task'[g].op # "idle" => task'[g].dom \in Domains
      /\ res' \in [Tasks -> {"none", "run", "ok", "fail"}]
      /\ WaiterOwnsRun'
  BY FinishType DEF PushesDone
<1>2. /\ certs' \in [Domains -> Entry \cup {None}]
      /\ \A x \in Domains : certs[x] # None => certs'[x] # None
  BY StampedType DEF PushesDone
<1>3. file' \in [Domains -> Entry \cup {None}]
  BY <1>2 DEF PushesDone, IInv, TypeOK
<1>4. used' \in Budget
  BY SpendBudget, CostsAreNat DEF IInv, TypeOK, PushesDone
<1>5. held' \in [Handlers -> SUBSET Fact]
  BY DEF IInv, TypeOK, PushesDone
<1> QED
  BY <1>1, <1>2, <1>3, <1>4, <1>5, PushInv DEF PushesDone

-----------------------------------------------------------------------------
(* The environment.                                                        *)

\* What a run can leave on disk is a version.
LEMMA EffectType ==
  ASSUME IInv, bot # None, NEW v \in Effect(bot) PROVE v \in Nat
BY BoundsAssumption DEF IInv, TypeOK, Effect, NewVersion, Run

LEMMA WriteType ==
  ASSUME IInv, NEW d \in Domains, NEW v \in Nat, Write(d, v)
  PROVE  live' \in [Domains -> Nat] /\ issued' \in [Domains -> Nat]
BY DEF IInv, TypeOK, Write

\* A run that exits gives up the lock and its one waiter gets the outcome.
LEMMA ExitInv ==
  ASSUME IInv, bot # None, NEW outcome \in Finished, Exit(outcome),
         live' \in [Domains -> Nat], issued' \in [Domains -> Nat]
  PROVE  IInv'
<1>1. bot \in Run /\ bot' = None
  BY DEF IInv, TypeOK, Exit
<1>2. res' \in [Tasks -> {"none", "run", "ok", "fail"}]
  BY DEF IInv, TypeOK, Exit, Finished
<1>3. \A k \in Tasks : res'[k] # "run"
  <2> SUFFICES ASSUME NEW k \in Tasks, res'[k] = "run" PROVE FALSE
    OBVIOUS
  <2>1. CASE bot.who = None
    BY <2>1, NamesAssumption DEF IInv, WaiterOwnsRun, Exit
  <2>2. CASE bot.who # None
    BY <2>2 DEF IInv, TypeOK, WaiterOwnsRun, Exit, Finished
  <2> QED
    BY <2>1, <2>2
<1>4. TypeOK'
  BY <1>1, <1>2 DEF IInv, TypeOK, Exit
<1> QED
  BY <1>3, <1>4 DEF IInv, AttachedInLedger, TasksKnowDomain, WaiterOwnsRun, Exit

LEMMA CertbotInv == IInv /\ Certbot => IInv'
<1> SUFFICES ASSUME IInv, Certbot PROVE IInv'
  OBVIOUS
<1>1. bot # None /\ bot \in Run
  BY DEF IInv, TypeOK, Certbot, CertbotSucceeds, CertbotFails
<1>2. bot.dom \in Domains /\ live[bot.dom] \in Nat
  BY <1>1 DEF IInv, TypeOK, Run
<1>3. PICK v \in Nat : Write(bot.dom, v)
  BY <1>1, <1>2, EffectType DEF Certbot, CertbotSucceeds, CertbotFails
<1>4. live' \in [Domains -> Nat] /\ issued' \in [Domains -> Nat]
  BY <1>2, <1>3, WriteType
<1>5. PICK outcome \in Finished : Exit(outcome)
  BY DEF Certbot, CertbotSucceeds, CertbotFails, Finished
<1> QED
  BY <1>1, <1>4, <1>5, ExitInv

LEMMA EnvironmentInv == IInv /\ Environment => IInv'
<1> SUFFICES ASSUME IInv, NEW d \in Domains, RenewedOutOfBand(d) \/ Age(d)
             PROVE  IInv'
  BY DEF Environment
<1>1. CASE RenewedOutOfBand(d)
  <2>1. PICK v \in Nat : Write(d, v)
    BY <1>1, BoundsAssumption DEF IInv, TypeOK, RenewedOutOfBand, NewVersion
  <2>2. live' \in [Domains -> Nat] /\ issued' \in [Domains -> Nat]
    BY <2>1, WriteType
  <2>3. used' \in Budget
    BY <1>1 DEF IInv, TypeOK, RenewedOutOfBand, Budget
  <2> QED
    BY <1>1, <2>2, <2>3 DEF IInv, TypeOK, AttachedInLedger, TasksKnowDomain,
                            WaiterOwnsRun, RenewedOutOfBand
<1>2. CASE Age(d)
  BY <1>2 DEF IInv, TypeOK, AttachedInLedger, TasksKnowDomain, WaiterOwnsRun, Age
<1> QED
  BY <1>1, <1>2

LEMMA CrashInv == IInv /\ Crash => IInv'
<1> SUFFICES ASSUME IInv, Crash PROVE IInv'
  OBVIOUS
<1>1. used' \in Budget
  BY DEF IInv, TypeOK, Crash, Budget
<1>2. Idle \in TaskState /\ Idle.op = "idle"
  BY DEF Idle, TaskState
<1> QED
  BY <1>1, <1>2, NamesAssumption
     DEF IInv, TypeOK, AttachedInLedger, TasksKnowDomain, WaiterOwnsRun,
         Crash, GoTo, NoSnapshot, LoopState, disk

-----------------------------------------------------------------------------

LEMMA NextInv == IInv /\ [Next]_vars => IInv'
<1> SUFFICES ASSUME IInv, [Next]_vars PROVE IInv'
  OBVIOUS
<1>1. CASE LoopStep
  BY <1>1, StartScanInv, NotDueInv, StartRenewalInv, AbortScanInv, SkipRemovedInv,
     RecordRenewalInv, RenewalTimeoutInv, NotifiedInv, EndScanInv, WakeInv
     DEF LoopStep
<1>2. ASSUME NEW h \in Handlers, Resume(h) PROVE IInv'
  BY <1>2, IssueDoneInv, RevokeDoneInv, RenewOutcomeInv, RenewDoneInv,
     RenewAbortsInv, RenewNextInv, DeployDoneInv, PushNextInv, PushesDoneInv,
     NamesAssumption DEF Resume
<1>3. CASE Command
  <2>1. ASSUME NEW h \in Handlers, Request(h) PROVE IInv'
    BY <2>1, IssueCertInv, RenewCertInv, RevokeCertInv, DeployToAgentInv,
       ConnectInv
       DEF Request, SetClientAuth
  <2> QED
    BY <1>3, <2>1, UpdateConfigInv, AddTargetInv, RemoveTargetInv,
       MarkDistributedInv, RefuseIssueInv DEF Command
<1>4. CASE Certbot
  BY <1>4, CertbotInv
<1>5. CASE Environment
  BY <1>5, EnvironmentInv
<1>6. CASE Crash
  BY <1>6, CrashInv
<1>7. CASE UNCHANGED vars
  BY <1>7 DEF IInv, TypeOK, AttachedInLedger, TasksKnowDomain, WaiterOwnsRun,
              vars, disk
<1> QED
  BY <1>1, <1>2, <1>3, <1>4, <1>5, <1>6, <1>7 DEF Next

\* Every reachable state of the spoke is well-typed, whatever handlers suspend
\* over, whatever is cancelled and whatever fails; on the way, a task that waits
\* for certbot is the only one certbot runs for, and the renewal task's live
\* references are entries of the ledger (le_spoke.py, ledger.py).
THEOREM TypeCorrect == Spec => []TypeOK
<1>1. Init => IInv
  BY InitInv
<1>2. IInv /\ [Next]_vars => IInv'
  BY NextInv
<1>3. IInv => TypeOK
  BY DEF IInv
<1> QED
  BY <1>1, <1>2, <1>3, PTL DEF Spec
=============================================================================
