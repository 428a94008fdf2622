------------------------- MODULE LESpokeRefinement -------------------------
(***************************************************************************)
(* LESpoke implements CertRegistry, for every set of domains, targets and  *)
(* handlers and every bound; what the registry promises, the spoke keeps.  *)
(***************************************************************************)
EXTENDS LESpokeProofs

\* A step the registry does not see.
Stutter == UNCHANGED <<Facts(certs), Facts(file), must, may>>

-----------------------------------------------------------------------------
(* What an edit of one entry does to the facts a table states.             *)

\* An edit that keeps the targets keeps the facts.
LEMMA FactsKept ==
  ASSUME NEW tab \in Table, NEW d \in Domains, NEW e \in Entry,
         tab[d] # None, e.tg = tab[d].tg
  PROVE  Facts([tab EXCEPT ![d] = e]) = Facts(tab)
BY NamesAssumption DEF Facts, Fact, Table, Entry

\* Registering a domain with more targets adds those facts.
LEMMA FactsRegistered ==
  ASSUME NEW tab \in Table, NEW d \in Domains, NEW e \in Entry,
         NEW ts \in SUBSET Targets,
         e.tg = (IF tab[d] = None THEN {} ELSE tab[d].tg) \cup ts
  PROVE  Facts([tab EXCEPT ![d] = e])
           = (Facts(tab) \ {}) \cup ({<<d, Managed>>} \cup ({d} \X ts))
BY NamesAssumption DEF Facts, Fact, Table, Entry

LEMMA FactsAdded ==
  ASSUME NEW tab \in Table, NEW d \in Domains, NEW e \in Entry, NEW t \in Targets,
         tab[d] # None, e.tg = tab[d].tg \cup {t}
  PROVE  Facts([tab EXCEPT ![d] = e]) = (Facts(tab) \ {}) \cup {<<d, t>>}
BY NamesAssumption DEF Facts, Fact, Table, Entry

LEMMA FactsRemoved ==
  ASSUME NEW tab \in Table, NEW d \in Domains, NEW e \in Entry, NEW t \in Targets,
         tab[d] # None, e.tg = tab[d].tg \ {t}
  PROVE  Facts([tab EXCEPT ![d] = e]) = (Facts(tab) \ {<<d, t>>}) \cup {}
BY NamesAssumption DEF Facts, Fact, Table, Entry

LEMMA FactsDropped ==
  ASSUME NEW tab \in Table, NEW d \in Domains
  PROVE  Facts([tab EXCEPT ![d] = None]) = (Facts(tab) \ FactsOf(d)) \cup {}
BY NamesAssumption DEF Facts, Fact, FactsOf, Table, Entry

\* A handler that commits such an edit does a command of the registry.
LEMMA CommitIsCommand ==
  ASSUME NEW tab, NEW dels, NEW adds, NEW saved \in BOOLEAN,
         Commit(tab, dels, adds, saved),
         Facts(tab) = (Facts(certs) \ dels) \cup adds
  PROVE  Registry!Command(dels, adds)
<1>1. CASE saved
  BY <1>1 DEF Commit, Save, Registry!Command, Registry!Acknowledged
<1>2. CASE ~saved
  BY <1>2 DEF Commit, Save, Registry!Command, Registry!Unsaved
<1> QED
  BY <1>1, <1>2

\* What the edits do to an entry's targets.
LEMMA EditTargets ==
  ASSUME NEW e \in Entry, NEW t \in Targets, NEW m \in Nat
  PROVE  /\ AddedTarget(e, t).tg = e.tg \cup {t}
         /\ RemovedTarget(e, t).tg = e.tg \ {t}
         /\ Pushed(e, t, m).tg = e.tg
         /\ Pushed(AddedTarget(e, t), t, m).tg = e.tg \cup {t}
BY DEF Entry, AddedTarget, RemovedTarget, Pushed

LEMMA RefusedTargets ==
  ASSUME NEW e \in Entry \cup {None}
  PROVE  Refused(e).tg = IF e = None THEN {} ELSE e.tg
BY NamesAssumption DEF Entry, Refused

\* The commits of the handlers, as commands of the registry.
LEMMA CommitRegisters ==
  ASSUME IInv, NEW d \in Domains, NEW e \in Entry, NEW ts \in SUBSET Targets,
         NEW saved \in BOOLEAN,
         e.tg = (IF certs[d] = None THEN {} ELSE certs[d].tg) \cup ts,
         Commit([certs EXCEPT ![d] = e], {},
                {<<d, Managed>>} \cup ({d} \X ts), saved)
  PROVE  Registry!Next
<1>1. certs \in Table
  BY DEF IInv, TypeOK, Table
<1>2. Registry!Register(d, ts)
  BY <1>1, FactsRegistered, CommitIsCommand DEF Registry!Register
<1> QED
  BY <1>2 DEF Registry!Next

LEMMA CommitAdds ==
  ASSUME IInv, NEW d \in Domains, NEW e \in Entry, NEW t \in Targets,
         NEW saved \in BOOLEAN, certs[d] # None, e.tg = certs[d].tg \cup {t},
         Commit([certs EXCEPT ![d] = e], {}, {<<d, t>>}, saved)
  PROVE  Registry!Next
<1>1. certs \in Table
  BY DEF IInv, TypeOK, Table
<1>2. <<d, Managed>> \in Facts(certs)
  BY DEF Facts, Fact
<1>3. Registry!AddTarget(d, t)
  BY <1>1, <1>2, FactsAdded, CommitIsCommand DEF Registry!AddTarget
<1> QED
  BY <1>3 DEF Registry!Next

LEMMA CommitRemoves ==
  ASSUME IInv, NEW d \in Domains, NEW e \in Entry, NEW t \in Targets,
         NEW saved \in BOOLEAN, certs[d] # None, t \in certs[d].tg,
         e.tg = certs[d].tg \ {t},
         Commit([certs EXCEPT ![d] = e], {<<d, t>>}, {}, saved)
  PROVE  Registry!Next
<1>1. certs \in Table
  BY DEF IInv, TypeOK, Table
<1>2. <<d, t>> \in Facts(certs)
  BY DEF Facts, Fact
<1>3. Registry!RemoveTarget(d, t)
  BY <1>1, <1>2, FactsRemoved, CommitIsCommand DEF Registry!RemoveTarget
<1> QED
  BY <1>3 DEF Registry!Next

LEMMA CommitDrops ==
  ASSUME IInv, NEW d \in Domains, NEW saved \in BOOLEAN,
         Commit([certs EXCEPT ![d] = None], FactsOf(d), {}, saved)
  PROVE  Registry!Next
<1>1. certs \in Table
  BY DEF IInv, TypeOK, Table
<1>2. Registry!Drop(d)
  BY <1>1, FactsDropped, CommitIsCommand DEF Registry!Drop, Registry!FactsOf, FactsOf
<1> QED
  BY <1>2 DEF Registry!Next

\* An edit that keeps the targets is a flush of the registry, or nothing.
LEMMA CommitKeeps ==
  ASSUME IInv, NEW d \in Domains, NEW e \in Entry, NEW saved \in BOOLEAN,
         certs[d] # None, e.tg = certs[d].tg,
         Commit([certs EXCEPT ![d] = e], {}, {}, saved)
  PROVE  Stutter \/ Registry!Next
<1>1. certs \in Table
  BY DEF IInv, TypeOK, Table
<1>2. Facts(certs') = Facts(certs)
  BY <1>1, FactsKept DEF Commit
<1>3. UNCHANGED <<must, may>>
  BY DEF Commit
<1>4. CASE saved
  BY <1>2, <1>3, <1>4 DEF Commit, Save, Registry!Flush, Registry!Next
<1>5. CASE ~saved
  BY <1>2, <1>3, <1>5 DEF Commit, Save, Stutter
<1> QED
  BY <1>4, <1>5

LEMMA RecordIssueMaps ==
  ASSUME IInv, NEW d \in Domains, NEW saved \in BOOLEAN, RecordIssue(d, saved)
  PROVE  Registry!Next
<1>1. /\ Refused(certs[d]) \in Entry
      /\ Refused(certs[d]).tg
           = (IF certs[d] = None THEN {} ELSE certs[d].tg) \cup {}
  BY EntryIssues, RefusedTargets DEF IInv, TypeOK
<1>2. {<<d, Managed>>} = {<<d, Managed>>} \cup ({d} \X {})
  OBVIOUS
<1>3. Commit([certs EXCEPT ![d] = Refused(certs[d])], {},
             {<<d, Managed>>} \cup ({d} \X {}), saved)
  BY <1>2 DEF RecordIssue
<1> QED
  BY <1>1, <1>3, CommitRegisters

\* The renewal task's write through its snapshot edits no fact.
LEMMA WriteHeldKeeps ==
  ASSUME IInv, NEW d \in Domains, NEW e \in Entry, snap[d] # None,
         e.tg = Held(d).tg, WriteHeld(d, e)
  PROVE  Facts(certs') = Facts(certs)
<1>1. CASE snap[d] = Attached
  BY <1>1, FactsKept DEF IInv, TypeOK, AttachedInLedger, Held, WriteHeld, Table
<1>2. CASE snap[d] # Attached
  BY <1>2 DEF WriteHeld
<1> QED
  BY <1>1, <1>2

LEMMA OutcomeTargets ==
  ASSUME NEW e \in Entry, NEW m \in Nat
  PROVE  /\ Refreshed(e, m).tg = e.tg
         /\ Renewed(e, m).tg = e.tg
         /\ RenewFailed(e).tg = e.tg
BY DEF Entry, Refreshed, Renewed, RenewFailed

-----------------------------------------------------------------------------
(* Each step is a step of the registry or leaves it alone.                 *)

LEMMA LoopStepMaps ==
  ASSUME IInv, LoopStep PROVE Stutter \/ Registry!Flush
<1>1. CASE StartScan \/ SkipRemoved \/ Notified \/ Wake
  BY <1>1 DEF StartScan, SkipRemoved, Notified, Wake, Stutter
<1>2. ASSUME NEW d \in Domains, NotDue(d) \/ StartRenewal(d) \/ AbortScan(d)
      PROVE  Stutter
  <2>1. PICK m \in {live[d], 0} : Reconcile(d, m)
    BY <1>2 DEF NotDue, StartRenewal, AbortScan
  <2>2. snap[d] # None /\ Held(d) \in Entry /\ m \in Nat
    BY <2>1, HeldIsEntry DEF Reconcile, IInv, TypeOK
  <2>3. Facts(certs') = Facts(certs)
    BY <2>1, <2>2, EntryOutcomes, OutcomeTargets, WriteHeldKeeps DEF Reconcile
  <2>4. UNCHANGED <<file, must, may>>
    BY <1>2 DEF NotDue, StartRenewal, AbortScan
  <2> QED
    BY <2>3, <2>4 DEF Stutter
<1>3. CASE RecordRenewal \/ RenewalTimeout
  <2> DEFINE d == loop.cur
  <2>1. d \in Domains /\ snap[d] # None /\ live[d] \in Nat
    BY <1>3 DEF IInv, TypeOK, TasksKnowDomain, RecordRenewal, RenewalTimeout, RenewalOutcome
  <2>2. Held(d) \in Entry
    BY <2>1, HeldIsEntry
  <2>3. PICK e \in Entry : e.tg = Held(d).tg /\ Notify(d, e)
    BY <1>3, <2>1, <2>2, EntryOutcomes, OutcomeTargets DEF RecordRenewal, RenewalTimeout
  <2>4. UNCHANGED <<file, must, may>>
    BY <1>3 DEF RecordRenewal, RenewalTimeout
  <2> HIDE DEF d
  <2>5. Facts(certs') = Facts(certs)
    BY <2>1, <2>3, WriteHeldKeeps DEF Notify
  <2> QED
    BY <2>4, <2>5 DEF Stutter
<1>4. CASE EndScan
  BY <1>4 DEF EndScan, Stutter, Registry!Flush
<1> QED
  BY <1>1, <1>2, <1>3, <1>4 DEF LoopStep

LEMMA IssueDoneMaps ==
  ASSUME IInv, NEW h \in Handlers, IssueDone(h) PROVE Registry!Next
<1>1. PICK d \in Domains, ts \in SUBSET Targets :
        d = task[h].dom /\ ts = task[h].req
  BY DEF IInv, TypeOK, TasksKnowDomain, IssueDone, Awaits, TaskState
<1>2. CASE res[h] = "ok"
  <2>1. PICK m \in {live[d], 0}, saved \in BOOLEAN :
          Commit([certs EXCEPT ![d] = Reissued(certs[d], m, ts)], {},
                 {<<d, Managed>>} \cup ({d} \X ts), saved)
    BY <1>1, <1>2 DEF IssueDone
  <2>2. /\ Reissued(certs[d], m, ts) \in Entry
        /\ Reissued(certs[d], m, ts).tg
             = (IF certs[d] = None THEN {} ELSE certs[d].tg) \cup ts
    BY EntryIssues DEF IInv, TypeOK, Reissued
  <2> QED
    BY <2>1, <2>2, CommitRegisters
<1>3. CASE res[h] # "ok"
  <2>1. PICK saved \in BOOLEAN : RecordIssue(d, saved)
    BY <1>1, <1>3 DEF IssueDone
  <2> QED
    BY <2>1, RecordIssueMaps
<1> QED
  BY <1>2, <1>3

LEMMA RevokeDoneMaps ==
  ASSUME IInv, NEW h \in Handlers, RevokeDone(h)
  PROVE  Stutter \/ Registry!Next
<1>1. PICK d \in Domains : d = task[h].dom
  BY DEF IInv, TypeOK, TasksKnowDomain, RevokeDone, Awaits, TaskState
<1>2. CASE res[h] = "ok"
  <2>1. PICK saved \in BOOLEAN :
          Commit([certs EXCEPT ![d] = None], FactsOf(d), {}, saved)
    BY <1>1, <1>2 DEF RevokeDone
  <2> QED
    BY <2>1, CommitDrops
<1>3. CASE res[h] # "ok"
  BY <1>3 DEF RevokeDone, Stutter
<1> QED
  BY <1>2, <1>3

LEMMA DeployDoneMaps ==
  ASSUME IInv, NEW h \in Handlers, NEW t \in Targets, DeployDone(h, t)
  PROVE  Stutter \/ Registry!Next
<1>1. PICK d \in Domains, m \in Nat : d = task[h].dom /\ m = task[h].mat
  BY DEF IInv, TypeOK, TasksKnowDomain, DeployDone, TaskState
<1>2. CASE certs[d] = None
  BY <1>1, <1>2 DEF DeployDone, Stutter
<1>3. CASE certs[d] # None
  <2>1. PICK saved \in BOOLEAN :
          Commit([certs EXCEPT ![d] = Pushed(AddedTarget(certs[d], t), t, m)],
                 {}, {<<d, t>>}, saved)
    BY <1>1, <1>3 DEF DeployDone
  <2>2. certs[d] \in Entry
    BY <1>3 DEF IInv, TypeOK
  <2>3. /\ Pushed(AddedTarget(certs[d], t), t, m) \in Entry
        /\ Pushed(AddedTarget(certs[d], t), t, m).tg = certs[d].tg \cup {t}
    BY <2>2, EntryEdits, EditTargets
  <2> QED
    BY <1>3, <2>1, <2>3, CommitAdds
<1> QED
  BY <1>2, <1>3

LEMMA RenewOutcomeMaps ==
  ASSUME IInv, NEW h \in Handlers, RenewOutcome(h) PROVE Stutter
<1>1. PICK d \in Domains : d = task[h].dom
  BY DEF IInv, TypeOK, TasksKnowDomain, RenewOutcome, Awaits, TaskState
<1>2. certs[d] # None /\ certs[d] \in Entry /\ live[d] \in Nat /\ certs \in Table
  BY <1>1 DEF RenewOutcome, IInv, TypeOK, Table
<1>3. PICK e \in Entry : e.tg = certs[d].tg /\ certs' = [certs EXCEPT ![d] = e]
  BY <1>1, <1>2, EntryOutcomes, OutcomeTargets DEF RenewOutcome
<1>4. Facts(certs') = Facts(certs)
  BY <1>2, <1>3, FactsKept
<1> QED
  BY <1>4 DEF RenewOutcome, Stutter

\* Stamping targets edits no fact.
LEMMA StampedFacts ==
  ASSUME IInv, NEW h \in Handlers PROVE Facts(Stamped(h)) = Facts(certs)
<1>1. \A d \in Domains : Stamped(h)[d] = None <=> certs[d] = None
  BY StampedType
<1>2. ASSUME NEW d \in Domains, certs[d] # None
      PROVE  Stamped(h)[d].tg = certs[d].tg
  BY <1>2 DEF Stamped, IInv, TypeOK, Entry
<1> QED
  BY <1>1, <1>2 DEF Facts, Fact

LEMMA PushesDoneMaps ==
  ASSUME IInv, NEW h \in Handlers, PushesDone(h)
  PROVE  Stutter \/ Registry!Flush
<1>1. certs' = Stamped(h) /\ UNCHANGED <<must, may>>
  BY DEF PushesDone
<1>2. file' = file \/ file' = Stamped(h)
  BY DEF PushesDone
<1> QED
  BY <1>1, <1>2, StampedFacts DEF Stutter, Registry!Flush

LEMMA ResumeMaps ==
  ASSUME IInv, NEW h \in Handlers, Resume(h)
  PROVE  Stutter \/ Registry!Next
<1>1. CASE RenewDone(h)
  BY <1>1 DEF RenewDone, Save, Stutter, Registry!Flush, Registry!Next
<1>2. CASE RenewAborts(h)
  BY <1>2 DEF RenewAborts, Stutter
<1>3. ASSUME NEW d \in Domains, RenewNext(h, d) PROVE Stutter
  BY <1>3 DEF RenewNext, Stutter
<1>4. CASE PushNext(h)
  BY <1>4, StampedFacts DEF PushNext, Stutter
<1>5. CASE PushesDone(h)
  BY <1>5, PushesDoneMaps DEF Registry!Next
<1>6. ASSUME NEW t \in AgentTargets, DeployDone(h, t)
      PROVE  Stutter \/ Registry!Next
  BY <1>6, NamesAssumption, DeployDoneMaps
<1> QED
  BY <1>1, <1>2, <1>3, <1>4, <1>5, <1>6, IssueDoneMaps, RevokeDoneMaps,
     RenewOutcomeMaps DEF Resume

LEMMA CommandMaps ==
  ASSUME IInv, Command PROVE Stutter \/ Registry!Next
<1>1. CASE UpdateConfig
  BY <1>1 DEF UpdateConfig, Stutter
<1>2. ASSUME NEW d \in Domains, RefuseIssue(d) PROVE Registry!Next
  BY <1>2, RecordIssueMaps DEF RefuseIssue
<1>3. ASSUME NEW d \in Domains, NEW t \in Targets, AddTarget(d, t)
      PROVE  Registry!Next
  <2>1. PICK saved \in BOOLEAN :
          Commit([certs EXCEPT ![d] = AddedTarget(certs[d], t)], {}, {<<d, t>>},
                 saved)
    BY <1>3 DEF AddTarget
  <2>2. /\ certs[d] # None
        /\ AddedTarget(certs[d], t) \in Entry
        /\ AddedTarget(certs[d], t).tg = certs[d].tg \cup {t}
    BY <1>3, EntryEdits, EditTargets DEF IInv, TypeOK, AddTarget
  <2> QED
    BY <2>1, <2>2, CommitAdds
<1>4. ASSUME NEW d \in Domains, NEW t \in Targets, RemoveTarget(d, t)
      PROVE  Registry!Next
  <2>1. PICK saved \in BOOLEAN :
          Commit([certs EXCEPT ![d] = RemovedTarget(certs[d], t)], {<<d, t>>}, {},
                 saved)
    BY <1>4 DEF RemoveTarget
  <2>2. /\ certs[d] # None /\ t \in certs[d].tg
        /\ RemovedTarget(certs[d], t) \in Entry
        /\ RemovedTarget(certs[d], t).tg = certs[d].tg \ {t}
    BY <1>4, EntryEdits, EditTargets DEF IInv, TypeOK, RemoveTarget
  <2> QED
    BY <2>1, <2>2, CommitRemoves
<1>5. ASSUME NEW d \in Domains, NEW t \in Targets, NEW v \in 1..issued[d],
             MarkDistributed(d, t, v)
      PROVE  Stutter \/ Registry!Next
  <2>1. PICK saved \in BOOLEAN :
          Commit([certs EXCEPT ![d] = Pushed(certs[d], t, v)], {}, {}, saved)
    BY <1>5 DEF MarkDistributed
  <2>2. certs[d] # None /\ certs[d] \in Entry /\ v \in Nat
    BY <1>5 DEF IInv, TypeOK, MarkDistributed
  <2>3. /\ Pushed(certs[d], t, v) \in Entry
        /\ Pushed(certs[d], t, v).tg = certs[d].tg
    BY <2>2, EntryEdits, EditTargets
  <2> QED
    BY <2>1, <2>2, <2>3, CommitKeeps
<1>6. ASSUME NEW h \in Handlers, Request(h) PROVE Stutter
  BY <1>6 DEF Request, SetClientAuth, IssueCert, RenewCert, RevokeCert,
              DeployToAgent, Connect, Stutter
<1> QED
  BY <1>1, <1>2, <1>3, <1>4, <1>5, <1>6 DEF Command

LEMMA StepMaps ==
  ASSUME IInv, [Next]_vars PROVE [Registry!Next]_Registry!vars
<1>1. CASE Certbot \/ Environment
  BY <1>1 DEF Certbot, CertbotSucceeds, CertbotFails, Exit, Environment,
              RenewedOutOfBand, Age, Stutter, Registry!vars
<1>2. CASE Crash
  BY <1>2 DEF Crash, Registry!Crash, Registry!Next
<1>3. CASE UNCHANGED vars
  BY <1>3 DEF vars, Registry!vars
<1>4. Stutter => UNCHANGED Registry!vars
  BY DEF Stutter, Registry!vars
<1>5. Registry!Flush => Registry!Next
  BY DEF Registry!Next
<1> QED
  BY <1>1, <1>2, <1>3, <1>4, <1>5, LoopStepMaps, ResumeMaps, CommandMaps DEF Next

-----------------------------------------------------------------------------

\* The spoke implements the registry: the renewal task, certbot, suspended
\* handlers, cancellation and restarts never edit the managed domains and their
\* targets; only the command that was asked to does
\* (le_spoke.py:183-188, 727-778; ledger.py:69-140).
THEOREM Implements == Spec => RegistrySpec
<1>1. Init => Registry!Init
  BY DEF Init, Registry!Init, Registry!Fact, Facts, Fact
<1>2. IInv /\ [Next]_vars => [Registry!Next]_Registry!vars
  BY StepMaps
<1>3. Init => IInv
  BY InitInv
<1>4. IInv /\ [Next]_vars => IInv'
  BY NextInv
<1> QED
  BY <1>1, <1>2, <1>3, <1>4, PTL DEF Spec, RegistrySpec, Registry!Spec

\* The registry keeps its promise.
LEMMA RegistryPromise == Registry!Spec => []Registry!Promise
<1>1. Registry!Init => Registry!Promise
  BY DEF Registry!Init, Registry!Promise
<1>2. Registry!Promise /\ [Registry!Next]_Registry!vars => Registry!Promise'
  <2> SUFFICES ASSUME Registry!Promise, [Registry!Next]_Registry!vars
               PROVE  Registry!Promise'
    OBVIOUS
  <2>1. ASSUME NEW dels, NEW adds, Registry!Command(dels, adds)
        PROVE  Registry!Promise'
    BY <2>1 DEF Registry!Promise, Registry!Command, Registry!Acknowledged,
                Registry!Unsaved
  <2>2. CASE Registry!Flush \/ Registry!Crash
    BY <2>2 DEF Registry!Promise, Registry!Flush, Registry!Crash
  <2>3. CASE UNCHANGED Registry!vars
    BY <2>3 DEF Registry!Promise, Registry!vars
  <2> QED
    BY <2>1, <2>2, <2>3 DEF Registry!Next, Registry!Register, Registry!AddTarget,
       Registry!RemoveTarget, Registry!Drop
<1> QED
  BY <1>1, <1>2, PTL DEF Registry!Spec

\* What the operator was told about managed certificates and targets is in the
\* ledger and in its file, and nothing else is, in every interleaving, with saves
\* that fail and restarts at any moment (le_spoke.py:183-188; ledger.py:69-77).
THEOREM PromiseHolds == Spec => []PromiseKept
<1>1. Registry!Promise => PromiseKept
  BY DEF Registry!Promise, PromiseKept
<1> QED
  BY <1>1, Implements, RegistryPromise, PTL DEF RegistrySpec
=============================================================================
